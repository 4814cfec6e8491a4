----------------------- MODULE MarpaPrecompute_proofs ------------------------
(***************************************************************************)
(* What marpa_g_precompute gives, whatever grammar an application built.   *)
(*                                                                         *)
(* The census is exact: rhs_closure and Warshall's algorithm reach the least *)
(* sets that are closed under the rules within as many rounds as there are *)
(* symbols.                                                                *)
(*                                                                         *)
(* The internal grammar is in order: the rules that the CHAF form and the  *)
(* rewrite of sequences make are true to the rules they are made from, have *)
(* symbols that are not nulled, and derive.  The argument follows the pieces *)
(* of a rule from the last one to the first.                               *)
(***************************************************************************)
EXTENDS GrammarReference, FiniteSetTheorems, WellFoundedInduction, TLAPS

-----------------------------------------------------------------------------
(* Recursion over a bounded range *)

\* A set that has 0 and, with a number below N, the next one, has all up to N.
LEMMA UpTo ==
    ASSUME NEW N \in Nat, NEW S, 0 \in S,
           \A n \in 0 .. N : n \in S /\ n < N => n + 1 \in S
    PROVE  \A n \in 0 .. N : n \in S
<1> SUFFICES ASSUME NEW n \in 0 .. N, n \notin S
             PROVE  FALSE
  OBVIOUS
<1> DEFINE R == {ss \in Nat \X Nat : ss[1] < ss[2]}
           Missing == {m \in 0 .. N : m \notin S}
<1>1. IsWellFoundedOn(R, Nat)
  BY NatLessThanWellFounded DEF OpToRel
<1>2. Missing \subseteq Nat /\ Missing # {}
  OBVIOUS
<1> HIDE DEF R
<1>3. PICK m \in Missing : \A k \in Missing : ~ (<<k, m>> \in R)
  BY <1>1, <1>2, WFMin
<1>4. m # 0 /\ m - 1 \in 0 .. N /\ m - 1 < N /\ (m - 1) + 1 = m
  BY <1>3
<1>5. m - 1 \in S
  <2>1. <<m - 1, m>> \in R
    BY <1>4 DEF R
  <2> QED
    BY <1>3, <1>4, <2>1
<1> QED
  BY <1>3, <1>4, <1>5

\* f has this first value, and each step gives its next one.
Iterates(f, N, base, step) == f[0] = base /\ \A n \in 1 .. N : f[n] = step[n][f[n - 1]]

\* There is such a function.
LEMMA PrimitiveRecursion ==
    ASSUME NEW N \in Nat, NEW X, NEW base \in X, NEW step \in [1 .. N -> [X -> X]]
    PROVE  \E f \in [0 .. N -> X] : Iterates(f, N, base, step)
<1> DEFINE Defines(f, m) == f[0] = base /\ \A n \in 1 .. m : f[n] = step[n][f[n - 1]]
           S == {m \in 0 .. N : \E f \in [0 .. m -> X] : Defines(f, m)}
<1>1. 0 \in S
  <2>1. [n \in 0 .. 0 |-> base] \in [0 .. 0 -> X] /\ Defines([n \in 0 .. 0 |-> base], 0)
    OBVIOUS
  <2>2. 0 \in 0 .. N
    OBVIOUS
  <2> HIDE DEF Defines
  <2> QED
    BY <2>1, <2>2
<1>2. ASSUME NEW m \in 0 .. N, m \in S, m < N
      PROVE  m + 1 \in S
  <2>1. PICK f \in [0 .. m -> X] : Defines(f, m)
    BY <1>2
  <2> DEFINE h == [n \in 0 .. m + 1 |-> IF n = m + 1 THEN step[m + 1][f[m]] ELSE f[n]]
  <2>2. step[m + 1][f[m]] \in X
    <3>1. m + 1 \in 1 .. N /\ m \in 0 .. m
      BY <1>2
    <3> QED
      BY <3>1
  <2>3. h \in [0 .. m + 1 -> X] /\ h[0] = base
    BY <2>1, <2>2
  <2>4. ASSUME NEW n \in 1 .. m + 1
        PROVE  h[n] = step[n][h[n - 1]]
    <3>1. CASE n = m + 1
      BY <3>1
    <3>2. CASE n # m + 1
      BY <3>2, <2>1
    <3> QED
      BY <3>1, <3>2
  <2> HIDE DEF h
  <2>5. Defines(h, m + 1) /\ m + 1 \in 0 .. N
    BY <1>2, <2>3, <2>4
  <2> HIDE DEF Defines
  <2> QED
    BY <2>3, <2>5
<1> HIDE DEF S
<1>3. \A m \in 0 .. N : m \in S
  BY <1>1, <1>2, UpTo
<1> QED
  BY <1>3 DEF S, Iterates

-----------------------------------------------------------------------------
(* The grammar that an application has built *)

Rules ==
    [lhs : Nat, rhs : Seq(Nat), sequence : BOOLEAN, min : Int, separator : Int, proper : BOOLEAN,
     rank : Int, null_ranks_high : BOOLEAN]

\* A sequence has one item, and another rule no separator.
WellMade(rule) == IF rule.sequence THEN Len(rule.rhs) = 1 ELSE rule.separator = NoXSY

\* Its rules are over symbols that exist, and sequences have an item.
GrammarOK(g) ==
    /\ g \in [symbols : Nat, rules : Seq(Rules), start : Int, locked : SUBSET Nat,
              terminals : SUBSET Nat]
    /\ \A r \in XRLs_of(g) :
          /\ g.rules[r].lhs \in XSYs_of(g) /\ RHSOf(g.rules[r]) \subseteq XSYs_of(g)
          /\ SeparatorOf(g.rules[r]) \subseteq XSYs_of(g)
          /\ g.rules[r].sequence => g.rules[r].rhs # <<>>
          /\ WellMade(g.rules[r])
    /\ g.start \in XSYs_of(g) \cup {NoXSY}

-----------------------------------------------------------------------------
(* rhs_closure *)

\* What a set of symbols makes grow in one round, and a set that does not grow.
Grown(g, S) ==
    {g.rules[r].lhs : r \in {q \in XRLs_of(g) :
        g.rules[q].rhs # <<>> /\ RequiredOf(g.rules[q]) \subseteq S}}
RhsClosed(g, S) == Grown(g, S) \subseteq S

\* What grows is symbols of the grammar.
LEMMA GrowthInside ==
    ASSUME NEW g, GrammarOK(g), NEW S
    PROVE  Grown(g, S) \subseteq XSYs_of(g)
  BY DEF GrammarOK, Grown

\* A larger set grows to no less.
LEMMA GrowthMonotone ==
    ASSUME NEW g, NEW S, NEW T, S \subseteq T
    PROVE  Grown(g, S) \subseteq Grown(g, T)
  BY DEF Grown

\* The rounds of rhs_closure follow its definition.
LEMMA RhsRows ==
    ASSUME NEW g, GrammarOK(g), NEW S, S \subseteq XSYs_of(g)
    PROVE  \E closed :
              /\ closed[0] = S
              /\ \A n \in 1 .. g.symbols : closed[n] = closed[n - 1] \cup Grown(g, closed[n - 1])
              /\ rhs_closure(g, S) = closed[g.symbols]
<1> DEFINE X == SUBSET XSYs_of(g)
           step == [n \in 1 .. g.symbols |-> [T \in X |-> T \cup Grown(g, T)]]
           closed[n \in 0 .. g.symbols] ==
             IF n = 0 THEN S
             ELSE LET prior == closed[n - 1]
                  IN  prior \cup {g.rules[r].lhs : r \in {q \in XRLs_of(g) :
                           g.rules[q].rhs # <<>> /\ RequiredOf(g.rules[q]) \subseteq prior}}
<1>1. g.symbols \in Nat
  BY DEF GrammarOK
<1>2. step \in [1 .. g.symbols -> [X -> X]]
  BY GrowthInside
<1>3. PICK f \in [0 .. g.symbols -> X] : Iterates(f, g.symbols, S, step)
  <2>1. S \in X
    OBVIOUS
  <2> HIDE DEF step, X
  <2> QED
    BY <1>1, <1>2, <2>1, PrimitiveRecursion
<1>4. \A n \in 1 .. g.symbols : f[n] = f[n - 1] \cup Grown(g, f[n - 1])
  <2> SUFFICES ASSUME NEW n \in 1 .. g.symbols PROVE f[n] = f[n - 1] \cup Grown(g, f[n - 1])
    OBVIOUS
  <2>1. f[n - 1] \in X
    BY <1>1, <1>3
  <2>2. f[n] = step[n][f[n - 1]]
    BY <1>3 DEF Iterates
  <2> QED
    BY <2>1, <2>2
<1>5. f = [n \in 0 .. g.symbols |->
              IF n = 0 THEN S
              ELSE LET prior == f[n - 1]
                   IN  prior \cup {g.rules[r].lhs : r \in {q \in XRLs_of(g) :
                            g.rules[q].rhs # <<>> /\ RequiredOf(g.rules[q]) \subseteq prior}}]
  <2> HIDE DEF step, X
  <2>1. f = [n \in 0 .. g.symbols |->
                IF n = 0 THEN S ELSE f[n - 1] \cup Grown(g, f[n - 1])]
    BY <1>1, <1>3, <1>4 DEF Iterates
  <2> QED
    BY <2>1, Zenon DEF Grown
<1>6. closed = [n \in 0 .. g.symbols |->
                  IF n = 0 THEN S
                  ELSE LET prior == closed[n - 1]
                       IN  prior \cup {g.rules[r].lhs : r \in {q \in XRLs_of(g) :
                                g.rules[q].rhs # <<>> /\ RequiredOf(g.rules[q]) \subseteq prior}}]
  BY <1>5, Zenon
<1>7. rhs_closure(g, S) = closed[g.symbols]
  BY Zenon DEF rhs_closure
<1>8. closed = [n \in 0 .. g.symbols |->
                  IF n = 0 THEN S ELSE closed[n - 1] \cup Grown(g, closed[n - 1])]
  BY <1>6, Zenon DEF Grown
<1> HIDE DEF closed, step, X
<1>9. PICK N \in Nat : N = g.symbols
  BY <1>1
<1>10. closed = [n \in 0 .. N |-> IF n = 0 THEN S ELSE closed[n - 1] \cup Grown(g, closed[n - 1])]
  BY <1>8, <1>9, Zenon
<1>11. closed[0] = S
  BY <1>10
<1>12. ASSUME NEW n \in 1 .. N
       PROVE  closed[n] = closed[n - 1] \cup Grown(g, closed[n - 1])
  <2>1. n \in 0 .. N /\ n # 0
    OBVIOUS
  <2> QED
    BY <1>10, <2>1, Zenon
<1> QED
  BY <1>7, <1>9, <1>11, <1>12

\* Each round adds a symbol, or there is nothing to add: after as many rounds as
\* there are symbols the set is closed.  It is the least such set.
LEMMA RhsClosureIsLeast ==
    ASSUME NEW g, GrammarOK(g), NEW S, S \subseteq XSYs_of(g)
    PROVE  /\ S \subseteq rhs_closure(g, S) /\ rhs_closure(g, S) \subseteq XSYs_of(g)
           /\ RhsClosed(g, rhs_closure(g, S))
           /\ \A T : S \subseteq T /\ RhsClosed(g, T) => rhs_closure(g, S) \subseteq T
<1>1. PICK N \in Nat : N = g.symbols
  BY DEF GrammarOK
<1>2. PICK closed :
         /\ closed[0] = S
         /\ \A n \in 1 .. N : closed[n] = closed[n - 1] \cup Grown(g, closed[n - 1])
         /\ rhs_closure(g, S) = closed[N]
  <2>1. \E closed :
           /\ closed[0] = S
           /\ \A n \in 1 .. g.symbols : closed[n] = closed[n - 1] \cup Grown(g, closed[n - 1])
           /\ rhs_closure(g, S) = closed[g.symbols]
    BY RhsRows
  <2> QED
    BY <1>1, <2>1, Zenon
<1>3. \A n \in 0 .. N : n < N => closed[n + 1] = closed[n] \cup Grown(g, closed[n])
  <2> SUFFICES ASSUME NEW n \in 0 .. N, n < N PROVE closed[n + 1] = closed[n] \cup Grown(g, closed[n])
    OBVIOUS
  <2>1. n + 1 \in 1 .. N /\ (n + 1) - 1 = n
    OBVIOUS
  <2> QED
    BY <1>2, <2>1
<1>4. IsFiniteSet(XSYs_of(g)) /\ Cardinality(XSYs_of(g)) = N
  <2>1. IsFiniteSet(0 .. N - 1) /\ Cardinality(0 .. N - 1) = IF 0 > N - 1 THEN 0 ELSE (N - 1) - 0 + 1
    BY FS_Interval
  <2> QED
    BY <1>1, <2>1 DEF XSYs_of
<1> DEFINE Row(n) ==
             /\ S \subseteq closed[n] /\ closed[n] \subseteq XSYs_of(g)
             /\ RhsClosed(g, closed[n]) \/ Cardinality(closed[n]) >= n
             /\ \A T : S \subseteq T /\ RhsClosed(g, T) => closed[n] \subseteq T
           Rows == {n \in 0 .. N : Row(n)}
<1>5. 0 \in Rows
  <2>1. IsFiniteSet(S) /\ Cardinality(S) \in Nat
    BY <1>4, FS_Subset, FS_CardinalityType
  <2> QED
    BY <1>2, <2>1
<1>6. ASSUME NEW n \in 0 .. N, n \in Rows, n < N
      PROVE  n + 1 \in Rows
  <2>1. PICK C, D : C = closed[n] /\ D = closed[n + 1]
    OBVIOUS
  <2>2. D = C \cup Grown(g, C)
    BY <1>3, <1>6, <2>1
  <2>3. /\ S \subseteq C /\ C \subseteq XSYs_of(g) /\ (RhsClosed(g, C) \/ Cardinality(C) >= n)
        /\ \A T : S \subseteq T /\ RhsClosed(g, T) => C \subseteq T
    BY <1>6, <2>1
  <2>4. S \subseteq D /\ C \subseteq D /\ D \subseteq XSYs_of(g)
    BY <2>2, <2>3, GrowthInside
  <2>5. RhsClosed(g, D) \/ Cardinality(D) >= n + 1
    <3>1. CASE C = D
      BY <2>2, <3>1 DEF RhsClosed
    <3>2. CASE C # D
      <4>1. ~ RhsClosed(g, C)
        BY <2>2, <3>2 DEF RhsClosed
      <4>2. IsFiniteSet(D) /\ Cardinality(D) \in Nat /\ IsFiniteSet(C) /\ Cardinality(C) \in Nat
        BY <1>4, <2>3, <2>4, FS_Subset, FS_CardinalityType
      <4>3. Cardinality(C) <= Cardinality(D) /\ Cardinality(C) # Cardinality(D)
        BY <2>4, <3>2, <4>2, FS_Subset
      <4> QED
        BY <2>3, <4>1, <4>2, <4>3
    <3> QED
      BY <3>1, <3>2
  <2>6. ASSUME NEW T, S \subseteq T, RhsClosed(g, T) PROVE D \subseteq T
    <3>1. C \subseteq T
      BY <2>3, <2>6
    <3>2. Grown(g, C) \subseteq Grown(g, T)
      BY <3>1, GrowthMonotone
    <3> QED
      BY <2>2, <2>6, <3>1, <3>2 DEF RhsClosed
  <2>7. n + 1 \in 0 .. N
    BY <1>6
  <2> QED
    BY <2>1, <2>4, <2>5, <2>6, <2>7
<1> HIDE DEF Rows
<1>7. N \in Rows
  BY <1>5, <1>6, UpTo
<1>8. Row(N)
  BY <1>7 DEF Rows
<1>9. RhsClosed(g, closed[N])
  <2>1. CASE Cardinality(closed[N]) >= N
    <3>1. closed[N] \in SUBSET XSYs_of(g)
      BY <1>8
    <3>2. Cardinality(closed[N]) <= N /\ Cardinality(closed[N]) \in Nat
      BY <1>4, <3>1, FS_Subset, FS_CardinalityType
    <3>3. closed[N] = XSYs_of(g)
      BY <1>4, <2>1, <3>1, <3>2, FS_Subset
    <3> QED
      BY <3>3, GrowthInside DEF RhsClosed
  <2> QED
    BY <1>8, <2>1
<1> QED
  BY <1>2, <1>8, <1>9

-----------------------------------------------------------------------------
(* closure_of: Warshall's algorithm *)

\* The pairs of a relation over 0 .. n - 1, and those that k joins.
JoinedBy(S, n, k) ==
    S \cup {e \in (0 .. n - 1) \X (0 .. n - 1) : <<e[1], k>> \in S /\ <<k, e[2]>> \in S}
IsTransitiveTo(R, n) ==
    \A a, b, c \in 0 .. n - 1 : <<a, b>> \in R /\ <<b, c>> \in R => <<a, c>> \in R

\* The rows of the algorithm follow its definition.
LEMMA ClosureRows ==
    ASSUME NEW n \in Nat, NEW R, R \subseteq (0 .. n - 1) \X (0 .. n - 1)
    PROVE  \E closed :
              /\ closed[0] = R
              /\ \A k \in 1 .. n : closed[k] = JoinedBy(closed[k - 1], n, k - 1)
              /\ closure_of(R, n) = closed[n]
<1> DEFINE X == SUBSET ((0 .. n - 1) \X (0 .. n - 1))
           step == [k \in 1 .. n |-> [S \in X |-> JoinedBy(S, n, k - 1)]]
           closed[k \in 0 .. n] ==
             IF k = 0 THEN R
             ELSE LET prior == closed[k - 1]
                  IN  prior \cup {e \in (0 .. n - 1) \X (0 .. n - 1) :
                                    <<e[1], k - 1>> \in prior /\ <<k - 1, e[2]>> \in prior}
<1>1. step \in [1 .. n -> [X -> X]]
  BY DEF JoinedBy
<1>2. PICK f \in [0 .. n -> X] : Iterates(f, n, R, step)
  <2>1. R \in X
    OBVIOUS
  <2> HIDE DEF step, X
  <2> QED
    BY <1>1, <2>1, PrimitiveRecursion
<1>3. \A k \in 1 .. n : f[k] = JoinedBy(f[k - 1], n, k - 1)
  <2> SUFFICES ASSUME NEW k \in 1 .. n PROVE f[k] = JoinedBy(f[k - 1], n, k - 1)
    OBVIOUS
  <2>1. f[k - 1] \in X
    BY <1>2
  <2>2. f[k] = step[k][f[k - 1]]
    BY <1>2 DEF Iterates
  <2> QED
    BY <2>1, <2>2
<1>4. f = [k \in 0 .. n |-> IF k = 0 THEN R ELSE JoinedBy(f[k - 1], n, k - 1)]
  <2> HIDE DEF step, X
  <2> QED
    BY <1>2, <1>3 DEF Iterates
<1>5. closed = [k \in 0 .. n |-> IF k = 0 THEN R ELSE JoinedBy(closed[k - 1], n, k - 1)]
  <2> DEFINE Solves(h) ==
               h = [k \in 0 .. n |->
                     IF k = 0 THEN R
                     ELSE LET prior == h[k - 1]
                          IN  prior \cup {e \in (0 .. n - 1) \X (0 .. n - 1) :
                                            <<e[1], k - 1>> \in prior /\ <<k - 1, e[2]>> \in prior}]
  <2>1. Solves(f)
    BY <1>4, Zenon DEF JoinedBy
  <2>2. closed = CHOOSE h : Solves(h)
    OBVIOUS
  <2>3. Solves(closed)
    <3> HIDE DEF Solves, closed, step, X
    <3> QED
      BY <2>1, <2>2, Zenon
  <2> HIDE DEF closed, step, X
  <2> QED
    BY <2>3, Zenon DEF JoinedBy
<1>6. closure_of(R, n) = closed[n]
  BY Zenon DEF closure_of
<1> HIDE DEF closed, step, X
<1>7. closed[0] = R
  BY <1>5
<1>8. ASSUME NEW k \in 1 .. n
      PROVE  closed[k] = JoinedBy(closed[k - 1], n, k - 1)
  <2>1. k \in 0 .. n /\ k # 0
    OBVIOUS
  <2> QED
    BY <1>5, <2>1, Zenon
<1> QED
  BY <1>6, <1>7, <1>8

\* It computes the least transitive relation that contains the one given.
LEMMA WarshallIsLeast ==
    ASSUME NEW n \in Nat, NEW R, R \subseteq (0 .. n - 1) \X (0 .. n - 1)
    PROVE  /\ R \subseteq closure_of(R, n)
           /\ closure_of(R, n) \subseteq (0 .. n - 1) \X (0 .. n - 1)
           /\ IsTransitiveTo(closure_of(R, n), n)
           /\ \A T : R \subseteq T /\ IsTransitiveTo(T, n) => closure_of(R, n) \subseteq T
<1>1. PICK closed :
           /\ closed[0] = R
           /\ \A k \in 1 .. n : closed[k] = JoinedBy(closed[k - 1], n, k - 1)
           /\ closure_of(R, n) = closed[n]
  BY ClosureRows
<1>2. PICK V : V = 0 .. n - 1
  OBVIOUS
<1>3. \A m \in 0 .. n : m < n => /\ m \in V
                                 /\ closed[m + 1] = closed[m] \cup {e \in V \X V :
                                       <<e[1], m>> \in closed[m] /\ <<m, e[2]>> \in closed[m]}
  <2> SUFFICES ASSUME NEW m \in 0 .. n, m < n
               PROVE  m \in V /\ closed[m + 1] = JoinedBy(closed[m], n, m)
    BY <1>2 DEF JoinedBy
  <2>1. m + 1 \in 1 .. n /\ (m + 1) - 1 = m
    OBVIOUS
  <2> QED
    BY <1>1, <1>2, <2>1
\* Row m has the pairs joined through numbers below m.
<1> DEFINE Row(m) ==
             /\ R \subseteq closed[m] /\ closed[m] \subseteq V \X V
             /\ \A a, c \in V, k \in 0 .. m - 1 :
                   <<a, k>> \in closed[m] /\ <<k, c>> \in closed[m] => <<a, c>> \in closed[m]
           Rows == {m \in 0 .. n : Row(m)}
<1>4. \A m \in 0 .. n : m \in Rows
  <2>1. 0 \in Rows
    BY <1>1, <1>2
  <2>2. ASSUME NEW m \in 0 .. n, m \in Rows, m < n
        PROVE  m + 1 \in Rows
    <3>1. PICK C, D : C = closed[m] /\ D = closed[m + 1]
      OBVIOUS
    <3>2. m \in V /\ m + 1 \in 0 .. n /\ D = C \cup {e \in V \X V : <<e[1], m>> \in C /\ <<m, e[2]>> \in C}
      <4>1. m + 1 \in 0 .. n
        BY <2>2
      <4> QED
        BY <1>3, <2>2, <3>1, <4>1
    <3>3. /\ R \subseteq C /\ C \subseteq V \X V
          /\ \A a, c \in V, k \in 0 .. m - 1 :
                <<a, k>> \in C /\ <<k, c>> \in C => <<a, c>> \in C
      BY <2>2, <3>1
    <3>4. R \subseteq D /\ D \subseteq V \X V
      BY <3>2, <3>3
    <3>5. \A a, c \in V : <<a, c>> \in D <=>
             (<<a, c>> \in C \/ (<<a, m>> \in C /\ <<m, c>> \in C))
      BY <3>2
    <3>6. ASSUME NEW a \in V, NEW c \in V, NEW k \in 0 .. m, <<a, k>> \in D, <<k, c>> \in D
          PROVE  <<a, c>> \in D
      <4>0. k \in V
        BY <1>2, <2>2
      <4>1. CASE k = m
        BY <3>2, <3>5, <3>6, <4>1
      <4>2. CASE k # m
        <5>1. k \in 0 .. m - 1
          BY <4>2
        <5>2. <<a, k>> \in C \/ (<<a, m>> \in C /\ <<m, k>> \in C)
          BY <3>5, <3>6, <4>0
        <5>3. <<k, c>> \in C \/ (<<k, m>> \in C /\ <<m, c>> \in C)
          BY <3>5, <3>6, <4>0
        <5>4. \/ <<a, c>> \in C
              \/ <<a, m>> \in C /\ <<m, c>> \in C
          BY <3>2, <3>3, <5>1, <5>2, <5>3
        <5> QED
          BY <3>5, <5>4
      <4> QED
        BY <4>1, <4>2
    <3>7. Row(m + 1)
      <4>1. (m + 1) - 1 = m
        OBVIOUS
      <4> QED
        BY <3>1, <3>4, <3>6, <4>1
    <3> HIDE DEF Row
    <3> QED
      BY <3>2, <3>7
  <2> HIDE DEF Rows
  <2> QED
    BY <2>1, <2>2, UpTo
<1>5. Row(n)
  BY <1>4
<1>6. /\ R \subseteq closure_of(R, n)
      /\ closure_of(R, n) \subseteq (0 .. n - 1) \X (0 .. n - 1)
      /\ IsTransitiveTo(closure_of(R, n), n)
  BY <1>1, <1>2, <1>5 DEF IsTransitiveTo
<1>7. ASSUME NEW T, R \subseteq T, IsTransitiveTo(T, n)
      PROVE  closure_of(R, n) \subseteq T
  <2> DEFINE Within == {m \in 0 .. n : closed[m] \subseteq T}
  <2>1. 0 \in Within
    BY <1>1, <1>7
  <2>2. ASSUME NEW m \in 0 .. n, m \in Within, m < n
        PROVE  m + 1 \in Within
    <3>1. m \in V /\ m + 1 \in 0 .. n
      BY <1>3, <2>2
    <3>2. ASSUME NEW e \in closed[m + 1]
          PROVE  e \in T
      <4>1. e \in closed[m] \/ (e \in V \X V /\ <<e[1], m>> \in closed[m] /\ <<m, e[2]>> \in closed[m])
        BY <1>3, <2>2, <3>2
      <4>2. closed[m] \subseteq T
        BY <2>2
      <4>3. CASE e \in V \X V /\ <<e[1], m>> \in closed[m] /\ <<m, e[2]>> \in closed[m]
        <5>1. <<e[1], m>> \in T /\ <<m, e[2]>> \in T
          BY <4>2, <4>3
        <5>2. e = <<e[1], e[2]>> /\ e[1] \in V /\ e[2] \in V
          BY <4>3
        <5>3. <<e[1], e[2]>> \in T
          BY <1>2, <1>7, <3>1, <5>1, <5>2 DEF IsTransitiveTo
        <5> QED
          BY <5>2, <5>3
      <4> QED
        BY <4>1, <4>2, <4>3
    <3> QED
      BY <3>1, <3>2
  <2> HIDE DEF Within
  <2>3. n \in Within
    BY <2>1, <2>2, UpTo
  <2> QED
    BY <1>1, <2>3 DEF Within
<1> QED
  BY <1>6, <1>7

-----------------------------------------------------------------------------
(* What the census computes *)

RulesOf(g) == {g.rules[r] : r \in XRLs_of(g)}
LHSes(g) == {g.rules[r].lhs : r \in XRLs_of(g)}
EmptyLHSes(g) ==
    {g.rules[r].lhs : r \in {q \in XRLs_of(g) :
        g.rules[q].rhs = <<>> \/ (g.rules[q].sequence /\ g.rules[q].min <= 0)}}
Direct(g) ==
    UNION {{g.rules[r].lhs} \X (RHSOf(g.rules[r]) \cup SeparatorOf(g.rules[r])) : r \in XRLs_of(g)}
Reach(g) == closure_of(Direct(g), g.symbols)
Terminals(g) ==
    {x \in XSYs_of(g) : IF x \in g.locked THEN x \in g.terminals ELSE x \notin LHSes(g)}

\* The fields of the census.
LEMMA CensusParts ==
    ASSUME NEW g
    PROVE  /\ CensusOf(g).terminal = Terminals(g)
           /\ CensusOf(g).nullable = rhs_closure(g, EmptyLHSes(g))
           /\ CensusOf(g).productive = rhs_closure(g, CensusOf(g).nullable \cup CensusOf(g).terminal)
           /\ CensusOf(g).accessible = {g.start} \cup {x \in XSYs_of(g) : <<g.start, x>> \in Reach(g)}
           /\ CensusOf(g).nulling = {x \in LHSes(g) : \A t \in Terminals(g) : <<x, t>> \notin Reach(g)}
  BY DEF CensusOf, Terminals, LHSes, EmptyLHSes, Direct, Reach

\* The rules are over symbols of the grammar, and so is what is taken of them.
LEMMA RulesInside ==
    ASSUME NEW g, GrammarOK(g)
    PROVE  /\ \A rule \in RulesOf(g) :
                 /\ rule.lhs \in XSYs_of(g) /\ RHSOf(rule) \subseteq XSYs_of(g)
                 /\ SeparatorOf(rule) \subseteq XSYs_of(g)
                 /\ rule.sequence \in BOOLEAN
                 /\ rule.rhs = <<>> => RequiredOf(rule) = {}
           /\ LHSes(g) = {rule.lhs : rule \in RulesOf(g)}
           /\ Terminals(g) \subseteq XSYs_of(g) /\ EmptyLHSes(g) \subseteq LHSes(g)
           /\ LHSes(g) \subseteq XSYs_of(g)
<1>1. ASSUME NEW r \in XRLs_of(g)
      PROVE  /\ g.rules[r].lhs \in XSYs_of(g) /\ RHSOf(g.rules[r]) \subseteq XSYs_of(g)
             /\ SeparatorOf(g.rules[r]) \subseteq XSYs_of(g)
             /\ g.rules[r].sequence \in BOOLEAN
             /\ g.rules[r].sequence => g.rules[r].rhs # <<>>
  <2>1. g.rules \in Seq(Rules) /\ r \in DOMAIN g.rules
    BY DEF GrammarOK, XRLs_of
  <2>2. g.rules[r] \in Rules
    BY <2>1
  <2> QED
    BY <2>2 DEF GrammarOK, Rules
<1>2. ASSUME NEW r \in XRLs_of(g), g.rules[r].rhs = <<>>
      PROVE  RequiredOf(g.rules[r]) = {}
  <2>1. ~ g.rules[r].sequence
    BY <1>1, <1>2
  <2>2. RHSOf(g.rules[r]) = {}
    BY <1>2 DEF RHSOf
  <2> QED
    BY <2>1, <2>2 DEF RequiredOf
<1>3. \A rule \in RulesOf(g) :
         /\ rule.lhs \in XSYs_of(g) /\ RHSOf(rule) \subseteq XSYs_of(g)
         /\ SeparatorOf(rule) \subseteq XSYs_of(g)
         /\ rule.sequence \in BOOLEAN
         /\ rule.rhs = <<>> => RequiredOf(rule) = {}
  BY <1>1, <1>2 DEF RulesOf
<1>4. /\ LHSes(g) = {rule.lhs : rule \in RulesOf(g)}
      /\ Terminals(g) \subseteq XSYs_of(g) /\ EmptyLHSes(g) \subseteq LHSes(g)
  BY DEF LHSes, RulesOf, Terminals, EmptyLHSes
<1>5. LHSes(g) \subseteq XSYs_of(g)
  BY <1>3, <1>4
<1> QED
  BY <1>3, <1>4, <1>5

\* The sets that what a census collects is the least of.
EmptyClosed(g, S) ==
    \A rule \in RulesOf(g) :
        (rule.sequence /\ rule.min <= 0) \/ RequiredOf(rule) \subseteq S => rule.lhs \in S
DerivableClosed(g, E, T, S) ==
    /\ E \cup T \subseteq S
    /\ \A rule \in RulesOf(g) : RequiredOf(rule) \subseteq S => rule.lhs \in S
PartsOf(rule, D) == RHSOf(rule) \cup (SeparatorOf(rule) \cap D)
InputClosed(g, T, D, S) ==
    /\ T \subseteq S
    /\ \A rule \in RulesOf(g) :
          RequiredOf(rule) \subseteq D /\ PartsOf(rule, D) \cap S # {} => rule.lhs \in S
ReachClosed(g, S) ==
    /\ g.start \in S
    /\ \A rule \in RulesOf(g) : rule.lhs \in S => RHSOf(rule) \cup SeparatorOf(rule) \subseteq S

\* Growth in terms of the set of rules.
LEMMA RhsClosedRules ==
    ASSUME NEW g, NEW S
    PROVE  RhsClosed(g, S) <=>
              \A rule \in RulesOf(g) :
                 rule.rhs # <<>> /\ RequiredOf(rule) \subseteq S => rule.lhs \in S
  BY DEF RhsClosed, Grown, RulesOf

\* The nullable symbols are the least set closed under rules of nothing else.
LEMMA NullableIsLeast ==
    ASSUME NEW g, GrammarOK(g)
    PROVE  LET E == CensusOf(g).nullable
           IN  /\ E \subseteq LHSes(g) /\ EmptyClosed(g, E)
               /\ \A S : EmptyClosed(g, S) => E \subseteq S
<1> DEFINE E == CensusOf(g).nullable
<1>1. E = rhs_closure(g, EmptyLHSes(g))
  BY CensusParts
<1>2. EmptyLHSes(g) \subseteq XSYs_of(g)
  BY RulesInside
<1>3. /\ EmptyLHSes(g) \subseteq E /\ RhsClosed(g, E)
      /\ \A T : EmptyLHSes(g) \subseteq T /\ RhsClosed(g, T) => E \subseteq T
  BY <1>1, <1>2, RhsClosureIsLeast
<1> HIDE DEF E
<1>4. E \subseteq LHSes(g)
  <2>1. RhsClosed(g, LHSes(g))
    BY RhsClosedRules, RulesInside
  <2> QED
    BY <1>3, <2>1, RulesInside
<1>5. \A rule \in RulesOf(g) :
         rule.rhs = <<>> \/ (rule.sequence /\ rule.min <= 0) => rule.lhs \in EmptyLHSes(g)
  BY DEF RulesOf, EmptyLHSes
<1>6. EmptyClosed(g, E)
  <2>1. \A rule \in RulesOf(g) : rule.rhs # <<>> /\ RequiredOf(rule) \subseteq E => rule.lhs \in E
    BY <1>3, RhsClosedRules
  <2> QED
    BY <1>3, <1>5, <2>1 DEF EmptyClosed
<1>7. ASSUME NEW S, EmptyClosed(g, S)
      PROVE  E \subseteq S
  <2>1. \A rule \in RulesOf(g) : rule.rhs = <<>> => rule.lhs \in S
    BY <1>7, RulesInside DEF EmptyClosed
  <2>2. EmptyLHSes(g) \subseteq S
    <3> SUFFICES ASSUME NEW r \in XRLs_of(g),
                        g.rules[r].rhs = <<>> \/ (g.rules[r].sequence /\ g.rules[r].min <= 0)
                 PROVE  g.rules[r].lhs \in S
      BY DEF EmptyLHSes
    <3>1. g.rules[r] \in RulesOf(g)
      BY DEF RulesOf
    <3> QED
      BY <1>7, <2>1, <3>1 DEF EmptyClosed
  <2>3. RhsClosed(g, S)
    BY <1>7, RhsClosedRules DEF EmptyClosed
  <2> QED
    BY <1>3, <2>2, <2>3
<1> QED
  BY <1>4, <1>6, <1>7 DEF E

\* The productive symbols are the least set with the nullable and the terminal
\* ones that is closed under rules.
LEMMA ProductiveIsLeast ==
    ASSUME NEW g, GrammarOK(g)
    PROVE  LET c == CensusOf(g)
           IN  /\ c.productive \subseteq LHSes(g) \cup c.terminal
               /\ DerivableClosed(g, c.nullable, c.terminal, c.productive)
               /\ \A S : DerivableClosed(g, c.nullable, c.terminal, S) => c.productive \subseteq S
<1>1. PICK E, T, D :
         /\ E = CensusOf(g).nullable /\ T = CensusOf(g).terminal /\ D = CensusOf(g).productive
  OBVIOUS
<1>2. /\ E \subseteq LHSes(g) /\ EmptyClosed(g, E)
  BY <1>1, NullableIsLeast
<1>3. T \subseteq XSYs_of(g) /\ LHSes(g) \subseteq XSYs_of(g)
  BY <1>1, CensusParts, RulesInside
<1>4. D = rhs_closure(g, E \cup T)
  BY <1>1, CensusParts
<1>5. /\ E \cup T \subseteq D /\ RhsClosed(g, D)
      /\ \A S : E \cup T \subseteq S /\ RhsClosed(g, S) => D \subseteq S
  <2>1. E \cup T \subseteq XSYs_of(g)
    BY <1>2, <1>3
  <2> QED
    BY <1>4, <2>1, RhsClosureIsLeast
<1>6. D \subseteq LHSes(g) \cup T
  <2>1. RhsClosed(g, LHSes(g) \cup T)
    BY RhsClosedRules, RulesInside
  <2> QED
    BY <1>2, <1>5, <2>1
<1>7. DerivableClosed(g, E, T, D)
  <2>1. ASSUME NEW rule \in RulesOf(g), RequiredOf(rule) \subseteq D
        PROVE  rule.lhs \in D
    <3>1. CASE rule.rhs = <<>>
      BY <1>2, <1>5, <3>1, RulesInside DEF EmptyClosed
    <3>2. CASE rule.rhs # <<>>
      BY <1>5, <2>1, <3>2, RhsClosedRules
    <3> QED
      BY <3>1, <3>2
  <2> QED
    BY <1>5, <2>1 DEF DerivableClosed
<1>8. ASSUME NEW S, DerivableClosed(g, E, T, S)
      PROVE  D \subseteq S
  <2>1. RhsClosed(g, S)
    BY <1>8, RhsClosedRules DEF DerivableClosed
  <2> QED
    BY <1>5, <1>8, <2>1 DEF DerivableClosed
<1> QED
  BY <1>1, <1>6, <1>7, <1>8

\* What a symbol reaches is the least that is closed under rules, and reaching is
\* transitive.
LEMMA ReachIsLeast ==
    ASSUME NEW g, GrammarOK(g)
    PROVE  /\ \A rule \in RulesOf(g) : \A x \in RHSOf(rule) \cup SeparatorOf(rule) :
                 <<rule.lhs, x>> \in Reach(g)
           /\ \A x, y, z \in XSYs_of(g) :
                 <<x, y>> \in Reach(g) /\ <<y, z>> \in Reach(g) => <<x, z>> \in Reach(g)
           /\ \A S, x, y :
                 /\ \A rule \in RulesOf(g) : rule.lhs \in S =>
                       RHSOf(rule) \cup SeparatorOf(rule) \subseteq S
                 /\ x \in S /\ <<x, y>> \in Reach(g)
                 => y \in S
<1>1. PICK n \in Nat : n = g.symbols
  BY DEF GrammarOK
<1>2. PICK V : V = XSYs_of(g) /\ V = 0 .. n - 1
  BY <1>1 DEF XSYs_of
<1>3. \A e : e \in Direct(g) <=>
         \E rule \in RulesOf(g) : \E x \in RHSOf(rule) \cup SeparatorOf(rule) : e = <<rule.lhs, x>>
  BY DEF Direct, RulesOf
<1>4. Direct(g) \subseteq V \X V
  <2> SUFFICES ASSUME NEW e \in Direct(g) PROVE e \in V \X V
    OBVIOUS
  <2>0. PICK rule \in RulesOf(g) : \E x \in RHSOf(rule) \cup SeparatorOf(rule) : e = <<rule.lhs, x>>
    BY <1>3
  <2>1. PICK x \in RHSOf(rule) \cup SeparatorOf(rule) : e = <<rule.lhs, x>>
    BY <2>0
  <2>2. rule.lhs \in V /\ x \in V
    BY <1>2, <2>1, RulesInside
  <2> QED
    BY <2>1, <2>2
<1>5. Reach(g) = closure_of(Direct(g), n)
  BY <1>1 DEF Reach
<1>6. /\ Direct(g) \subseteq Reach(g) /\ IsTransitiveTo(Reach(g), n)
      /\ \A T : Direct(g) \subseteq T /\ IsTransitiveTo(T, n) => Reach(g) \subseteq T
  BY <1>2, <1>4, <1>5, WarshallIsLeast
<1>7. \A rule \in RulesOf(g) : \A x \in RHSOf(rule) \cup SeparatorOf(rule) : <<rule.lhs, x>> \in Reach(g)
  BY <1>3, <1>6
<1>8. \A x, y, z \in XSYs_of(g) :
         <<x, y>> \in Reach(g) /\ <<y, z>> \in Reach(g) => <<x, z>> \in Reach(g)
  BY <1>2, <1>6 DEF IsTransitiveTo
<1>9. ASSUME NEW S, NEW x, NEW y,
             \A rule \in RulesOf(g) : rule.lhs \in S =>
                RHSOf(rule) \cup SeparatorOf(rule) \subseteq S,
             x \in S, <<x, y>> \in Reach(g)
      PROVE  y \in S
  <2> DEFINE T == {e \in V \X V : e[1] \in S => e[2] \in S}
  <2>1. Direct(g) \subseteq T
    BY <1>3, <1>4, <1>9
  <2>2. IsTransitiveTo(T, n)
    BY <1>2 DEF IsTransitiveTo
  <2>3. <<x, y>> \in T
    BY <1>6, <1>9, <2>1, <2>2
  <2> QED
    BY <1>9, <2>3
<1> QED
  BY <1>7, <1>8, <1>9

\* The accessible symbols are the least set with the start symbol that is closed
\* under rules.
LEMMA AccessibleIsLeast ==
    ASSUME NEW g, GrammarOK(g), g.start # NoXSY
    PROVE  LET A == CensusOf(g).accessible
           IN  /\ A \subseteq XSYs_of(g) /\ ReachClosed(g, A)
               /\ \A S : ReachClosed(g, S) => A \subseteq S
<1>1. PICK A : /\ A = CensusOf(g).accessible
               /\ A = {g.start} \cup {x \in XSYs_of(g) : <<g.start, x>> \in Reach(g)}
  BY CensusParts
<1>2. g.start \in XSYs_of(g)
  BY DEF GrammarOK
<1>3. A \subseteq XSYs_of(g)
  BY <1>1, <1>2
<1>4. ASSUME NEW rule \in RulesOf(g), rule.lhs \in A, NEW x \in RHSOf(rule) \cup SeparatorOf(rule)
      PROVE  x \in A
  <2>1. <<rule.lhs, x>> \in Reach(g) /\ x \in XSYs_of(g) /\ rule.lhs \in XSYs_of(g)
    BY <1>4, ReachIsLeast, RulesInside
  <2>2. <<g.start, x>> \in Reach(g)
    <3>1. CASE rule.lhs = g.start
      BY <2>1, <3>1
    <3>2. CASE rule.lhs # g.start
      <4>1. <<g.start, rule.lhs>> \in Reach(g)
        BY <1>1, <1>4, <3>2
      <4> QED
        BY <1>2, <2>1, <4>1, ReachIsLeast
    <3> QED
      BY <3>1, <3>2
  <2> QED
    BY <1>1, <2>1, <2>2
<1>5. ReachClosed(g, A)
  BY <1>1, <1>4 DEF ReachClosed
<1>6. ASSUME NEW S, ReachClosed(g, S)
      PROVE  A \subseteq S
  BY <1>1, <1>6, ReachIsLeast DEF ReachClosed
<1> QED
  BY <1>1, <1>3, <1>5, <1>6

\* A symbol from which no terminal is reached derives no input.
LEMMA NullingTakesNoInput ==
    ASSUME NEW g, GrammarOK(g), NullingTerminals(CensusOf(g)) = {}
    PROVE  LET c == CensusOf(g)
           IN  InputClosed(g, c.terminal, c.productive, c.productive \ c.nulling)
<1>1. PICK E, T, D, N :
         /\ E = CensusOf(g).nullable /\ T = CensusOf(g).terminal /\ D = CensusOf(g).productive
         /\ N = CensusOf(g).nulling
  OBVIOUS
<1>2. T = Terminals(g) /\ N = {x \in LHSes(g) : \A t \in T : <<x, t>> \notin Reach(g)}
  <2>1. T = Terminals(g)
    BY <1>1, CensusParts
  <2>2. N = {x \in LHSes(g) : \A t \in Terminals(g) : <<x, t>> \notin Reach(g)}
    BY <1>1, CensusParts
  <2> QED
    BY <2>1, <2>2
<1>3. /\ D \subseteq LHSes(g) \cup T /\ DerivableClosed(g, E, T, D)
  BY <1>1, ProductiveIsLeast
<1>4. T \subseteq D \ N
  BY <1>1, <1>3 DEF NullingTerminals, DerivableClosed
<1>5. ASSUME NEW rule \in RulesOf(g), RequiredOf(rule) \subseteq D,
             NEW x \in PartsOf(rule, D), x \in D, x \notin N
      PROVE  rule.lhs \in D /\ rule.lhs \notin N
  <2>1. rule.lhs \in D
    BY <1>3, <1>5 DEF DerivableClosed
  <2>2. /\ x \in RHSOf(rule) \cup SeparatorOf(rule)
        /\ x \in XSYs_of(g) /\ rule.lhs \in XSYs_of(g) /\ T \subseteq XSYs_of(g)
    BY <1>2, <1>5, RulesInside DEF PartsOf
  <2>3. <<rule.lhs, x>> \in Reach(g)
    BY <2>2, ReachIsLeast
  <2>4. x \in T \/ \E t \in T : <<x, t>> \in Reach(g)
    BY <1>2, <1>3, <1>5
  <2>5. \E t \in T : <<rule.lhs, t>> \in Reach(g)
    BY <2>2, <2>3, <2>4, ReachIsLeast
  <2> QED
    BY <1>2, <2>1, <2>5
<1>6. InputClosed(g, T, D, D \ N)
  BY <1>4, <1>5 DEF InputClosed
<1> QED
  BY <1>1, <1>6

\* S has the symbols of g that are not in D, and those from which one in S is
\* reached.
HasWhatLeadsOutOf(g, D, S) ==
    /\ XSYs_of(g) \ D \subseteq S
    /\ \A rule \in RulesOf(g) :
          (RHSOf(rule) \cup SeparatorOf(rule)) \cap S # {} => rule.lhs \in S

\* A symbol that is not nulling derives input, or an unproductive symbol is
\* reached from it: on the way to the terminal it reaches, a rule all of whose
\* symbols are productive passes the input on to its left side.
LEMMA NotNullingLeadsOn ==
    ASSUME NEW g, GrammarOK(g), NEW I, NEW S,
           InputClosed(g, CensusOf(g).terminal, CensusOf(g).productive, I),
           I \subseteq CensusOf(g).productive,
           HasWhatLeadsOutOf(g, CensusOf(g).productive, S)
    PROVE  XSYs_of(g) \ (CensusOf(g).nulling \cup I) \subseteq S
<1>1. PICK T, D, N, V :
         /\ T = CensusOf(g).terminal /\ D = CensusOf(g).productive /\ N = CensusOf(g).nulling
         /\ V = XSYs_of(g)
  OBVIOUS
<1>2. T = Terminals(g) /\ N = {x \in LHSes(g) : \A t \in T : <<x, t>> \notin Reach(g)}
  <2>1. T = Terminals(g)
    BY <1>1, CensusParts
  <2>2. N = {x \in LHSes(g) : \A t \in Terminals(g) : <<x, t>> \notin Reach(g)}
    BY <1>1, CensusParts
  <2> QED
    BY <2>1, <2>2
<1>3. D \subseteq LHSes(g) \cup T /\ T \subseteq I /\ T \subseteq V
  <2>1. D \subseteq LHSes(g) \cup T
    BY <1>1, <1>2, ProductiveIsLeast
  <2>2. T \subseteq V
    BY <1>1, <1>2, RulesInside
  <2>3. T \subseteq I
    BY <1>1 DEF InputClosed
  <2> QED
    BY <2>1, <2>2, <2>3
<1>4. ASSUME NEW rule \in RulesOf(g), NEW x \in RHSOf(rule) \cup SeparatorOf(rule),
             x \in I \cup S
      PROVE  rule.lhs \in I \cup S
  <2>1. CASE x \in S
    BY <1>1, <1>4, <2>1 DEF HasWhatLeadsOutOf
  <2>2. CASE x \in I /\ RequiredOf(rule) \subseteq D
    <3>1. x \in PartsOf(rule, D)
      BY <1>1, <1>4, <2>2 DEF PartsOf
    <3> QED
      BY <1>1, <2>2, <3>1 DEF InputClosed
  <2>3. CASE ~ RequiredOf(rule) \subseteq D
    <3>1. PICK y \in RequiredOf(rule) : y \notin D
      BY <2>3
    <3>2. y \in RHSOf(rule) \cup SeparatorOf(rule)
      BY <3>1 DEF RequiredOf
    <3>3. y \in V
      BY <1>1, <3>2, RulesInside
    <3>4. y \in S
      BY <1>1, <3>1, <3>3 DEF HasWhatLeadsOutOf
    <3> QED
      BY <1>1, <3>2, <3>4 DEF HasWhatLeadsOutOf
  <2> QED
    BY <1>4, <2>1, <2>2, <2>3
<1>5. ASSUME NEW x \in V, x \notin N, x \notin I, x \notin S
      PROVE  FALSE
  <2>1. PICK Others : Others = V \ (I \cup S)
    OBVIOUS
  <2>2. ASSUME NEW rule \in RulesOf(g), rule.lhs \in Others
        PROVE  RHSOf(rule) \cup SeparatorOf(rule) \subseteq Others
    <3>1. RHSOf(rule) \cup SeparatorOf(rule) \subseteq V
      BY <1>1, RulesInside
    <3> QED
      BY <1>4, <2>1, <2>2, <3>1
  <2>3. x \in D
    BY <1>1, <1>5 DEF HasWhatLeadsOutOf
  <2>4. PICK t \in T : <<x, t>> \in Reach(g)
    BY <1>2, <1>3, <1>5, <2>3
  <2>5. t \in Others
    BY <1>5, <2>1, <2>2, <2>4, ReachIsLeast
  <2> QED
    BY <1>3, <2>1, <2>5
<1> QED
  BY <1>1, <1>5

\* With the symbols that derive input, those that derive nothing are all that
\* derive anything.
LEMMA ProductiveParts ==
    ASSUME NEW g, GrammarOK(g), NEW I,
           InputClosed(g, CensusOf(g).terminal, CensusOf(g).productive, I),
           \A S \in SUBSET XSYs_of(g) :
              InputClosed(g, CensusOf(g).terminal, CensusOf(g).productive, S) => I \subseteq S
    PROVE  CensusOf(g).productive = CensusOf(g).nullable \cup I
<1>1. PICK E, T, D :
         /\ E = CensusOf(g).nullable /\ T = CensusOf(g).terminal /\ D = CensusOf(g).productive
  OBVIOUS
<1>2. /\ DerivableClosed(g, E, T, D)
      /\ \A S : DerivableClosed(g, E, T, S) => D \subseteq S
  BY <1>1, ProductiveIsLeast
<1>3. EmptyClosed(g, E)
  BY <1>1, NullableIsLeast
<1>4. InputClosed(g, T, D, I)
  BY <1>1
<1>5. I \subseteq D
  <2>1. InputClosed(g, T, D, D)
    BY <1>2 DEF InputClosed, DerivableClosed
  <2>2. D \subseteq LHSes(g) \cup T /\ T = Terminals(g)
    BY <1>1, CensusParts, ProductiveIsLeast
  <2>3. D \subseteq XSYs_of(g)
    BY <2>2, RulesInside
  <2> QED
    BY <1>1, <2>1, <2>3
<1>6. E \cup I \subseteq D
  BY <1>2, <1>5 DEF DerivableClosed
<1>7. ASSUME NEW rule \in RulesOf(g), RequiredOf(rule) \subseteq E \cup I
      PROVE  rule.lhs \in E \cup I
  <2>1. RequiredOf(rule) \subseteq D
    BY <1>6, <1>7
  <2>2. CASE PartsOf(rule, D) \cap I # {}
    BY <1>4, <2>1, <2>2 DEF InputClosed
  <2>3. CASE PartsOf(rule, D) \cap I = {}
    <3>1. RequiredOf(rule) \subseteq PartsOf(rule, D)
      BY <2>1 DEF PartsOf, RequiredOf
    <3>2. RequiredOf(rule) \subseteq E
      BY <1>7, <2>3, <3>1
    <3> QED
      BY <1>3, <3>2 DEF EmptyClosed
  <2> QED
    BY <2>2, <2>3
<1>8. DerivableClosed(g, E, T, E \cup I)
  BY <1>4, <1>7 DEF DerivableClosed, InputClosed
<1> QED
  BY <1>1, <1>2, <1>6, <1>8

\* The least ones of these sets.
EmptySet(g) ==
    {x \in XSYs_of(g) : \A S \in {Z \in SUBSET XSYs_of(g) : EmptyClosed(g, Z)} : x \in S}
DerivableSet(g, E, T) ==
    {x \in XSYs_of(g) :
       \A S \in {Z \in SUBSET XSYs_of(g) : DerivableClosed(g, E, T, Z)} : x \in S}
InputSet(g, T, D) ==
    {x \in XSYs_of(g) : \A S \in {Z \in SUBSET XSYs_of(g) : InputClosed(g, T, D, Z)} : x \in S}
ReachSet(g) ==
    {x \in XSYs_of(g) : \A S \in {Z \in SUBSET XSYs_of(g) : ReachClosed(g, Z)} : x \in S}
LeadsOutSet(g, D) ==
    {x \in XSYs_of(g) : \A S \in {Z \in SUBSET XSYs_of(g) : HasWhatLeadsOutOf(g, D, Z)} : x \in S}

\* What the definitions of the reference come to.
LEMMA ReferenceSets ==
    /\ Empties = EmptySet(Censused)
    /\ Inputs = InputSet(Censused, census.terminal, DerivableSet(Censused, Empties, census.terminal))
    /\ LeastClosed(LAMBDA S :
          /\ Censused.start \in S
          /\ \A rule \in RuleSet : rule.lhs \in S =>
                RHSOf(rule) \cup SeparatorOf(rule) \subseteq S) = ReachSet(Censused)
    /\ LeadsToUnproductive = LeadsOutSet(Censused, census.productive)
<1>1. Empties = EmptySet(Censused)
  BY Zenon DEF Empties, LeastClosed, EmptyClosed, EmptySet, RuleSet, RulesOf
<1>2. Inputs = InputSet(Censused, census.terminal, DerivableSet(Censused, Empties, census.terminal))
  BY Zenon DEF Inputs, LeastClosed, DerivableClosed, InputClosed, PartsOf, InputSet, DerivableSet,
               RuleSet, RulesOf
<1>3. LeastClosed(LAMBDA S :
         /\ Censused.start \in S
         /\ \A rule \in RuleSet : rule.lhs \in S =>
               RHSOf(rule) \cup SeparatorOf(rule) \subseteq S) = ReachSet(Censused)
  BY Zenon DEF LeastClosed, ReachClosed, ReachSet, RuleSet, RulesOf
<1>4. LeadsToUnproductive = LeadsOutSet(Censused, census.productive)
  BY Zenon DEF LeadsToUnproductive, LeastClosed, HasWhatLeadsOutOf, LeadsOutSet, RuleSet, RulesOf
<1> QED
  BY <1>1, <1>2, <1>3, <1>4

\* What holds of a grammar from the census on.
CensusDone ==
    is_precomputed =>
        /\ GrammarOK(Censused) /\ Censused.start # NoXSY
        /\ census = CensusOf(Censused) /\ NullingTerminals(census) = {}
        /\ census.nullable \cap counted(Censused) = {} /\ Censused.start \in census.productive
        /\ irls = Rewrite(Censused, census)

\* The census that marpa_g_precompute leaves is the one the reference defines.
LEMMA CensusDoneIsExact ==
    ASSUME CensusDone
    PROVE  CensusExact
<1> SUFFICES ASSUME is_precomputed = TRUE
             PROVE  CensusExact
  BY DEF CensusExact
<1>1. PICK g : g = Censused
  OBVIOUS
<1>2. /\ GrammarOK(g) /\ g.start # NoXSY
      /\ census = CensusOf(g) /\ NullingTerminals(census) = {}
  BY <1>1 DEF CensusDone
<1>3. PICK E, T, D, N, A, V :
         /\ E = census.nullable /\ T = census.terminal /\ D = census.productive
         /\ N = census.nulling /\ A = census.accessible /\ V = XSYs_of(g)
  OBVIOUS
<1>4. E \subseteq V /\ T \subseteq V /\ D \subseteq V /\ A \subseteq V
  <2>1. E \subseteq LHSes(g) /\ D \subseteq LHSes(g) \cup T /\ T = Terminals(g) /\ A \subseteq V
    BY <1>2, <1>3, NullableIsLeast, ProductiveIsLeast, AccessibleIsLeast, CensusParts
  <2> QED
    BY <1>2, <1>3, <2>1, RulesInside
<1>5. Empties = E
  <2>1. Empties = EmptySet(g)
    BY <1>1, ReferenceSets
  <2>2. EmptyClosed(g, E) /\ \A S : EmptyClosed(g, S) => E \subseteq S
    BY <1>2, <1>3, NullableIsLeast
  <2>3. EmptySet(g) = E
    BY <1>3, <1>4, <2>2 DEF EmptySet
  <2> QED
    BY <2>1, <2>3
<1>6. Inputs = {x \in V : \A S \in {Z \in SUBSET V : InputClosed(g, T, D, Z)} : x \in S}
  <2>1. Inputs = InputSet(g, T, DerivableSet(g, E, T))
    BY <1>1, <1>3, <1>5, ReferenceSets
  <2>2. DerivableClosed(g, E, T, D) /\ \A S : DerivableClosed(g, E, T, S) => D \subseteq S
    BY <1>2, <1>3, ProductiveIsLeast
  <2>3. DerivableSet(g, E, T) = D
    BY <1>3, <1>4, <2>2 DEF DerivableSet
  <2>4. Inputs = InputSet(g, T, D)
    BY <2>1, <2>3
  <2> QED
    BY <1>3, <2>4, Zenon DEF InputSet
<1>7. InputClosed(g, T, D, Inputs)
  <2>1. T \subseteq Inputs
    BY <1>4, <1>6 DEF InputClosed
  <2>2. ASSUME NEW rule \in RulesOf(g), RequiredOf(rule) \subseteq D,
               NEW x \in PartsOf(rule, D), x \in Inputs
        PROVE  rule.lhs \in Inputs
    <3>1. rule.lhs \in V
      BY <1>2, <1>3, RulesInside
    <3>2. \A S \in SUBSET V : InputClosed(g, T, D, S) => x \in S
      BY <1>6, <2>2
    <3>3. \A S \in SUBSET V : InputClosed(g, T, D, S) => rule.lhs \in S
      BY <2>2, <3>2 DEF InputClosed
    <3> QED
      BY <1>6, <3>1, <3>3
  <2> QED
    BY <2>1, <2>2 DEF InputClosed
<1>8. \A S \in SUBSET V : InputClosed(g, T, D, S) => Inputs \subseteq S
  BY <1>6
<1>9. D = E \cup Inputs
  BY <1>2, <1>3, <1>7, <1>8, ProductiveParts
<1>10. N \cap Inputs = {}
  <2>1. InputClosed(g, T, D, D \ N)
    BY <1>2, <1>3, NullingTakesNoInput
  <2> QED
    BY <1>4, <1>8, <2>1
<1>11. A = LeastClosed(LAMBDA S :
              /\ Censused.start \in S
              /\ \A rule \in RuleSet : rule.lhs \in S =>
                    RHSOf(rule) \cup SeparatorOf(rule) \subseteq S)
  <2>1. ReachClosed(g, A) /\ \A S : ReachClosed(g, S) => A \subseteq S
    BY <1>2, <1>3, AccessibleIsLeast
  <2>2. A = ReachSet(g)
    BY <1>3, <1>4, <2>1 DEF ReachSet
  <2> QED
    BY <1>1, <1>3, <2>2, ReferenceSets
<1>12. XSYs_of(Censused) \ (N \cup Inputs) \subseteq LeadsToUnproductive
  <2>1. Inputs \subseteq D
    BY <1>9
  <2>2. \A S : HasWhatLeadsOutOf(g, D, S) => V \ (N \cup Inputs) \subseteq S
    BY <1>2, <1>3, <1>7, <2>1, NotNullingLeadsOn
  <2>3. V \ (N \cup Inputs) \subseteq LeadsOutSet(g, D)
    BY <1>3, <2>2 DEF LeadsOutSet
  <2>4. LeadsToUnproductive = LeadsOutSet(g, D)
    BY <1>1, <1>3, ReferenceSets
  <2> QED
    BY <1>1, <1>3, <2>3, <2>4
<1> QED
  BY <1>3, <1>5, <1>9, <1>10, <1>11, <1>12 DEF CensusExact

-----------------------------------------------------------------------------
(* The invariant of the census *)

CensusInv == GrammarOK(external) /\ CensusDone

\* A new grammar has no rule and no census.
LEMMA CensusInvInit ==
    ASSUME GrammarInit
    PROVE  CensusInv
<1>1. XSYs_of(external) = {} /\ XRLs_of(external) = {}
  BY DEF GrammarInit, XSYs_of, XRLs_of
<1>2. GrammarOK(external)
  BY <1>1 DEF GrammarInit, GrammarOK, NoXSY, Rules
<1> QED
  BY <1>2 DEF GrammarInit, CensusInv, CensusDone

\* A symbol more, and a rule more over symbols that exist.
LEMMA SymbolAdded ==
    ASSUME NEW g, GrammarOK(g), NEW n \in Nat, n >= g.symbols
    PROVE  GrammarOK([g EXCEPT !.symbols = n])
<1>1. PICK h : h = [g EXCEPT !.symbols = n]
  OBVIOUS
<1>2. /\ g \in [symbols : Nat, rules : Seq(Rules), start : Int, locked : SUBSET Nat,
                terminals : SUBSET Nat]
      /\ h \in [symbols : Nat, rules : Seq(Rules), start : Int, locked : SUBSET Nat,
                terminals : SUBSET Nat]
      /\ h.rules = g.rules /\ h.start = g.start /\ h.symbols = n
  BY <1>1 DEF GrammarOK
<1>3. XRLs_of(h) = XRLs_of(g) /\ XSYs_of(g) \subseteq XSYs_of(h)
  BY <1>2 DEF XRLs_of, XSYs_of
<1>4. \A r \in XRLs_of(h) :
         /\ h.rules[r].lhs \in XSYs_of(h) /\ RHSOf(h.rules[r]) \subseteq XSYs_of(h)
         /\ SeparatorOf(h.rules[r]) \subseteq XSYs_of(h)
         /\ h.rules[r].sequence => h.rules[r].rhs # <<>>
         /\ WellMade(h.rules[r])
  BY <1>2, <1>3 DEF GrammarOK
<1>5. h.start \in XSYs_of(h) \cup {NoXSY}
  BY <1>2, <1>3 DEF GrammarOK
<1>6. GrammarOK(h)
  BY <1>2, <1>4, <1>5 DEF GrammarOK
<1> QED
  BY <1>1, <1>6

\* A rule over symbols of the grammar can be added to it.
LEMMA RuleAdded ==
    ASSUME NEW g, GrammarOK(g), NEW rule \in Rules,
           rule.lhs \in XSYs_of(g), RHSOf(rule) \subseteq XSYs_of(g),
           SeparatorOf(rule) \subseteq XSYs_of(g), rule.sequence => rule.rhs # <<>>,
           WellMade(rule)
    PROVE  GrammarOK([g EXCEPT !.rules = Append(@, rule)])
<1>1. PICK h : h = [g EXCEPT !.rules = Append(@, rule)]
  OBVIOUS
<1>2. /\ g \in [symbols : Nat, rules : Seq(Rules), start : Int, locked : SUBSET Nat,
                terminals : SUBSET Nat]
      /\ h \in [symbols : Nat, rules : Seq(Rules), start : Int, locked : SUBSET Nat,
                terminals : SUBSET Nat]
      /\ h.rules = Append(g.rules, rule) /\ h.start = g.start /\ h.symbols = g.symbols
  <2>1. g \in [symbols : Nat, rules : Seq(Rules), start : Int, locked : SUBSET Nat,
               terminals : SUBSET Nat]
    BY DEF GrammarOK
  <2>2. PICK s \in Seq(Rules) : s = Append(g.rules, rule)
    <3>1. g.rules \in Seq(Rules)
      BY <2>1
    <3>2. Append(g.rules, rule) \in Seq(Rules)
      BY <3>1
    <3> QED
      BY <3>2
  <2>3. h = [g EXCEPT !.rules = s]
    BY <1>1, <2>2
  <2> QED
    BY <2>1, <2>2, <2>3
<1>3. XSYs_of(h) = XSYs_of(g)
  BY <1>2 DEF XSYs_of
<1>4. ASSUME NEW r \in XRLs_of(h)
      PROVE  /\ h.rules[r].lhs \in XSYs_of(h) /\ RHSOf(h.rules[r]) \subseteq XSYs_of(h)
             /\ SeparatorOf(h.rules[r]) \subseteq XSYs_of(h)
             /\ h.rules[r].sequence => h.rules[r].rhs # <<>>
         /\ WellMade(h.rules[r])
  <2>1. g.rules \in Seq(Rules)
    BY <1>2
  <2>2. h.rules[r] = rule \/ (r \in XRLs_of(g) /\ h.rules[r] = g.rules[r])
    BY <1>2, <2>1 DEF XRLs_of
  <2> QED
    BY <1>3, <2>2 DEF GrammarOK
<1>5. GrammarOK(h)
  BY <1>2, <1>3, <1>4 DEF GrammarOK
<1> QED
  BY <1>1, <1>5

\* marpa_g_rule_new and marpa_g_sequence_new make no other rule.
LEMMA RuleCallsOK ==
    ASSUME CensusInv, NEW lhs \in LeftSides
    PROVE  /\ \A rhs \in RightSides : RuleNew(lhs, rhs) => GrammarOK(external')
           /\ \A a \in SequenceArguments :
                 SequenceNew(lhs, a[1], a[2], a[3], a[4]) => GrammarOK(external')
<1>1. GrammarOK(external) /\ lhs \in Nat /\ NoXSY \in Int
  BY PrecomputeAssumption DEF CensusInv, NoXSY
<1>2. ASSUME NEW rhs \in RightSides, RuleNew(lhs, rhs)
      PROVE  GrammarOK(external')
  <2>1. CASE UNCHANGED external
    BY <1>1, <2>1
  <2>2. CASE /\ xsy_ids_are_valid({lhs} \cup RHSOf(BNF(lhs, rhs)))
             /\ Construct([external EXCEPT !.rules = Append(@, BNF(lhs, rhs))])
    <3>1. rhs \in Seq(Nat)
      BY PrecomputeAssumption
    <3>2. PICK rule : rule = BNF(lhs, rhs)
      OBVIOUS
    <3>3. rule \in Rules /\ ~ rule.sequence /\ rule.lhs = lhs /\ SeparatorOf(rule) = {}
          /\ WellMade(rule)
      BY <1>1, <3>1, <3>2 DEF BNF, Rules, SeparatorOf, WellMade
    <3>4. lhs \in XSYs_of(external) /\ RHSOf(rule) \subseteq XSYs_of(external)
      BY <2>2, <3>2 DEF xsy_ids_are_valid
    <3>5. GrammarOK([external EXCEPT !.rules = Append(@, rule)])
      BY <1>1, <3>3, <3>4, RuleAdded
    <3> QED
      BY <2>2, <3>2, <3>5 DEF Construct
  <2> QED
    BY <1>2, <2>1, <2>2, Zenon DEF RuleNew, GrammarError
<1>3. ASSUME NEW a \in SequenceArguments, SequenceNew(lhs, a[1], a[2], a[3], a[4])
      PROVE  GrammarOK(external')
  <2>1. PICK rule : rule = SequenceOf(lhs, a[1], a[2], a[3], a[4])
    OBVIOUS
  <2>2. CASE UNCHANGED external
    BY <1>1, <2>2
  <2>3. CASE /\ xsy_ids_are_valid({lhs, a[1]} \cup SeparatorOf(rule))
             /\ Construct([external EXCEPT !.rules = Append(@, rule)])
    <3>1. a[1] \in Nat /\ a[2] \in Int /\ a[3] \in Int /\ a[4] \in BOOLEAN
      BY <1>1, PrecomputeAssumption
    <3>2. rule \in Rules /\ rule.rhs = <<a[1]>> /\ rule.lhs = lhs /\ rule.sequence = TRUE
      <4>1. rule = [lhs |-> lhs, rhs |-> <<a[1]>>, sequence |-> TRUE, min |-> a[3],
                    separator |-> a[2], proper |-> a[4], rank |-> 0, null_ranks_high |-> FALSE]
        BY <2>1 DEF SequenceOf, BNF
      <4>2. <<a[1]>> \in Seq(Nat)
        BY <3>1
      <4> QED
        BY <1>1, <3>1, <4>1, <4>2 DEF Rules
    <3>3. RHSOf(rule) = {a[1]}
      BY <3>2 DEF RHSOf
    <3>4. /\ rule.lhs \in XSYs_of(external) /\ RHSOf(rule) \subseteq XSYs_of(external)
          /\ SeparatorOf(rule) \subseteq XSYs_of(external) /\ rule.rhs # <<>>
      BY <2>3, <3>2, <3>3 DEF xsy_ids_are_valid
    <3>5. GrammarOK([external EXCEPT !.rules = Append(@, rule)])
      BY <1>1, <3>2, <3>4, RuleAdded DEF WellMade
    <3> QED
      BY <2>3, <3>5 DEF Construct
  <2> QED
    BY <1>3, <2>1, <2>2, <2>3, Zenon DEF SequenceNew, GrammarError
<1> QED
  BY <1>2, <1>3

\* Nor do the start symbol and the terminals spoil the grammar.
LEMMA SettingsOK ==
    ASSUME CensusInv, NEW x \in 0 .. MaxSymbols
    PROVE  /\ StartSymbolSet(x) => GrammarOK(external')
           /\ \A value \in BOOLEAN : SymbolIsTerminalSet(x, value) => GrammarOK(external')
<1>1. GrammarOK(external) /\ x \in Nat
  BY PrecomputeAssumption DEF CensusInv
<1>2. ASSUME StartSymbolSet(x)
      PROVE  GrammarOK(external')
  <2>1. \/ UNCHANGED external
        \/ x \in XSYs_of(external) /\ external' = [external EXCEPT !.start = x]
    BY <1>2 DEF StartSymbolSet, GrammarError, Construct
  <2>2. ASSUME x \in XSYs_of(external)
        PROVE  GrammarOK([external EXCEPT !.start = x])
    BY <1>1, <2>2 DEF GrammarOK, XSYs_of, XRLs_of
  <2> QED
    BY <1>1, <2>1, <2>2
<1>3. ASSUME NEW value \in BOOLEAN, SymbolIsTerminalSet(x, value)
      PROVE  GrammarOK(external')
  <2>1. \/ UNCHANGED external
        \/ external' = [external EXCEPT !.locked = @ \cup {x},
                                        !.terminals = IF value THEN @ \cup {x} ELSE @]
    BY <1>3 DEF SymbolIsTerminalSet, GrammarError, Construct
  <2>2. GrammarOK([external EXCEPT !.locked = @ \cup {x},
                                   !.terminals = IF value THEN @ \cup {x} ELSE @])
    BY <1>1 DEF GrammarOK, XSYs_of, XRLs_of
  <2> QED
    BY <1>1, <2>1, <2>2
<1> QED
  BY <1>2, <1>3

\* Once the census is taken, only symbols are added to the grammar.
LEMMA ConstructionKeepsCensus ==
    ASSUME CensusInv, ConstructionCalls
    PROVE  CensusInv'
<1>1. GrammarOK(external) /\ CensusDone
  BY DEF CensusInv
<1>2. UNCHANGED <<is_precomputed, census, post_census_xsy_count, irls>>
  BY DEF ConstructionCalls, SymbolNew, RuleNew, SequenceNew, StartSymbolSet, SymbolIsTerminalSet,
         Construct, GrammarError, census_vars
<1>3. CASE SymbolNew
  <2>1. external' = [external EXCEPT !.symbols = @ + 1]
    BY <1>3 DEF SymbolNew, Construct
  <2>2. GrammarOK(external')
    <3>1. external.symbols \in Nat
      BY <1>1 DEF GrammarOK
    <3> QED
      BY <1>1, <2>1, <3>1, SymbolAdded
  <2>3. Censused' = Censused
    <3>1. external \in [symbols : Nat, rules : Seq(Rules), start : Int, locked : SUBSET Nat,
                        terminals : SUBSET Nat]
      BY <1>1 DEF GrammarOK
    <3> QED
      BY <1>2, <2>1, <3>1 DEF Censused
  <2> QED
    BY <1>1, <1>2, <2>2, <2>3 DEF CensusInv, CensusDone
<1>4. ASSUME ~ SymbolNew
      PROVE  GrammarOK(external') /\ (is_precomputed => UNCHANGED external)
  <2>1. CASE \E lhs \in LeftSides, rhs \in RightSides : RuleNew(lhs, rhs)
    BY <2>1, RuleCallsOK DEF RuleNew, GrammarError
  <2>2. CASE \E lhs \in LeftSides, a \in SequenceArguments :
                SequenceNew(lhs, a[1], a[2], a[3], a[4])
    BY <2>2, RuleCallsOK DEF SequenceNew, GrammarError
  <2>3. CASE \E x \in 0 .. MaxSymbols : StartSymbolSet(x)
    BY <2>3, SettingsOK DEF StartSymbolSet, GrammarError
  <2>4. CASE \E x \in 0 .. MaxSymbols, value \in BOOLEAN : SymbolIsTerminalSet(x, value)
    BY <2>4, SettingsOK DEF SymbolIsTerminalSet, GrammarError
  <2> QED
    BY <1>4, <2>1, <2>2, <2>3, <2>4 DEF ConstructionCalls
<1>5. CASE ~ SymbolNew
  <2>1. is_precomputed => Censused' = Censused
    BY <1>2, <1>4, <1>5 DEF Censused
  <2> QED
    BY <1>1, <1>2, <1>4, <1>5, <2>1 DEF CensusInv, CensusDone
<1> QED
  BY <1>3, <1>5

\* Precomputation takes the census of the grammar as it is.
LEMMA PrecomputeTakesCensus ==
    ASSUME CensusInv, PrecomputeCalls
    PROVE  CensusInv'
<1>1. GrammarOK(external) /\ CensusDone /\ external' = external
  BY DEF CensusInv, PrecomputeCalls, PrecomputeRefused, PrecomputeFails, PrecomputeEnds
<1>2. CASE UNCHANGED <<is_precomputed, census, post_census_xsy_count, irls>>
  <2>1. Censused' = Censused
    BY <1>1, <1>2 DEF Censused
  <2> QED
    BY <1>1, <1>2, <2>1 DEF CensusInv, CensusDone
<1>3. CASE PrecomputeEnds
  <2>1. /\ EarlyVerdict = "NONE" /\ CensusVerdict(CensusOf(external)) = "NONE"
        /\ post_census_xsy_count' = external.symbols /\ census' = CensusOf(external)
        /\ irls' = Rewrite(external, CensusOf(external))
    BY <1>3 DEF PrecomputeEnds
  <2>2. external.start # NoXSY
    BY <2>1 DEF EarlyVerdict
  <2>3. /\ NullingTerminals(CensusOf(external)) = {}
        /\ CensusOf(external).nullable \cap counted(external) = {}
        /\ external.start \in CensusOf(external).productive
    BY <2>1 DEF CensusVerdict, CountedNullables
  <2>4. Censused' = external
    <3>1. external \in [symbols : Nat, rules : Seq(Rules), start : Int, locked : SUBSET Nat,
                        terminals : SUBSET Nat]
      BY <1>1 DEF GrammarOK
    <3> QED
      BY <1>1, <2>1, <3>1 DEF Censused
  <2> QED
    BY <1>1, <2>1, <2>2, <2>3, <2>4 DEF CensusInv, CensusDone
<1> QED
  BY <1>2, <1>3 DEF PrecomputeCalls, PrecomputeRefused, PrecomputeFails, census_vars

\* The census of a precomputed grammar is that of the grammar as it was then.
LEMMA CensusAlways == GrammarSpec => []CensusInv
<1>1. CensusInv /\ [GrammarNext]_g_vars => CensusInv'
  <2> SUFFICES ASSUME CensusInv, [GrammarNext]_g_vars PROVE CensusInv'
    OBVIOUS
  <2>1. CASE ConstructionCalls
    BY <2>1, ConstructionKeepsCensus
  <2>2. CASE PrecomputeCalls
    BY <2>2, PrecomputeTakesCensus
  <2>3. CASE UNCHANGED g_vars
    <3>1. external' = external /\ is_precomputed' = is_precomputed /\ census' = census
          /\ Censused' = Censused /\ irls' = irls
      BY <2>3 DEF g_vars, census_vars, Censused
    <3> QED
      BY <3>1 DEF CensusInv, CensusDone
  <2> QED
    BY <2>1, <2>2, <2>3 DEF GrammarNext
<1> QED
  BY CensusInvInit, <1>1, PTL DEF GrammarSpec

\* However a grammar was built, its census is exact: the nullable symbols are
\* those that derive nothing, the productive ones those that derive something,
\* the accessible ones those reached from the start symbol; no nulling one
\* derives input, and one that derives none is nulling unless an unproductive
\* symbol is reached from it.
THEOREM CensusIsExact == GrammarSpec => []CensusExact
<1>1. CensusInv => CensusExact
  BY CensusDoneIsExact DEF CensusInv
<1> QED
  BY <1>1, CensusAlways, PTL

\* What a sequence put together of others has in it.
LEMMA ConcatParts ==
    ASSUME NEW X, NEW a \in Seq(X), NEW b \in Seq(X)
    PROVE  a \o b \in Seq(X) /\ ToSet(a \o b) = ToSet(a) \cup ToSet(b)
<1>1. /\ a \o b \in Seq(X) /\ Len(a \o b) = Len(a) + Len(b) /\ Len(a) \in Nat /\ Len(b) \in Nat
      /\ \A i \in 1 .. Len(a) : (a \o b)[i] = a[i]
      /\ DOMAIN (a \o b) = 1 .. Len(a) + Len(b) /\ DOMAIN a = 1 .. Len(a) /\ DOMAIN b = 1 .. Len(b)
  OBVIOUS
<1>2. \A i \in 1 .. Len(b) : Len(a) + i \in 1 .. Len(a) + Len(b) /\ (a \o b)[Len(a) + i] = b[i]
  OBVIOUS
<1>3. ToSet(a \o b) \subseteq ToSet(a) \cup ToSet(b)
  <2> SUFFICES ASSUME NEW i \in 1 .. Len(a) + Len(b)
               PROVE  (a \o b)[i] \in ToSet(a) \cup ToSet(b)
    BY <1>1 DEF ToSet
  <2>1. CASE i <= Len(a)
    BY <1>1, <2>1 DEF ToSet
  <2>2. CASE i > Len(a)
    <3>1. i - Len(a) \in 1 .. Len(b) /\ Len(a) + (i - Len(a)) = i
      BY <1>1, <2>2
    <3>2. (a \o b)[i] = b[i - Len(a)]
      BY <1>2, <3>1
    <3> QED
      BY <1>1, <3>1, <3>2 DEF ToSet
  <2> QED
    BY <1>1, <2>1, <2>2
<1>4. ToSet(a) \subseteq ToSet(a \o b)
  BY <1>1 DEF ToSet
<1>5. ToSet(b) \subseteq ToSet(a \o b)
  BY <1>1, <1>2 DEF ToSet
<1> QED
  BY <1>1, <1>3, <1>4, <1>5

\* Sequences of one element, and of none.
LEMMA SingleParts ==
    ASSUME NEW X
    PROVE  /\ \A x \in X : <<x>> \in Seq(X) /\ ToSet(<<x>>) = {x}
           /\ <<>> \in Seq(X) /\ ToSet(<<>>) = {}
  BY DEF ToSet

\* FlattenSeq goes from one sequence to the next.
FlattensTo(seqs, n, flat) ==
    /\ FlattenSeq(seqs) = flat[n] /\ flat[1] = seqs[1]
    /\ \A i \in 1 .. n : i # 1 => flat[i] = flat[i - 1] \o seqs[i]

\* By recursion.
LEMMA FlattenRows ==
    ASSUME NEW X, NEW n \in Nat, n # 0, NEW seqs \in [1 .. n -> Seq(X)]
    PROVE  \E flat : FlattensTo(seqs, n, flat)
<1>0. seqs \in Seq(Seq(X)) /\ Len(seqs) = n
  OBVIOUS
<1> DEFINE step == [i \in 1 .. n |-> [s \in Seq(X) |-> s \o seqs[i]]]
           flatten[i \in 1 .. Len(seqs)] == IF i = 1 THEN seqs[i] ELSE flatten[i-1] \o seqs[i]
           Body(h) == [i \in 1 .. n |-> IF i = 1 THEN seqs[i] ELSE h[i-1] \o seqs[i]]
<1>1. step \in [1 .. n -> [Seq(X) -> Seq(X)]]
  BY ConcatParts
<1>2. PICK f \in [0 .. n -> Seq(X)] : Iterates(f, n, <<>>, step)
  <2>1. <<>> \in Seq(X)
    OBVIOUS
  <2> HIDE DEF step
  <2> QED
    BY <1>1, <2>1, PrimitiveRecursion
<1>3. \A i \in 1 .. n : f[i] = f[i - 1] \o seqs[i] /\ f[i - 1] \in Seq(X)
  <2> SUFFICES ASSUME NEW i \in 1 .. n PROVE f[i] = f[i - 1] \o seqs[i] /\ f[i - 1] \in Seq(X)
    OBVIOUS
  <2>1. f[i - 1] \in Seq(X)
    BY <1>2
  <2>2. f[i] = step[i][f[i - 1]]
    BY <1>2 DEF Iterates
  <2> QED
    BY <2>1, <2>2
<1>4. f[1] = seqs[1]
  <2>1. 1 \in 1 .. n /\ f[0] = <<>>
    BY <1>2 DEF Iterates
  <2>2. f[1] = f[1 - 1] \o seqs[1]
    BY <1>3, <2>1, Zenon
  <2>3. f[1 - 1] = <<>> /\ seqs[1] \in Seq(X)
    BY <2>1
  <2>4. <<>> \o seqs[1] = seqs[1]
    BY <2>3
  <2> QED
    BY <2>2, <2>3, <2>4, Zenon
<1> DEFINE h == [i \in 1 .. n |-> f[i]]
<1>5. h = Body(h)
  <2>1. ASSUME NEW i \in 1 .. n
        PROVE  h[i] = IF i = 1 THEN seqs[i] ELSE h[i-1] \o seqs[i]
    <3>1. CASE i = 1
      BY <1>4, <3>1
    <3>2. CASE i # 1
      <4>1. i - 1 \in 1 .. n
        BY <3>2
      <4> QED
        BY <1>3, <3>2, <4>1
    <3> QED
      BY <3>1, <3>2
  <2>2. h = [i \in 1 .. n |-> h[i]]
    OBVIOUS
  <2> HIDE DEF h
  <2> QED
    BY <2>1, <2>2
<1> HIDE DEF h, step
<1>6. flatten = Body(flatten)
  <2>1. h = [i \in 1 .. Len(seqs) |-> IF i = 1 THEN seqs[i] ELSE h[i-1] \o seqs[i]]
    BY <1>0, <1>5, Zenon
  <2>2. flatten = [i \in 1 .. Len(seqs) |-> IF i = 1 THEN seqs[i] ELSE flatten[i-1] \o seqs[i]]
    BY <2>1, Zenon
  <2> QED
    BY <1>0, <2>2, Zenon
<1>7. FlattenSeq(seqs) = flatten[n]
  BY <1>0, Zenon DEF FlattenSeq
<1> HIDE DEF flatten
<1>8. flatten[1] = seqs[1]
  <2>1. 1 \in 1 .. n
    OBVIOUS
  <2> QED
    BY <1>6, <2>1
<1>9. \A i \in 1 .. n : i # 1 => flatten[i] = flatten[i - 1] \o seqs[i]
  <2> SUFFICES ASSUME NEW i \in 1 .. n, i # 1 PROVE flatten[i] = flatten[i - 1] \o seqs[i]
    OBVIOUS
  <2> QED
    BY <1>6, Zenon
<1> QED
  BY <1>7, <1>8, <1>9 DEF FlattensTo

\* What a sequence of sequences has in it when they are put one after the other.
LEMMA FlattenParts ==
    ASSUME NEW X, NEW n \in Nat, NEW seqs \in [1 .. n -> Seq(X)]
    PROVE  /\ FlattenSeq(seqs) \in Seq(X)
           /\ ToSet(FlattenSeq(seqs)) = UNION {ToSet(seqs[i]) : i \in 1 .. n}
<1>1. seqs \in Seq(Seq(X)) /\ Len(seqs) = n
  OBVIOUS
<1>2. CASE n = 0
  <2>1. FlattenSeq(seqs) = seqs
    BY <1>1, <1>2 DEF FlattenSeq
  <2>2. seqs = <<>>
    BY <1>2
  <2> QED
    BY <1>2, <2>1, <2>2, SingleParts
<1>3. CASE n # 0
  <2>1. PICK flatten : FlattensTo(seqs, n, flatten)
    BY <1>3, FlattenRows
  <2>7. FlattenSeq(seqs) = flatten[n]
    BY <2>1 DEF FlattensTo
  <2>8. flatten[1] = seqs[1]
    BY <2>1 DEF FlattensTo
  <2>9. \A i \in 1 .. n : i # 1 => flatten[i] = flatten[i - 1] \o seqs[i]
    BY <2>1 DEF FlattensTo
  <2> DEFINE All(i) == UNION {ToSet(seqs[j]) : j \in 1 .. i}
             Row(i) == flatten[i] \in Seq(X) /\ ToSet(flatten[i]) = All(i)
             S == {i \in 0 .. n : i # 0 => Row(i)}
  <2>10. 0 \in S
    OBVIOUS
  <2>11. ASSUME NEW i \in 0 .. n, i < n, i # 0 => Row(i)
         PROVE  Row(i + 1)
    <3>1. CASE i = 0
      <4>1. i + 1 = 1 /\ 1 \in 1 .. n /\ \A j \in 1 .. 1 : j = 1
        BY <1>3, <3>1
      <4>2. UNION {ToSet(seqs[j]) : j \in 1 .. 1} = ToSet(seqs[1])
        BY <4>1
      <4> QED
        BY <2>8, <4>1, <4>2
    <3>2. CASE i # 0
      <4>1. i + 1 \in 1 .. n /\ i + 1 # 1 /\ (i + 1) - 1 = i
        BY ONLY n \in Nat, i \in 0 .. n, i < n, <3>2
      <4>2. flatten[i + 1] = flatten[i] \o seqs[i + 1]
        BY <2>9, <4>1
      <4>3. flatten[i] \in Seq(X) /\ seqs[i + 1] \in Seq(X) /\ ToSet(flatten[i]) = All(i)
        BY <2>11, <3>2, <4>1
      <4>4. flatten[i + 1] \in Seq(X) /\ ToSet(flatten[i + 1]) = ToSet(flatten[i]) \cup ToSet(seqs[i + 1])
        BY <4>2, <4>3, ConcatParts
      <4>5. \A j : j \in 1 .. i + 1 <=> j \in 1 .. i \/ j = i + 1
        BY <4>1
      <4>6. All(i + 1) = All(i) \cup ToSet(seqs[i + 1])
        <5>1. \A x : x \in All(i + 1) <=> \E j \in 1 .. i + 1 : x \in ToSet(seqs[j])
          OBVIOUS
        <5>2. \A x : x \in All(i) <=> \E j \in 1 .. i : x \in ToSet(seqs[j])
          OBVIOUS
        <5> HIDE DEF All
        <5>3. \A x : x \in All(i + 1) <=> x \in All(i) \/ x \in ToSet(seqs[i + 1])
          BY <4>5, <5>1, <5>2, Zenon
        <5> QED
          BY <5>3
      <4> HIDE DEF All
      <4> QED
        BY <4>3, <4>4, <4>6
    <3> QED
      BY <3>1, <3>2
  <2> HIDE DEF Row
  <2>12. \A i \in 0 .. n : i \in S /\ i < n => i + 1 \in S
    BY <2>11
  <2> HIDE DEF S
  <2>13. \A i \in 0 .. n : i \in S
    BY <2>10, <2>12, UpTo
  <2>14. n \in S
    BY <2>13
  <2>15. Row(n)
    BY <1>3, <2>14 DEF S
  <2> QED
    BY <2>7, <2>15 DEF Row
<1> QED
  BY <1>2, <1>3

-----------------------------------------------------------------------------
(* The factors of a rule *)

FactorsOf(c, rule) == {i \in DOMAIN rule.rhs : rule.rhs[i] \in c.nullable \ c.nulling}
Ascending(s) == \A i, j \in DOMAIN s : i < j => s[i] < s[j]

\* Numbers below a bound can be put in order.
LEMMA Enumeration ==
    ASSUME NEW L \in Nat, NEW F, F \subseteq 1 .. L
    PROVE  \E s \in [1 .. Cardinality(F) -> F] : Ascending(s)
<1> DEFINE Below(n) == F \cap 1 .. n
           Listed(n) == \E m \in Nat : m = Cardinality(Below(n)) /\ \E s \in [1 .. m -> Below(n)] : Ascending(s)
           S == {n \in 0 .. L : Listed(n)}
<1>1. 0 \in S
  <2>1. Below(0) = {} /\ Cardinality({}) = 0 /\ [i \in 1 .. 0 |-> i] \in [1 .. 0 -> {}]
        /\ Ascending([i \in 1 .. 0 |-> i])
    BY FS_EmptySet DEF Ascending
  <2> HIDE DEF Below
  <2>2. \E s \in [1 .. 0 -> Below(0)] : Ascending(s)
    <3>1. [i \in 1 .. 0 |-> i] \in [1 .. 0 -> Below(0)]
      BY <2>1, Zenon
    <3> QED
      BY <2>1, <3>1, Zenon
  <2>3. 0 \in Nat /\ 0 = Cardinality(Below(0))
    BY <2>1
  <2>4. Listed(0)
    BY <2>2, <2>3, Zenon
  <2> HIDE DEF Listed
  <2> QED
    BY <2>4
<1>2. ASSUME NEW n \in 0 .. L, Listed(n), n < L
      PROVE  Listed(n + 1)
  <2>1. PICK m \in Nat : m = Cardinality(Below(n)) /\ \E s \in [1 .. m -> Below(n)] : Ascending(s)
    BY <1>2
  <2>2. PICK s \in [1 .. m -> Below(n)] : Ascending(s)
    BY <2>1
  <2>3. CASE n + 1 \notin F
    <3>1. \A i \in Below(n + 1) : i \in Below(n)
      <4>1. ASSUME NEW i \in F, i \in 1 .. n + 1, i # n + 1 PROVE i \in 1 .. n
        BY <4>1
      <4> QED
        BY <2>3, <4>1
    <3>2. \A i \in Below(n) : i \in Below(n + 1)
      OBVIOUS
    <3>3. Below(n + 1) = Below(n)
      BY <3>1, <3>2
    <3> QED
      BY <1>2, <3>3
  <2>4. CASE n + 1 \in F
    <3>1. Below(n + 1) = Below(n) \cup {n + 1} /\ n + 1 \notin Below(n)
      BY <2>4
    <3>2. IsFiniteSet(Below(n))
      <4>1. IsFiniteSet(1 .. n)
        BY FS_Interval
      <4> QED
        BY <4>1, FS_Subset
    <3>3. Cardinality(Below(n + 1)) = m + 1
      BY <2>1, <3>1, <3>2, FS_AddElement
    <3> DEFINE t == [i \in 1 .. m + 1 |-> IF i = m + 1 THEN n + 1 ELSE s[i]]
    <3>4. t \in [1 .. m + 1 -> Below(n + 1)]
      <4> HIDE DEF Below
      <4> QED
        BY <3>1
    <3>5. Ascending(t)
      <4> SUFFICES ASSUME NEW i \in 1 .. m + 1, NEW j \in 1 .. m + 1, i < j PROVE t[i] < t[j]
        BY DEF Ascending
      <4>1. i # m + 1 /\ i \in 1 .. m /\ s[i] \in 1 .. n
        OBVIOUS
      <4>2. CASE j = m + 1
        BY <4>1, <4>2
      <4>3. CASE j # m + 1
        <5>1. j \in 1 .. m
          BY <4>3
        <5> QED
          BY <2>2, <4>1, <4>3, <5>1 DEF Ascending
      <4> QED
        BY <4>2, <4>3
    <3> HIDE DEF t, Below
    <3>6. m + 1 \in Nat
      OBVIOUS
    <3> QED
      BY <3>3, <3>4, <3>5, <3>6
  <2> QED
    BY <2>3, <2>4
<1> HIDE DEF Listed
<1>3. \A n \in 0 .. L : n \in S /\ n < L => n + 1 \in S
  BY <1>2
<1> HIDE DEF S
<1>4. \A n \in 0 .. L : n \in S
  BY <1>1, <1>3, UpTo
<1>5. L \in S /\ Below(L) = F
  <2>1. L \in 0 .. L
    OBVIOUS
  <2>2. Below(L) = F
    OBVIOUS
  <2> QED
    BY <1>4, <2>1, <2>2
<1>6. Listed(L)
  BY <1>5 DEF S
<1> HIDE DEF Below
<1> QED
  BY <1>5, <1>6 DEF Listed

\* FactorPositions has the factors in order, and all of them.
LEMMA FactorsListed ==
    ASSUME NEW c, NEW rule, NEW L \in Nat, DOMAIN rule.rhs = 1 .. L
    PROVE  LET f == FactorPositions(c, rule)
               m == Cardinality(FactorsOf(c, rule))
           IN  /\ m \in Nat /\ f \in [1 .. m -> FactorsOf(c, rule)] /\ Ascending(f)
               /\ \A i \in FactorsOf(c, rule) : \E q \in 1 .. m : f[q] = i
<1>1. PICK F, m, f : F = FactorsOf(c, rule) /\ m = Cardinality(F) /\ f = FactorPositions(c, rule)
  OBVIOUS
<1>2. F \subseteq 1 .. L
  BY <1>1 DEF FactorsOf
<1>3. IsFiniteSet(F) /\ m \in Nat
  <2>1. IsFiniteSet(1 .. L)
    BY FS_Interval
  <2> QED
    BY <1>1, <1>2, <2>1, FS_Subset, FS_CardinalityType
<1>4. f = CHOOSE s \in [1 .. m -> F] : Ascending(s)
  BY <1>1, Zenon DEF FactorPositions, FactorsOf, Ascending
<1>5. \E s \in [1 .. m -> F] : Ascending(s)
  BY <1>1, <1>2, Enumeration
<1>6. f \in [1 .. m -> F] /\ Ascending(f)
  BY <1>4, <1>5
<1>7. f \in Injection(1 .. m, F)
  <2>1. ASSUME NEW i \in 1 .. m, NEW j \in 1 .. m, f[i] = f[j] PROVE i = j
    <3>1. f[i] \in Nat /\ f[j] \in Nat
      <4>1. f[i] \in F /\ f[j] \in F
        BY <1>6, Zenon
      <4>2. f[i] \in 1 .. L /\ f[j] \in 1 .. L
        BY <1>2, <4>1, Zenon
      <4> QED
        BY <4>2
    <3>2. ~ (i < j) /\ ~ (j < i)
      BY <1>6, <2>1, <3>1 DEF Ascending
    <3> QED
      BY <3>2
  <2> QED
    BY <1>6, <2>1 DEF Injection, IsInjective
<1>8. IsFiniteSet(1 .. m) /\ Cardinality(1 .. m) = m
  BY <1>3, FS_Interval
<1>9. f \in Surjection(1 .. m, F)
  BY <1>1, <1>3, <1>7, <1>8, FS_Injection
<1>10. \A i \in F : \E q \in 1 .. m : f[q] = i
  BY <1>9 DEF Surjection
<1> QED
  BY <1>1, <1>3, <1>6, <1>10

\* The last of the numbers below a bound.
LEMMA LastOf ==
    ASSUME NEW L \in Nat, NEW F, F \subseteq 1 .. L, F # {}
    PROVE  \E i \in F : \A j \in F : j <= i
<1> DEFINE Row(n) == F \cap 1 .. n # {} => \E i \in F \cap 1 .. n : \A j \in F \cap 1 .. n : j <= i
           S == {n \in 0 .. L : Row(n)}
<1>1. 0 \in S
  OBVIOUS
<1>2. ASSUME NEW n \in 0 .. L, Row(n), n < L
      PROVE  Row(n + 1)
  <2>1. CASE n + 1 \in F
    <3>1. n + 1 \in F \cap 1 .. n + 1 /\ \A j \in F \cap 1 .. n + 1 : j <= n + 1
      BY <2>1
    <3> QED
      BY <3>1
  <2>2. CASE n + 1 \notin F
    <3>1. \A j \in F : j \in 1 .. n + 1 <=> j \in 1 .. n
      BY <2>2
    <3>2. F \cap 1 .. n + 1 = F \cap 1 .. n
      BY <3>1
    <3> QED
      BY <1>2, <3>2
  <2> QED
    BY <2>1, <2>2
<1> HIDE DEF Row
<1>3. \A n \in 0 .. L : n \in S /\ n < L => n + 1 \in S
  BY <1>2
<1> HIDE DEF S
<1>4. \A n \in 0 .. L : n \in S
  BY <1>1, <1>3, UpTo
<1>5. L \in 0 .. L
  OBVIOUS
<1>6. Row(L)
  BY <1>4, <1>5 DEF S
<1>7. F \cap 1 .. L = F
  OBVIOUS
<1> QED
  BY <1>6, <1>7 DEF Row

\* The rule r, of L symbols with m factors at f, and its suffix of what may be nulled.
IsFactored(g, c, r, L, m, f, suffix) ==
    /\ L \in Nat /\ Len(g.rules[r].rhs) = L /\ DOMAIN g.rules[r].rhs = 1 .. L
    /\ m \in Nat /\ Len(f) = m /\ f = FactorPositions(c, g.rules[r])
    /\ f \in [1 .. m -> FactorsOf(c, g.rules[r])] /\ Ascending(f)
    /\ \A i \in FactorsOf(c, g.rules[r]) : \E q \in 1 .. m : f[q] = i
    /\ suffix = nullable_suffix(c, g.rules[r]) /\ suffix \in 0 .. L
    /\ suffix # 0 => g.rules[r].rhs[suffix] \notin c.nullable \cup c.nulling
    /\ \A i \in 1 .. L : g.rules[r].rhs[i] \notin c.nullable \cup c.nulling => i <= suffix

\* The factors of a rule of any length can be listed.
LEMMA RuleIsFactored ==
    ASSUME NEW g, NEW c, NEW r, g.rules[r].rhs \in Seq(Nat)
    PROVE  \E L, m, f, suffix : IsFactored(g, c, r, L, m, f, suffix)
<1>1. PICK rule, rhs : rule = g.rules[r] /\ rhs = rule.rhs
  OBVIOUS
<1>2. PICK L \in Nat : L = Len(rhs)
  <2>1. rhs \in Seq(Nat)
    BY <1>1
  <2> QED
    BY <2>1
<1>3. DOMAIN rhs = 1 .. L
  <2>1. rhs \in Seq(Nat)
    BY <1>1
  <2> QED
    BY <1>2, <2>1
<1>4. PICK m, f : m = Cardinality(FactorsOf(c, rule)) /\ f = FactorPositions(c, rule)
  OBVIOUS
<1>5. /\ m \in Nat /\ f \in [1 .. m -> FactorsOf(c, rule)] /\ Ascending(f)
      /\ \A i \in FactorsOf(c, rule) : \E q \in 1 .. m : f[q] = i
  BY <1>1, <1>3, <1>4, FactorsListed
<1>6. Len(f) = m
  <2>1. f \in Seq(FactorsOf(c, rule))
    BY <1>5
  <2> QED
    BY <1>5, <2>1
<1>7. PICK suffix : suffix = nullable_suffix(c, rule)
  OBVIOUS
<1> DEFINE P == {i \in 1 .. L : rhs[i] \notin c.nullable \cup c.nulling}
<1>8. suffix = IF P = {} THEN 0 ELSE CHOOSE i \in P : \A j \in P : j <= i
  <2>1. P = {i \in DOMAIN rule.rhs : rule.rhs[i] \notin c.nullable \cup c.nulling}
    BY <1>1, <1>3
  <2> HIDE DEF P
  <2> QED
    BY <1>7, <2>1 DEF nullable_suffix
<1>9. P \subseteq 1 .. L
  OBVIOUS
<1>10. /\ suffix \in 0 .. L
       /\ suffix # 0 => rhs[suffix] \notin c.nullable \cup c.nulling
       /\ \A i \in 1 .. L : rhs[i] \notin c.nullable \cup c.nulling => i <= suffix
  <2>1. CASE P = {}
    BY <1>8, <2>1
  <2>2. CASE P # {}
    <3>1. \E i \in P : \A j \in P : j <= i
      <4> HIDE DEF P
      <4> QED
        BY <1>9, <2>2, LastOf
    <3>2. suffix \in P /\ \A j \in P : j <= suffix
      <4> HIDE DEF P
      <4> QED
        BY <1>8, <2>2, <3>1
    <3> QED
      BY <3>2
  <2> QED
    BY <2>1, <2>2
<1>11. IsFactored(g, c, r, L, m, f, suffix)
  BY <1>1, <1>2, <1>3, <1>4, <1>5, <1>6, <1>7, <1>10 DEF IsFactored
<1> QED
  BY <1>11

\* Where the factors are.
LEMMA FactorBounds ==
    ASSUME NEW g, NEW c, NEW r, NEW L, NEW m, NEW f, NEW suffix, IsFactored(g, c, r, L, m, f, suffix)
    PROVE  /\ L \in Nat /\ m \in Nat /\ suffix \in 0 .. L
           /\ \A k \in 1 .. m : /\ f[k] \in 1 .. L /\ g.rules[r].rhs[f[k]] \in c.nullable
                                /\ g.rules[r].rhs[f[k]] \notin c.nulling
           /\ \A j, k \in 1 .. m : j < k => f[j] < f[k]
           /\ \A i \in 1 .. L : g.rules[r].rhs[i] \in c.nullable /\ g.rules[r].rhs[i] \notin c.nulling
                                   => \E q \in 1 .. m : f[q] = i
           /\ suffix # 0 => g.rules[r].rhs[suffix] \notin c.nullable \cup c.nulling
           /\ \A i \in 1 .. L : g.rules[r].rhs[i] \notin c.nullable \cup c.nulling => i <= suffix
<1>1. /\ L \in Nat /\ m \in Nat /\ suffix \in 0 .. L
      /\ suffix # 0 => g.rules[r].rhs[suffix] \notin c.nullable \cup c.nulling
      /\ \A i \in 1 .. L : g.rules[r].rhs[i] \notin c.nullable \cup c.nulling => i <= suffix
  BY DEF IsFactored
<1>2. \A k \in 1 .. m : /\ f[k] \in 1 .. L /\ g.rules[r].rhs[f[k]] \in c.nullable
                        /\ g.rules[r].rhs[f[k]] \notin c.nulling
  BY DEF IsFactored, FactorsOf
<1>3. \A j, k \in 1 .. m : j < k => f[j] < f[k]
  BY DEF IsFactored, Ascending
<1>4. \A i \in 1 .. L : g.rules[r].rhs[i] \in c.nullable /\ g.rules[r].rhs[i] \notin c.nulling
                                   => \E q \in 1 .. m : f[q] = i
  BY DEF IsFactored, FactorsOf
<1> QED
  BY <1>1, <1>2, <1>3, <1>4

-----------------------------------------------------------------------------
(* The pieces of a rule *)

\* The rules that may be made of pieces of the rule r, and the sequences of them.
FinalRules(g, c, r, L) ==
    {FinalIRL(g, c, r, s, nulled, q) : s \in 1 .. L, nulled \in SUBSET (1 .. L), q \in 0 .. 3}
ContinuedRules(g, c, r, L) ==
    {ContinuedIRL(g, c, r, s, e, nulled, q) :
        s \in 1 .. L, e \in 1 .. L, nulled \in SUBSET (1 .. L), q \in 0 .. 3}
PieceRules(g, c, r, L) == FinalRules(g, c, r, L) \cup ContinuedRules(g, c, r, L)

\* Each variant is one of the rules of pieces.
LEMMA FinalIsPiece ==
    ASSUME NEW g, NEW c, NEW r, NEW L, NEW s \in 1 .. L, NEW nulled, nulled \subseteq 1 .. L, NEW q \in 0 .. 3
    PROVE  FinalIRL(g, c, r, s, nulled, q) \in PieceRules(g, c, r, L)
<1>1. nulled \in SUBSET (1 .. L)
  OBVIOUS
<1>2. FinalIRL(g, c, r, s, nulled, q) \in FinalRules(g, c, r, L)
  BY <1>1 DEF FinalRules
<1> QED
  BY <1>2 DEF PieceRules

\* So is each variant that goes on.
LEMMA ContinuedIsPiece ==
    ASSUME NEW g, NEW c, NEW r, NEW L, NEW s \in 1 .. L, NEW e \in 1 .. L,
           NEW nulled, nulled \subseteq 1 .. L, NEW q \in 0 .. 3
    PROVE  ContinuedIRL(g, c, r, s, e, nulled, q) \in PieceRules(g, c, r, L)
<1>1. nulled \in SUBSET (1 .. L)
  OBVIOUS
<1>2. ContinuedIRL(g, c, r, s, e, nulled, q) \in ContinuedRules(g, c, r, L)
  BY <1>1 DEF ContinuedRules
<1> QED
  BY <1>2 DEF PieceRules

\* The rules of a piece itself, in each of the cases of PiecesFrom, and the piece
\* that follows it.
OwnFinal(g, c, r, s, suffix, all_nulled) ==
    IF NNAllowed(s, suffix) THEN {FinalIRL(g, c, r, s, all_nulled, 0)} ELSE {}
OwnRules1(g, c, r, L, s, first, second, suffix) ==
    {ContinuedIRL(g, c, r, s, second - 1, {}, 3), FinalIRL(g, c, r, s, second .. L, 2),
     ContinuedIRL(g, c, r, s, second - 1, {first}, 1)}
    \cup OwnFinal(g, c, r, s, suffix, {first} \cup second .. L)
OwnRules2(g, c, r, s, first, second) ==
    {ContinuedIRL(g, c, r, s, second, {}, 3), ContinuedIRL(g, c, r, s, second, {second}, 2),
     ContinuedIRL(g, c, r, s, second, {first}, 1), ContinuedIRL(g, c, r, s, second, {first, second}, 0)}
OwnRules3(g, c, r, s, first, second, suffix) ==
    {FinalIRL(g, c, r, s, {}, 3), FinalIRL(g, c, r, s, {second}, 2), FinalIRL(g, c, r, s, {first}, 1)}
    \cup OwnFinal(g, c, r, s, suffix, {first, second})
OwnRules4(g, c, r, s, first, suffix) ==
    {FinalIRL(g, c, r, s, {}, 3)} \cup OwnFinal(g, c, r, s, suffix, {first})

\* What PiecesFrom makes.
PiecesMade(g, c, r, L, m, f, suffix, k, s, h, made) ==
    /\ m - k >= 2 /\ f[k + 1] > suffix =>
         ToSet(made) = OwnRules1(g, c, r, L, s, f[k], f[k + 1], suffix) \cup ToSet(h[<<k + 1, f[k + 1]>>])
    /\ m - k >= 2 /\ ~ (f[k + 1] > suffix) =>
         ToSet(made) = OwnRules2(g, c, r, s, f[k], f[k + 1]) \cup ToSet(h[<<k + 2, f[k + 1] + 1>>])
    /\ m - k = 1 => ToSet(made) = OwnRules3(g, c, r, s, f[k], f[k + 1], suffix)
    /\ m = k => ToSet(made) = OwnRules4(g, c, r, s, f[k], suffix)

\* PiecesFrom gives the rules of the piece, by the four cases of the CHAF loop, and
\* those of what follows.
LEMMA PiecesFromParts ==
    ASSUME NEW g, NEW c, NEW r, NEW L, NEW m, NEW f, NEW suffix, IsFactored(g, c, r, L, m, f, suffix),
           NEW h \in [(1 .. m) \X (1 .. L) -> Seq(PieceRules(g, c, r, L))],
           NEW k \in 1 .. m, NEW s \in 1 .. L
    PROVE  LET made == PiecesFrom(g, c, r, f, k, s, h)
           IN  /\ made \in Seq(PieceRules(g, c, r, L))
               /\ PiecesMade(g, c, r, L, m, f, suffix, k, s, h, made)
<1> DEFINE X == PieceRules(g, c, r, L)
           made == PiecesFrom(g, c, r, f, k, s, h)
           F(nulled, q) == <<FinalIRL(g, c, r, s, nulled, q)>>
           U(nulled) == IF NNAllowed(s, suffix) THEN F(nulled, 0) ELSE <<>>
           C(e, nulled, q) == <<ContinuedIRL(g, c, r, s, e, nulled, q)>>
<1>1. /\ L \in Nat /\ m \in Nat /\ suffix \in 0 .. L /\ Len(f) = m /\ Len(g.rules[r].rhs) = L
      /\ suffix = nullable_suffix(c, g.rules[r])
  BY DEF IsFactored
<1>2. f[k] \in 1 .. L /\ (m - k >= 1 => k + 1 \in 1 .. m /\ f[k + 1] \in 1 .. L /\ f[k + 1] > f[k])
  <2>1. \A j \in 1 .. m : f[j] \in 1 .. L
    BY FactorBounds
  <2>2. m - k >= 1 => k + 1 \in 1 .. m /\ k < k + 1
    BY <1>1
  <2>3. m - k >= 1 => f[k] < f[k + 1]
    BY <2>2, FactorBounds
  <2> QED
    BY <2>1, <2>2, <2>3
<1>3. m - k >= 2 => k + 2 \in 1 .. m /\ f[k + 1] + 1 \in 1 .. L
  <2> SUFFICES ASSUME m - k >= 2 PROVE k + 2 \in 1 .. m /\ f[k + 1] + 1 \in 1 .. L
    OBVIOUS
  <2>1. k + 2 \in 1 .. m /\ k + 1 \in 1 .. m /\ k + 1 < k + 2
    BY <1>1
  <2>2. f[k + 1] < f[k + 2] /\ f[k + 1] \in 1 .. L /\ f[k + 2] \in 1 .. L
    BY <2>1, FactorBounds
  <2> QED
    BY <1>1, <2>1, <2>2
<1>4. made = CASE m - k >= 2 /\ f[k + 1] > suffix ->
                    C(f[k + 1] - 1, {}, 3) \o F(f[k + 1] .. L, 2) \o C(f[k + 1] - 1, {f[k]}, 1)
                    \o U({f[k]} \cup f[k + 1] .. L) \o h[<<k + 1, f[k + 1]>>]
               [] m - k >= 2 /\ ~ (f[k + 1] > suffix) ->
                    C(f[k + 1], {}, 3) \o C(f[k + 1], {f[k + 1]}, 2) \o C(f[k + 1], {f[k]}, 1)
                    \o C(f[k + 1], {f[k], f[k + 1]}, 0) \o h[<<k + 2, f[k + 1] + 1>>]
               [] m - k = 1 ->
                    F({}, 3) \o F({f[k + 1]}, 2) \o F({f[k]}, 1) \o U({f[k], f[k + 1]})
               [] OTHER -> F({}, 3) \o U({f[k]})
  BY <1>1, Zenon DEF PiecesFrom, NullableFrom
<1>5. ASSUME NEW nulled, nulled \subseteq 1 .. L, NEW q \in 0 .. 3
      PROVE  /\ F(nulled, q) \in Seq(X) /\ ToSet(F(nulled, q)) = {FinalIRL(g, c, r, s, nulled, q)}
             /\ U(nulled) \in Seq(X) /\ ToSet(U(nulled)) = OwnFinal(g, c, r, s, suffix, nulled)
  <2>1. FinalIRL(g, c, r, s, nulled, q) \in X /\ FinalIRL(g, c, r, s, nulled, 0) \in X
    <3>1. 0 \in 0 .. 3
      OBVIOUS
    <3> QED
      BY <1>5, <3>1, FinalIsPiece
  <2> HIDE DEF X
  <2> QED
    BY <2>1, SingleParts DEF OwnFinal
<1>6. ASSUME NEW e \in 1 .. L, NEW nulled, nulled \subseteq 1 .. L, NEW q \in 0 .. 3
      PROVE  C(e, nulled, q) \in Seq(X) /\ ToSet(C(e, nulled, q)) = {ContinuedIRL(g, c, r, s, e, nulled, q)}
  <2>1. ContinuedIRL(g, c, r, s, e, nulled, q) \in X
    BY <1>6, ContinuedIsPiece
  <2> HIDE DEF X
  <2> QED
    BY <2>1, SingleParts
<1>7. \A at \in (1 .. m) \X (1 .. L) : h[at] \in Seq(X)
  OBVIOUS
<1>13. 0 \in 0 .. 3 /\ 1 \in 0 .. 3 /\ 2 \in 0 .. 3 /\ 3 \in 0 .. 3 /\ {} \subseteq 1 .. L
  OBVIOUS
<1> HIDE DEF X, F, U, C, made
<1>8. CASE m - k >= 2 /\ f[k + 1] > suffix
  <2>1. PICK first, second, P1, P2, P3, P4, P5 :
           /\ first = f[k] /\ second = f[k + 1]
           /\ P1 = C(second - 1, {}, 3) /\ P2 = F(second .. L, 2) /\ P3 = C(second - 1, {first}, 1)
           /\ P4 = U({first} \cup second .. L) /\ P5 = h[<<k + 1, second>>]
    OBVIOUS
  <2>14. m # k /\ m - k # 1
    BY <1>1, <1>8
  <2>2. made = P1 \o P2 \o P3 \o P4 \o P5
    BY <1>4, <1>8, <2>1, <2>14, Zenon
  <2>3. /\ first \in 1 .. L /\ second \in 1 .. L /\ second > first /\ second - 1 \in 1 .. L
        /\ k + 1 \in 1 .. m /\ second .. L \subseteq 1 .. L /\ {first} \subseteq 1 .. L
        /\ {first} \cup second .. L \subseteq 1 .. L
    <3>1. m - k >= 1
      BY <1>1, <1>8
    <3> QED
      BY <1>1, <1>2, <2>1, <3>1
  <2>4. P1 \in Seq(X) /\ ToSet(P1) = {ContinuedIRL(g, c, r, s, second - 1, {}, 3)}
    BY <1>6, <1>13, <2>1, <2>3, Zenon
  <2>5. P2 \in Seq(X) /\ ToSet(P2) = {FinalIRL(g, c, r, s, second .. L, 2)}
    BY <1>5, <1>13, <2>1, <2>3, Zenon
  <2>6. P3 \in Seq(X) /\ ToSet(P3) = {ContinuedIRL(g, c, r, s, second - 1, {first}, 1)}
    BY <1>6, <1>13, <2>1, <2>3, Zenon
  <2>7. P4 \in Seq(X) /\ ToSet(P4) = OwnFinal(g, c, r, s, suffix, {first} \cup second .. L)
    BY <1>5, <1>13, <2>1, <2>3, Zenon
  <2>8. P5 \in Seq(X)
    BY <1>7, <2>1, <2>3
  <2>12. /\ made \in Seq(X)
         /\ ToSet(made) = ToSet(P1) \cup ToSet(P2) \cup ToSet(P3) \cup ToSet(P4) \cup ToSet(P5)
    <3>1. PICK Q1 : Q1 = P1 \o P2
      OBVIOUS
    <3>2. PICK Q2 : Q2 = Q1 \o P3
      OBVIOUS
    <3>3. PICK Q3 : Q3 = Q2 \o P4
      OBVIOUS
    <3>4. made = Q3 \o P5
      BY <2>2, <3>1, <3>2, <3>3, Zenon
    <3>5. Q1 \in Seq(X) /\ ToSet(Q1) = ToSet(P1) \cup ToSet(P2)
      <4>1. P1 \in Seq(X) /\ P2 \in Seq(X)
        BY <2>4, <2>5
      <4> QED
        BY <3>1, <4>1, ConcatParts
    <3>6. Q2 \in Seq(X) /\ ToSet(Q2) = ToSet(Q1) \cup ToSet(P3)
      <4>1. Q1 \in Seq(X) /\ P3 \in Seq(X)
        BY <3>5, <2>6
      <4> QED
        BY <3>2, <4>1, ConcatParts
    <3>7. Q3 \in Seq(X) /\ ToSet(Q3) = ToSet(Q2) \cup ToSet(P4)
      <4>1. Q2 \in Seq(X) /\ P4 \in Seq(X)
        BY <3>6, <2>7
      <4> QED
        BY <3>3, <4>1, ConcatParts
    <3>8. made \in Seq(X) /\ ToSet(made) = ToSet(Q3) \cup ToSet(P5)
      <4>1. Q3 \in Seq(X) /\ P5 \in Seq(X)
        BY <3>7, <2>8
      <4> QED
        BY <3>4, <4>1, ConcatParts
    <3> QED
      BY <3>5, <3>6, <3>7, <3>8
  <2>13. ToSet(made) = OwnRules1(g, c, r, L, s, first, second, suffix) \cup ToSet(P5)
    BY <2>4, <2>5, <2>6, <2>7, <2>12 DEF OwnRules1
  <2> QED
    BY <1>8, <2>1, <2>12, <2>13, <2>14 DEF PiecesMade, X, made
<1>9. CASE m - k >= 2 /\ ~ (f[k + 1] > suffix)
  <2>1. PICK first, second, P1, P2, P3, P4, P5 :
           /\ first = f[k] /\ second = f[k + 1]
           /\ P1 = C(second, {}, 3) /\ P2 = C(second, {second}, 2) /\ P3 = C(second, {first}, 1)
           /\ P4 = C(second, {first, second}, 0) /\ P5 = h[<<k + 2, second + 1>>]
    OBVIOUS
  <2>15. PICK both : both = {first, second}
    OBVIOUS
  <2>14. m # k /\ m - k # 1
    BY <1>1, <1>9
  <2>2. made = P1 \o P2 \o P3 \o P4 \o P5
    BY <1>4, <1>9, <2>1, <2>14, Zenon
  <2>3. /\ first \in 1 .. L /\ second \in 1 .. L /\ {first} \subseteq 1 .. L
        /\ {second} \subseteq 1 .. L /\ {first, second} \subseteq 1 .. L
        /\ k + 2 \in 1 .. m /\ second + 1 \in 1 .. L
    <3>1. m - k >= 1
      BY <1>1, <1>9
    <3> QED
      BY <1>1, <1>2, <1>3, <1>9, <2>1, <3>1
  <2>4. P1 \in Seq(X) /\ ToSet(P1) = {ContinuedIRL(g, c, r, s, second, {}, 3)}
    BY <1>6, <1>13, <2>1, <2>3, Zenon
  <2>5. P2 \in Seq(X) /\ ToSet(P2) = {ContinuedIRL(g, c, r, s, second, {second}, 2)}
    BY <1>6, <1>13, <2>1, <2>3, Zenon
  <2>6. P3 \in Seq(X) /\ ToSet(P3) = {ContinuedIRL(g, c, r, s, second, {first}, 1)}
    BY <1>6, <1>13, <2>1, <2>3, Zenon
  <2>7. P4 \in Seq(X) /\ ToSet(P4) = {ContinuedIRL(g, c, r, s, second, {first, second}, 0)}
    <3>1. both \subseteq 1 .. L /\ P4 = C(second, both, 0)
      BY <2>1, <2>3, <2>15
    <3>2. P4 \in Seq(X) /\ ToSet(P4) = {ContinuedIRL(g, c, r, s, second, both, 0)}
      BY <1>6, <1>13, <2>3, <3>1, Zenon
    <3> QED
      BY <2>15, <3>2
  <2>8. P5 \in Seq(X)
    BY <1>7, <2>1, <2>3
  <2>12. /\ made \in Seq(X)
         /\ ToSet(made) = ToSet(P1) \cup ToSet(P2) \cup ToSet(P3) \cup ToSet(P4) \cup ToSet(P5)
    <3>1. PICK Q1 : Q1 = P1 \o P2
      OBVIOUS
    <3>2. PICK Q2 : Q2 = Q1 \o P3
      OBVIOUS
    <3>3. PICK Q3 : Q3 = Q2 \o P4
      OBVIOUS
    <3>4. made = Q3 \o P5
      BY <2>2, <3>1, <3>2, <3>3, Zenon
    <3>5. Q1 \in Seq(X) /\ ToSet(Q1) = ToSet(P1) \cup ToSet(P2)
      <4>1. P1 \in Seq(X) /\ P2 \in Seq(X)
        BY <2>4, <2>5
      <4> QED
        BY <3>1, <4>1, ConcatParts
    <3>6. Q2 \in Seq(X) /\ ToSet(Q2) = ToSet(Q1) \cup ToSet(P3)
      <4>1. Q1 \in Seq(X) /\ P3 \in Seq(X)
        BY <3>5, <2>6
      <4> QED
        BY <3>2, <4>1, ConcatParts
    <3>7. Q3 \in Seq(X) /\ ToSet(Q3) = ToSet(Q2) \cup ToSet(P4)
      <4>1. Q2 \in Seq(X) /\ P4 \in Seq(X)
        BY <3>6, <2>7
      <4> QED
        BY <3>3, <4>1, ConcatParts
    <3>8. made \in Seq(X) /\ ToSet(made) = ToSet(Q3) \cup ToSet(P5)
      <4>1. Q3 \in Seq(X) /\ P5 \in Seq(X)
        BY <3>7, <2>8
      <4> QED
        BY <3>4, <4>1, ConcatParts
    <3> QED
      BY <3>5, <3>6, <3>7, <3>8
  <2>13. ToSet(made) = OwnRules2(g, c, r, s, first, second) \cup ToSet(P5)
    BY <2>4, <2>5, <2>6, <2>7, <2>12 DEF OwnRules2
  <2> QED
    BY <1>9, <2>1, <2>12, <2>13, <2>14 DEF PiecesMade, X, made
<1>10. CASE m - k = 1
  <2>1. PICK first, second, P1, P2, P3, P4 :
           /\ first = f[k] /\ second = f[k + 1]
           /\ P1 = F({}, 3) /\ P2 = F({second}, 2) /\ P3 = F({first}, 1) /\ P4 = U({first, second})
    OBVIOUS
  <2>2. made = P1 \o P2 \o P3 \o P4
    <3>1. ~ (m - k >= 2)
      BY <1>1, <1>10
    <3> QED
      BY <1>4, <1>10, <2>1, <3>1, Zenon
  <2>3. /\ first \in 1 .. L /\ second \in 1 .. L /\ {first} \subseteq 1 .. L
        /\ {second} \subseteq 1 .. L /\ {first, second} \subseteq 1 .. L
    <3>1. m - k >= 1
      BY <1>1, <1>10
    <3> QED
      BY <1>1, <1>2, <2>1, <3>1
  <2>4. P1 \in Seq(X) /\ ToSet(P1) = {FinalIRL(g, c, r, s, {}, 3)}
    BY <1>5, <1>13, <2>1, Zenon
  <2>5. P2 \in Seq(X) /\ ToSet(P2) = {FinalIRL(g, c, r, s, {second}, 2)}
    BY <1>5, <1>13, <2>1, <2>3, Zenon
  <2>6. P3 \in Seq(X) /\ ToSet(P3) = {FinalIRL(g, c, r, s, {first}, 1)}
    BY <1>5, <1>13, <2>1, <2>3, Zenon
  <2>7. P4 \in Seq(X) /\ ToSet(P4) = OwnFinal(g, c, r, s, suffix, {first, second})
    BY <1>5, <1>13, <2>1, <2>3, Zenon
  <2>10. /\ made \in Seq(X)
         /\ ToSet(made) = ToSet(P1) \cup ToSet(P2) \cup ToSet(P3) \cup ToSet(P4)
    <3>1. PICK Q1 : Q1 = P1 \o P2
      OBVIOUS
    <3>2. PICK Q2 : Q2 = Q1 \o P3
      OBVIOUS
    <3>3. made = Q2 \o P4
      BY <2>2, <3>1, <3>2, Zenon
    <3>4. Q1 \in Seq(X) /\ ToSet(Q1) = ToSet(P1) \cup ToSet(P2)
      <4>1. P1 \in Seq(X) /\ P2 \in Seq(X)
        BY <2>4, <2>5
      <4> QED
        BY <3>1, <4>1, ConcatParts
    <3>5. Q2 \in Seq(X) /\ ToSet(Q2) = ToSet(Q1) \cup ToSet(P3)
      <4>1. Q1 \in Seq(X) /\ P3 \in Seq(X)
        BY <3>4, <2>6
      <4> QED
        BY <3>2, <4>1, ConcatParts
    <3>6. made \in Seq(X) /\ ToSet(made) = ToSet(Q2) \cup ToSet(P4)
      <4>1. Q2 \in Seq(X) /\ P4 \in Seq(X)
        BY <3>5, <2>7
      <4> QED
        BY <3>3, <4>1, ConcatParts
    <3> QED
      BY <3>4, <3>5, <3>6
  <2>11. ToSet(made) = OwnRules3(g, c, r, s, first, second, suffix)
    BY <2>4, <2>5, <2>6, <2>7, <2>10 DEF OwnRules3
  <2>12. m # k /\ ~ (m - k >= 2)
    BY <1>1, <1>10
  <2> QED
    BY <1>10, <2>1, <2>10, <2>11, <2>12 DEF PiecesMade, X, made
<1>11. CASE m = k
  <2>1. PICK first, P1, P2 : first = f[k] /\ P1 = F({}, 3) /\ P2 = U({first})
    OBVIOUS
  <2>2. ~ (m - k >= 2) /\ m - k # 1
    BY <1>1, <1>11
  <2>8. {first} \subseteq 1 .. L
    BY <1>2, <2>1
  <2>3. made = P1 \o P2
    BY <1>4, <2>1, <2>2, Zenon
  <2>4. P1 \in Seq(X) /\ ToSet(P1) = {FinalIRL(g, c, r, s, {}, 3)}
    BY <1>5, <1>13, <2>1, Zenon
  <2>5. P2 \in Seq(X) /\ ToSet(P2) = OwnFinal(g, c, r, s, suffix, {first})
    BY <1>2, <1>5, <1>13, <2>1, <2>8, Zenon
  <2>6. made \in Seq(X) /\ ToSet(made) = ToSet(P1) \cup ToSet(P2)
    BY <2>3, <2>4, <2>5, ConcatParts
  <2>7. ToSet(made) = OwnRules4(g, c, r, s, first, suffix)
    BY <2>4, <2>5, <2>6 DEF OwnRules4
  <2> QED
    BY <1>11, <2>1, <2>2, <2>6, <2>7 DEF PiecesMade, X, made
<1>12. m - k >= 2 \/ m - k = 1 \/ m = k
  BY <1>1
<1> QED
  BY <1>8, <1>9, <1>10, <1>11, <1>12

\* PiecesFrom looks at later factors only.
AgreeAfter(m, L, k, h1, h2) == \A at \in (1 .. m) \X (1 .. L) : at[1] > k => h1[at] = h2[at]

\* Two accounts of the pieces that agree on later factors give the same pieces.
LEMMA PiecesFromLater ==
    ASSUME NEW g, NEW c, NEW r, NEW L, NEW m, NEW f, NEW suffix, IsFactored(g, c, r, L, m, f, suffix),
           NEW h1, NEW h2, NEW k \in 1 .. m, NEW s \in 1 .. L,
           AgreeAfter(m, L, k, h1, h2)
    PROVE  PiecesFrom(g, c, r, f, k, s, h1) = PiecesFrom(g, c, r, f, k, s, h2)
<1>1. L \in Nat /\ m \in Nat /\ Len(f) = m
  BY DEF IsFactored
<1>2. ASSUME m - k >= 2 PROVE h1[<<k + 1, f[k + 1]>>] = h2[<<k + 1, f[k + 1]>>]
  <2>1. k + 1 \in 1 .. m /\ k + 1 > k
    BY <1>1, <1>2
  <2>2. <<k + 1, f[k + 1]>> \in (1 .. m) \X (1 .. L)
    BY <2>1, FactorBounds
  <2>3. \A at \in (1 .. m) \X (1 .. L) : at = <<k + 1, f[k + 1]>> => at[1] > k
    BY <2>1
  <2> QED
    BY <2>2, <2>3 DEF AgreeAfter
<1>3. ASSUME m - k >= 2 PROVE h1[<<k + 2, f[k + 1] + 1>>] = h2[<<k + 2, f[k + 1] + 1>>]
  <2>1. k + 1 \in 1 .. m /\ k + 2 \in 1 .. m /\ k + 2 > k /\ k + 1 < k + 2
    BY <1>1, <1>3
  <2>2. f[k + 1] \in 1 .. L /\ f[k + 2] \in 1 .. L /\ f[k + 1] < f[k + 2]
    BY <2>1, FactorBounds
  <2>3. f[k + 1] + 1 \in 1 .. L
    BY <1>1, <2>2
  <2>4. <<k + 2, f[k + 1] + 1>> \in (1 .. m) \X (1 .. L)
    BY <2>1, <2>3
  <2>5. \A at \in (1 .. m) \X (1 .. L) : at = <<k + 2, f[k + 1] + 1>> => at[1] > k
    BY <2>1
  <2> QED
    BY <2>4, <2>5 DEF AgreeAfter
<1>4. CASE m - k >= 2
  <2>1. /\ h1[<<k + 1, f[k + 1]>>] = h2[<<k + 1, f[k + 1]>>]
        /\ h1[<<k + 2, f[k + 1] + 1>>] = h2[<<k + 2, f[k + 1] + 1>>]
    BY <1>2, <1>3, <1>4
  <2> QED
    BY <2>1, Zenon DEF PiecesFrom
<1>5. CASE ~ (m - k >= 2)
  <2>1. ~ (Len(f) - k >= 2)
    BY <1>1, <1>5
  <2> QED
    BY <2>1, Zenon DEF PiecesFrom
<1> QED
  BY <1>4, <1>5

\* The recursion of PieceIRLs.
IsPieces(g, c, r, L, m, f, h) ==
    /\ h \in [(1 .. m) \X (1 .. L) -> Seq(PieceRules(g, c, r, L))]
    /\ \A at \in (1 .. m) \X (1 .. L) : h[at] = PiecesFrom(g, c, r, f, at[1], at[2], h)
    /\ PieceIRLs(g, c, r) = h[<<1, 1>>]

\* The pieces of a rule, by recursion from the last factor to the first.
LEMMA PieceIRLsParts ==
    ASSUME NEW g, NEW c, NEW r, NEW L, NEW m, NEW f, NEW suffix, IsFactored(g, c, r, L, m, f, suffix),
           m # 0
    PROVE  \E h : IsPieces(g, c, r, L, m, f, h)
<1> DEFINE Z == Seq(PieceRules(g, c, r, L))
           Places == (1 .. m) \X (1 .. L)
           Solves(h, n) == \A at \in Places : at[1] > m - n => h[at] = PiecesFrom(g, c, r, f, at[1], at[2], h)
           Solved(n) == \E h \in [Places -> Z] : Solves(h, n)
           S == {n \in 0 .. m : Solved(n)}
<1>1. L \in Nat /\ m \in Nat /\ Len(f) = m /\ Len(g.rules[r].rhs) = L /\ f = FactorPositions(c, g.rules[r])
  BY DEF IsFactored
<1>2. Solved(0)
  <2>1. [at \in Places |-> <<>>] \in [Places -> Z]
    OBVIOUS
  <2>2. Solves([at \in Places |-> <<>>], 0)
    BY <1>1
  <2> HIDE DEF Solves, Places, Z
  <2> QED
    BY <2>1, <2>2
<1>3. ASSUME NEW n \in 0 .. m, Solved(n), n < m
      PROVE  Solved(n + 1)
  <2>1. PICK h \in [Places -> Z] : Solves(h, n)
    BY <1>3
  <2> DEFINE j == m - n
             t == [at \in Places |-> IF at[1] = j THEN PiecesFrom(g, c, r, f, j, at[2], h) ELSE h[at]]
  <2>2. j \in 1 .. m
    BY <1>1, <1>3
  <2>3. \A s \in 1 .. L : PiecesFrom(g, c, r, f, j, s, h) \in Z
    BY <2>1, <2>2, PiecesFromParts
  <2>4. t \in [Places -> Z]
    <3> HIDE DEF Z, j
    <3> QED
      BY <2>1, <2>3
  <2>5. \A at \in Places : at[1] > j => t[at] = h[at]
    BY <1>1, <1>3
  <2>6. ASSUME NEW at \in Places, at[1] >= j
        PROVE  t[at] = PiecesFrom(g, c, r, f, at[1], at[2], t)
    <3>1. at[1] \in 1 .. m /\ at[2] \in 1 .. L
      OBVIOUS
    <3>6. PICK k \in 1 .. m, s \in 1 .. L : k = at[1] /\ s = at[2]
      BY <3>1
    <3>2. \A b \in Places : b[1] > at[1] => t[b] = h[b]
      <4>1. \A b \in Places : b[1] > at[1] => b[1] > j
        BY <2>2, <2>6, <3>1
      <4> HIDE DEF t, j, Places
      <4> QED
        BY <2>5, <4>1
    <3>3. PiecesFrom(g, c, r, f, at[1], at[2], t) = PiecesFrom(g, c, r, f, at[1], at[2], h)
      <4>1. AgreeAfter(m, L, k, t, h)
        BY <3>2, <3>6 DEF AgreeAfter
      <4> HIDE DEF t, j
      <4>2. PiecesFrom(g, c, r, f, k, s, t) = PiecesFrom(g, c, r, f, k, s, h)
        BY <4>1, PiecesFromLater
      <4> QED
        BY <3>6, <4>2
    <3>4. CASE at[1] = j
      BY <3>3, <3>4
    <3>5. CASE at[1] # j
      <4>1. at[1] > m - n
        <5>1. k >= j /\ k # j /\ j \in 1 .. m
          BY <2>2, <2>6, <3>5, <3>6
        <5> HIDE DEF j
        <5>2. k > j
          BY <5>1
        <5> QED
          BY <3>6, <5>2 DEF j
      <4>2. h[at] = PiecesFrom(g, c, r, f, at[1], at[2], h)
        BY <2>1, <4>1
      <4> QED
        BY <3>3, <3>5, <4>2
    <3> QED
      BY <3>4, <3>5
  <2>7. \A at \in Places : at[1] > m - (n + 1) => at[1] >= j
    BY <1>1, <1>3
  <2> HIDE DEF t, j, Places, Z
  <2>8. Solves(t, n + 1)
    BY <2>6, <2>7
  <2> HIDE DEF Solves
  <2> QED
    BY <2>4, <2>8
<1> HIDE DEF Solved
<1>4. \A n \in 0 .. m : n \in S /\ n < m => n + 1 \in S
  BY <1>1, <1>3
<1>5. 0 \in S
  BY <1>1, <1>2
<1> HIDE DEF S
<1>6. \A n \in 0 .. m : n \in S
  BY <1>1, <1>4, <1>5, UpTo
<1>7. Solved(m)
  BY <1>1, <1>6 DEF S
<1>8. PICK h \in [Places -> Z] : Solves(h, m)
  BY <1>7 DEF Solved
<1>9. \A at \in Places : h[at] = PiecesFrom(g, c, r, f, at[1], at[2], h)
  <2>1. \A at \in Places : at[1] > m - m
    BY <1>1
  <2> HIDE DEF Places
  <2> QED
    BY <1>8, <2>1
<1>10. h = [at \in Places |-> PiecesFrom(g, c, r, f, at[1], at[2], h)]
  <2> HIDE DEF Places, Z
  <2> QED
    BY <1>8, <1>9
<1> DEFINE pieces[at \in (1 .. Len(f)) \X (1 .. Len(g.rules[r].rhs))] ==
             PiecesFrom(g, c, r, f, at[1], at[2], pieces)
<1>11. Places = (1 .. Len(f)) \X (1 .. Len(g.rules[r].rhs))
  BY <1>1
<1>12. h = [at \in (1 .. Len(f)) \X (1 .. Len(g.rules[r].rhs)) |-> PiecesFrom(g, c, r, f, at[1], at[2], h)]
  <2> HIDE DEF Places
  <2> QED
    BY <1>10, <1>11, Zenon
<1>13. pieces = [at \in (1 .. Len(f)) \X (1 .. Len(g.rules[r].rhs)) |->
                   PiecesFrom(g, c, r, f, at[1], at[2], pieces)]
  <2> HIDE DEF Places
  <2> QED
    BY <1>12, Zenon
<1>14. PieceIRLs(g, c, r) = pieces[<<1, 1>>]
  BY <1>1, Zenon DEF PieceIRLs
<1> HIDE DEF pieces
<1>15. pieces = [at \in Places |-> PiecesFrom(g, c, r, f, at[1], at[2], pieces)]
  <2> HIDE DEF Places
  <2> QED
    BY <1>11, <1>13, Zenon
<1> DEFINE T == {n \in 0 .. m : \A at \in Places : at[1] > m - n => pieces[at] = h[at]}
<1>16. 0 \in T
  BY <1>1
<1>17. ASSUME NEW n \in 0 .. m, n < m, \A at \in Places : at[1] > m - n => pieces[at] = h[at],
              NEW at \in Places, at[1] > m - (n + 1)
       PROVE  pieces[at] = h[at]
  <2>1. PICK k \in 1 .. m, s \in 1 .. L : k = at[1] /\ s = at[2]
    OBVIOUS
  <2>2. \A j \in Int : j > k => j > m - n
    BY <1>1, <1>17, <2>1
  <2>3. AgreeAfter(m, L, k, pieces, h)
    <3>1. \A b \in Places : b[1] \in Int
      BY <1>1
    <3> HIDE DEF Places
    <3>2. \A b \in Places : b[1] > k => pieces[b] = h[b]
      BY <1>17, <2>2, <3>1
    <3> QED
      BY <3>2 DEF AgreeAfter, Places
  <2>4. PiecesFrom(g, c, r, f, k, s, pieces) = PiecesFrom(g, c, r, f, k, s, h)
    BY <2>3, PiecesFromLater
  <2>5. pieces[at] = PiecesFrom(g, c, r, f, k, s, pieces) /\ h[at] = PiecesFrom(g, c, r, f, k, s, h)
    <3> HIDE DEF Places
    <3> QED
      BY <1>9, <1>15, <2>1
  <2> QED
    BY <2>4, <2>5
<1> HIDE DEF Places
<1>18. \A n \in 0 .. m : n \in T /\ n < m => n + 1 \in T
  BY <1>1, <1>17
<1> HIDE DEF T
<1>19. \A n \in 0 .. m : n \in T
  BY <1>1, <1>16, <1>18, UpTo
<1>20. m \in T
  BY <1>1, <1>19
<1>21. <<1, 1>> \in Places /\ <<1, 1>>[1] > m - m
  <2>1. 1 \in 1 .. m
    BY <1>1
  <2>2. f[1] \in 1 .. L
    BY <2>1, FactorBounds
  <2>3. 1 \in 1 .. L
    BY <1>1, <2>2
  <2> QED
    BY <1>1, <2>1, <2>3 DEF Places
<1>22. pieces[<<1, 1>>] = h[<<1, 1>>]
  BY <1>20, <1>21 DEF T
<1> QED
  BY <1>8, <1>9, <1>14, <1>22 DEF Places, IsPieces

-----------------------------------------------------------------------------
(* The rules of a piece *)

NSYAt(c, rule, nulled, i) ==
    IF i \in nulled THEN Nulling_NSY(rule.rhs[i]) ELSE NSY_of(c, rule.rhs[i])

IsVariant(c, rule, s, e, nulled, v) ==
    /\ v \in Seq({NSYAt(c, rule, nulled, i) : i \in s .. e}) /\ Len(v) = e - s + 1
    /\ DOMAIN v = 1 .. e - s + 1
    /\ \A p \in 1 .. e - s + 1 : v[p] = NSYAt(c, rule, nulled, s + p - 1)

\* The symbols of a variant, by position.
LEMMA VariantParts ==
    ASSUME NEW c, NEW rule, NEW s \in Nat, NEW e \in Int, NEW nulled, e - s + 1 \in Nat
    PROVE  IsVariant(c, rule, s, e, nulled, Variant(c, rule, s, e, nulled))
<1> DEFINE Z == {NSYAt(c, rule, nulled, i) : i \in s .. e}
<1>1. PICK n \in Nat : n = e - s + 1
  OBVIOUS
<1>2. PICK v : v = Variant(c, rule, s, e, nulled)
  OBVIOUS
<1>3. v = [p \in 1 .. e - s + 1 |-> NSYAt(c, rule, nulled, s + p - 1)]
  BY <1>2, Zenon DEF Variant, NSYAt
<1>4. v = [p \in 1 .. n |-> NSYAt(c, rule, nulled, s + p - 1)]
  BY <1>1, <1>3
<1>5. \A p \in 1 .. n : NSYAt(c, rule, nulled, s + p - 1) \in Z
  BY <1>1
<1> HIDE DEF Z
<1>6. v \in [1 .. n -> Z]
  BY <1>4, <1>5
<1>7. v \in Seq(Z) /\ Len(v) = n /\ DOMAIN v = 1 .. n
  BY <1>6
<1>8. \A p \in 1 .. n : v[p] = NSYAt(c, rule, nulled, s + p - 1)
  BY <1>4
<1> QED
  BY <1>1, <1>2, <1>7, <1>8 DEF Z, IsVariant

IsFinal(g, c, r, L, s, nulled, irl) ==
    /\ irl.lhs = LHS_of_Piece(g, c, r, s) /\ irl.source = r
    /\ s > 1 => irl.real = L - s + 1
    /\ irl.virtual_lhs = (s > 1) /\ irl.virtual_rhs = FALSE
    /\ Len(irl.rhs) = L - s + 1 /\ DOMAIN irl.rhs = 1 .. L - s + 1
    /\ \A p \in 1 .. L - s + 1 : irl.rhs[p] = NSYAt(c, g.rules[r], nulled, s + p - 1)
IsContinued(g, c, r, s, e, nulled, irl) ==
    /\ irl.lhs = LHS_of_Piece(g, c, r, s) /\ irl.source = r /\ irl.real = e - s + 1
    /\ irl.virtual_lhs = (s > 1) /\ irl.virtual_rhs = TRUE
    /\ Len(irl.rhs) = e - s + 2 /\ DOMAIN irl.rhs = 1 .. e - s + 2
    /\ \A p \in 1 .. e - s + 1 : irl.rhs[p] = NSYAt(c, g.rules[r], nulled, s + p - 1)
    /\ irl.rhs[e - s + 2] = VirtualNSY(g, r, e + 1)

\* The fields of a variant that ends the rule.
LEMMA FinalParts ==
    ASSUME NEW g, NEW c, NEW r, NEW L \in Nat, Len(g.rules[r].rhs) = L, NEW s \in 1 .. L,
           NEW nulled, NEW q
    PROVE  IsFinal(g, c, r, L, s, nulled, FinalIRL(g, c, r, s, nulled, q))
<1>1. PICK n \in Nat : n = L - s + 1 /\ L = s + n - 1
  OBVIOUS
<1>2. PICK irl, v : irl = FinalIRL(g, c, r, s, nulled, q) /\ v = Variant(c, g.rules[r], s, L, nulled)
  OBVIOUS
<1>3. Len(v) = n /\ DOMAIN v = 1 .. n /\ \A p \in 1 .. n : v[p] = NSYAt(c, g.rules[r], nulled, s + p - 1)
  <2>1. s \in Nat /\ L \in Int /\ L - s + 1 \in Nat
    OBVIOUS
  <2>2. IsVariant(c, g.rules[r], s, L, nulled, Variant(c, g.rules[r], s, L, nulled))
    BY <2>1, VariantParts
  <2> QED
    BY <1>1, <1>2, <2>2 DEF IsVariant
<1>4. /\ irl.lhs = LHS_of_Piece(g, c, r, s) /\ irl.source = r /\ irl.real = L - s + 1
      /\ irl.virtual_lhs = (s > 1) /\ irl.virtual_rhs = FALSE /\ irl.rhs = v
  BY <1>2 DEF FinalIRL, NewIRL
<1> QED
  BY <1>1, <1>2, <1>3, <1>4 DEF IsFinal

\* The fields of a variant that goes on in another piece.
LEMMA ContinuedParts ==
    ASSUME NEW g, NEW c, NEW r, NEW s \in Nat, NEW e \in Nat, s <= e, NEW nulled, NEW q
    PROVE  IsContinued(g, c, r, s, e, nulled, ContinuedIRL(g, c, r, s, e, nulled, q))
<1>1. PICK n \in Nat : n = e - s + 1 /\ e = s + n - 1 /\ n + 1 = e - s + 2
  OBVIOUS
<1>2. PICK irl, v, w : /\ irl = ContinuedIRL(g, c, r, s, e, nulled, q)
                       /\ v = Variant(c, g.rules[r], s, e, nulled) /\ w = VirtualNSY(g, r, e + 1)
  OBVIOUS
<1>3. /\ v \in Seq({NSYAt(c, g.rules[r], nulled, i) : i \in s .. e}) /\ Len(v) = n
      /\ \A p \in 1 .. n : v[p] = NSYAt(c, g.rules[r], nulled, s + p - 1)
  <2>1. s \in Nat /\ e \in Int /\ e - s + 1 \in Nat
    OBVIOUS
  <2>2. IsVariant(c, g.rules[r], s, e, nulled, Variant(c, g.rules[r], s, e, nulled))
    BY <2>1, VariantParts
  <2> QED
    BY <1>1, <1>2, <2>2 DEF IsVariant
<1>4. /\ irl.lhs = LHS_of_Piece(g, c, r, s) /\ irl.source = r /\ irl.real = e - s + 1
      /\ irl.virtual_lhs = (s > 1) /\ irl.virtual_rhs = TRUE /\ irl.rhs = Append(v, w)
  BY <1>2 DEF ContinuedIRL, NewIRL
<1>5. /\ Len(Append(v, w)) = n + 1 /\ DOMAIN Append(v, w) = 1 .. n + 1
      /\ \A p \in 1 .. n : Append(v, w)[p] = v[p]
      /\ Append(v, w)[n + 1] = w
  <2>1. PICK Z : v \in Seq(Z) /\ Len(v) = n
    BY <1>3, Zenon
  <2> QED
    BY <2>1
<1> QED
  BY <1>1, <1>2, <1>3, <1>4, <1>5 DEF IsContinued

\* Whether what a rule is of can be had.
NulledIn(rule, L, D) == \A i \in 1 .. L : Nulling_NSY(rule.rhs[i]) \in D
Available(c, rule, D, i) == NSY_of(c, rule.rhs[i]) \in D
ClosedUnder(R, D) == \A irl \in R : RHSOf(irl) \subseteq D => irl.lhs \in D

\* A variant that ends the rule can be had if each of its symbols can.
LEMMA FinalDerives ==
    ASSUME NEW g, NEW c, NEW r, NEW L \in Nat, Len(g.rules[r].rhs) = L, NEW s \in 1 .. L,
           NEW nulled, NEW q, NEW D, NulledIn(g.rules[r], L, D),
           \A i \in s .. L : i \in nulled \/ Available(c, g.rules[r], D, i)
    PROVE  RHSOf(FinalIRL(g, c, r, s, nulled, q)) \subseteq D
<1>1. PICK irl : irl = FinalIRL(g, c, r, s, nulled, q)
  OBVIOUS
<1>2. /\ DOMAIN irl.rhs = 1 .. L - s + 1
      /\ \A p \in 1 .. L - s + 1 : irl.rhs[p] = NSYAt(c, g.rules[r], nulled, s + p - 1)
  <2>1. IsFinal(g, c, r, L, s, nulled, FinalIRL(g, c, r, s, nulled, q))
    BY FinalParts
  <2> QED
    BY <1>1, <2>1 DEF IsFinal
<1>3. ASSUME NEW p \in 1 .. L - s + 1
      PROVE  irl.rhs[p] \in D
  <2>1. PICK i \in s .. L : i = s + p - 1 /\ i \in 1 .. L
    OBVIOUS
  <2>2. irl.rhs[p] = NSYAt(c, g.rules[r], nulled, i)
    BY <1>2, <2>1
  <2> QED
    BY <2>1, <2>2 DEF NSYAt, NulledIn, Available
<1> QED
  BY <1>1, <1>2, <1>3 DEF RHSOf

\* A variant that goes on can be had if its symbols and the rest can.
LEMMA ContinuedDerives ==
    ASSUME NEW g, NEW c, NEW r, NEW L \in Nat, NEW s \in 1 .. L, NEW e \in 1 .. L, s <= e,
           NEW nulled, NEW q, NEW D, NulledIn(g.rules[r], L, D),
           \A i \in s .. e : i \in nulled \/ Available(c, g.rules[r], D, i),
           VirtualNSY(g, r, e + 1) \in D
    PROVE  RHSOf(ContinuedIRL(g, c, r, s, e, nulled, q)) \subseteq D
<1>1. PICK irl : irl = ContinuedIRL(g, c, r, s, e, nulled, q)
  OBVIOUS
<1>2. /\ DOMAIN irl.rhs = 1 .. e - s + 2
      /\ \A p \in 1 .. e - s + 1 : irl.rhs[p] = NSYAt(c, g.rules[r], nulled, s + p - 1)
      /\ irl.rhs[e - s + 2] = VirtualNSY(g, r, e + 1)
  <2>1. s \in Nat /\ e \in Nat
    OBVIOUS
  <2>2. IsContinued(g, c, r, s, e, nulled, ContinuedIRL(g, c, r, s, e, nulled, q))
    BY <2>1, ContinuedParts
  <2> QED
    BY <1>1, <2>2 DEF IsContinued
<1>3. ASSUME NEW p \in 1 .. e - s + 1
      PROVE  irl.rhs[p] \in D
  <2>1. PICK i \in s .. e : i = s + p - 1 /\ i \in 1 .. L
    OBVIOUS
  <2>2. irl.rhs[p] = NSYAt(c, g.rules[r], nulled, i)
    BY <1>2, <2>1
  <2> QED
    BY <2>1, <2>2 DEF NSYAt, NulledIn, Available
<1>4. \A p \in 1 .. e - s + 2 : p \in 1 .. e - s + 1 \/ p = e - s + 2
  OBVIOUS
<1> QED
  BY <1>1, <1>2, <1>3, <1>4 DEF RHSOf

\* What is to be shown of the set R of the rules made from the position s on:
\* each ends the rule with a symbol that is not nulled, or goes on in another
\* rule of R; the piece has a rule; and its left side derives when it can, that
\* is when what is not nullable does, and something that is not nulled.
SoundFinal(g, c, r, L, irl) ==
    \E s \in 1 .. L : \E nulled \in SUBSET (1 .. L) :
       /\ IsFinal(g, c, r, L, s, nulled, irl)
       /\ \E i \in s .. L : i \notin nulled /\ g.rules[r].rhs[i] \notin c.nulling
Starts(R, nsy) == \E irl \in R : irl.lhs = nsy /\ irl.virtual_lhs = TRUE
SoundContinued(g, c, r, L, R, irl) ==
    \E s \in 1 .. L : \E e \in s .. L - 1 : \E nulled \in SUBSET (1 .. L) :
       IsContinued(g, c, r, s, e, nulled, irl) /\ Starts(R, VirtualNSY(g, r, e + 1))
Filled(c, rule, L, s, D) ==
    \A i \in s .. L : Available(c, rule, D, i) \/ rule.rhs[i] \in c.nullable
Something(c, rule, L, s, D) ==
    \E i \in s .. L : Available(c, rule, D, i) /\ rule.rhs[i] \notin c.nulling
PieceDerives(g, c, r, L, s, D) ==
    Filled(c, g.rules[r], L, s, D) /\ Something(c, g.rules[r], L, s, D) => LHS_of_Piece(g, c, r, s) \in D
AllDerive(g, c, r, L, R, D) ==
    (\A i \in 1 .. L : Available(c, g.rules[r], D, i)) => \A irl \in R : irl.lhs \in D
PieceOK(g, c, r, L, s, R) ==
    /\ \A irl \in R : SoundFinal(g, c, r, L, irl) \/ SoundContinued(g, c, r, L, R, irl)
    /\ \E irl \in R : irl.lhs = LHS_of_Piece(g, c, r, s) /\ irl.virtual_lhs = (s > 1)
    /\ \A D : NulledIn(g.rules[r], L, D) /\ ClosedUnder(R, D) =>
                 PieceDerives(g, c, r, L, s, D) /\ AllDerive(g, c, r, L, R, D)

\* A piece with which the rule ends.
LEMMA LastPiece ==
    ASSUME NEW g, NEW c, NEW r, NEW L \in Nat, NEW s \in 1 .. L, NEW O, O # {},
           \A irl \in O : /\ irl.lhs = LHS_of_Piece(g, c, r, s) /\ irl.virtual_lhs = (s > 1)
                          /\ SoundFinal(g, c, r, L, irl),
           \E i \in s .. L : g.rules[r].rhs[i] \notin c.nulling,
           \A D : NulledIn(g.rules[r], L, D) /\ ClosedUnder(O, D) => PieceDerives(g, c, r, L, s, D)
    PROVE  PieceOK(g, c, r, L, s, O)
<1>1. ASSUME NEW D, NulledIn(g.rules[r], L, D), ClosedUnder(O, D)
      PROVE  AllDerive(g, c, r, L, O, D)
  <2> SUFFICES ASSUME \A i \in 1 .. L : Available(c, g.rules[r], D, i)
               PROVE  \A irl \in O : irl.lhs \in D
    BY DEF AllDerive
  <2>1. Filled(c, g.rules[r], L, s, D) /\ Something(c, g.rules[r], L, s, D)
    BY DEF Filled, Something
  <2>2. LHS_of_Piece(g, c, r, s) \in D
    BY <1>1, <2>1 DEF PieceDerives
  <2> QED
    BY <2>2
<1> QED
  BY <1>1 DEF PieceOK

\* What the rules of a piece are, and when they derive, that goes on at s2.
OwnSound(g, c, r, L, s, s2, O) ==
    \A irl \in O : /\ irl.lhs = LHS_of_Piece(g, c, r, s) /\ irl.virtual_lhs = (s > 1)
                   /\ \/ SoundFinal(g, c, r, L, irl)
                      \/ \E nulled \in SUBSET (1 .. L) : IsContinued(g, c, r, s, s2 - 1, nulled, irl)
OwnDerive(g, c, r, L, s, s2, O) ==
    \A D : /\ NulledIn(g.rules[r], L, D) /\ ClosedUnder(O, D)
           /\ Something(c, g.rules[r], L, s2, D) => VirtualNSY(g, r, s2) \in D
           => PieceDerives(g, c, r, L, s, D)

\* A piece that goes on with the piece that starts at another position.
LEMMA EarlierPiece ==
    ASSUME NEW g, NEW c, NEW r, NEW L \in Nat, NEW s \in 1 .. L, NEW O, O # {},
           NEW s2 \in 1 .. L, s < s2, NEW T, PieceOK(g, c, r, L, s2, T),
           OwnSound(g, c, r, L, s, s2, O), OwnDerive(g, c, r, L, s, s2, O),
           \E i \in s .. L : g.rules[r].rhs[i] \notin c.nulling
    PROVE  PieceOK(g, c, r, L, s, O \cup T)
<1> DEFINE R == O \cup T
<1>1. LHS_of_Piece(g, c, r, s2) = VirtualNSY(g, r, s2) /\ (s2 > 1) = TRUE
  BY DEF LHS_of_Piece
<1>2. Starts(T, VirtualNSY(g, r, s2))
  BY <1>1 DEF PieceOK, Starts
<1>3. \A nsy : Starts(T, nsy) => Starts(R, nsy)
  BY DEF Starts
<1>4. ASSUME NEW irl \in O
      PROVE  SoundFinal(g, c, r, L, irl) \/ SoundContinued(g, c, r, L, R, irl)
  <2> HIDE DEF R
  <2> SUFFICES ASSUME NEW nulled \in SUBSET (1 .. L), IsContinued(g, c, r, s, s2 - 1, nulled, irl)
               PROVE  SoundContinued(g, c, r, L, R, irl)
    BY DEF OwnSound
  <2>1. PICK e \in s .. L - 1 : e = s2 - 1 /\ e + 1 = s2
    OBVIOUS
  <2>2. IsContinued(g, c, r, s, e, nulled, irl) /\ Starts(R, VirtualNSY(g, r, e + 1))
    BY <1>2, <1>3, <2>1
  <2> QED
    BY <2>2 DEF SoundContinued
<1>5. ASSUME NEW irl \in T
      PROVE  SoundFinal(g, c, r, L, irl) \/ SoundContinued(g, c, r, L, R, irl)
  <2> HIDE DEF R
  <2>1. SoundFinal(g, c, r, L, irl) \/ SoundContinued(g, c, r, L, T, irl)
    BY <1>5 DEF PieceOK
  <2>2. SoundContinued(g, c, r, L, T, irl) => SoundContinued(g, c, r, L, R, irl)
    BY <1>3, Zenon DEF SoundContinued
  <2> QED
    BY <2>1, <2>2
<1>6. ASSUME NEW D, NulledIn(g.rules[r], L, D), ClosedUnder(R, D)
      PROVE  PieceDerives(g, c, r, L, s, D) /\ AllDerive(g, c, r, L, R, D)
  <2>1. ClosedUnder(O, D) /\ ClosedUnder(T, D)
    BY <1>6 DEF ClosedUnder
  <2>2. PieceDerives(g, c, r, L, s2, D) /\ AllDerive(g, c, r, L, T, D)
    BY <1>6, <2>1 DEF PieceOK
  <2>3. PieceDerives(g, c, r, L, s, D)
    <3>1. CASE Filled(c, g.rules[r], L, s, D)
      <4>1. Filled(c, g.rules[r], L, s2, D)
        BY <3>1 DEF Filled
      <4>2. Something(c, g.rules[r], L, s2, D) => VirtualNSY(g, r, s2) \in D
        BY <1>1, <2>2, <4>1 DEF PieceDerives
      <4> QED
        BY <1>6, <2>1, <4>2 DEF OwnDerive
    <3>2. CASE ~ Filled(c, g.rules[r], L, s, D)
      BY <3>2 DEF PieceDerives
    <3> QED
      BY <3>1, <3>2
  <2>4. AllDerive(g, c, r, L, R, D)
    <3> SUFFICES ASSUME \A i \in 1 .. L : Available(c, g.rules[r], D, i)
                 PROVE  \A irl \in R : irl.lhs \in D
      BY DEF AllDerive
    <3>1. Filled(c, g.rules[r], L, s, D) /\ Something(c, g.rules[r], L, s, D)
      BY DEF Filled, Something
    <3>2. LHS_of_Piece(g, c, r, s) \in D
      BY <2>3, <3>1 DEF PieceDerives
    <3> QED
      BY <2>2, <3>2 DEF AllDerive, OwnSound
  <2> QED
    BY <2>3, <2>4
<1>7. \E irl \in R : irl.lhs = LHS_of_Piece(g, c, r, s) /\ irl.virtual_lhs = (s > 1)
  BY DEF OwnSound
<1>8. \A irl \in R : SoundFinal(g, c, r, L, irl) \/ SoundContinued(g, c, r, L, R, irl)
  BY <1>4, <1>5
<1> HIDE DEF R
<1>9. PieceOK(g, c, r, L, s, R)
  BY <1>6, <1>7, <1>8 DEF PieceOK
<1> QED
  BY <1>9 DEF R

\* The k-th factor is the first one from the position s on.
FirstFrom(f, k, s) == s <= f[k] /\ (k = 1 \/ f[k - 1] < s)

\* What may be nulled in a piece, other than its first factor, comes at its second
\* factor or later.
LEMMA LaterFactors ==
    ASSUME NEW g, NEW c, NEW r, NEW L, NEW m, NEW f, NEW suffix, IsFactored(g, c, r, L, m, f, suffix),
           NEW k \in 1 .. m, NEW s \in 1 .. L, FirstFrom(f, k, s),
           NEW i \in s .. L, g.rules[r].rhs[i] \in c.nullable, g.rules[r].rhs[i] \notin c.nulling,
           i # f[k]
    PROVE  /\ k < m /\ k + 1 \in 1 .. m /\ i >= f[k + 1]
           /\ i # f[k + 1] => k + 1 < m /\ i > f[k + 1]
<1>1. L \in Nat /\ m \in Nat /\ i \in 1 .. L
  BY FactorBounds
<1>2. PICK q \in 1 .. m : f[q] = i
  BY <1>1, FactorBounds
<1>3. \A j \in 1 .. m : f[j] \in 1 .. L
  BY FactorBounds
<1>4. \A j1, j2 \in 1 .. m : j1 < j2 => f[j1] < f[j2]
  BY FactorBounds
<1>5. q > k
  <2>1. CASE q = k
    BY <1>2, <2>1
  <2>2. CASE q < k
    <3>1. k # 1 /\ k - 1 \in 1 .. m /\ q <= k - 1
      BY <1>1, <2>2
    <3>2. f[q] <= f[k - 1] /\ f[k - 1] \in Nat /\ f[q] \in Nat
      <4>1. CASE q = k - 1
        BY <1>3, <3>1, <4>1
      <4>2. CASE q < k - 1
        BY <1>3, <1>4, <3>1, <4>2
      <4> QED
        BY <1>1, <3>1, <4>1, <4>2
    <3>3. f[k - 1] < s
      BY <3>1 DEF FirstFrom
    <3> QED
      BY <1>2, <3>2, <3>3
  <2> QED
    BY <1>1, <2>1, <2>2
<1>6. k < m /\ k + 1 \in 1 .. m
  BY <1>1, <1>5
<1>7. f[k + 1] \in Nat /\ f[q] \in Nat
  BY <1>3, <1>6
<1>8. CASE q = k + 1
  BY <1>2, <1>6, <1>7, <1>8
<1>9. CASE q > k + 1
  <2>1. f[k + 1] < f[q] /\ k + 1 < m
    BY <1>1, <1>4, <1>6, <1>9
  <2> QED
    BY <1>2, <1>6, <1>7, <2>1
<1> QED
  BY <1>1, <1>5, <1>8, <1>9

\* What is not a factor can be had.
LEMMA OthersAvailable ==
    ASSUME NEW c, NEW rule, NEW L \in Nat, NEW s \in 1 .. L, NEW D, NulledIn(rule, L, D),
           Filled(c, rule, L, s, D), NEW i \in s .. L
    PROVE  Available(c, rule, D, i) \/ (rule.rhs[i] \in c.nullable /\ rule.rhs[i] \notin c.nulling)
<1>1. i \in 1 .. L
  OBVIOUS
<1>2. Nulling_NSY(rule.rhs[i]) \in D
  BY <1>1 DEF NulledIn
<1>3. rule.rhs[i] \in c.nulling => Available(c, rule, D, i)
  BY <1>2 DEF Available, NSY_of
<1> QED
  BY <1>3 DEF Filled

\* What the rules of a piece of its own have to be.
Shows(c, rule, L, s, nulled) ==
    nulled \subseteq 1 .. L /\ \E i \in s .. L : i \notin nulled /\ rule.rhs[i] \notin c.nulling
GoodFinal(g, c, r, L, s, irl) ==
    /\ irl.lhs = LHS_of_Piece(g, c, r, s) /\ irl.virtual_lhs = (s > 1)
    /\ SoundFinal(g, c, r, L, irl)
GoodContinued(g, c, r, L, s, e, irl) ==
    /\ irl.lhs = LHS_of_Piece(g, c, r, s) /\ irl.virtual_lhs = (s > 1)
    /\ \E nulled \in SUBSET (1 .. L) : IsContinued(g, c, r, s, e, nulled, irl)

\* A variant with something that is not nulled is sound.
LEMMA FinalIsSound ==
    ASSUME NEW g, NEW c, NEW r, NEW L \in Nat, Len(g.rules[r].rhs) = L, NEW s \in 1 .. L,
           NEW nulled, Shows(c, g.rules[r], L, s, nulled), NEW q
    PROVE  GoodFinal(g, c, r, L, s, FinalIRL(g, c, r, s, nulled, q))
<1>1. PICK irl : irl = FinalIRL(g, c, r, s, nulled, q)
  OBVIOUS
<1>2. IsFinal(g, c, r, L, s, nulled, irl)
  BY <1>1, FinalParts
<1>3. nulled \in SUBSET (1 .. L) /\ \E i \in s .. L : i \notin nulled /\ g.rules[r].rhs[i] \notin c.nulling
  BY DEF Shows
<1>4. SoundFinal(g, c, r, L, irl)
  BY <1>2, <1>3 DEF SoundFinal
<1> QED
  BY <1>1, <1>2, <1>4 DEF IsFinal, GoodFinal

\* A variant that goes on.
LEMMA ContinuedIsGood ==
    ASSUME NEW g, NEW c, NEW r, NEW L \in Nat, NEW s \in 1 .. L, NEW e \in s .. L,
           NEW nulled, nulled \subseteq 1 .. L, NEW q
    PROVE  GoodContinued(g, c, r, L, s, e, ContinuedIRL(g, c, r, s, e, nulled, q))
<1>1. PICK irl : irl = ContinuedIRL(g, c, r, s, e, nulled, q)
  OBVIOUS
<1>2. s \in Nat /\ e \in Nat /\ s <= e
  OBVIOUS
<1>3. IsContinued(g, c, r, s, e, nulled, irl)
  BY <1>1, <1>2, ContinuedParts
<1>4. nulled \in SUBSET (1 .. L)
  OBVIOUS
<1> QED
  BY <1>1, <1>3, <1>4 DEF IsContinued, GoodContinued

\* The rules of a piece that is followed by one of what may all be nulled.
LEMMA PieceCase1 ==
    ASSUME NEW g, NEW c, NEW r, NEW L, NEW m, NEW f, NEW suffix, IsFactored(g, c, r, L, m, f, suffix),
           NEW k \in 1 .. m, NEW s \in 1 .. L, FirstFrom(f, k, s), k + 1 \in 1 .. m, f[k + 1] > suffix,
           NEW T, PieceOK(g, c, r, L, f[k + 1], T)
    PROVE  PieceOK(g, c, r, L, s, OwnRules1(g, c, r, L, s, f[k], f[k + 1], suffix) \cup T)
<1>1. PICK rule, first, second, O :
         /\ rule = g.rules[r] /\ first = f[k] /\ second = f[k + 1]
         /\ O = OwnRules1(g, c, r, L, s, first, second, suffix)
  OBVIOUS
<1>2. L \in Nat /\ m \in Nat /\ suffix \in 0 .. L /\ Len(rule.rhs) = L
  BY <1>1 DEF IsFactored
<1>3. /\ first \in s .. L /\ second \in 1 .. L /\ first < second /\ suffix < second
      /\ rule.rhs[first] \in c.nullable /\ rule.rhs[first] \notin c.nulling
  <2>1. f[k] \in 1 .. L /\ f[k + 1] \in 1 .. L
    BY FactorBounds
  <2>2. k < k + 1
    BY <1>2
  <2>3. f[k] < f[k + 1]
    BY <2>2, FactorBounds
  <2>4. rule.rhs[first] \in c.nullable /\ rule.rhs[first] \notin c.nulling
    BY <1>1, FactorBounds
  <2> QED
    BY <1>1, <1>2, <2>1, <2>3, <2>4 DEF FirstFrom
<1>4. PICK e \in s .. L - 1 : e = second - 1 /\ e \in 1 .. L
  BY <1>2, <1>3
<1>5. PICK tail, nothing : tail = second .. L /\ nothing = {first} \cup second .. L
  OBVIOUS
<1>6. /\ tail \subseteq 1 .. L /\ nothing \subseteq 1 .. L /\ first \notin tail
      /\ \A i \in s .. L : i \in tail <=> i > e
      /\ \A i \in s .. L : i \in nothing <=> i = first \/ i > e
  BY <1>2, <1>3, <1>4, <1>5
<1>7. /\ \A irl \in O : \/ irl = ContinuedIRL(g, c, r, s, e, {}, 3) \/ irl = FinalIRL(g, c, r, s, tail, 2)
                        \/ irl = ContinuedIRL(g, c, r, s, e, {first}, 1)
                        \/ NNAllowed(s, suffix) /\ irl = FinalIRL(g, c, r, s, nothing, 0)
      /\ ContinuedIRL(g, c, r, s, e, {}, 3) \in O /\ FinalIRL(g, c, r, s, tail, 2) \in O
      /\ ContinuedIRL(g, c, r, s, e, {first}, 1) \in O
      /\ NNAllowed(s, suffix) => FinalIRL(g, c, r, s, nothing, 0) \in O
  BY <1>1, <1>4, <1>5 DEF OwnRules1, OwnFinal
<1>8. \A i \in s .. e : rule.rhs[i] \in c.nullable /\ rule.rhs[i] \notin c.nulling => i = first
  <2> SUFFICES ASSUME NEW i \in s .. e, rule.rhs[i] \in c.nullable, rule.rhs[i] \notin c.nulling, i # first
               PROVE  FALSE
    OBVIOUS
  <2>1. i \in s .. L /\ i < second
    BY <1>2, <1>3, <1>4
  <2>2. i >= second
    BY <1>1, <2>1, LaterFactors
  <2> QED
    BY <1>2, <1>3, <2>1, <2>2
<1>9. NNAllowed(s, suffix) =>
        suffix \in s .. L /\ suffix \notin nothing /\ rule.rhs[suffix] \notin c.nulling
  <2> SUFFICES ASSUME NNAllowed(s, suffix)
               PROVE  suffix \in s .. L /\ suffix \notin nothing /\ rule.rhs[suffix] \notin c.nulling
    OBVIOUS
  <2>1. suffix \in s .. L /\ suffix # 0
    BY <1>2 DEF NNAllowed
  <2>2. rule.rhs[suffix] \notin c.nullable \cup c.nulling
    BY <1>1, <2>1, FactorBounds
  <2> QED
    BY <1>2, <1>3, <1>5, <2>1, <2>2
<1>10. ASSUME NEW irl \in O
       PROVE  GoodFinal(g, c, r, L, s, irl) \/ GoodContinued(g, c, r, L, s, e, irl)
  <2>1. Shows(c, g.rules[r], L, s, tail)
    BY <1>1, <1>3, <1>6 DEF Shows
  <2>2. NNAllowed(s, suffix) => Shows(c, g.rules[r], L, s, nothing)
    BY <1>1, <1>6, <1>9 DEF Shows
  <2>3. GoodFinal(g, c, r, L, s, FinalIRL(g, c, r, s, tail, 2))
    BY <1>1, <1>2, <2>1, FinalIsSound
  <2>4. NNAllowed(s, suffix) => GoodFinal(g, c, r, L, s, FinalIRL(g, c, r, s, nothing, 0))
    BY <1>1, <1>2, <2>2, FinalIsSound
  <2>5. {} \subseteq 1 .. L /\ {first} \subseteq 1 .. L /\ e \in s .. L
    BY <1>2, <1>3, <1>4
  <2>6. /\ GoodContinued(g, c, r, L, s, e, ContinuedIRL(g, c, r, s, e, {}, 3))
        /\ GoodContinued(g, c, r, L, s, e, ContinuedIRL(g, c, r, s, e, {first}, 1))
    BY <1>2, <2>5, ContinuedIsGood
  <2> QED
    BY <1>7, <2>3, <2>4, <2>6
<1>11. ASSUME NEW D, NulledIn(rule, L, D), ClosedUnder(O, D),
              Something(c, rule, L, second, D) => VirtualNSY(g, r, second) \in D,
              Filled(c, rule, L, s, D), Something(c, rule, L, s, D)
       PROVE  LHS_of_Piece(g, c, r, s) \in D
  <2>1. \A i \in s .. e : i # first => Available(c, rule, D, i)
    <3> SUFFICES ASSUME NEW i \in s .. e, i # first PROVE Available(c, rule, D, i)
      OBVIOUS
    <3>1. i \in s .. L
      BY <1>2, <1>4
    <3> QED
      BY <1>2, <1>8, <1>11, <3>1, OthersAvailable
  <2>2. ASSUME NEW irl \in O, RHSOf(irl) \subseteq D PROVE LHS_of_Piece(g, c, r, s) \in D
    BY <1>10, <1>11, <2>2 DEF ClosedUnder, GoodFinal, GoodContinued
  <2>3. CASE Something(c, rule, L, second, D)
    <3>1. VirtualNSY(g, r, e + 1) \in D /\ s <= e
      BY <1>2, <1>3, <1>4, <1>11, <2>3
    <3>2. CASE Available(c, rule, D, first)
      <4>1. \A i \in s .. e : i \in {} \/ Available(c, rule, D, i)
        BY <2>1, <3>2
      <4>2. RHSOf(ContinuedIRL(g, c, r, s, e, {}, 3)) \subseteq D
        BY <1>1, <1>2, <1>4, <1>11, <3>1, <4>1, ContinuedDerives
      <4> QED
        BY <1>7, <2>2, <4>2
    <3>3. CASE ~ Available(c, rule, D, first)
      <4>1. \A i \in s .. e : i \in {first} \/ Available(c, rule, D, i)
        BY <2>1
      <4>2. RHSOf(ContinuedIRL(g, c, r, s, e, {first}, 1)) \subseteq D
        BY <1>1, <1>2, <1>4, <1>11, <3>1, <4>1, ContinuedDerives
      <4> QED
        BY <1>7, <2>2, <4>2
    <3> QED
      BY <3>2, <3>3
  <2>4. CASE ~ Something(c, rule, L, second, D)
    <3>1. PICK i \in s .. L : Available(c, rule, D, i) /\ rule.rhs[i] \notin c.nulling
      BY <1>11 DEF Something
    <3>2. i \in s .. e
      <4>1. CASE i >= second
        <5>1. i \in second .. L
          BY <1>2, <1>3, <4>1
        <5> QED
          BY <2>4, <3>1, <5>1 DEF Something
      <4> QED
        BY <1>2, <1>3, <1>4, <4>1
    <3>3. CASE Available(c, rule, D, first)
      <4>1. \A j \in s .. L : j \in tail \/ Available(c, rule, D, j)
        BY <1>2, <1>4, <1>6, <2>1, <3>3
      <4>2. RHSOf(FinalIRL(g, c, r, s, tail, 2)) \subseteq D
        BY <1>1, <1>2, <1>11, <4>1, FinalDerives
      <4> QED
        BY <1>7, <2>2, <4>2
    <3>4. CASE ~ Available(c, rule, D, first)
      <4>1. \A j \in s .. L : j \in nothing \/ Available(c, rule, D, j)
        BY <1>2, <1>4, <1>6, <2>1
      <4>2. RHSOf(FinalIRL(g, c, r, s, nothing, 0)) \subseteq D
        BY <1>1, <1>2, <1>11, <4>1, FinalDerives
      <4>3. i \in 1 .. L /\ rule.rhs[i] \notin c.nullable \cup c.nulling
        BY <1>2, <1>8, <3>1, <3>2, <3>4
      <4>4. i <= suffix
        BY <1>1, <4>3, FactorBounds
      <4>5. NNAllowed(s, suffix)
        BY <1>2, <3>1, <4>4 DEF NNAllowed
      <4> QED
        BY <1>7, <2>2, <4>2, <4>5
    <3> QED
      BY <3>3, <3>4
  <2> QED
    BY <2>3, <2>4
<1>12. /\ O # {} /\ s < second /\ second - 1 = e
       /\ \E i \in s .. L : g.rules[r].rhs[i] \notin c.nulling
  <2>1. O # {} /\ s < second
    BY <1>2, <1>3, <1>7
  <2>2. second - 1 = e
    BY <1>2, <1>3, <1>4
  <2> QED
    BY <1>1, <1>3, <2>1, <2>2
<1>13. ASSUME NEW D, NulledIn(g.rules[r], L, D), ClosedUnder(O, D),
              Something(c, g.rules[r], L, second, D) => VirtualNSY(g, r, second) \in D
       PROVE  PieceDerives(g, c, r, L, s, D)
  <2> SUFFICES ASSUME Filled(c, g.rules[r], L, s, D), Something(c, g.rules[r], L, s, D)
               PROVE  LHS_of_Piece(g, c, r, s) \in D
    BY DEF PieceDerives
  <2>1. NulledIn(rule, L, D) /\ Filled(c, rule, L, s, D) /\ Something(c, rule, L, s, D)
    BY <1>1, <1>13
  <2>2. Something(c, rule, L, second, D) => VirtualNSY(g, r, second) \in D
    BY <1>1, <1>13
  <2> QED
    BY <1>11, <1>13, <2>1, <2>2
<1>14. OwnSound(g, c, r, L, s, second, O) /\ OwnDerive(g, c, r, L, s, second, O)
  <2>1. OwnSound(g, c, r, L, s, second, O)
    BY <1>10, <1>12 DEF GoodFinal, GoodContinued, OwnSound
  <2> QED
    BY <1>13, <2>1 DEF OwnDerive
<1>15. PieceOK(g, c, r, L, second, T) /\ second \in 1 .. L
  BY <1>1, <1>3
<1>16. PieceOK(g, c, r, L, s, O \cup T)
  <2>1. L \in Nat /\ s \in 1 .. L /\ O # {} /\ s < second
    BY <1>2, <1>12
  <2>2. \E i \in s .. L : g.rules[r].rhs[i] \notin c.nulling
    BY <1>12
  <2> QED
    BY <1>14, <1>15, <2>1, <2>2, EarlierPiece, Zenon
<1> QED
  BY <1>1, <1>16

\* A symbol that ends the part of a rule that is not all nullable.
LEMMA SuffixShows ==
    ASSUME NEW g, NEW c, NEW r, NEW L, NEW m, NEW f, NEW suffix, IsFactored(g, c, r, L, m, f, suffix),
           NEW s \in 1 .. L, NNAllowed(s, suffix)
    PROVE  /\ suffix \in s .. L /\ suffix \in 1 .. L
           /\ g.rules[r].rhs[suffix] \notin c.nullable /\ g.rules[r].rhs[suffix] \notin c.nulling
<1>1. L \in Nat /\ suffix \in 0 .. L
  BY FactorBounds
<1>2. suffix \in s .. L /\ suffix \in 1 .. L /\ suffix # 0
  BY <1>1 DEF NNAllowed
<1>3. g.rules[r].rhs[suffix] \notin c.nullable \cup c.nulling
  BY <1>2, FactorBounds
<1> QED
  BY <1>2, <1>3

\* The rules of a piece that is followed by one that is not nullable.
LEMMA PieceCase2 ==
    ASSUME NEW g, NEW c, NEW r, NEW L, NEW m, NEW f, NEW suffix, IsFactored(g, c, r, L, m, f, suffix),
           NEW k \in 1 .. m, NEW s \in 1 .. L, FirstFrom(f, k, s), k + 1 \in 1 .. m,
           ~ (f[k + 1] > suffix),
           NEW T, PieceOK(g, c, r, L, f[k + 1] + 1, T)
    PROVE  PieceOK(g, c, r, L, s, OwnRules2(g, c, r, s, f[k], f[k + 1]) \cup T)
<1>1. PICK rule, first, second, O :
         /\ rule = g.rules[r] /\ first = f[k] /\ second = f[k + 1]
         /\ O = OwnRules2(g, c, r, s, first, second)
  OBVIOUS
<1>2. L \in Nat /\ m \in Nat /\ suffix \in 0 .. L /\ Len(rule.rhs) = L
  BY <1>1 DEF IsFactored
<1>3. /\ first \in s .. L /\ second \in s .. L /\ second \in 1 .. L /\ first < second
      /\ rule.rhs[first] \notin c.nulling /\ rule.rhs[second] \in c.nullable
  <2>1. f[k] \in 1 .. L /\ f[k + 1] \in 1 .. L /\ k < k + 1
    BY <1>2, FactorBounds
  <2>2. f[k] < f[k + 1]
    BY <2>1, FactorBounds
  <2>3. rule.rhs[first] \notin c.nulling /\ rule.rhs[second] \in c.nullable
    BY <1>1, FactorBounds
  <2> QED
    BY <1>1, <1>2, <2>1, <2>2, <2>3 DEF FirstFrom
<1>4. suffix \in 1 .. L /\ suffix > second /\ rule.rhs[suffix] \notin c.nullable \cup c.nulling
  <2>1. suffix >= second /\ suffix # 0
    BY <1>1, <1>2, <1>3
  <2>2. rule.rhs[suffix] \notin c.nullable \cup c.nulling
    BY <1>1, <2>1, FactorBounds
  <2> QED
    BY <1>2, <1>3, <2>1, <2>2
<1>5. PICK s2 \in 1 .. L : s2 = second + 1 /\ s2 - 1 = second /\ s < s2 /\ suffix \in s2 .. L
  BY <1>2, <1>3, <1>4
<1>6. \A i \in s .. second : i # first /\ i # second =>
         ~ (rule.rhs[i] \in c.nullable /\ rule.rhs[i] \notin c.nulling)
  <2> SUFFICES ASSUME NEW i \in s .. second, rule.rhs[i] \in c.nullable, rule.rhs[i] \notin c.nulling,
                      i # first, i # second
               PROVE  FALSE
    OBVIOUS
  <2>1. i \in s .. L
    BY <1>2, <1>3
  <2>2. i > second
    BY <1>1, <2>1, LaterFactors
  <2> QED
    BY <1>2, <1>3, <2>1, <2>2
<1>7. \A irl : irl \in O <=> \/ irl = ContinuedIRL(g, c, r, s, second, {}, 3)
                             \/ irl = ContinuedIRL(g, c, r, s, second, {second}, 2)
                             \/ irl = ContinuedIRL(g, c, r, s, second, {first}, 1)
                             \/ irl = ContinuedIRL(g, c, r, s, second, {first, second}, 0)
  BY <1>1 DEF OwnRules2
<1>8. ASSUME NEW irl \in O
      PROVE  GoodContinued(g, c, r, L, s, second, irl)
  <2>1. {} \subseteq 1 .. L /\ {first} \subseteq 1 .. L /\ {second} \subseteq 1 .. L
        /\ {first, second} \subseteq 1 .. L
    BY <1>2, <1>3
  <2>2. /\ GoodContinued(g, c, r, L, s, second, ContinuedIRL(g, c, r, s, second, {}, 3))
        /\ GoodContinued(g, c, r, L, s, second, ContinuedIRL(g, c, r, s, second, {second}, 2))
        /\ GoodContinued(g, c, r, L, s, second, ContinuedIRL(g, c, r, s, second, {first}, 1))
        /\ GoodContinued(g, c, r, L, s, second, ContinuedIRL(g, c, r, s, second, {first, second}, 0))
    BY <1>2, <1>3, <2>1, ContinuedIsGood
  <2> QED
    BY <1>7, <2>2
<1>9. ASSUME NEW D, NulledIn(rule, L, D), ClosedUnder(O, D),
             Something(c, rule, L, s2, D) => VirtualNSY(g, r, s2) \in D,
             Filled(c, rule, L, s, D)
      PROVE  LHS_of_Piece(g, c, r, s) \in D
  <2>1. VirtualNSY(g, r, second + 1) \in D
    <3>1. suffix \in s .. L
      BY <1>2, <1>5
    <3>2. Available(c, rule, D, suffix)
      BY <1>4, <1>9, <3>1 DEF Filled
    <3>3. Something(c, rule, L, s2, D)
      BY <1>4, <1>5, <3>2 DEF Something
    <3> QED
      BY <1>5, <1>9, <3>3
  <2>2. \A i \in s .. second : i # first /\ i # second => Available(c, rule, D, i)
    <3> SUFFICES ASSUME NEW i \in s .. second, i # first, i # second PROVE Available(c, rule, D, i)
      OBVIOUS
    <3>1. i \in s .. L
      BY <1>2, <1>3
    <3> QED
      BY <1>2, <1>6, <1>9, <3>1, OthersAvailable
  <2>3. ASSUME NEW irl \in O, RHSOf(irl) \subseteq D PROVE LHS_of_Piece(g, c, r, s) \in D
    BY <1>8, <1>9, <2>3 DEF ClosedUnder, GoodContinued
  <2>4. ASSUME NEW nulled, NEW q, ContinuedIRL(g, c, r, s, second, nulled, q) \in O,
               \A i \in s .. second : i \in nulled \/ Available(c, rule, D, i)
        PROVE  LHS_of_Piece(g, c, r, s) \in D
    <3>1. L \in Nat /\ s \in 1 .. L /\ second \in 1 .. L /\ s <= second
      BY <1>2, <1>3
    <3>2. /\ NulledIn(g.rules[r], L, D) /\ VirtualNSY(g, r, second + 1) \in D
          /\ \A i \in s .. second : i \in nulled \/ Available(c, g.rules[r], D, i)
      BY <1>1, <1>9, <2>1, <2>4
    <3>3. RHSOf(ContinuedIRL(g, c, r, s, second, nulled, q)) \subseteq D
      BY <3>1, <3>2, ContinuedDerives
    <3> QED
      BY <2>3, <2>4, <3>3
  <2>5. CASE Available(c, rule, D, first) /\ Available(c, rule, D, second)
    <3>1. \A i \in s .. second : i \in {} \/ Available(c, rule, D, i)
      BY <2>2, <2>5
    <3> QED
      BY <1>7, <2>4, <3>1
  <2>6. CASE Available(c, rule, D, first) /\ ~ Available(c, rule, D, second)
    <3>1. \A i \in s .. second : i \in {second} \/ Available(c, rule, D, i)
      BY <2>2, <2>6
    <3> QED
      BY <1>7, <2>4, <3>1
  <2>7. CASE ~ Available(c, rule, D, first) /\ Available(c, rule, D, second)
    <3>1. \A i \in s .. second : i \in {first} \/ Available(c, rule, D, i)
      BY <2>2, <2>7
    <3> QED
      BY <1>7, <2>4, <3>1
  <2>8. CASE ~ Available(c, rule, D, first) /\ ~ Available(c, rule, D, second)
    <3>1. \A i \in s .. second : i \in {first, second} \/ Available(c, rule, D, i)
      BY <2>2
    <3> QED
      BY <1>7, <2>4, <3>1
  <2> QED
    BY <2>5, <2>6, <2>7, <2>8
<1>10. O # {} /\ \E i \in s .. L : g.rules[r].rhs[i] \notin c.nulling
  BY <1>1, <1>3, <1>7
<1>11. ASSUME NEW D, NulledIn(g.rules[r], L, D), ClosedUnder(O, D),
              Something(c, g.rules[r], L, s2, D) => VirtualNSY(g, r, s2) \in D
       PROVE  PieceDerives(g, c, r, L, s, D)
  <2> SUFFICES ASSUME Filled(c, g.rules[r], L, s, D)
               PROVE  LHS_of_Piece(g, c, r, s) \in D
    BY DEF PieceDerives
  <2>1. NulledIn(rule, L, D) /\ Filled(c, rule, L, s, D)
    BY <1>1, <1>11
  <2>2. Something(c, rule, L, s2, D) => VirtualNSY(g, r, s2) \in D
    BY <1>1, <1>11
  <2> QED
    BY <1>9, <1>11, <2>1, <2>2
<1>12. OwnSound(g, c, r, L, s, s2, O) /\ OwnDerive(g, c, r, L, s, s2, O)
  <2>1. OwnSound(g, c, r, L, s, s2, O)
    BY <1>5, <1>8 DEF GoodContinued, OwnSound
  <2> QED
    BY <1>11, <2>1 DEF OwnDerive
<1>13. PieceOK(g, c, r, L, s2, T)
  BY <1>1, <1>5
<1>14. PieceOK(g, c, r, L, s, O \cup T)
  <2>1. L \in Nat /\ s \in 1 .. L /\ O # {} /\ s < s2
    BY <1>2, <1>5, <1>10
  <2>2. \E i \in s .. L : g.rules[r].rhs[i] \notin c.nulling
    BY <1>10
  <2> QED
    BY <1>12, <1>13, <2>1, <2>2, EarlierPiece, Zenon
<1> QED
  BY <1>1, <1>14

\* The rules of the last piece, with two factors.
LEMMA PieceCase3 ==
    ASSUME NEW g, NEW c, NEW r, NEW L, NEW m, NEW f, NEW suffix, IsFactored(g, c, r, L, m, f, suffix),
           NEW k \in 1 .. m, NEW s \in 1 .. L, FirstFrom(f, k, s), m - k = 1
    PROVE  PieceOK(g, c, r, L, s, OwnRules3(g, c, r, s, f[k], f[k + 1], suffix))
<1>1. PICK rule, first, second, O :
         /\ rule = g.rules[r] /\ first = f[k] /\ second = f[k + 1]
         /\ O = OwnRules3(g, c, r, s, first, second, suffix)
  OBVIOUS
<1>2. L \in Nat /\ m \in Nat /\ suffix \in 0 .. L /\ Len(rule.rhs) = L /\ ~ (k + 1 < m)
  BY <1>1 DEF IsFactored
<1>3. /\ first \in s .. L /\ second \in s .. L /\ first # second
      /\ rule.rhs[first] \notin c.nulling /\ rule.rhs[second] \notin c.nulling
      /\ rule.rhs[first] \in c.nullable /\ rule.rhs[second] \in c.nullable
  <2>0. k + 1 \in 1 .. m
    BY <1>2
  <2>1. f[k] \in 1 .. L /\ f[k + 1] \in 1 .. L /\ k < k + 1
    BY <1>2, <2>0, FactorBounds
  <2>2. f[k] < f[k + 1]
    BY <2>0, <2>1, FactorBounds
  <2>3. /\ rule.rhs[first] \notin c.nulling /\ rule.rhs[second] \notin c.nulling
        /\ rule.rhs[first] \in c.nullable /\ rule.rhs[second] \in c.nullable
    BY <1>1, <2>0, FactorBounds
  <2> QED
    BY <1>1, <1>2, <2>1, <2>2, <2>3 DEF FirstFrom
<1>4. \A i \in s .. L : i # first /\ i # second =>
         ~ (rule.rhs[i] \in c.nullable /\ rule.rhs[i] \notin c.nulling)
  BY <1>1, <1>2, LaterFactors
<1>5. \A irl : irl \in O <=> \/ irl = FinalIRL(g, c, r, s, {}, 3)
                             \/ irl = FinalIRL(g, c, r, s, {second}, 2)
                             \/ irl = FinalIRL(g, c, r, s, {first}, 1)
                             \/ NNAllowed(s, suffix) /\ irl = FinalIRL(g, c, r, s, {first, second}, 0)
  BY <1>1 DEF OwnRules3, OwnFinal
<1>6. ASSUME NEW irl \in O
      PROVE  GoodFinal(g, c, r, L, s, irl)
  <2>1. /\ Shows(c, g.rules[r], L, s, {}) /\ Shows(c, g.rules[r], L, s, {second})
        /\ Shows(c, g.rules[r], L, s, {first})
    BY <1>1, <1>2, <1>3 DEF Shows
  <2>2. ASSUME NNAllowed(s, suffix) PROVE Shows(c, g.rules[r], L, s, {first, second})
    <3>1. /\ suffix \in s .. L /\ g.rules[r].rhs[suffix] \notin c.nullable
          /\ g.rules[r].rhs[suffix] \notin c.nulling
      BY <2>2, SuffixShows
    <3>2. suffix \notin {first, second} /\ {first, second} \subseteq 1 .. L
      BY <1>1, <1>2, <1>3, <3>1
    <3> QED
      BY <3>1, <3>2 DEF Shows
  <2>3. /\ GoodFinal(g, c, r, L, s, FinalIRL(g, c, r, s, {}, 3))
        /\ GoodFinal(g, c, r, L, s, FinalIRL(g, c, r, s, {second}, 2))
        /\ GoodFinal(g, c, r, L, s, FinalIRL(g, c, r, s, {first}, 1))
    BY <1>1, <1>2, <2>1, FinalIsSound
  <2>4. NNAllowed(s, suffix) => GoodFinal(g, c, r, L, s, FinalIRL(g, c, r, s, {first, second}, 0))
    BY <1>1, <1>2, <2>2, FinalIsSound
  <2> QED
    BY <1>5, <2>3, <2>4
<1>7. ASSUME NEW D, NulledIn(rule, L, D), ClosedUnder(O, D),
             Filled(c, rule, L, s, D), Something(c, rule, L, s, D)
      PROVE  LHS_of_Piece(g, c, r, s) \in D
  <2>1. \A i \in s .. L : i # first /\ i # second => Available(c, rule, D, i)
    BY <1>2, <1>4, <1>7, OthersAvailable
  <2>2. ASSUME NEW nulled, NEW q, FinalIRL(g, c, r, s, nulled, q) \in O,
               \A i \in s .. L : i \in nulled \/ Available(c, rule, D, i)
        PROVE  LHS_of_Piece(g, c, r, s) \in D
    <3>1. L \in Nat /\ s \in 1 .. L /\ Len(g.rules[r].rhs) = L
      BY <1>1, <1>2
    <3>2. /\ NulledIn(g.rules[r], L, D)
          /\ \A i \in s .. L : i \in nulled \/ Available(c, g.rules[r], D, i)
      BY <1>1, <1>7, <2>2
    <3>3. RHSOf(FinalIRL(g, c, r, s, nulled, q)) \subseteq D
      BY <3>1, <3>2, FinalDerives
    <3> QED
      BY <1>6, <1>7, <2>2, <3>3 DEF ClosedUnder, GoodFinal
  <2>3. CASE Available(c, rule, D, first) /\ Available(c, rule, D, second)
    <3>1. \A i \in s .. L : i \in {} \/ Available(c, rule, D, i)
      BY <2>1, <2>3
    <3> QED
      BY <1>5, <2>2, <3>1
  <2>4. CASE Available(c, rule, D, first) /\ ~ Available(c, rule, D, second)
    <3>1. \A i \in s .. L : i \in {second} \/ Available(c, rule, D, i)
      BY <2>1, <2>4
    <3> QED
      BY <1>5, <2>2, <3>1
  <2>5. CASE ~ Available(c, rule, D, first) /\ Available(c, rule, D, second)
    <3>1. \A i \in s .. L : i \in {first} \/ Available(c, rule, D, i)
      BY <2>1, <2>5
    <3> QED
      BY <1>5, <2>2, <3>1
  <2>6. CASE ~ Available(c, rule, D, first) /\ ~ Available(c, rule, D, second)
    <3>1. \A i \in s .. L : i \in {first, second} \/ Available(c, rule, D, i)
      BY <2>1
    <3>2. PICK i \in s .. L : Available(c, rule, D, i) /\ rule.rhs[i] \notin c.nulling
      BY <1>7 DEF Something
    <3>3. i \in 1 .. L /\ g.rules[r].rhs[i] \notin c.nullable \cup c.nulling
      BY <1>1, <1>2, <1>4, <2>6, <3>2
    <3>4. i <= suffix
      BY <3>3, FactorBounds
    <3>5. NNAllowed(s, suffix)
      BY <1>2, <3>2, <3>4 DEF NNAllowed
    <3> QED
      BY <1>5, <2>2, <3>1, <3>5
  <2> QED
    BY <2>3, <2>4, <2>5, <2>6
<1>8. O # {} /\ \E i \in s .. L : g.rules[r].rhs[i] \notin c.nulling
  BY <1>1, <1>3, <1>5
<1>9. ASSUME NEW D, NulledIn(g.rules[r], L, D), ClosedUnder(O, D)
      PROVE  PieceDerives(g, c, r, L, s, D)
  BY <1>1, <1>7, <1>9 DEF PieceDerives
<1>10. \A irl \in O : /\ irl.lhs = LHS_of_Piece(g, c, r, s) /\ irl.virtual_lhs = (s > 1)
                      /\ SoundFinal(g, c, r, L, irl)
  BY <1>6 DEF GoodFinal
<1>11. PieceOK(g, c, r, L, s, O)
  BY <1>2, <1>8, <1>9, <1>10, LastPiece, Zenon
<1> QED
  BY <1>1, <1>11

\* The rules of the last piece, with one factor.
LEMMA PieceCase4 ==
    ASSUME NEW g, NEW c, NEW r, NEW L, NEW m, NEW f, NEW suffix, IsFactored(g, c, r, L, m, f, suffix),
           NEW k \in 1 .. m, NEW s \in 1 .. L, FirstFrom(f, k, s), m = k
    PROVE  PieceOK(g, c, r, L, s, OwnRules4(g, c, r, s, f[k], suffix))
<1>1. PICK rule, first, O :
         rule = g.rules[r] /\ first = f[k] /\ O = OwnRules4(g, c, r, s, first, suffix)
  OBVIOUS
<1>2. L \in Nat /\ m \in Nat /\ suffix \in 0 .. L /\ Len(rule.rhs) = L /\ ~ (k < m)
  BY <1>1 DEF IsFactored
<1>3. first \in s .. L /\ rule.rhs[first] \notin c.nulling /\ rule.rhs[first] \in c.nullable
  <2>1. f[k] \in 1 .. L
    BY FactorBounds
  <2>2. rule.rhs[first] \notin c.nulling /\ rule.rhs[first] \in c.nullable
    BY <1>1, FactorBounds
  <2> QED
    BY <1>1, <1>2, <2>1, <2>2 DEF FirstFrom
<1>4. \A i \in s .. L : i # first => ~ (rule.rhs[i] \in c.nullable /\ rule.rhs[i] \notin c.nulling)
  BY <1>1, <1>2, LaterFactors
<1>5. \A irl : irl \in O <=> \/ irl = FinalIRL(g, c, r, s, {}, 3)
                             \/ NNAllowed(s, suffix) /\ irl = FinalIRL(g, c, r, s, {first}, 0)
  BY <1>1 DEF OwnRules4, OwnFinal
<1>6. ASSUME NEW irl \in O
      PROVE  GoodFinal(g, c, r, L, s, irl)
  <2>1. Shows(c, g.rules[r], L, s, {})
    BY <1>1, <1>2, <1>3 DEF Shows
  <2>2. ASSUME NNAllowed(s, suffix) PROVE Shows(c, g.rules[r], L, s, {first})
    <3>1. /\ suffix \in s .. L /\ g.rules[r].rhs[suffix] \notin c.nullable
          /\ g.rules[r].rhs[suffix] \notin c.nulling
      BY <2>2, SuffixShows
    <3>2. suffix \notin {first} /\ {first} \subseteq 1 .. L
      BY <1>1, <1>2, <1>3, <3>1
    <3> QED
      BY <3>1, <3>2 DEF Shows
  <2>3. GoodFinal(g, c, r, L, s, FinalIRL(g, c, r, s, {}, 3))
    BY <1>1, <1>2, <2>1, FinalIsSound
  <2>4. NNAllowed(s, suffix) => GoodFinal(g, c, r, L, s, FinalIRL(g, c, r, s, {first}, 0))
    BY <1>1, <1>2, <2>2, FinalIsSound
  <2> QED
    BY <1>5, <2>3, <2>4
<1>7. ASSUME NEW D, NulledIn(rule, L, D), ClosedUnder(O, D),
             Filled(c, rule, L, s, D), Something(c, rule, L, s, D)
      PROVE  LHS_of_Piece(g, c, r, s) \in D
  <2>1. \A i \in s .. L : i # first => Available(c, rule, D, i)
    BY <1>2, <1>4, <1>7, OthersAvailable
  <2>2. ASSUME NEW nulled, NEW q, FinalIRL(g, c, r, s, nulled, q) \in O,
               \A i \in s .. L : i \in nulled \/ Available(c, rule, D, i)
        PROVE  LHS_of_Piece(g, c, r, s) \in D
    <3>1. L \in Nat /\ s \in 1 .. L /\ Len(g.rules[r].rhs) = L
      BY <1>1, <1>2
    <3>2. /\ NulledIn(g.rules[r], L, D)
          /\ \A i \in s .. L : i \in nulled \/ Available(c, g.rules[r], D, i)
      BY <1>1, <1>7, <2>2
    <3>3. RHSOf(FinalIRL(g, c, r, s, nulled, q)) \subseteq D
      BY <3>1, <3>2, FinalDerives
    <3> QED
      BY <1>6, <1>7, <2>2, <3>3 DEF ClosedUnder, GoodFinal
  <2>3. CASE Available(c, rule, D, first)
    <3>1. \A i \in s .. L : i \in {} \/ Available(c, rule, D, i)
      BY <2>1, <2>3
    <3> QED
      BY <1>5, <2>2, <3>1
  <2>4. CASE ~ Available(c, rule, D, first)
    <3>1. \A i \in s .. L : i \in {first} \/ Available(c, rule, D, i)
      BY <2>1
    <3>2. PICK i \in s .. L : Available(c, rule, D, i) /\ rule.rhs[i] \notin c.nulling
      BY <1>7 DEF Something
    <3>3. i \in 1 .. L /\ g.rules[r].rhs[i] \notin c.nullable \cup c.nulling
      BY <1>1, <1>2, <1>4, <2>4, <3>2
    <3>4. i <= suffix
      BY <3>3, FactorBounds
    <3>5. NNAllowed(s, suffix)
      BY <1>2, <3>2, <3>4 DEF NNAllowed
    <3> QED
      BY <1>5, <2>2, <3>1, <3>5
  <2> QED
    BY <2>3, <2>4
<1>8. O # {} /\ \E i \in s .. L : g.rules[r].rhs[i] \notin c.nulling
  BY <1>1, <1>3, <1>5
<1>9. ASSUME NEW D, NulledIn(g.rules[r], L, D), ClosedUnder(O, D)
      PROVE  PieceDerives(g, c, r, L, s, D)
  BY <1>1, <1>7, <1>9 DEF PieceDerives
<1>10. \A irl \in O : /\ irl.lhs = LHS_of_Piece(g, c, r, s) /\ irl.virtual_lhs = (s > 1)
                      /\ SoundFinal(g, c, r, L, irl)
  BY <1>6 DEF GoodFinal
<1>11. PieceOK(g, c, r, L, s, O)
  BY <1>2, <1>8, <1>9, <1>10, LastPiece, Zenon
<1> QED
  BY <1>1, <1>11

\* The rules of all the pieces of a rule.
LEMMA PiecesAreOK ==
    ASSUME NEW g, NEW c, NEW r, NEW L, NEW m, NEW f, NEW suffix, IsFactored(g, c, r, L, m, f, suffix),
           m # 0
    PROVE  /\ PieceIRLs(g, c, r) \in Seq(PieceRules(g, c, r, L))
           /\ PieceOK(g, c, r, L, 1, ToSet(PieceIRLs(g, c, r)))
<1>1. PICK h \in [(1 .. m) \X (1 .. L) -> Seq(PieceRules(g, c, r, L))] :
         /\ \A at \in (1 .. m) \X (1 .. L) : h[at] = PiecesFrom(g, c, r, f, at[1], at[2], h)
         /\ PieceIRLs(g, c, r) = h[<<1, 1>>]
  <2>1. \E h : IsPieces(g, c, r, L, m, f, h)
    BY PieceIRLsParts
  <2> QED
    BY <2>1, Zenon DEF IsPieces
<1>2. L \in Nat /\ m \in Nat /\ suffix \in 0 .. L
  BY DEF IsFactored
<1>3. /\ \A j \in 1 .. m : f[j] \in 1 .. L
      /\ \A i, j \in 1 .. m : i < j => f[i] < f[j]
  <2>1. \A j \in 1 .. m : f[j] \in 1 .. L
    BY FactorBounds
  <2>2. \A i, j \in 1 .. m : i < j => f[i] < f[j]
    BY FactorBounds
  <2> QED
    BY <2>1, <2>2
<1> DEFINE Shown(k) == \A s \in 1 .. L : FirstFrom(f, k, s) => PieceOK(g, c, r, L, s, ToSet(h[<<k, s>>]))
           S == {n \in 0 .. m : \A k \in 1 .. m : k > m - n => Shown(k)}
<1>4. ASSUME NEW k \in 1 .. m, \A j \in 1 .. m : j > k => Shown(j)
      PROVE  Shown(k)
  <2> SUFFICES ASSUME NEW s \in 1 .. L, FirstFrom(f, k, s)
               PROVE  PieceOK(g, c, r, L, s, ToSet(h[<<k, s>>]))
    OBVIOUS
  <2>1. h[<<k, s>>] = PiecesFrom(g, c, r, f, k, s, h)
    <3>1. <<k, s>> \in (1 .. m) \X (1 .. L) /\ <<k, s>>[1] = k /\ <<k, s>>[2] = s
      OBVIOUS
    <3> QED
      BY <1>1, <3>1
  <2>2. PiecesMade(g, c, r, L, m, f, suffix, k, s, h, PiecesFrom(g, c, r, f, k, s, h))
    BY <1>1, PiecesFromParts
  <2>3. PiecesMade(g, c, r, L, m, f, suffix, k, s, h, h[<<k, s>>])
    BY <2>1, <2>2
  <2>4. CASE m - k >= 2 /\ f[k + 1] > suffix
    <3>1. k + 1 \in 1 .. m /\ k + 1 > k /\ k + 1 # 1 /\ (k + 1) - 1 = k /\ k < k + 1
      BY <1>2, <2>4
    <3>2. f[k + 1] \in 1 .. L /\ f[k] < f[k + 1]
      BY <1>3, <3>1
    <3>3. FirstFrom(f, k + 1, f[k + 1])
      BY <1>2, <3>1, <3>2 DEF FirstFrom
    <3>4. PieceOK(g, c, r, L, f[k + 1], ToSet(h[<<k + 1, f[k + 1]>>]))
      BY <1>4, <3>1, <3>2, <3>3
    <3>5. PieceOK(g, c, r, L, s, OwnRules1(g, c, r, L, s, f[k], f[k + 1], suffix)
                                   \cup ToSet(h[<<k + 1, f[k + 1]>>]))
      BY <2>4, <3>1, <3>4, PieceCase1
    <3> QED
      BY <2>3, <2>4, <3>5 DEF PiecesMade
  <2>5. CASE m - k >= 2 /\ ~ (f[k + 1] > suffix)
    <3>1. /\ k + 1 \in 1 .. m /\ k + 2 \in 1 .. m /\ k + 2 > k /\ k + 2 # 1 /\ (k + 2) - 1 = k + 1
          /\ k + 1 < k + 2
      BY <1>2, <2>5
    <3>2. f[k + 1] \in 1 .. L /\ f[k + 2] \in 1 .. L /\ f[k + 1] < f[k + 2]
      BY <1>3, <3>1
    <3>3. FirstFrom(f, k + 2, f[k + 1] + 1) /\ f[k + 1] + 1 \in 1 .. L
      <4>1. f[k + 1] + 1 \in 1 .. L /\ f[k + 1] + 1 <= f[k + 2] /\ f[k + 1] < f[k + 1] + 1
        BY <1>2, <3>2
      <4>2. f[(k + 2) - 1] = f[k + 1] /\ k + 2 # 1
        BY <3>1
      <4> QED
        BY <4>1, <4>2 DEF FirstFrom
    <3>4. PieceOK(g, c, r, L, f[k + 1] + 1, ToSet(h[<<k + 2, f[k + 1] + 1>>]))
      BY <1>4, <3>1, <3>3
    <3>5. PieceOK(g, c, r, L, s, OwnRules2(g, c, r, s, f[k], f[k + 1])
                                   \cup ToSet(h[<<k + 2, f[k + 1] + 1>>]))
      BY <2>5, <3>1, <3>4, PieceCase2
    <3> QED
      BY <2>3, <2>5, <3>5 DEF PiecesMade
  <2>6. CASE m - k = 1
    <3>1. PieceOK(g, c, r, L, s, OwnRules3(g, c, r, s, f[k], f[k + 1], suffix))
      BY <2>6, PieceCase3
    <3> QED
      BY <2>3, <2>6, <3>1 DEF PiecesMade
  <2>7. CASE m = k
    <3>1. PieceOK(g, c, r, L, s, OwnRules4(g, c, r, s, f[k], suffix))
      BY <2>7, PieceCase4
    <3> QED
      BY <2>3, <2>7, <3>1 DEF PiecesMade
  <2>8. m - k >= 2 \/ m - k = 1 \/ m = k
    BY <1>2
  <2> QED
    BY <2>4, <2>5, <2>6, <2>7, <2>8
<1> HIDE DEF Shown
<1>5. 0 \in S
  BY <1>2
<1>6. ASSUME NEW n \in 0 .. m, n \in S, n < m
      PROVE  n + 1 \in S
  <2>1. ASSUME NEW k \in 1 .. m, k > m - (n + 1)
        PROVE  Shown(k)
    <3>1. \A j \in 1 .. m : j > k => j > m - n
      BY <1>2, <2>1
    <3> QED
      BY <1>4, <1>6, <3>1
  <2> QED
    BY <1>2, <1>6, <2>1
<1> HIDE DEF S
<1>7. \A n \in 0 .. m : n \in S
  BY <1>2, <1>5, <1>6, UpTo
<1>8. Shown(1)
  <2>1. m \in 0 .. m /\ 1 \in 1 .. m /\ 1 > m - m
    BY <1>2
  <2> QED
    BY <1>7, <2>1 DEF S
<1>9. 1 \in 1 .. m /\ 1 \in 1 .. L /\ FirstFrom(f, 1, 1)
  <2>1. 1 \in 1 .. m
    BY <1>2
  <2>2. f[1] \in 1 .. L
    BY <1>3, <2>1
  <2> QED
    BY <1>2, <2>1, <2>2 DEF FirstFrom
<1>10. <<1, 1>> \in (1 .. m) \X (1 .. L)
  BY <1>9
<1> QED
  BY <1>1, <1>8, <1>9, <1>10 DEF Shown

-----------------------------------------------------------------------------
(* The internal rules of a rule that is used *)

\* A rule that is not a sequence and has no factors is taken over as it is.
PlainIRL(g, c, r) ==
    NewIRL(g, r, NSY_of(c, g.rules[r].lhs),
           [i \in DOMAIN g.rules[r].rhs |-> NSY_of(c, g.rules[r].rhs[i])],
           0, FALSE, FALSE, MAXIMUM_CHAF_RANK)

\* A rule without factors is one piece.
LEMMA PlainRuleOK ==
    ASSUME NEW g, NEW c, NEW r, NEW L, NEW f, NEW suffix, IsFactored(g, c, r, L, 0, f, suffix),
           \E i \in 1 .. L : g.rules[r].rhs[i] \notin c.nulling
    PROVE  PieceOK(g, c, r, L, 1, {PlainIRL(g, c, r)})
<1>1. PICK irl, O : irl = PlainIRL(g, c, r) /\ O = {irl}
  OBVIOUS
<1>2. L \in Nat /\ L - 1 + 1 = L /\ \A p \in 1 .. L : 1 + p - 1 = p
  BY DEF IsFactored
<1>3. 1 \in 1 .. L
  BY <1>2
<1>4. /\ irl.lhs = NSY_of(c, g.rules[r].lhs) /\ irl.source = r
      /\ irl.virtual_lhs = FALSE /\ irl.virtual_rhs = FALSE
      /\ irl.rhs = [i \in DOMAIN g.rules[r].rhs |-> NSY_of(c, g.rules[r].rhs[i])]
  BY <1>1 DEF PlainIRL, NewIRL
<1>5. irl.rhs = [i \in 1 .. L |-> NSY_of(c, g.rules[r].rhs[i])]
  BY <1>4 DEF IsFactored
<1>6. DOMAIN irl.rhs = 1 .. L /\ \A i \in 1 .. L : irl.rhs[i] = NSY_of(c, g.rules[r].rhs[i])
  BY <1>5
<1>7. Len(irl.rhs) = L
  <2>1. PICK Z : \A i \in 1 .. L : NSY_of(c, g.rules[r].rhs[i]) \in Z
    <3>1. \A i \in 1 .. L : NSY_of(c, g.rules[r].rhs[i]) \in {NSY_of(c, g.rules[r].rhs[j]) : j \in 1 .. L}
      OBVIOUS
    <3> QED
      BY <3>1
  <2>2. irl.rhs \in [1 .. L -> Z]
    BY <1>5, <2>1
  <2>3. irl.rhs \in Seq(Z)
    BY <1>2, <2>2
  <2> QED
    BY <1>2, <1>6, <2>3
<1>8. LHS_of_Piece(g, c, r, 1) = NSY_of(c, g.rules[r].lhs)
  BY DEF LHS_of_Piece
<1>9. IsFinal(g, c, r, L, 1, {}, irl)
  <2>1. (1 > 1) = FALSE
    OBVIOUS
  <2>2. irl.virtual_lhs = (1 > 1) /\ ~ (1 > 1)
    BY <1>4, <2>1, Zenon
  <2>3. \A p \in 1 .. L : irl.rhs[p] = NSYAt(c, g.rules[r], {}, p)
    BY <1>6 DEF NSYAt
  <2>4. \A p \in 1 .. L - 1 + 1 : irl.rhs[p] = NSYAt(c, g.rules[r], {}, 1 + p - 1)
    BY <1>2, <2>3
  <2> QED
    BY <1>2, <1>4, <1>6, <1>7, <1>8, <2>2, <2>4, Zenon DEF IsFinal
<1>10. SoundFinal(g, c, r, L, irl)
  <2>1. {} \in SUBSET (1 .. L) /\ \E i \in 1 .. L : i \notin {} /\ g.rules[r].rhs[i] \notin c.nulling
    OBVIOUS
  <2> QED
    BY <1>3, <1>9, <2>1 DEF SoundFinal
<1>11. ASSUME NEW D, NulledIn(g.rules[r], L, D), ClosedUnder(O, D), Filled(c, g.rules[r], L, 1, D)
       PROVE  LHS_of_Piece(g, c, r, 1) \in D
  <2>1. ASSUME NEW i \in 1 .. L
        PROVE  NSY_of(c, g.rules[r].rhs[i]) \in D
    <3>1. Available(c, g.rules[r], D, i)
          \/ (g.rules[r].rhs[i] \in c.nullable /\ g.rules[r].rhs[i] \notin c.nulling)
      BY <1>2, <1>3, <1>11, OthersAvailable
    <3>2. (g.rules[r].rhs[i] \in c.nullable /\ g.rules[r].rhs[i] \notin c.nulling)
             => \E q \in 1 .. 0 : f[q] = i
      BY FactorBounds
    <3> QED
      BY <3>1, <3>2 DEF Available
  <2>2. RHSOf(irl) \subseteq D
    BY <1>6, <2>1 DEF RHSOf
  <2> QED
    BY <1>1, <1>4, <1>8, <1>11, <2>2 DEF ClosedUnder
<1>12. \A D : NulledIn(g.rules[r], L, D) /\ ClosedUnder(O, D) => PieceDerives(g, c, r, L, 1, D)
  BY <1>11 DEF PieceDerives
<1>13. \A i2 \in O : /\ i2.lhs = LHS_of_Piece(g, c, r, 1) /\ i2.virtual_lhs = (1 > 1)
                     /\ SoundFinal(g, c, r, L, i2)
  <2>1. (1 > 1) = FALSE
    OBVIOUS
  <2>2. irl.virtual_lhs = (1 > 1)
    BY <1>4, <2>1, Zenon
  <2> QED
    BY <1>1, <1>4, <1>8, <1>10, <2>2, Zenon
<1>14. O # {}
  BY <1>1
<1>15. PieceOK(g, c, r, L, 1, O)
  BY <1>2, <1>3, <1>12, <1>13, <1>14, LastPiece, Zenon
<1> QED
  BY <1>1, <1>15

\* A rule that is used has a symbol that is not nulling.
LEMMA UsedShows ==
    ASSUME NEW g, GrammarOK(g), NEW c, NEW r \in XRLs_of(g), XRL_is_Used(c, g.rules[r])
    PROVE  /\ g.rules[r].rhs \in Seq(Nat) /\ g.rules[r] \in RulesOf(g) /\ WellMade(g.rules[r])
           /\ ~ g.rules[r].sequence =>
                 \E i \in DOMAIN g.rules[r].rhs : g.rules[r].rhs[i] \notin c.nulling
<1>1. g.rules[r] \in Rules /\ g.rules[r] \in RulesOf(g) /\ WellMade(g.rules[r])
  <2>1. g.rules \in Seq(Rules) /\ WellMade(g.rules[r])
    BY DEF GrammarOK
  <2> QED
    BY <2>1 DEF XRLs_of, RulesOf
<1>2. ASSUME ~ g.rules[r].sequence
      PROVE  \E i \in DOMAIN g.rules[r].rhs : g.rules[r].rhs[i] \notin c.nulling
  <2>1. SeparatorOf(g.rules[r]) = {}
    BY <1>1, <1>2 DEF WellMade, SeparatorOf
  <2>2. PICK x \in RHSOf(g.rules[r]) : x \notin c.nulling
    BY <2>1 DEF XRL_is_Used, XRL_is_Nulling
  <2> QED
    BY <2>2 DEF RHSOf
<1> QED
  BY <1>1, <1>2 DEF Rules

\* The internal rules of a BNF rule are in order.
BNFOK(g, c, r, R) ==
    \E L \in Nat : /\ Len(g.rules[r].rhs) = L /\ DOMAIN g.rules[r].rhs = 1 .. L
                   /\ PieceOK(g, c, r, L, 1, R)

\* The internal rules of a used BNF rule are those of its pieces.
LEMMA BNFRuleOK ==
    ASSUME NEW g, GrammarOK(g), NEW c, NEW r \in XRLs_of(g), XRL_is_Used(c, g.rules[r]),
           ~ g.rules[r].sequence
    PROVE  /\ \E X : IRLs_of_XRL(g, c, r) \in Seq(X)
           /\ BNFOK(g, c, r, ToSet(IRLs_of_XRL(g, c, r)))
<1>1. /\ g.rules[r].rhs \in Seq(Nat)
      /\ \E i \in DOMAIN g.rules[r].rhs : g.rules[r].rhs[i] \notin c.nulling
  BY UsedShows
<1>2. PICK L, m, f, suffix : IsFactored(g, c, r, L, m, f, suffix)
  BY <1>1, RuleIsFactored
<1>3. /\ L \in Nat /\ m \in Nat /\ Len(f) = m /\ f = FactorPositions(c, g.rules[r])
      /\ DOMAIN f = 1 .. m /\ Len(g.rules[r].rhs) = L /\ DOMAIN g.rules[r].rhs = 1 .. L
  BY <1>2 DEF IsFactored
<1>4. \E i \in 1 .. L : g.rules[r].rhs[i] \notin c.nulling
  BY <1>1, <1>3
<1>5. CASE m # 0
  <2>1. f # <<>>
    BY <1>3, <1>5
  <2>2. IRLs_of_XRL(g, c, r) = PieceIRLs(g, c, r)
    BY <1>3, <2>1, Zenon DEF IRLs_of_XRL
  <2>3. /\ PieceIRLs(g, c, r) \in Seq(PieceRules(g, c, r, L))
        /\ PieceOK(g, c, r, L, 1, ToSet(PieceIRLs(g, c, r)))
    BY <1>2, <1>5, PiecesAreOK
  <2> QED
    BY <1>3, <2>2, <2>3 DEF BNFOK
<1>6. CASE m = 0
  <2>1. f = <<>>
    <3>1. f \in [1 .. m -> FactorsOf(c, g.rules[r])]
      BY <1>2 DEF IsFactored
    <3> QED
      BY <1>6, <3>1
  <2>2. IRLs_of_XRL(g, c, r) = <<PlainIRL(g, c, r)>>
    BY <1>3, <2>1, Zenon DEF IRLs_of_XRL, PlainIRL
  <2>3. <<PlainIRL(g, c, r)>> \in Seq({PlainIRL(g, c, r)}) /\ ToSet(<<PlainIRL(g, c, r)>>) = {PlainIRL(g, c, r)}
    BY SingleParts
  <2>4. PieceOK(g, c, r, L, 1, {PlainIRL(g, c, r)})
    BY <1>2, <1>4, <1>6, PlainRuleOK
  <2> QED
    BY <1>3, <2>2, <2>3, <2>4 DEF BNFOK
<1> QED
  BY <1>5, <1>6

\* What the internal rules of a sequence are.
IsIRL(irl, r, lhs, rhs, real, virtual_lhs, virtual_rhs) ==
    /\ irl.lhs = lhs /\ irl.rhs = rhs /\ irl.source = r /\ irl.real = real
    /\ irl.virtual_lhs = virtual_lhs /\ irl.virtual_rhs = virtual_rhs
IsTop(g, c, r, irl) ==
    IsIRL(irl, r, NSY_of(c, g.rules[r].lhs), <<VirtualNSY(g, r, 1)>>, 0, FALSE, TRUE)
IsTerminated(g, c, r, irl) ==
    /\ g.rules[r].separator # NoXSY /\ ~ g.rules[r].proper
    /\ IsIRL(irl, r, NSY_of(c, g.rules[r].lhs),
             <<VirtualNSY(g, r, 1), NSY_of(c, g.rules[r].separator)>>, 1, FALSE, TRUE)
IsFirstItem(g, c, r, irl) ==
    IsIRL(irl, r, VirtualNSY(g, r, 1), <<NSY_of(c, g.rules[r].rhs[1])>>, 1, TRUE, FALSE)
IsNextItem(g, c, r, irl) ==
    /\ g.rules[r].separator = NoXSY
    /\ IsIRL(irl, r, VirtualNSY(g, r, 1),
             <<VirtualNSY(g, r, 1), NSY_of(c, g.rules[r].rhs[1])>>, 1, TRUE, TRUE)
IsSeparatedItem(g, c, r, irl) ==
    /\ g.rules[r].separator # NoXSY
    /\ IsIRL(irl, r, VirtualNSY(g, r, 1),
             <<VirtualNSY(g, r, 1), NSY_of(c, g.rules[r].separator), NSY_of(c, g.rules[r].rhs[1])>>,
             2, TRUE, TRUE)
IsOfSequence(g, c, r, irl) ==
    \/ IsTop(g, c, r, irl) \/ IsTerminated(g, c, r, irl) \/ IsFirstItem(g, c, r, irl)
    \/ IsNextItem(g, c, r, irl) \/ IsSeparatedItem(g, c, r, irl)

SequenceOK(g, c, r, R) ==
    /\ \A irl \in R : IsOfSequence(g, c, r, irl)
    /\ \E irl \in R : IsTop(g, c, r, irl)
    /\ \E irl \in R : IsFirstItem(g, c, r, irl)

\* A sequence joined to another, and one with one more element.
Joins(a, b, w) ==
    /\ Len(w) = Len(a) + Len(b) /\ Len(a) \in Nat /\ Len(b) \in Nat
    /\ \A i \in 1 .. Len(a) : w[i] = a[i]
    /\ DOMAIN w = 1 .. Len(a) + Len(b)
    /\ \A i \in 1 .. Len(b) : w[Len(a) + i] = b[i]

\* The elements of a concatenation, by position.
LEMMA JoinedParts ==
    ASSUME NEW X, NEW a \in Seq(X), NEW b \in Seq(X)
    PROVE  a \o b \in Seq(X) /\ Joins(a, b, a \o b)
<1>1. /\ a \o b \in Seq(X) /\ Len(a \o b) = Len(a) + Len(b) /\ Len(a) \in Nat /\ Len(b) \in Nat
      /\ \A i \in 1 .. Len(a) : (a \o b)[i] = a[i]
      /\ DOMAIN (a \o b) = 1 .. Len(a) + Len(b)
  OBVIOUS
<1>2. \A i \in 1 .. Len(b) : (a \o b)[Len(a) + i] = b[i]
  OBVIOUS
<1> QED
  BY <1>1, <1>2 DEF Joins

\* A sequence with one element more.
LEMMA OneMore ==
    ASSUME NEW X, NEW u \in Seq(X), NEW v \in Seq(X), Len(v) = 1
    PROVE  /\ u \o v \in Seq(X) /\ DOMAIN (u \o v) = 1 .. Len(u) + 1
           /\ \A i \in 1 .. Len(u) : (u \o v)[i] = u[i]
           /\ (u \o v)[Len(u) + 1] = v[1]
<1>1. PICK w : w = u \o v
  OBVIOUS
<1>2. w \in Seq(X) /\ Joins(u, v, w)
  <2>1. u \o v \in Seq(X) /\ Joins(u, v, u \o v)
    BY JoinedParts
  <2> QED
    BY <1>1, <2>1
<1>3. 1 \in 1 .. Len(v)
  OBVIOUS
<1> QED
  BY <1>1, <1>2, <1>3 DEF Joins

\* Short sequences joined.
LEMMA TwoJoined ==
    \A x, y, z : /\ <<x>> \o <<>> = <<x>> /\ <<x>> \o <<y>> = <<x, y>>
                 /\ <<x>> \o <<y>> \o <<z>> = <<x, y, z>>
                 /\ Len(<<>>) + 1 = 1 /\ Len(<<x>>) + 1 = 2
<1> SUFFICES ASSUME NEW x, NEW y, NEW z
             PROVE  /\ <<x>> \o <<>> = <<x>> /\ <<x>> \o <<y>> = <<x, y>>
                    /\ <<x>> \o <<y>> \o <<z>> = <<x, y, z>>
                    /\ Len(<<>>) + 1 = 1 /\ Len(<<x>>) + 1 = 2
  OBVIOUS
<1>1. PICK X : x \in X /\ y \in X /\ z \in X
  <2>1. x \in {x, y, z} /\ y \in {x, y, z} /\ z \in {x, y, z}
    OBVIOUS
  <2> QED
    BY <2>1
<1>2. <<x>> \in Seq(X) /\ <<y>> \in Seq(X) /\ <<z>> \in Seq(X) /\ <<>> \in Seq(X)
      /\ <<x, y>> \in Seq(X) /\ <<x, y, z>> \in Seq(X)
  BY <1>1
<1>3. <<x>> \o <<>> = <<x>>
  BY <1>2
<1>4. <<x>> \o <<y>> = <<x, y>>
  <2>5. PICK u, v, a : u = <<x>> /\ v = <<y>> /\ a = u \o v
    OBVIOUS
  <2>1. a = <<x>> \o <<y>>
    BY <2>5, Zenon
  <2>6. u \in Seq(X) /\ v \in Seq(X) /\ Len(u) = 1 /\ Len(v) = 1 /\ u[1] = x /\ v[1] = y
    BY <1>2, <2>5
  <2>7. /\ a \in Seq(X) /\ DOMAIN a = 1 .. Len(u) + 1
        /\ \A i \in 1 .. Len(u) : a[i] = u[i]
        /\ a[Len(u) + 1] = v[1]
    BY <2>5, <2>6, OneMore
  <2>2. a[1] = x /\ a[2] = y /\ DOMAIN a = 1 .. 2
    BY <2>6, <2>7
  <2>3. a = [i \in 1 .. 2 |-> a[i]]
    BY <2>2, <2>7
  <2>4. <<x, y>> = [i \in 1 .. 2 |-> a[i]]
    BY <2>2
  <2> QED
    BY <2>1, <2>3, <2>4
<1>5. <<x, y>> \o <<z>> = <<x, y, z>>
  <2>5. PICK u, v, a : u = <<x, y>> /\ v = <<z>> /\ a = u \o v
    OBVIOUS
  <2>1. a = <<x, y>> \o <<z>>
    BY <2>5, Zenon
  <2>6. /\ u \in Seq(X) /\ v \in Seq(X) /\ Len(u) = 2 /\ Len(v) = 1
        /\ u[1] = x /\ u[2] = y /\ v[1] = z
    BY <1>2, <2>5
  <2>7. /\ a \in Seq(X) /\ DOMAIN a = 1 .. Len(u) + 1
        /\ \A i \in 1 .. Len(u) : a[i] = u[i]
        /\ a[Len(u) + 1] = v[1]
    BY <2>5, <2>6, OneMore
  <2>2. a[1] = x /\ a[2] = y /\ a[3] = z /\ DOMAIN a = 1 .. 3
    BY <2>6, <2>7
  <2>3. a = [i \in 1 .. 3 |-> a[i]]
    BY <2>2, <2>7
  <2>4. <<x, y, z>> = [i \in 1 .. 3 |-> a[i]]
    BY <2>2
  <2> QED
    BY <2>1, <2>3, <2>4
<1>6. Len(<<>>) + 1 = 1 /\ Len(<<x>>) + 1 = 2
  OBVIOUS
<1> QED
  BY <1>3, <1>4, <1>5, <1>6

\* No element is there twice.
NoneTwice(q) == \A i, j \in DOMAIN q : q[i] = q[j] => i = j

\* Two sequences without repetition that share nothing, joined.
LEMMA OnceParts ==
    ASSUME NEW X, NEW a \in Seq(X), NEW b \in Seq(X), NoneTwice(a), NoneTwice(b),
           ToSet(a) \cap ToSet(b) = {}
    PROVE  NoneTwice(a \o b)
<1>1. /\ a \o b \in Seq(X) /\ Joins(a, b, a \o b) /\ DOMAIN a = 1 .. Len(a) /\ DOMAIN b = 1 .. Len(b)
  BY JoinedParts
<1>2. PICK w, m, n : w = a \o b /\ m = Len(a) /\ n = Len(b)
  OBVIOUS
<1>3. /\ m \in Nat /\ n \in Nat /\ DOMAIN w = 1 .. m + n /\ DOMAIN a = 1 .. m /\ DOMAIN b = 1 .. n
      /\ \A i \in 1 .. m : w[i] = a[i]
      /\ \A i \in 1 .. n : w[m + i] = b[i]
  BY <1>1, <1>2 DEF Joins
<1>4. \A i \in 1 .. m + n : i \notin 1 .. m => i - m \in 1 .. n /\ w[i] = b[i - m]
  <2> SUFFICES ASSUME NEW i \in 1 .. m + n, i \notin 1 .. m
               PROVE  i - m \in 1 .. n /\ w[i] = b[i - m]
    OBVIOUS
  <2>1. i - m \in 1 .. n /\ m + (i - m) = i
    BY <1>3
  <2> QED
    BY <1>3, <2>1
<1>5. \A i \in 1 .. m, j \in 1 .. n : a[i] # b[j]
  BY <1>3 DEF ToSet
<1>6. ASSUME NEW i \in 1 .. m + n, NEW j \in 1 .. m + n, w[i] = w[j]
      PROVE  i = j
  <2>1. CASE i \in 1 .. m /\ j \in 1 .. m
    BY <1>3, <1>6, <2>1 DEF NoneTwice
  <2>2. CASE i \in 1 .. m /\ j \notin 1 .. m
    BY <1>3, <1>4, <1>5, <1>6, <2>2
  <2>3. CASE i \notin 1 .. m /\ j \in 1 .. m
    BY <1>3, <1>4, <1>5, <1>6, <2>3
  <2>4. CASE i \notin 1 .. m /\ j \notin 1 .. m
    <3>1. i - m \in 1 .. n /\ j - m \in 1 .. n /\ b[i - m] = b[j - m]
      BY <1>4, <1>6, <2>4
    <3>2. i - m = j - m
      BY <1>3, <3>1 DEF NoneTwice
    <3> QED
      BY <1>3, <3>2
  <2> QED
    BY <2>1, <2>2, <2>3, <2>4
<1> QED
  BY <1>2, <1>3, <1>6 DEF NoneTwice

\* Nothing, and one rule, have no repetition.
LEMMA SingleOnce == NoneTwice(<<>>) /\ \A x : NoneTwice(<<x>>)
  BY DEF NoneTwice

\* The four rules of a sequence, of which one is only there to end it with a
\* separator.
AreOfSequence(g, c, r, n1, n2, n3, n4) ==
    LET separated == g.rules[r].separator # NoXSY /\ ~ g.rules[r].proper
        made == IRLs_of_XRL(g, c, r)
    IN  /\ IsTop(g, c, r, n1) /\ IsFirstItem(g, c, r, n3)
        /\ separated => IsTerminated(g, c, r, n2)
        /\ IsNextItem(g, c, r, n4) \/ IsSeparatedItem(g, c, r, n4)
        /\ \A irl : irl \in ToSet(made) <=>
                       irl = n1 \/ (irl = n2 /\ separated) \/ irl = n3 \/ irl = n4
        /\ NoneTwice(made) /\ \E X : made \in Seq(X)

\* A used sequence has them.
LEMMA SequenceParts ==
    ASSUME NEW g, NEW c, NEW r, XRL_is_Used(c, g.rules[r]), g.rules[r].sequence
    PROVE  \E n1, n2, n3, n4 : AreOfSequence(g, c, r, n1, n2, n3, n4)
<1>1. PICK rule, lhs, internal, item, sep :
         /\ rule = g.rules[r] /\ lhs = NSY_of(c, rule.lhs) /\ internal = VirtualNSY(g, r, 1)
         /\ item = NSY_of(c, rule.rhs[1])
         /\ sep = IF rule.separator = NoXSY THEN <<>> ELSE <<NSY_of(c, rule.separator)>>
  OBVIOUS
<1> DEFINE Made(l, rhs, real, vl, vr) == NewIRL(g, r, l, rhs, real, vl, vr, MAXIMUM_CHAF_RANK)
<1>2. PICK n1, n2, n3, n4 :
         /\ n1 = Made(lhs, <<internal>>, 0, FALSE, TRUE)
         /\ n2 = Made(lhs, <<internal>> \o sep, 1, FALSE, TRUE)
         /\ n3 = Made(internal, <<item>>, 1, TRUE, FALSE)
         /\ n4 = Made(internal, <<internal>> \o sep \o <<item>>, Len(sep) + 1, TRUE, TRUE)
  OBVIOUS
<1>3. IRLs_of_XRL(g, c, r) =
        <<n1>> \o (IF sep = <<>> \/ rule.proper THEN <<>> ELSE <<n2>>) \o <<n3, n4>>
  <2>1. IRLs_of_XRL(g, c, r) = SequenceIRLs(g, c, r)
    BY Zenon DEF IRLs_of_XRL
  <2>2. SequenceIRLs(g, c, r) =
          <<n1>> \o (IF sep = <<>> \/ rule.proper THEN <<>> ELSE <<n2>>) \o <<n3, n4>>
    BY <1>1, <1>2, Zenon DEF SequenceIRLs
  <2> QED
    BY <2>1, <2>2
<1>4. PICK X, two, three : X = {n1, n2, n3, n4} /\ three = <<n3, n4>>
                           /\ two = IF sep = <<>> \/ rule.proper THEN <<>> ELSE <<n2>>
  OBVIOUS
<1>5. /\ <<n1>> \in Seq(X) /\ ToSet(<<n1>>) = {n1}
      /\ two \in Seq(X) /\ ToSet(two) = {n \in {n2} : ~ (sep = <<>> \/ rule.proper)}
      /\ three \in Seq(X) /\ ToSet(three) = {n3, n4}
  <2>1. n1 \in X /\ n2 \in X /\ n3 \in X /\ n4 \in X
    BY <1>4
  <2>2. <<n1>> \in Seq(X) /\ ToSet(<<n1>>) = {n1}
    BY <2>1, SingleParts
  <2>3. two \in Seq(X) /\ ToSet(two) = {n \in {n2} : ~ (sep = <<>> \/ rule.proper)}
    <3>1. <<n2>> \in Seq(X) /\ ToSet(<<n2>>) = {n2} /\ <<>> \in Seq(X) /\ ToSet(<<>>) = {}
      BY <2>1, SingleParts
    <3>2. CASE sep = <<>> \/ rule.proper
      BY <1>4, <3>1, <3>2
    <3>3. CASE ~ (sep = <<>> \/ rule.proper)
      BY <1>4, <3>1, <3>3
    <3> QED
      BY <3>2, <3>3
  <2>4. three \in Seq(X) /\ ToSet(three) = {n3, n4}
    BY <1>4, <2>1 DEF ToSet
  <2> QED
    BY <2>2, <2>3, <2>4
<1>6. PICK front : front = <<n1>> \o two
  OBVIOUS
<1>7. front \in Seq(X) /\ ToSet(front) = ToSet(<<n1>>) \cup ToSet(two)
  <2>1. <<n1>> \in Seq(X) /\ two \in Seq(X)
    BY <1>5
  <2>2. <<n1>> \o two \in Seq(X) /\ ToSet(<<n1>> \o two) = ToSet(<<n1>>) \cup ToSet(two)
    BY <2>1, ConcatParts
  <2> QED
    BY <1>6, <2>2
<1>8. front \o three \in Seq(X) /\ ToSet(front \o three) = ToSet(front) \cup ToSet(three)
  BY <1>5, <1>7, ConcatParts
<1>9. IRLs_of_XRL(g, c, r) = front \o three
  <2> HIDE DEF Made
  <2>1. IRLs_of_XRL(g, c, r) = <<n1>> \o two \o three
    BY <1>3, <1>4
  <2> QED
    BY <1>6, <2>1, Zenon
<1>10. \A irl : irl \in ToSet(IRLs_of_XRL(g, c, r)) <=>
          irl = n1 \/ (irl = n2 /\ ~ (sep = <<>> \/ rule.proper)) \/ irl = n3 \/ irl = n4
  BY <1>5, <1>7, <1>8, <1>9
<1>11. IsTop(g, c, r, n1) /\ IsFirstItem(g, c, r, n3)
  BY <1>1, <1>2 DEF IsTop, IsFirstItem, IsIRL, NewIRL
<1>12. ASSUME ~ (sep = <<>> \/ rule.proper)
       PROVE  IsTerminated(g, c, r, n2)
  <2>1. rule.separator # NoXSY
    BY <1>1, <1>12
  <2>2. <<internal>> \o sep = <<internal, NSY_of(c, rule.separator)>>
    <3>1. sep = <<NSY_of(c, rule.separator)>>
      BY <1>1, <2>1
    <3> QED
      BY <3>1, TwoJoined
  <2>3. n2 = Made(lhs, <<internal, NSY_of(c, rule.separator)>>, 1, FALSE, TRUE)
    BY <1>2, <2>2
  <2> QED
    BY <1>1, <1>12, <2>1, <2>3 DEF IsTerminated, IsIRL, NewIRL
<1>13. IsNextItem(g, c, r, n4) \/ IsSeparatedItem(g, c, r, n4)
  <2>1. CASE rule.separator = NoXSY
    <3>1. <<internal>> \o sep \o <<item>> = <<internal, item>> /\ Len(sep) + 1 = 1
      <4>1. sep = <<>>
        BY <1>1, <2>1
      <4>2. \A x, y : <<x>> \o <<>> = <<x>> /\ <<x>> \o <<y>> = <<x, y>> /\ Len(<<>>) + 1 = 1
        BY TwoJoined
      <4>3. <<internal>> \o sep = <<internal>> /\ <<internal>> \o <<item>> = <<internal, item>>
            /\ Len(sep) + 1 = 1
        BY <4>1, <4>2
      <4> QED
        BY <4>3
    <3>2. n4 = Made(internal, <<internal, item>>, 1, TRUE, TRUE)
      BY <1>2, <3>1
    <3> QED
      BY <1>1, <2>1, <3>2 DEF IsNextItem, IsIRL, NewIRL
  <2>2. CASE rule.separator # NoXSY
    <3>1. <<internal>> \o sep \o <<item>> = <<internal, NSY_of(c, rule.separator), item>>
          /\ Len(sep) + 1 = 2
      <4>1. sep = <<NSY_of(c, rule.separator)>>
        BY <1>1, <2>2
      <4>2. \A x, y, z : <<x>> \o <<y>> \o <<z>> = <<x, y, z>> /\ Len(<<x>>) + 1 = 2
        BY TwoJoined
      <4> QED
        BY <4>1, <4>2
    <3>2. n4 = Made(internal, <<internal, NSY_of(c, rule.separator), item>>, 2, TRUE, TRUE)
      BY <1>2, <3>1
    <3> QED
      BY <1>1, <2>2, <3>2 DEF IsSeparatedItem, IsIRL, NewIRL
  <2> QED
    BY <2>1, <2>2
<1>14. sep = <<>> <=> rule.separator = NoXSY
  BY <1>1
<1>15. NoneTwice(IRLs_of_XRL(g, c, r))
  <2>1. n1.real = 0 /\ n2.real = 1 /\ n1.virtual_lhs = FALSE /\ n2.virtual_lhs = FALSE
        /\ n3.virtual_lhs = TRUE /\ n4.virtual_lhs = TRUE /\ n3.virtual_rhs = FALSE /\ n4.virtual_rhs = TRUE
    BY <1>2 DEF NewIRL
  <2>2. NoneTwice(front)
    <3>1. NoneTwice(<<n1>>) /\ NoneTwice(two)
      BY <1>4, SingleOnce
    <3>2. ToSet(<<n1>>) \cap ToSet(two) = {}
      BY <1>5, <2>1
    <3>3. <<n1>> \in Seq(X) /\ two \in Seq(X)
      BY <1>5
    <3>4. NoneTwice(<<n1>> \o two)
      BY <3>1, <3>2, <3>3, OnceParts
    <3> QED
      BY <1>6, <3>4
  <2>3. NoneTwice(three)
    <3>1. n3 # n4
      BY <2>1
    <3>2. DOMAIN three = {1, 2} /\ three[1] = n3 /\ three[2] = n4
      BY <1>4
    <3> QED
      BY <3>1, <3>2 DEF NoneTwice
  <2>4. ToSet(front) \cap ToSet(three) = {}
    BY <1>5, <1>7, <2>1
  <2>5. front \in Seq(X) /\ three \in Seq(X)
    BY <1>5, <1>7
  <2>6. NoneTwice(front \o three)
    BY <2>2, <2>3, <2>4, <2>5, OnceParts
  <2> QED
    BY <1>9, <2>6
<1>16. /\ sep = <<>> \/ rule.proper <=> ~ (g.rules[r].separator # NoXSY /\ ~ g.rules[r].proper)
       /\ IRLs_of_XRL(g, c, r) \in Seq(X)
  BY <1>1, <1>8, <1>9, <1>14
<1>17. PICK made, separated :
          /\ made = IRLs_of_XRL(g, c, r)
          /\ separated <=> g.rules[r].separator # NoXSY /\ ~ g.rules[r].proper
  OBVIOUS
<1>18. AreOfSequence(g, c, r, n1, n2, n3, n4)
  <2>1. separated => IsTerminated(g, c, r, n2)
    BY <1>12, <1>16, <1>17
  <2>2. \A irl : irl \in ToSet(made) <=>
                   irl = n1 \/ (irl = n2 /\ separated) \/ irl = n3 \/ irl = n4
    BY <1>10, <1>16, <1>17
  <2>3. NoneTwice(made) /\ \E Y : made \in Seq(Y)
    BY <1>15, <1>16, <1>17
  <2> QED
    BY <1>11, <1>13, <1>17, <2>1, <2>2, <2>3 DEF AreOfSequence
<1> QED
  BY <1>18

\* The internal rules of a used sequence rule.
LEMMA SequenceRuleOK ==
    ASSUME NEW g, NEW c, NEW r, XRL_is_Used(c, g.rules[r]), g.rules[r].sequence
    PROVE  /\ \E X : IRLs_of_XRL(g, c, r) \in Seq(X)
           /\ SequenceOK(g, c, r, ToSet(IRLs_of_XRL(g, c, r)))
<1>1. PICK n1, n2, n3, n4 : AreOfSequence(g, c, r, n1, n2, n3, n4)
  BY SequenceParts
<1> QED
  BY <1>1 DEF AreOfSequence, SequenceOK, IsOfSequence

-----------------------------------------------------------------------------
(* Internal rules are true to their source *)

\* SourceOK, of an external grammar g; the symbols of the rule irl.
FitsSource(g, irl) ==
    LET rule == g.rules[irl.source]
        n == Len(irl.rhs)
        start == IF irl.virtual_lhs THEN irl.lhs.position - 1 ELSE 0
        pieces == {p \in 1 .. n : irl.rhs[p].kind = "virtual"}
        spacing == IF rule.separator = NoXSY THEN 1 ELSE 2
        IsItem(i) == i % spacing = 1 % spacing
        SymbolFor(i) == IF ~ rule.sequence THEN rule.rhs[start + i]
                        ELSE IF IsItem(i) THEN rule.rhs[1] ELSE rule.separator
    IN  /\ irl.virtual_lhs \/ irl.lhs.xsy = rule.lhs
        /\ irl.virtual_lhs \/ irl.virtual_rhs => irl.real = IF irl.virtual_rhs THEN n - 1 ELSE n
        /\ \A p \in (1 .. n) \ pieces : irl.rhs[p].xsy = SymbolFor(p)
        /\ \A p \in pieces :
              /\ irl.rhs[p].rule = irl.source
              /\ rule.sequence \/ irl.rhs[p].position = start + p
        /\ irl.virtual_lhs => irl.lhs.rule = irl.source
        /\ IF rule.sequence
           THEN pieces \subseteq {1} /\ (irl.virtual_lhs \/ rule.proper => IsItem(n))
           ELSE pieces \subseteq {n} /\ (irl.virtual_rhs \/ start + n = Len(rule.rhs))

IRLFits(g, r, R, irl) ==
    /\ irl.source = r /\ irl.virtual_lhs \in BOOLEAN /\ irl.virtual_rhs \in BOOLEAN
    /\ irl.lhs.kind = (IF irl.virtual_lhs THEN "virtual" ELSE "proper")
    /\ \E nsy \in RHSOf(irl) : nsy.kind # "nulled"
    /\ \A nsy \in RHSOf(irl) : nsy.kind # "start" /\ (nsy.kind = "virtual" => Starts(R, nsy))
    /\ \E v : {p \in DOMAIN irl.rhs : irl.rhs[p].kind = "virtual"}
                = IF irl.virtual_rhs THEN {v} ELSE {}
    /\ FitsSource(g, irl)

\* What the left side of a rule of a piece is, and a symbol of one.
LHSFits(g, r, s, irl) ==
    /\ irl.virtual_lhs \in BOOLEAN
    /\ irl.lhs.kind = (IF irl.virtual_lhs THEN "virtual" ELSE "proper")
    /\ s - 1 = (IF irl.virtual_lhs THEN irl.lhs.position - 1 ELSE 0)
    /\ irl.virtual_lhs \/ irl.lhs.xsy = g.rules[r].lhs
    /\ irl.virtual_lhs => irl.lhs.rule = r /\ s > 1

\* The left side is that of the external rule, or the virtual symbol of the piece.
LEMMA LHSOfPieceFits ==
    ASSUME NEW g, NEW c, NEW r, g.rules[r].lhs \notin c.nulling, NEW s \in Nat, s # 0,
           NEW irl, irl.lhs = LHS_of_Piece(g, c, r, s), irl.virtual_lhs = (s > 1)
    PROVE  LHSFits(g, r, s, irl)
<1>1. CASE s = 1
  <2>1. (s > 1) = FALSE
    BY <1>1
  <2>2. irl.virtual_lhs = FALSE
    BY <2>1, Zenon
  <2>3. irl.lhs = NSY("proper", g.rules[r].lhs, 0, 0)
    BY <1>1 DEF LHS_of_Piece, NSY_of
  <2> QED
    BY <1>1, <2>2, <2>3 DEF NSY, LHSFits
<1>2. CASE s # 1
  <2>1. (s > 1) = TRUE
    BY <1>2
  <2>2. irl.virtual_lhs = TRUE
    BY <2>1, Zenon
  <2>3. irl.lhs = NSY("virtual", g.rules[r].lhs, r, s)
    BY <1>2 DEF LHS_of_Piece, VirtualNSY
  <2> QED
    BY <1>2, <2>2, <2>3 DEF NSY, LHSFits
<1> QED
  BY <1>1, <1>2

\* A symbol of a variant is that of the external rule at its position.
LEMMA KindOfSymbol ==
    ASSUME NEW c, NEW rule, NEW nulled, NEW i
    PROVE  /\ NSYAt(c, rule, nulled, i).kind \in {"proper", "nulled"}
           /\ NSYAt(c, rule, nulled, i).xsy = rule.rhs[i]
           /\ i \notin nulled /\ rule.rhs[i] \notin c.nulling =>
                 NSYAt(c, rule, nulled, i).kind = "proper"
  BY DEF NSYAt, NSY_of, Nulling_NSY, NSY

\* A variant that ends the rule is true to it.
LEMMA FinalFits ==
    ASSUME NEW g, NEW c, NEW r, NEW L \in Nat, Len(g.rules[r].rhs) = L, ~ g.rules[r].sequence,
           g.rules[r].lhs \notin c.nulling, NEW R, NEW irl, SoundFinal(g, c, r, L, irl)
    PROVE  IRLFits(g, r, R, irl)
<1>1. PICK s \in 1 .. L, nulled \in SUBSET (1 .. L) :
         /\ IsFinal(g, c, r, L, s, nulled, irl)
         /\ \E i \in s .. L : i \notin nulled /\ g.rules[r].rhs[i] \notin c.nulling
  BY DEF SoundFinal
<1>2. PICK n \in Nat : n = L - s + 1 /\ \A p \in 1 .. n : s - 1 + p = s + p - 1
  OBVIOUS
<1>3. /\ irl.lhs = LHS_of_Piece(g, c, r, s) /\ irl.source = r /\ (s > 1 => irl.real = n)
      /\ irl.virtual_lhs = (s > 1) /\ irl.virtual_rhs = FALSE
      /\ Len(irl.rhs) = n /\ DOMAIN irl.rhs = 1 .. n
      /\ \A p \in 1 .. n : irl.rhs[p] = NSYAt(c, g.rules[r], nulled, s + p - 1)
  BY <1>1, <1>2 DEF IsFinal
<1>4. \A p \in 1 .. n : irl.rhs[p].kind \in {"proper", "nulled"} /\ irl.rhs[p].xsy = g.rules[r].rhs[s + p - 1]
  BY <1>3, KindOfSymbol
<1>5. \E nsy \in RHSOf(irl) : nsy.kind # "nulled"
  <2>1. PICK i \in s .. L : i \notin nulled /\ g.rules[r].rhs[i] \notin c.nulling
    BY <1>1
  <2>2. PICK p \in 1 .. n : p = i - s + 1 /\ s + p - 1 = i
    BY <1>2
  <2>3. irl.rhs[p].kind = "proper"
    BY <1>3, <2>1, <2>2, KindOfSymbol
  <2> QED
    BY <1>3, <2>3 DEF RHSOf
<1>6. \A nsy \in RHSOf(irl) : nsy.kind # "start" /\ (nsy.kind = "virtual" => Starts(R, nsy))
  BY <1>3, <1>4 DEF RHSOf
<1>7. {p \in DOMAIN irl.rhs : irl.rhs[p].kind = "virtual"} = {}
  BY <1>3, <1>4
<1>8. LHSFits(g, r, s, irl)
  <2>1. s \in Nat /\ s # 0
    OBVIOUS
  <2> QED
    BY <1>3, <2>1, LHSOfPieceFits
<1>9. PICK start : start = s - 1
  OBVIOUS
<1>10. FitsSource(g, irl)
  <2>1. /\ irl.virtual_lhs \/ irl.lhs.xsy = g.rules[r].lhs
        /\ irl.virtual_lhs => irl.lhs.rule = r /\ irl.real = n
        /\ start = (IF irl.virtual_lhs THEN irl.lhs.position - 1 ELSE 0)
    BY <1>3, <1>8, <1>9 DEF LHSFits
  <2>3. \A p \in 1 .. n : irl.rhs[p].kind # "virtual" /\ irl.rhs[p].xsy = g.rules[r].rhs[start + p]
    BY <1>2, <1>4, <1>9
  <2>4. start + n = L
    BY <1>2, <1>9
  <2> QED
    BY <1>3, <2>1, <2>3, <2>4 DEF FitsSource
<1> QED
  BY <1>3, <1>5, <1>6, <1>7, <1>8, <1>10 DEF IRLFits, LHSFits

\* A variant that goes on is true to the rule.
LEMMA ContinuedFits ==
    ASSUME NEW g, NEW c, NEW r, NEW L \in Nat, Len(g.rules[r].rhs) = L, ~ g.rules[r].sequence,
           g.rules[r].lhs \notin c.nulling, NEW R, NEW irl, SoundContinued(g, c, r, L, R, irl)
    PROVE  IRLFits(g, r, R, irl)
<1>1. PICK s \in 1 .. L : \E e \in s .. L - 1 : \E nulled \in SUBSET (1 .. L) :
         IsContinued(g, c, r, s, e, nulled, irl) /\ Starts(R, VirtualNSY(g, r, e + 1))
  BY DEF SoundContinued
<1>2. PICK e \in s .. L - 1, nulled \in SUBSET (1 .. L) :
         IsContinued(g, c, r, s, e, nulled, irl) /\ Starts(R, VirtualNSY(g, r, e + 1))
  BY <1>1
<1>3. PICK n \in Nat : /\ n = e - s + 2 /\ n - 1 = e - s + 1 /\ n >= 1
                       /\ \A p \in 1 .. n : s - 1 + p = s + p - 1
  OBVIOUS
<1>4. PICK v : v = VirtualNSY(g, r, e + 1) /\ v.kind = "virtual" /\ v.rule = r /\ v.position = e + 1
  <2>1. PICK v : v = VirtualNSY(g, r, e + 1)
    OBVIOUS
  <2>2. v.kind = "virtual" /\ v.rule = r /\ v.position = e + 1
    BY <2>1 DEF VirtualNSY, NSY
  <2> QED
    BY <2>1, <2>2
<1>5. /\ irl.lhs = LHS_of_Piece(g, c, r, s) /\ irl.source = r /\ irl.real = n - 1
      /\ irl.virtual_lhs = (s > 1) /\ irl.virtual_rhs = TRUE
      /\ Len(irl.rhs) = n /\ DOMAIN irl.rhs = 1 .. n
      /\ \A p \in 1 .. n - 1 : irl.rhs[p] = NSYAt(c, g.rules[r], nulled, s + p - 1)
      /\ irl.rhs[n] = v
  BY <1>2, <1>3, <1>4 DEF IsContinued
<1>6. \A p \in 1 .. n - 1 : irl.rhs[p].kind \in {"proper", "nulled"} /\ irl.rhs[p].xsy = g.rules[r].rhs[s + p - 1]
  <2> SUFFICES ASSUME NEW p \in 1 .. n - 1
               PROVE  irl.rhs[p].kind \in {"proper", "nulled"} /\ irl.rhs[p].xsy = g.rules[r].rhs[s + p - 1]
    OBVIOUS
  <2>1. PICK i, nsy : i = s + p - 1 /\ nsy = irl.rhs[p]
    OBVIOUS
  <2>2. nsy = NSYAt(c, g.rules[r], nulled, i)
    BY <1>5, <2>1
  <2> QED
    BY <2>1, <2>2, KindOfSymbol
<1>7. \A p \in 1 .. n : p = n \/ p \in 1 .. n - 1
  OBVIOUS
<1>8. n \in 1 .. n /\ n \notin 1 .. n - 1
  BY <1>3
<1>9. \E nsy \in RHSOf(irl) : nsy.kind # "nulled"
  BY <1>4, <1>5, <1>8 DEF RHSOf
<1>10. \A nsy \in RHSOf(irl) : nsy.kind # "start" /\ (nsy.kind = "virtual" => Starts(R, nsy))
  BY <1>2, <1>4, <1>5, <1>6, <1>7 DEF RHSOf
<1>11. {p \in DOMAIN irl.rhs : irl.rhs[p].kind = "virtual"} = {n}
  <2>1. \A p \in 1 .. n - 1 : irl.rhs[p].kind # "virtual"
    BY <1>6
  <2>2. irl.rhs[n].kind = "virtual"
    BY <1>4, <1>5
  <2>3. \A p \in DOMAIN irl.rhs : irl.rhs[p].kind = "virtual" <=> p = n
    BY <1>5, <1>7, <2>1, <2>2
  <2>4. n \in DOMAIN irl.rhs
    BY <1>5, <1>8
  <2> QED
    BY <2>3, <2>4
<1>12. LHSFits(g, r, s, irl)
  <2>1. s \in Nat /\ s # 0
    OBVIOUS
  <2> QED
    BY <1>5, <2>1, LHSOfPieceFits
<1>13. PICK start : start = s - 1
  OBVIOUS
<1>14. FitsSource(g, irl)
  <2>1. /\ irl.virtual_lhs \/ irl.lhs.xsy = g.rules[r].lhs
        /\ irl.virtual_lhs => irl.lhs.rule = r
        /\ start = (IF irl.virtual_lhs THEN irl.lhs.position - 1 ELSE 0)
    BY <1>12, <1>13 DEF LHSFits
  <2>3. \A p \in 1 .. n : p # n => irl.rhs[p].kind # "virtual" /\ irl.rhs[p].xsy = g.rules[r].rhs[start + p]
    BY <1>3, <1>6, <1>7, <1>13
  <2>4. start + n = e + 1
    BY <1>3, <1>13
  <2>5. {p \in 1 .. n : irl.rhs[p].kind = "virtual"} = {n}
    BY <1>5, <1>11
  <2>6. /\ irl.rhs[n].rule = r /\ irl.rhs[n].position = start + n
    BY <1>4, <1>5, <2>4
  <2> QED
    BY <1>5, <2>1, <2>3, <2>5, <2>6 DEF FitsSource
<1> QED
  BY <1>5, <1>9, <1>10, <1>11, <1>12, <1>14 DEF IRLFits, LHSFits

\* A rule of a sequence is true to it when its symbols are.
IsTrue(g, irl, rule, n, spacing) ==
    /\ rule = g.rules[irl.source] /\ rule.sequence
    /\ n = Len(irl.rhs) /\ spacing = (IF rule.separator = NoXSY THEN 1 ELSE 2)
    /\ irl.virtual_lhs \/ irl.lhs.xsy = rule.lhs
    /\ irl.virtual_lhs => irl.lhs.rule = irl.source
    /\ irl.virtual_lhs \/ irl.virtual_rhs => irl.real = IF irl.virtual_rhs THEN n - 1 ELSE n
    /\ \A p \in 1 .. n : irl.rhs[p].kind = "virtual" => p = 1 /\ irl.rhs[p].rule = irl.source
    /\ \A p \in 1 .. n : irl.rhs[p].kind # "virtual" =>
          irl.rhs[p].xsy = IF p % spacing = 1 % spacing THEN rule.rhs[1] ELSE rule.separator
    /\ irl.virtual_lhs \/ rule.proper => n % spacing = 1 % spacing

\* The parts of FitsSource for a sequence.
LEMMA SequenceIsTrue ==
    ASSUME NEW g, NEW irl, NEW rule, NEW n, NEW spacing, IsTrue(g, irl, rule, n, spacing)
    PROVE  FitsSource(g, irl)
<1>1. PICK pieces : pieces = {p \in 1 .. n : irl.rhs[p].kind = "virtual"}
  OBVIOUS
<1>2. pieces \subseteq {1} /\ \A p \in pieces : irl.rhs[p].rule = irl.source
  BY <1>1 DEF IsTrue
<1>3. \A p \in (1 .. n) \ pieces :
         irl.rhs[p].xsy = IF p % spacing = 1 % spacing THEN rule.rhs[1] ELSE rule.separator
  BY <1>1 DEF IsTrue
<1> HIDE DEF NoXSY
<1> QED
  BY <1>1, <1>2, <1>3, Zenon DEF FitsSource, IsTrue

\* The rules of a sequence.
LEMMA SequenceFits ==
    ASSUME NEW g, NEW c, NEW r, g.rules[r].sequence, g.rules[r].lhs \notin c.nulling,
           g.rules[r].rhs[1] \notin c.nulling, NEW R, SequenceOK(g, c, r, R), NEW irl \in R
    PROVE  IRLFits(g, r, R, irl)
<1>1. PICK rule, top, internal, item, sep :
         /\ rule = g.rules[r] /\ top = NSY_of(c, rule.lhs) /\ internal = VirtualNSY(g, r, 1)
         /\ item = NSY_of(c, rule.rhs[1]) /\ sep = NSY_of(c, rule.separator)
  OBVIOUS
<1>2. /\ top.kind = "proper" /\ top.xsy = rule.lhs
      /\ internal.kind = "virtual" /\ internal.rule = r /\ internal.position = 1
      /\ item.kind = "proper" /\ item.xsy = rule.rhs[1]
      /\ sep.kind \in {"proper", "nulled"} /\ sep.xsy = rule.separator
  BY <1>1 DEF NSY_of, VirtualNSY, Nulling_NSY, NSY
<1>3. Starts(R, internal)
  <2>1. PICK i2 \in R : IsFirstItem(g, c, r, i2)
    BY DEF SequenceOK
  <2>2. i2.lhs = internal /\ i2.virtual_lhs = TRUE
    BY <1>1, <2>1 DEF IsFirstItem, IsIRL
  <2> QED
    BY <2>2 DEF Starts
<1>4. 2 % 2 = 0 /\ 1 % 2 = 1 /\ 3 % 2 = 1 /\ 2 % 1 = 0 /\ 1 % 1 = 0
  OBVIOUS
<1> DEFINE spacing == IF rule.separator = NoXSY THEN 1 ELSE 2
<1>5. CASE IsTop(g, c, r, irl)
  <2>1. /\ irl.lhs = top /\ irl.rhs = <<internal>> /\ irl.source = r /\ irl.real = 0
        /\ irl.virtual_lhs = FALSE /\ irl.virtual_rhs = TRUE
    BY <1>1, <1>5 DEF IsTop, IsIRL
  <2>2. Len(irl.rhs) = 1 /\ DOMAIN irl.rhs = {1} /\ irl.rhs[1] = internal /\ 1 .. 1 = {1}
    BY <2>1
  <2>3. FitsSource(g, irl)
    BY <1>1, <1>2, <2>1, <2>2 DEF FitsSource
  <2>4. RHSOf(irl) = {internal} /\ {p \in DOMAIN irl.rhs : irl.rhs[p].kind = "virtual"} = {1}
    BY <1>2, <2>2 DEF RHSOf
  <2> QED
    BY <1>2, <1>3, <2>1, <2>3, <2>4 DEF IRLFits
<1>6. CASE IsTerminated(g, c, r, irl)
  <2>1. /\ irl.lhs = top /\ irl.rhs = <<internal, sep>> /\ irl.source = r /\ irl.real = 1
        /\ irl.virtual_lhs = FALSE /\ irl.virtual_rhs = TRUE
        /\ rule.separator # NoXSY /\ ~ rule.proper
    BY <1>1, <1>6 DEF IsTerminated, IsIRL
  <2>2. /\ Len(irl.rhs) = 2 /\ DOMAIN irl.rhs = {1, 2} /\ irl.rhs[1] = internal /\ irl.rhs[2] = sep
        /\ 1 .. 2 = {1, 2}
    BY <2>1
  <2>3. FitsSource(g, irl)
    BY <1>1, <1>2, <1>4, <2>1, <2>2 DEF FitsSource
  <2>4. RHSOf(irl) = {internal, sep} /\ {p \in DOMAIN irl.rhs : irl.rhs[p].kind = "virtual"} = {1}
    BY <1>2, <2>2 DEF RHSOf
  <2> QED
    BY <1>2, <1>3, <2>1, <2>3, <2>4 DEF IRLFits
<1>7. CASE IsFirstItem(g, c, r, irl)
  <2>1. /\ irl.lhs = internal /\ irl.rhs = <<item>> /\ irl.source = r /\ irl.real = 1
        /\ irl.virtual_lhs = TRUE /\ irl.virtual_rhs = FALSE
    BY <1>1, <1>7 DEF IsFirstItem, IsIRL
  <2>2. Len(irl.rhs) = 1 /\ DOMAIN irl.rhs = {1} /\ irl.rhs[1] = item /\ 1 .. 1 = {1}
    BY <2>1
  <2>5. rule = g.rules[irl.source] /\ rule.sequence /\ 1 = Len(irl.rhs)
        /\ (irl.virtual_lhs \/ irl.lhs.xsy = rule.lhs)
        /\ (irl.virtual_lhs => irl.lhs.rule = irl.source)
        /\ (irl.virtual_lhs \/ irl.virtual_rhs => irl.real = IF irl.virtual_rhs THEN 1 - 1 ELSE 1)
    BY <1>1, <1>2, <2>1, <2>2
  <2>6. \A p \in 1 .. 1 : irl.rhs[p].kind = "virtual" => p = 1 /\ irl.rhs[p].rule = irl.source
    BY <1>2, <2>1, <2>2
  <2>7. \A p \in 1 .. 1 : irl.rhs[p].kind # "virtual" =>
           irl.rhs[p].xsy = IF p % spacing = 1 % spacing THEN rule.rhs[1] ELSE rule.separator
    BY <1>2, <1>4, <2>1, <2>2
  <2>8. irl.virtual_lhs \/ rule.proper => 1 % spacing = 1 % spacing
    BY <1>4, <2>1
  <2>9. IsTrue(g, irl, rule, 1, spacing)
    BY <2>5, <2>6, <2>7, <2>8 DEF IsTrue
  <2>3. FitsSource(g, irl)
    BY <2>9, SequenceIsTrue
  <2>4. RHSOf(irl) = {item} /\ {p \in DOMAIN irl.rhs : irl.rhs[p].kind = "virtual"} = {}
    BY <1>2, <2>2 DEF RHSOf
  <2> QED
    BY <1>2, <1>3, <2>1, <2>3, <2>4 DEF IRLFits
<1>8. CASE IsNextItem(g, c, r, irl)
  <2>1. /\ irl.lhs = internal /\ irl.rhs = <<internal, item>> /\ irl.source = r /\ irl.real = 1
        /\ irl.virtual_lhs = TRUE /\ irl.virtual_rhs = TRUE
        /\ rule.separator = NoXSY
    BY <1>1, <1>8 DEF IsNextItem, IsIRL
  <2>2. /\ Len(irl.rhs) = 2 /\ DOMAIN irl.rhs = {1, 2} /\ irl.rhs[1] = internal /\ irl.rhs[2] = item
        /\ 1 .. 2 = {1, 2}
    BY <2>1
  <2>5. rule = g.rules[irl.source] /\ rule.sequence /\ 2 = Len(irl.rhs)
        /\ (irl.virtual_lhs \/ irl.lhs.xsy = rule.lhs)
        /\ (irl.virtual_lhs => irl.lhs.rule = irl.source)
        /\ (irl.virtual_lhs \/ irl.virtual_rhs => irl.real = IF irl.virtual_rhs THEN 2 - 1 ELSE 2)
    BY <1>1, <1>2, <2>1, <2>2
  <2>6. \A p \in 1 .. 2 : irl.rhs[p].kind = "virtual" => p = 1 /\ irl.rhs[p].rule = irl.source
    BY <1>2, <2>1, <2>2
  <2>7. \A p \in 1 .. 2 : irl.rhs[p].kind # "virtual" =>
           irl.rhs[p].xsy = IF p % spacing = 1 % spacing THEN rule.rhs[1] ELSE rule.separator
    BY <1>2, <1>4, <2>1, <2>2
  <2>8. irl.virtual_lhs \/ rule.proper => 2 % spacing = 1 % spacing
    BY <1>4, <2>1
  <2>9. IsTrue(g, irl, rule, 2, spacing)
    BY <2>5, <2>6, <2>7, <2>8 DEF IsTrue
  <2>3. FitsSource(g, irl)
    BY <2>9, SequenceIsTrue
  <2>4. RHSOf(irl) = {internal, item} /\ {p \in DOMAIN irl.rhs : irl.rhs[p].kind = "virtual"} = {1}
    BY <1>2, <2>2 DEF RHSOf
  <2> QED
    BY <1>2, <1>3, <2>1, <2>3, <2>4 DEF IRLFits
<1>9. CASE IsSeparatedItem(g, c, r, irl)
  <2>1. /\ irl.lhs = internal /\ irl.rhs = <<internal, sep, item>> /\ irl.source = r /\ irl.real = 2
        /\ irl.virtual_lhs = TRUE /\ irl.virtual_rhs = TRUE
        /\ rule.separator # NoXSY
    BY <1>1, <1>9 DEF IsSeparatedItem, IsIRL
  <2>2. /\ Len(irl.rhs) = 3 /\ DOMAIN irl.rhs = {1, 2, 3} /\ irl.rhs[1] = internal
        /\ irl.rhs[2] = sep /\ irl.rhs[3] = item /\ 1 .. 3 = {1, 2, 3}
    BY <2>1
  <2>5. rule = g.rules[irl.source] /\ rule.sequence /\ 3 = Len(irl.rhs)
        /\ (irl.virtual_lhs \/ irl.lhs.xsy = rule.lhs)
        /\ (irl.virtual_lhs => irl.lhs.rule = irl.source)
        /\ (irl.virtual_lhs \/ irl.virtual_rhs => irl.real = IF irl.virtual_rhs THEN 3 - 1 ELSE 3)
    BY <1>1, <1>2, <2>1, <2>2
  <2>6. \A p \in 1 .. 3 : irl.rhs[p].kind = "virtual" => p = 1 /\ irl.rhs[p].rule = irl.source
    BY <1>2, <2>1, <2>2
  <2>7. \A p \in 1 .. 3 : irl.rhs[p].kind # "virtual" =>
           irl.rhs[p].xsy = IF p % spacing = 1 % spacing THEN rule.rhs[1] ELSE rule.separator
    BY <1>2, <1>4, <2>1, <2>2
  <2>8. irl.virtual_lhs \/ rule.proper => 3 % spacing = 1 % spacing
    BY <1>4, <2>1
  <2>9. IsTrue(g, irl, rule, 3, spacing)
    BY <2>5, <2>6, <2>7, <2>8 DEF IsTrue
  <2>3. FitsSource(g, irl)
    BY <2>9, SequenceIsTrue
  <2>4. RHSOf(irl) = {internal, sep, item} /\ {p \in DOMAIN irl.rhs : irl.rhs[p].kind = "virtual"} = {1}
    BY <1>2, <2>2 DEF RHSOf
  <2> QED
    BY <1>2, <1>3, <2>1, <2>3, <2>4 DEF IRLFits
<1> QED
  BY <1>5, <1>6, <1>7, <1>8, <1>9 DEF SequenceOK, IsOfSequence

-----------------------------------------------------------------------------
(* What the census says of a rule that is used *)

\* c is the census of the grammar g, which passed it.
IsCensused(g, c) ==
    /\ GrammarOK(g) /\ c = CensusOf(g) /\ g.start # NoXSY
    /\ NullingTerminals(c) = {} /\ c.nullable \cap counted(g) = {}
    /\ g.start \in c.productive

\* A rule with a symbol that derives input has a left side that does.
LEMMA InputIsTaken ==
    ASSUME NEW g, NEW c, IsCensused(g, c), NEW rule \in RulesOf(g),
           NEW x \in RHSOf(rule) \cup SeparatorOf(rule), x \in c.productive, x \notin c.nulling
    PROVE  rule.lhs \notin c.nulling
<1>1. GrammarOK(g)
  BY DEF IsCensused
<1>2. PICK T : T = c.terminal /\ T = Terminals(g)
  BY CensusParts DEF IsCensused
<1>3. c.nulling = {y \in LHSes(g) : \A t \in T : <<y, t>> \notin Reach(g)}
  BY <1>2, CensusParts DEF IsCensused
<1>4. c.productive \subseteq LHSes(g) \cup T
  BY <1>1, <1>2, ProductiveIsLeast DEF IsCensused
<1>5. <<rule.lhs, x>> \in Reach(g)
  BY <1>1, ReachIsLeast
<1>6. /\ x \in XSYs_of(g) /\ rule.lhs \in XSYs_of(g) /\ T \subseteq XSYs_of(g)
  BY <1>1, <1>2, RulesInside
<1>7. x \in T \/ \E t \in T : <<x, t>> \in Reach(g)
  BY <1>3, <1>4
<1>8. \E t \in T : <<rule.lhs, t>> \in Reach(g)
  BY <1>1, <1>5, <1>6, <1>7, ReachIsLeast
<1> QED
  BY <1>3, <1>8

\* A nulling symbol that derives anything derives nothing.
LEMMA NullingIsNullable ==
    ASSUME NEW g, NEW c, IsCensused(g, c)
    PROVE  c.nulling \cap c.productive \subseteq c.nullable
<1>1. GrammarOK(g) /\ c = CensusOf(g) /\ c.nulling \cap c.terminal = {}
  BY DEF IsCensused, NullingTerminals
<1>2. PICK S : S = {x \in c.productive : x \notin c.nulling \/ x \in c.nullable}
  OBVIOUS
<1>3. DerivableClosed(g, c.nullable, c.terminal, c.productive)
  BY <1>1, ProductiveIsLeast
<1>4. EmptyClosed(g, c.nullable)
  BY <1>1, NullableIsLeast
<1>5. c.nullable \cup c.terminal \subseteq S
  BY <1>1, <1>2, <1>3 DEF DerivableClosed
<1>6. ASSUME NEW rule \in RulesOf(g), RequiredOf(rule) \subseteq S
      PROVE  rule.lhs \in S
  <2>1. rule.lhs \in c.productive
    BY <1>2, <1>3, <1>6 DEF DerivableClosed
  <2>2. CASE RequiredOf(rule) \subseteq c.nullable
    <3>1. rule.lhs \in c.nullable
      BY <1>4, <2>2 DEF EmptyClosed
    <3> QED
      BY <1>2, <2>1, <3>1
  <2>3. CASE ~ (RequiredOf(rule) \subseteq c.nullable)
    <3>1. PICK x \in RequiredOf(rule) : x \notin c.nullable
      BY <2>3
    <3>2. x \in c.productive /\ x \notin c.nulling
      BY <1>2, <1>6, <3>1
    <3>3. x \in RHSOf(rule) \cup SeparatorOf(rule)
      BY <3>1 DEF RequiredOf
    <3>4. rule.lhs \notin c.nulling
      BY <3>2, <3>3, InputIsTaken
    <3> QED
      BY <1>2, <2>1, <3>4
  <2> QED
    BY <2>2, <2>3
<1>7. DerivableClosed(g, c.nullable, c.terminal, S)
  BY <1>5, <1>6 DEF DerivableClosed
<1>8. c.productive \subseteq S
  BY <1>1, <1>7, ProductiveIsLeast
<1> QED
  BY <1>2, <1>8

\* A rule that is used derives input, and so does the item of a sequence.
LEMMA UsedTakesInput ==
    ASSUME NEW g, NEW c, IsCensused(g, c), NEW r \in XRLs_of(g), XRL_is_Used(c, g.rules[r])
    PROVE  /\ g.rules[r].lhs \notin c.nulling
           /\ g.rules[r].sequence =>
                 g.rules[r].rhs[1] \notin c.nulling /\ g.rules[r].rhs[1] \in RHSOf(g.rules[r])
<1>1. GrammarOK(g) /\ c.nullable \cap counted(g) = {}
  BY DEF IsCensused
<1>2. PICK rule : rule = g.rules[r] /\ rule \in RulesOf(g) /\ WellMade(rule) /\ rule.rhs \in Seq(Nat)
  BY <1>1, UsedShows
<1>3. PICK x \in RHSOf(rule) \cup SeparatorOf(rule) : x \in c.productive /\ x \notin c.nulling
  BY <1>2 DEF XRL_is_Used, XRL_is_Nulling
<1>4. rule.lhs \notin c.nulling
  BY <1>2, <1>3, InputIsTaken
<1>5. ASSUME rule.sequence
      PROVE  rule.rhs[1] \notin c.nulling /\ rule.rhs[1] \in RHSOf(rule)
  <2>1. Len(rule.rhs) = 1
    BY <1>2, <1>5 DEF WellMade
  <2>2. 1 \in DOMAIN rule.rhs
    BY <1>2, <2>1
  <2>3. rule.rhs[1] \in RHSOf(rule)
    BY <2>2 DEF RHSOf
  <2>4. rule.rhs[1] \in counted(g)
    BY <1>2, <1>5, <2>3 DEF counted
  <2>5. rule.rhs[1] \in c.productive
    BY <1>2, <2>3 DEF XRL_is_Used
  <2>6. rule.rhs[1] \notin c.nulling
    BY <1>1, <2>4, <2>5, NullingIsNullable
  <2> QED
    BY <2>3, <2>6
<1> QED
  BY <1>2, <1>4, <1>5

\* The rules made of a rule that is used fit it.
RulesMade(g, c, r) == ToSet(IRLs_of_XRL(g, c, r))

\* Every internal rule of a used rule is true to it.
LEMMA MadeFits ==
    ASSUME NEW g, NEW c, IsCensused(g, c), NEW r \in XRLs_of(g), XRL_is_Used(c, g.rules[r]),
           NEW irl \in RulesMade(g, c, r)
    PROVE  IRLFits(g, r, RulesMade(g, c, r), irl)
<1>1. GrammarOK(g)
  BY DEF IsCensused
<1>2. PICK R : R = RulesMade(g, c, r)
  OBVIOUS
<1>3. CASE g.rules[r].sequence
  <2>1. SequenceOK(g, c, r, R)
    BY <1>2, <1>3, SequenceRuleOK DEF RulesMade
  <2>2. g.rules[r].lhs \notin c.nulling /\ g.rules[r].rhs[1] \notin c.nulling
    BY <1>3, UsedTakesInput
  <2> QED
    BY <1>2, <1>3, <2>1, <2>2, SequenceFits
<1>4. CASE ~ g.rules[r].sequence
  <2>1. BNFOK(g, c, r, R)
    BY <1>1, <1>2, <1>4, BNFRuleOK DEF RulesMade
  <2>2. PICK L \in Nat : Len(g.rules[r].rhs) = L /\ PieceOK(g, c, r, L, 1, R)
    BY <2>1 DEF BNFOK
  <2>3. SoundFinal(g, c, r, L, irl) \/ SoundContinued(g, c, r, L, R, irl)
    BY <1>2, <2>2 DEF PieceOK
  <2>4. g.rules[r].lhs \notin c.nulling
    BY UsedTakesInput
  <2>5. CASE SoundFinal(g, c, r, L, irl)
    BY <1>2, <1>4, <2>2, <2>4, <2>5, FinalFits
  <2>6. CASE SoundContinued(g, c, r, L, R, irl)
    BY <1>2, <1>4, <2>2, <2>4, <2>6, ContinuedFits
  <2> QED
    BY <2>3, <2>5, <2>6
<1> QED
  BY <1>3, <1>4

-----------------------------------------------------------------------------
(* The internal grammar *)

\* The rules made of one that is used, and the start rule.
IsMade(g, c, irl) ==
    \E r \in XRLs_of(g) : XRL_is_Used(c, g.rules[r]) /\ irl \in RulesMade(g, c, r)
IsStart(g, c, irl) ==
    /\ g.start \notin c.nulling /\ irl.lhs.kind = "start" /\ irl.lhs.xsy = g.start
    /\ irl.rhs = <<NSY_of(c, g.start)>> /\ irl.source = 0 /\ irl.real = 1
    /\ irl.virtual_lhs = TRUE /\ irl.virtual_rhs = FALSE

\* The rules of each rule are a sequence of what is in it.
LEMMA MadeInOrder ==
    ASSUME NEW g, NEW c, IsCensused(g, c), NEW r \in XRLs_of(g)
    PROVE  /\ IRLs_of_XRL(g, c, r) \in Seq(RulesMade(g, c, r))
           /\ ~ XRL_is_Used(c, g.rules[r]) => RulesMade(g, c, r) = {}
<1>1. PICK s : s = IRLs_of_XRL(g, c, r)
  OBVIOUS
<1>2. ASSUME ~ XRL_is_Used(c, g.rules[r])
      PROVE  s = <<>>
  BY <1>1, <1>2, Zenon DEF IRLs_of_XRL
<1>3. \E X : s \in Seq(X)
  <2>1. CASE ~ XRL_is_Used(c, g.rules[r])
    <3>1. s = <<>>
      BY <1>2, <2>1
    <3>2. s \in Seq({})
      BY <3>1
    <3> QED
      BY <3>2
  <2>2. CASE XRL_is_Used(c, g.rules[r]) /\ g.rules[r].sequence
    BY <1>1, <2>2, SequenceRuleOK
  <2>3. CASE XRL_is_Used(c, g.rules[r]) /\ ~ g.rules[r].sequence
    BY <1>1, <2>3, BNFRuleOK DEF IsCensused
  <2> QED
    BY <2>1, <2>2, <2>3
<1>4. PICK X : s \in Seq(X)
  BY <1>3
<1>5. s \in Seq(ToSet(s))
  BY <1>4 DEF ToSet
<1>6. s = <<>> => ToSet(s) = {}
  BY DEF ToSet
<1> QED
  BY <1>1, <1>2, <1>5, <1>6 DEF RulesMade

\* The start rule is there when the start symbol derives input.
LEMMA StartParts ==
    ASSUME NEW g, NEW c
    PROVE  \E X : /\ StartIRLs(g, c) \in Seq(X) /\ Len(StartIRLs(g, c)) \in 0 .. 1
                  /\ \A irl \in ToSet(StartIRLs(g, c)) : IsStart(g, c, irl)
<1>1. PICK s : s = StartIRLs(g, c)
  OBVIOUS
<1>2. CASE g.start \in c.nulling
  <2>1. s = <<>>
    BY <1>1, <1>2 DEF StartIRLs
  <2>2. s \in Seq({}) /\ Len(s) = 0 /\ ToSet(s) = {}
    BY <2>1 DEF ToSet
  <2> QED
    BY <1>1, <2>2
<1>3. CASE g.start \notin c.nulling
  <2>1. PICK irl : /\ irl = [lhs |-> NSY("start", g.start, 0, 0), rhs |-> <<NSY_of(c, g.start)>>,
                             source |-> 0, real |-> 1, virtual_lhs |-> TRUE, virtual_rhs |-> FALSE,
                             rank |-> MAXIMUM_CHAF_RANK]
                   /\ s = <<irl>>
    BY <1>1, <1>3 DEF StartIRLs
  <2>2. IsStart(g, c, irl)
    BY <1>3, <2>1 DEF IsStart, NSY
  <2>3. s \in Seq({irl}) /\ Len(s) = 1 /\ ToSet(s) = {irl}
    BY <2>1, SingleParts
  <2> QED
    BY <1>1, <2>2, <2>3
<1> QED
  BY <1>2, <1>3

\* The rules of the internal grammar, of which one at most is a start rule.
LEMMA RewriteParts ==
    ASSUME NEW g, NEW c, IsCensused(g, c)
    PROVE  LET W == Rewrite(g, c)
           IN  /\ \A irl \in ToSet(W) : IsMade(g, c, irl) \/ IsStart(g, c, irl)
               /\ \A irl : IsMade(g, c, irl) => irl \in ToSet(W)
               /\ Cardinality({i \in DOMAIN W : W[i].lhs.kind = "start"}) <= 1
               /\ \E n \in Nat : DOMAIN W = 1 .. n /\ Len(W) = n
<1>1. PICK n \in Nat : XRLs_of(g) = 1 .. n
  <2>1. g.rules \in Seq(Rules)
    BY DEF IsCensused, GrammarOK
  <2> QED
    BY <2>1 DEF XRLs_of
<1>2. PICK b, Y : /\ b = StartIRLs(g, c) /\ b \in Seq(Y) /\ Len(b) \in 0 .. 1
                  /\ \A irl \in ToSet(b) : IsStart(g, c, irl)
  BY StartParts
<1>3. PICK X : X = (UNION {RulesMade(g, c, r) : r \in 1 .. n}) \cup Y
  OBVIOUS
<1>4. PICK seqs : seqs = [r \in 1 .. n |-> IRLs_of_XRL(g, c, r)]
  OBVIOUS
<1>5. seqs \in [1 .. n -> Seq(X)]
  <2>1. ASSUME NEW r \in 1 .. n
        PROVE  IRLs_of_XRL(g, c, r) \in Seq(X)
    <3>1. IRLs_of_XRL(g, c, r) \in Seq(RulesMade(g, c, r))
      BY <1>1, MadeInOrder
    <3>2. RulesMade(g, c, r) \subseteq X
      BY <1>3
    <3> QED
      BY <3>1, <3>2
  <2> QED
    BY <1>4, <2>1
<1>6. PICK a : a = FlattenSeq(seqs) /\ a \in Seq(X) /\ ToSet(a) = UNION {ToSet(seqs[r]) : r \in 1 .. n}
  BY <1>5, FlattenParts
<1>7. \A r \in 1 .. n : ToSet(seqs[r]) = RulesMade(g, c, r)
  BY <1>4 DEF RulesMade
<1>8. \A irl : irl \in ToSet(a) <=> IsMade(g, c, irl)
  <2>1. \A irl : irl \in ToSet(a) <=> \E r \in 1 .. n : irl \in RulesMade(g, c, r)
    BY <1>6, <1>7
  <2>2. \A r \in 1 .. n : \A irl \in RulesMade(g, c, r) : XRL_is_Used(c, g.rules[r])
    BY <1>1, MadeInOrder
  <2> QED
    BY <1>1, <2>1, <2>2 DEF IsMade
<1>9. b \in Seq(X)
  BY <1>2, <1>3
<1>10. PICK W : W = Rewrite(g, c) /\ W = a \o b
  <2>1. seqs = [r \in XRLs_of(g) |-> IRLs_of_XRL(g, c, r)]
    BY <1>1, <1>4, Zenon
  <2>2. Rewrite(g, c) = FlattenSeq(seqs) \o StartIRLs(g, c)
    BY <2>1, Zenon DEF Rewrite
  <2>3. Rewrite(g, c) = a \o b
    BY <1>2, <1>6, <2>2
  <2> QED
    BY <2>3
<1>11. ToSet(W) = ToSet(a) \cup ToSet(b) /\ Joins(a, b, W)
  <2>1. a \in Seq(X) /\ b \in Seq(X)
    BY <1>6, <1>9
  <2>2. ToSet(a \o b) = ToSet(a) \cup ToSet(b)
    BY <2>1, ConcatParts
  <2>3. Joins(a, b, a \o b)
    BY <2>1, JoinedParts
  <2> QED
    BY <1>10, <2>2, <2>3
<1>12. \A i \in DOMAIN W : W[i].lhs.kind = "start" => i = Len(a) + 1
  <2> SUFFICES ASSUME NEW i \in DOMAIN W, W[i].lhs.kind = "start", i # Len(a) + 1
               PROVE  FALSE
    OBVIOUS
  <2>1. i \in 1 .. Len(a)
    BY <1>2, <1>11 DEF Joins
  <2>2. W[i] = a[i] /\ a[i] \in ToSet(a)
    <3>1. W[i] = a[i]
      BY <1>11, <2>1 DEF Joins
    <3>2. DOMAIN a = 1 .. Len(a)
      BY <1>6
    <3> QED
      BY <2>1, <3>1, <3>2 DEF ToSet
  <2>3. IsMade(g, c, a[i])
    BY <1>8, <2>2
  <2>4. PICK r \in XRLs_of(g) : XRL_is_Used(c, g.rules[r]) /\ a[i] \in RulesMade(g, c, r)
    BY <2>3 DEF IsMade
  <2>5. IRLFits(g, r, RulesMade(g, c, r), a[i])
    BY <2>4, MadeFits
  <2> QED
    BY <2>2, <2>5 DEF IRLFits
<1>13. Cardinality({i \in DOMAIN W : W[i].lhs.kind = "start"}) <= 1
  <2>1. PICK Z, z : Z = {i \in DOMAIN W : W[i].lhs.kind = "start"} /\ z = Len(a) + 1
    OBVIOUS
  <2>2. Z = {} \/ Z = {z}
    BY <1>12, <2>1
  <2>3. Cardinality({}) = 0
    BY FS_EmptySet
  <2>4. Cardinality({z}) = 1
    BY FS_Singleton
  <2>5. Cardinality(Z) <= 1
    BY <2>2, <2>3, <2>4
  <2> QED
    BY <2>1, <2>5
<1>14. PICK m \in Nat : DOMAIN W = 1 .. m /\ Len(W) = m
  <2>1. PICK m \in Nat : m = Len(a) + Len(b)
    BY <1>11 DEF Joins
  <2> QED
    BY <1>11, <2>1 DEF Joins
<1> QED
  BY <1>2, <1>8, <1>10, <1>11, <1>13, <1>14

\* What InternalGrammarOK says of each rule, and the symbols of pieces.
PiecesOf(rules) == {irl.lhs : irl \in {i \in rules : i.virtual_lhs}}

RuleIsOK(g, c, pieces, irl) ==
    /\ irl.lhs.kind # "nulled"
    /\ \E nsy \in RHSOf(irl) : nsy.kind # "nulled"
    /\ \A nsy \in RHSOf(irl) : nsy.kind # "start"
    /\ irl.lhs \in pieces => irl.virtual_lhs
    /\ Cardinality({p \in DOMAIN irl.rhs : irl.rhs[p] \in pieces}) = IF irl.virtual_rhs THEN 1 ELSE 0
    /\ irl.lhs.kind = "start" =>
          /\ irl.virtual_lhs /\ ~ irl.virtual_rhs /\ irl.real = 1
          /\ irl.rhs = <<NSY_of(c, irl.lhs.xsy)>> /\ irl.source = 0
    /\ irl.lhs.kind # "start" => FitsSource(g, irl)

\* The symbols of pieces are made for pieces, or for the start rule.
LEMMA PieceKinds ==
    ASSUME NEW g, NEW c, IsCensused(g, c)
    PROVE  /\ \A nsy \in PiecesOf(ToSet(Rewrite(g, c))) : nsy.kind \in {"virtual", "start"}
           /\ \A r \in XRLs_of(g) : \A nsy :
                 XRL_is_Used(c, g.rules[r]) /\ Starts(RulesMade(g, c, r), nsy) =>
                    nsy \in PiecesOf(ToSet(Rewrite(g, c)))
<1>1. PICK rules : rules = ToSet(Rewrite(g, c))
  OBVIOUS
<1>2. /\ \A irl \in rules : IsMade(g, c, irl) \/ IsStart(g, c, irl)
      /\ \A irl : IsMade(g, c, irl) => irl \in rules
  BY <1>1, RewriteParts
<1>3. ASSUME NEW irl \in rules, irl.virtual_lhs
      PROVE  irl.lhs.kind \in {"virtual", "start"}
  <2>1. CASE IsStart(g, c, irl)
    BY <2>1 DEF IsStart
  <2>2. CASE IsMade(g, c, irl)
    <3>1. PICK r \in XRLs_of(g) : XRL_is_Used(c, g.rules[r]) /\ irl \in RulesMade(g, c, r)
      BY <2>2 DEF IsMade
    <3>2. IRLFits(g, r, RulesMade(g, c, r), irl)
      BY <3>1, MadeFits
    <3> QED
      BY <1>3, <3>2 DEF IRLFits
  <2> QED
    BY <1>2, <2>1, <2>2
<1>4. ASSUME NEW r \in XRLs_of(g), NEW nsy, XRL_is_Used(c, g.rules[r]),
             Starts(RulesMade(g, c, r), nsy)
      PROVE  nsy \in PiecesOf(rules)
  <2>1. PICK irl \in RulesMade(g, c, r) : irl.lhs = nsy /\ irl.virtual_lhs = TRUE
    BY <1>4 DEF Starts
  <2>2. irl \in rules
    BY <1>2, <1>4, <2>1 DEF IsMade
  <2> QED
    BY <2>1, <2>2 DEF PiecesOf
<1>5. \A nsy \in PiecesOf(rules) : nsy.kind \in {"virtual", "start"}
  BY <1>3 DEF PiecesOf
<1> QED
  BY <1>1, <1>4, <1>5

\* A rule made of another is in order, and so is the start rule.
LEMMA MadeIsOK ==
    ASSUME NEW g, NEW c, IsCensused(g, c), NEW irl, IsMade(g, c, irl)
    PROVE  RuleIsOK(g, c, PiecesOf(ToSet(Rewrite(g, c))), irl)
<1>1. PICK pieces :
         /\ pieces = PiecesOf(ToSet(Rewrite(g, c)))
         /\ \A nsy \in pieces : nsy.kind \in {"virtual", "start"}
         /\ \A r \in XRLs_of(g) : \A nsy :
               XRL_is_Used(c, g.rules[r]) /\ Starts(RulesMade(g, c, r), nsy) => nsy \in pieces
  BY PieceKinds
<1>2. PICK r \in XRLs_of(g) : XRL_is_Used(c, g.rules[r]) /\ irl \in RulesMade(g, c, r)
  BY DEF IsMade
<1>3. PICK R : R = RulesMade(g, c, r)
  OBVIOUS
<1>4. IRLFits(g, r, R, irl)
  BY <1>2, <1>3, MadeFits
<1>5. /\ irl.virtual_lhs \in BOOLEAN /\ irl.virtual_rhs \in BOOLEAN
      /\ irl.lhs.kind = (IF irl.virtual_lhs THEN "virtual" ELSE "proper")
      /\ \E nsy \in RHSOf(irl) : nsy.kind # "nulled"
      /\ \A nsy \in RHSOf(irl) : nsy.kind # "start" /\ (nsy.kind = "virtual" => Starts(R, nsy))
      /\ \E v : {p \in DOMAIN irl.rhs : irl.rhs[p].kind = "virtual"}
                  = IF irl.virtual_rhs THEN {v} ELSE {}
      /\ FitsSource(g, irl)
  BY <1>4 DEF IRLFits
<1>6. \A p \in DOMAIN irl.rhs : irl.rhs[p] \in pieces <=> irl.rhs[p].kind = "virtual"
  <2> SUFFICES ASSUME NEW p \in DOMAIN irl.rhs
               PROVE  irl.rhs[p] \in pieces <=> irl.rhs[p].kind = "virtual"
    OBVIOUS
  <2>1. irl.rhs[p] \in RHSOf(irl)
    BY DEF RHSOf
  <2>2. irl.rhs[p].kind # "start" /\ (irl.rhs[p].kind = "virtual" => Starts(R, irl.rhs[p]))
    BY <1>5, <2>1
  <2> QED
    BY <1>1, <1>2, <1>3, <2>2
<1>7. PICK Z, v : /\ Z = {p \in DOMAIN irl.rhs : irl.rhs[p] \in pieces}
                  /\ Z = IF irl.virtual_rhs THEN {v} ELSE {}
  <2>1. {p \in DOMAIN irl.rhs : irl.rhs[p] \in pieces} = {p \in DOMAIN irl.rhs : irl.rhs[p].kind = "virtual"}
    BY <1>6
  <2> QED
    BY <1>5, <2>1
<1>8. Cardinality(Z) = IF irl.virtual_rhs THEN 1 ELSE 0
  <2>1. Cardinality({}) = 0
    BY FS_EmptySet
  <2>2. Cardinality({v}) = 1
    BY FS_Singleton
  <2> QED
    BY <1>7, <2>1, <2>2
<1>9. irl.lhs \in pieces => irl.virtual_lhs
  BY <1>1, <1>5
<1>10. irl.lhs.kind # "nulled" /\ irl.lhs.kind # "start"
  BY <1>5
<1>11. RuleIsOK(g, c, pieces, irl)
  BY <1>5, <1>7, <1>8, <1>9, <1>10 DEF RuleIsOK
<1> QED
  BY <1>1, <1>11

\* The start rule is in order.
LEMMA StartIsOK ==
    ASSUME NEW g, NEW c, IsCensused(g, c), NEW irl, IsStart(g, c, irl)
    PROVE  RuleIsOK(g, c, PiecesOf(ToSet(Rewrite(g, c))), irl)
<1>1. PICK pieces : /\ pieces = PiecesOf(ToSet(Rewrite(g, c)))
                    /\ \A nsy \in pieces : nsy.kind \in {"virtual", "start"}
  BY PieceKinds
<1>2. PICK nsy : nsy = NSY_of(c, g.start)
  OBVIOUS
<1>3. nsy.kind = "proper"
  BY <1>2 DEF IsStart, NSY_of, NSY
<1>4. /\ irl.rhs = <<nsy>> /\ irl.lhs.kind = "start" /\ irl.lhs.xsy = g.start /\ irl.source = 0
      /\ irl.real = 1 /\ irl.virtual_lhs = TRUE /\ irl.virtual_rhs = FALSE
  BY <1>2 DEF IsStart
<1>5. DOMAIN irl.rhs = {1} /\ irl.rhs[1] = nsy /\ RHSOf(irl) = {nsy}
  BY <1>4 DEF RHSOf
<1>6. {p \in DOMAIN irl.rhs : irl.rhs[p] \in pieces} = {}
  BY <1>1, <1>3, <1>5
<1>7. Cardinality({p \in DOMAIN irl.rhs : irl.rhs[p] \in pieces}) = 0
  BY <1>6, FS_EmptySet
<1>8. irl.rhs = <<NSY_of(c, irl.lhs.xsy)>>
  BY <1>2, <1>4
<1>9. RuleIsOK(g, c, pieces, irl)
  BY <1>3, <1>4, <1>5, <1>7, <1>8 DEF RuleIsOK
<1> QED
  BY <1>1, <1>9

-----------------------------------------------------------------------------
(* Every internal symbol derives *)

\* D has what is nulled, and the terminals, and what the internal rules make of it.
IsDerived(g, c, D) ==
    /\ \A x \in XSYs_of(g) : Nulling_NSY(x) \in D
    /\ \A x \in c.terminal : NSY_of(c, x) \in D
    /\ ClosedUnder(ToSet(Rewrite(g, c)), D)

\* The rules made of one rule are among them.
LEMMA MadeIsClosed ==
    ASSUME NEW g, NEW c, IsCensused(g, c), NEW D, IsDerived(g, c, D),
           NEW r \in XRLs_of(g), XRL_is_Used(c, g.rules[r])
    PROVE  ClosedUnder(RulesMade(g, c, r), D)
<1>1. \A irl \in RulesMade(g, c, r) : irl \in ToSet(Rewrite(g, c))
  <2>1. \A irl \in RulesMade(g, c, r) : IsMade(g, c, irl)
    BY DEF IsMade
  <2> QED
    BY <2>1, RewriteParts
<1> QED
  BY <1>1 DEF ClosedUnder, IsDerived

\* The symbols of a rule by their positions.
LEMMA RulePositions ==
    ASSUME NEW g, NEW c, IsCensused(g, c), NEW D, IsDerived(g, c, D),
           NEW r \in XRLs_of(g), XRL_is_Used(c, g.rules[r]), ~ g.rules[r].sequence
    PROVE  \E L \in Nat : /\ Len(g.rules[r].rhs) = L /\ DOMAIN g.rules[r].rhs = 1 .. L
                          /\ PieceOK(g, c, r, L, 1, RulesMade(g, c, r))
                          /\ NulledIn(g.rules[r], L, D)
                          /\ \A i \in 1 .. L : g.rules[r].rhs[i] \in RHSOf(g.rules[r])
<1>1. GrammarOK(g)
  BY DEF IsCensused
<1>2. BNFOK(g, c, r, RulesMade(g, c, r))
  BY <1>1, BNFRuleOK DEF RulesMade
<1>3. PICK L \in Nat : /\ Len(g.rules[r].rhs) = L /\ DOMAIN g.rules[r].rhs = 1 .. L
                       /\ PieceOK(g, c, r, L, 1, RulesMade(g, c, r))
  BY <1>2 DEF BNFOK
<1>4. \A i \in 1 .. L : g.rules[r].rhs[i] \in RHSOf(g.rules[r])
  BY <1>3 DEF RHSOf
<1>5. RHSOf(g.rules[r]) \subseteq XSYs_of(g)
  BY <1>1 DEF GrammarOK
<1>6. NulledIn(g.rules[r], L, D)
  BY <1>4, <1>5 DEF NulledIn, IsDerived
<1> QED
  BY <1>3, <1>4, <1>6

\* The left side of a rule derives when its symbols do that are not nullable,
\* and one that takes input.
LEMMA RuleDerives ==
    ASSUME NEW g, NEW c, IsCensused(g, c), NEW D, IsDerived(g, c, D),
           NEW r \in XRLs_of(g), XRL_is_Used(c, g.rules[r]),
           \A x \in RHSOf(g.rules[r]) : NSY_of(c, x) \in D \/ x \in c.nullable,
           ~ g.rules[r].sequence =>
              \E x \in RHSOf(g.rules[r]) : NSY_of(c, x) \in D /\ x \notin c.nulling
    PROVE  NSY_of(c, g.rules[r].lhs) \in D
<1>1. PICK R : R = RulesMade(g, c, r) /\ ClosedUnder(R, D)
  BY MadeIsClosed
<1>2. CASE g.rules[r].sequence
  <2>1. PICK item : item = g.rules[r].rhs[1] /\ item \in RHSOf(g.rules[r])
    BY <1>2, UsedTakesInput
  <2>2. item \in counted(g)
    BY <1>2, <2>1 DEF counted
  <2>3. NSY_of(c, item) \in D
    BY <2>1, <2>2 DEF IsCensused
  <2>4. SequenceOK(g, c, r, R)
    BY <1>1, <1>2, SequenceRuleOK DEF RulesMade
  <2>5. PICK first \in R : IsFirstItem(g, c, r, first)
    BY <2>4 DEF SequenceOK
  <2>6. PICK top \in R : IsTop(g, c, r, top)
    BY <2>4 DEF SequenceOK
  <2>7. first.lhs = VirtualNSY(g, r, 1) /\ RHSOf(first) = {NSY_of(c, item)}
    <3>1. first.lhs = VirtualNSY(g, r, 1) /\ first.rhs = <<NSY_of(c, item)>>
      BY <2>1, <2>5 DEF IsFirstItem, IsIRL
    <3> QED
      BY <3>1 DEF RHSOf
  <2>8. VirtualNSY(g, r, 1) \in D
    BY <1>1, <2>3, <2>5, <2>7 DEF ClosedUnder
  <2>9. top.lhs = NSY_of(c, g.rules[r].lhs) /\ RHSOf(top) = {VirtualNSY(g, r, 1)}
    <3>1. top.lhs = NSY_of(c, g.rules[r].lhs) /\ top.rhs = <<VirtualNSY(g, r, 1)>>
      BY <2>6 DEF IsTop, IsIRL
    <3> QED
      BY <3>1 DEF RHSOf
  <2> QED
    BY <1>1, <2>6, <2>8, <2>9 DEF ClosedUnder
<1>3. CASE ~ g.rules[r].sequence
  <2>1. PICK L \in Nat : /\ Len(g.rules[r].rhs) = L /\ DOMAIN g.rules[r].rhs = 1 .. L
                         /\ PieceOK(g, c, r, L, 1, R) /\ NulledIn(g.rules[r], L, D)
                         /\ \A i \in 1 .. L : g.rules[r].rhs[i] \in RHSOf(g.rules[r])
    BY <1>1, <1>3, RulePositions
  <2>2. PieceDerives(g, c, r, L, 1, D)
    BY <1>1, <2>1 DEF PieceOK
  <2>3. Filled(c, g.rules[r], L, 1, D)
    BY <2>1 DEF Filled, Available
  <2>4. Something(c, g.rules[r], L, 1, D)
    <3>1. PICK x \in RHSOf(g.rules[r]) : NSY_of(c, x) \in D /\ x \notin c.nulling
      BY <1>3
    <3>2. PICK i \in 1 .. L : g.rules[r].rhs[i] = x
      BY <2>1, <3>1 DEF RHSOf
    <3> QED
      BY <3>1, <3>2 DEF Something, Available
  <2>5. LHS_of_Piece(g, c, r, 1) = NSY_of(c, g.rules[r].lhs)
    BY DEF LHS_of_Piece
  <2> QED
    BY <2>2, <2>3, <2>4, <2>5 DEF PieceDerives
<1> QED
  BY <1>2, <1>3

\* A rule of an accessible symbol is used, when every accessible symbol is
\* productive and the rule has a symbol that takes input.
LEMMA AccessibleIsUsed ==
    ASSUME NEW g, NEW c, IsCensused(g, c), c.accessible \subseteq c.productive,
           NEW r \in XRLs_of(g), g.rules[r].lhs \in c.accessible
    PROVE  /\ RHSOf(g.rules[r]) \cup SeparatorOf(g.rules[r]) \subseteq c.accessible
           /\ \A x \in RHSOf(g.rules[r]) \cup SeparatorOf(g.rules[r]) :
                 x \notin c.nulling => XRL_is_Used(c, g.rules[r])
<1>1. ReachClosed(g, c.accessible)
  BY AccessibleIsLeast DEF IsCensused
<1>2. g.rules[r] \in RulesOf(g)
  BY DEF RulesOf
<1>3. RHSOf(g.rules[r]) \cup SeparatorOf(g.rules[r]) \subseteq c.accessible
  BY <1>1, <1>2 DEF ReachClosed
<1> QED
  BY <1>3 DEF XRL_is_Used, XRL_is_Nulling

\* What is accessible derives, or is nullable.
LEMMA AccessibleDerives ==
    ASSUME NEW g, NEW c, IsCensused(g, c), c.accessible \subseteq c.productive,
           NEW D, IsDerived(g, c, D)
    PROVE  \A x \in c.accessible : x \in c.nullable \/ NSY_of(c, x) \in D
<1>1. GrammarOK(g) /\ c = CensusOf(g)
  BY DEF IsCensused
<1>2. EmptyClosed(g, c.nullable)
  BY <1>1, NullableIsLeast
<1>3. PICK S : S = {x \in XSYs_of(g) : x \in c.accessible => x \in c.nullable \/ NSY_of(c, x) \in D}
  OBVIOUS
<1>4. c.nullable \cup c.terminal \subseteq S
  <2>1. c.nullable \cup c.terminal \subseteq XSYs_of(g)
    <3>1. c.nullable \subseteq LHSes(g) /\ c.terminal = Terminals(g)
      BY <1>1, NullableIsLeast, CensusParts
    <3> QED
      BY <1>1, <3>1, RulesInside
  <2> QED
    BY <1>3, <2>1 DEF IsDerived
<1>5. ASSUME NEW r \in XRLs_of(g), RequiredOf(g.rules[r]) \subseteq S,
             g.rules[r].lhs \in c.accessible, g.rules[r].lhs \notin c.nullable
      PROVE  NSY_of(c, g.rules[r].lhs) \in D
  <2>1. PICK rule : rule = g.rules[r] /\ rule \in RulesOf(g)
    BY DEF RulesOf
  <2>2. RHSOf(rule) \cup SeparatorOf(rule) \subseteq c.accessible
    BY <1>5, <2>1, AccessibleIsUsed
  <2>3. RHSOf(rule) \subseteq RequiredOf(rule)
        /\ RequiredOf(rule) \subseteq RHSOf(rule) \cup SeparatorOf(rule)
        /\ (~ rule.sequence => RequiredOf(rule) = RHSOf(rule))
    BY DEF RequiredOf
  <2>4. \A x \in RequiredOf(rule) : NSY_of(c, x) \in D \/ x \in c.nullable
    BY <1>3, <1>5, <2>1, <2>2, <2>3
  <2>5. PICK x \in RequiredOf(rule) : x \notin c.nullable
    BY <1>2, <1>5, <2>1 DEF EmptyClosed
  <2>6. x \notin c.nulling /\ NSY_of(c, x) \in D
    <3>1. x \in c.productive
      BY <2>2, <2>3
    <3> QED
      BY <2>4, <2>5, <3>1, NullingIsNullable
  <2>7. XRL_is_Used(c, rule)
    BY <1>5, <2>1, <2>3, <2>5, <2>6, AccessibleIsUsed
  <2>8. \A y \in RHSOf(rule) : NSY_of(c, y) \in D \/ y \in c.nullable
    BY <2>3, <2>4
  <2>9. ~ rule.sequence => \E y \in RHSOf(rule) : NSY_of(c, y) \in D /\ y \notin c.nulling
    BY <2>3, <2>5, <2>6
  <2> QED
    BY <2>1, <2>7, <2>8, <2>9, RuleDerives
<1>6. \A rule \in RulesOf(g) : RequiredOf(rule) \subseteq S => rule.lhs \in S
  <2> SUFFICES ASSUME NEW rule \in RulesOf(g), RequiredOf(rule) \subseteq S
               PROVE  rule.lhs \in S
    OBVIOUS
  <2>1. PICK r \in XRLs_of(g) : rule = g.rules[r]
    BY DEF RulesOf
  <2>2. rule.lhs \in XSYs_of(g)
    BY <1>1, RulesInside
  <2> QED
    BY <1>3, <1>5, <2>1, <2>2
<1>7. DerivableClosed(g, c.nullable, c.terminal, S)
  BY <1>4, <1>6 DEF DerivableClosed
<1>8. c.productive \subseteq S
  BY <1>1, <1>7, ProductiveIsLeast
<1> QED
  BY <1>3, <1>8

\* What is accessible derives.
LEMMA AccessibleAvailable ==
    ASSUME NEW g, NEW c, IsCensused(g, c), c.accessible \subseteq c.productive,
           NEW D, IsDerived(g, c, D)
    PROVE  \A x \in c.accessible : NSY_of(c, x) \in D
<1> SUFFICES ASSUME NEW x \in c.accessible, NSY_of(c, x) \notin D
             PROVE  FALSE
  OBVIOUS
<1>1. GrammarOK(g) /\ c = CensusOf(g) /\ c.nulling \cap c.terminal = {} /\ g.start # NoXSY
  BY DEF IsCensused, NullingTerminals
<1>2. PICK T : T = c.terminal /\ T = Terminals(g)
  BY <1>1, CensusParts
<1>3. c.nulling = {y \in LHSes(g) : \A t \in T : <<y, t>> \notin Reach(g)}
  BY <1>1, <1>2, CensusParts
<1>4. x \in LHSes(g) /\ x \notin c.nulling
  <2>1. c.productive \subseteq LHSes(g) \cup c.terminal
    BY <1>1, ProductiveIsLeast
  <2>2. c.accessible \subseteq XSYs_of(g)
    BY <1>1, AccessibleIsLeast
  <2>3. x \notin c.nulling
    BY <2>2 DEF NSY_of, IsDerived
  <2> QED
    BY <2>1, <2>3 DEF IsDerived
<1>5. PICK t \in T : <<x, t>> \in Reach(g)
  BY <1>3, <1>4
<1>6. PICK S : S = {z \in c.accessible : z \in c.nulling \/ NSY_of(c, z) \notin D}
  OBVIOUS
<1>7. ASSUME NEW rule \in RulesOf(g), rule.lhs \in S, NEW y \in RHSOf(rule) \cup SeparatorOf(rule)
      PROVE  y \in S
  <2> SUFFICES ASSUME y \notin S
               PROVE  FALSE
    OBVIOUS
  <2>1. PICK r \in XRLs_of(g) : rule = g.rules[r]
    BY DEF RulesOf
  <2>2. RHSOf(rule) \cup SeparatorOf(rule) \subseteq c.accessible
    BY <1>6, <1>7, <2>1, AccessibleIsUsed
  <2>3. y \notin c.nulling /\ NSY_of(c, y) \in D /\ y \in c.productive
    BY <1>6, <2>2
  <2>4. rule.lhs \notin c.nulling
    BY <2>3, InputIsTaken
  <2>5. NSY_of(c, rule.lhs) \notin D
    BY <1>6, <1>7, <2>4
  <2>6. XRL_is_Used(c, rule)
    BY <1>6, <1>7, <2>1, <2>3, AccessibleIsUsed
  <2>7. \A z \in RHSOf(rule) : NSY_of(c, z) \in D \/ z \in c.nullable
    BY <2>2, AccessibleDerives
  <2>8. ~ rule.sequence => \E z \in RHSOf(rule) : NSY_of(c, z) \in D /\ z \notin c.nulling
    <3>1. WellMade(rule)
      BY <1>1, <2>1, <2>6, UsedShows
    <3>2. ~ rule.sequence => SeparatorOf(rule) = {}
      BY <3>1 DEF WellMade, SeparatorOf
    <3> QED
      BY <2>3, <3>2
  <2>9. NSY_of(c, rule.lhs) \in D
    BY <2>1, <2>6, <2>7, <2>8, RuleDerives
  <2> QED
    BY <2>5, <2>9
<1>8. x \in S
  BY <1>6
<1>9. t \in S
  BY <1>1, <1>5, <1>7, <1>8, ReachIsLeast
<1> QED
  BY <1>1, <1>2, <1>6, <1>9 DEF IsDerived

\* What is at the positions of a rule of a piece.
LEMMA SymbolsAvailable ==
    ASSUME NEW c, NEW rule, NEW L \in Nat, NEW D, NulledIn(rule, L, D),
           \A i \in 1 .. L : Available(c, rule, D, i), NEW nulled
    PROVE  \A i \in 1 .. L : NSYAt(c, rule, nulled, i) \in D
  BY DEF NulledIn, Available, NSYAt

\* When all symbols of a BNF rule derive, so do those of its internal rules.
LEMMA BNFSymbolsDerive ==
    ASSUME NEW g, NEW c, NEW r, NEW L \in Nat, NEW R, PieceOK(g, c, r, L, 1, R),
           NEW D, NulledIn(g.rules[r], L, D), ClosedUnder(R, D),
           \A i \in 1 .. L : Available(c, g.rules[r], D, i), NEW irl \in R
    PROVE  irl.lhs \in D /\ RHSOf(irl) \subseteq D /\ IsFiniteSet(RHSOf(irl))
<1>1. \A i2 \in R : i2.lhs \in D
  BY DEF PieceOK, AllDerive
<1>2. \E n \in Nat : DOMAIN irl.rhs = 1 .. n /\ \A p \in 1 .. n : irl.rhs[p] \in D
  <2>1. CASE SoundFinal(g, c, r, L, irl)
    <3>1. PICK s \in 1 .. L, nulled \in SUBSET (1 .. L) : IsFinal(g, c, r, L, s, nulled, irl)
      BY <2>1 DEF SoundFinal
    <3>2. PICK n \in Nat : n = L - s + 1 /\ \A p \in 1 .. n : s + p - 1 \in 1 .. L
      OBVIOUS
    <3>3. DOMAIN irl.rhs = 1 .. n /\ \A p \in 1 .. n : irl.rhs[p] = NSYAt(c, g.rules[r], nulled, s + p - 1)
      BY <3>1, <3>2 DEF IsFinal
    <3>4. \A i \in 1 .. L : NSYAt(c, g.rules[r], nulled, i) \in D
      BY SymbolsAvailable
    <3> QED
      BY <3>2, <3>3, <3>4
  <2>2. CASE SoundContinued(g, c, r, L, R, irl)
    <3>1. PICK s \in 1 .. L : \E e \in s .. L - 1 : \E nulled \in SUBSET (1 .. L) :
             IsContinued(g, c, r, s, e, nulled, irl) /\ Starts(R, VirtualNSY(g, r, e + 1))
      BY <2>2 DEF SoundContinued
    <3>2. PICK e \in s .. L - 1, nulled \in SUBSET (1 .. L) :
             IsContinued(g, c, r, s, e, nulled, irl) /\ Starts(R, VirtualNSY(g, r, e + 1))
      BY <3>1
    <3>3. PICK n \in Nat : /\ n = e - s + 2 /\ n - 1 = e - s + 1
                           /\ \A p \in 1 .. n - 1 : s + p - 1 \in 1 .. L
                           /\ \A p \in 1 .. n : p = n \/ p \in 1 .. n - 1
      OBVIOUS
    <3>4. /\ DOMAIN irl.rhs = 1 .. n /\ irl.rhs[n] = VirtualNSY(g, r, e + 1)
          /\ \A p \in 1 .. n - 1 : irl.rhs[p] = NSYAt(c, g.rules[r], nulled, s + p - 1)
      BY <3>2, <3>3 DEF IsContinued
    <3>5. \A i \in 1 .. L : NSYAt(c, g.rules[r], nulled, i) \in D
      BY SymbolsAvailable
    <3>6. VirtualNSY(g, r, e + 1) \in D
      BY <1>1, <3>2 DEF Starts
    <3>7. ASSUME NEW p \in 1 .. n
          PROVE  irl.rhs[p] \in D
      <4>1. CASE p = n
        BY <3>4, <3>6, <4>1
      <4>2. CASE p \in 1 .. n - 1
        <5>1. PICK i \in 1 .. L : i = s + p - 1
          BY <3>3, <4>2
        <5>2. irl.rhs[p] = NSYAt(c, g.rules[r], nulled, i)
          BY <3>4, <4>2, <5>1
        <5> QED
          BY <3>5, <5>2
      <4> QED
        BY <3>3, <4>1, <4>2
    <3> QED
      BY <3>4, <3>7
  <2> QED
    BY <2>1, <2>2 DEF PieceOK
<1>3. PICK n \in Nat : DOMAIN irl.rhs = 1 .. n /\ \A p \in 1 .. n : irl.rhs[p] \in D
  BY <1>2
<1>4. RHSOf(irl) = {irl.rhs[p] : p \in 1 .. n}
  BY <1>3 DEF RHSOf
<1>5. IsFiniteSet(RHSOf(irl))
  <2>1. IsFiniteSet(1 .. n)
    BY FS_Interval
  <2>2. PICK f : f = [p \in 1 .. n |-> irl.rhs[p]]
    OBVIOUS
  <2>3. f \in Surjection(1 .. n, RHSOf(irl))
    BY <1>4, <2>2 DEF Surjection
  <2> QED
    BY <2>1, <2>3, FS_Surjection
<1> QED
  BY <1>1, <1>3, <1>4, <1>5

\* When item and separator of a sequence derive, so do the symbols of its internal rules.
LEMMA SequenceSymbolsDerive ==
    ASSUME NEW g, NEW c, NEW r, NEW R, SequenceOK(g, c, r, R), NEW D, ClosedUnder(R, D),
           NSY_of(c, g.rules[r].lhs) \in D, NSY_of(c, g.rules[r].rhs[1]) \in D,
           g.rules[r].separator # NoXSY => NSY_of(c, g.rules[r].separator) \in D, NEW irl \in R
    PROVE  irl.lhs \in D /\ RHSOf(irl) \subseteq D /\ IsFiniteSet(RHSOf(irl))
<1>1. PICK top, internal, item, sep :
         /\ top = NSY_of(c, g.rules[r].lhs) /\ internal = VirtualNSY(g, r, 1)
         /\ item = NSY_of(c, g.rules[r].rhs[1]) /\ sep = NSY_of(c, g.rules[r].separator)
  OBVIOUS
<1>2. internal \in D
  <2>1. PICK first \in R : IsFirstItem(g, c, r, first)
    BY DEF SequenceOK
  <2>2. first.lhs = internal /\ first.rhs = <<item>>
    BY <1>1, <2>1 DEF IsFirstItem, IsIRL
  <2>3. RHSOf(first) \subseteq D
    BY <1>1, <2>2 DEF RHSOf
  <2> QED
    BY <2>1, <2>2, <2>3 DEF ClosedUnder
<1>3. /\ irl.lhs \in {top, internal}
      /\ \/ irl.rhs \in {<<internal>>, <<item>>, <<internal, item>>}
         \/ sep \in D /\ irl.rhs \in {<<internal, sep>>, <<internal, sep, item>>}
  BY <1>1 DEF SequenceOK, IsOfSequence, IsTop, IsTerminated, IsFirstItem, IsNextItem,
              IsSeparatedItem, IsIRL
<1>4. RHSOf(irl) \subseteq {internal, item, sep} /\ RHSOf(irl) \subseteq D
  BY <1>1, <1>2, <1>3 DEF RHSOf
<1>5. IsFiniteSet(RHSOf(irl))
  <2>1. IsFiniteSet({internal})
    BY FS_Singleton
  <2>2. IsFiniteSet({internal} \cup {item})
    BY <2>1, FS_AddElement
  <2>3. IsFiniteSet(({internal} \cup {item}) \cup {sep})
    BY <2>2, FS_AddElement
  <2>4. {internal, item, sep} = ({internal} \cup {item}) \cup {sep}
    OBVIOUS
  <2>5. IsFiniteSet({internal, item, sep})
    BY <2>3, <2>4
  <2> QED
    BY <1>4, <2>5, FS_Subset
<1> QED
  BY <1>1, <1>2, <1>3, <1>4, <1>5

\* The symbols of every internal rule derive.
LEMMA SymbolsDerive ==
    ASSUME NEW g, NEW c, IsCensused(g, c), c.accessible \subseteq c.productive,
           NEW D, IsDerived(g, c, D), NEW irl \in ToSet(Rewrite(g, c))
    PROVE  irl.lhs \in D /\ RHSOf(irl) \subseteq D /\ IsFiniteSet(RHSOf(irl))
<1>1. \A x \in c.accessible : NSY_of(c, x) \in D
  BY AccessibleAvailable
<1>2. GrammarOK(g)
  BY DEF IsCensused
<1>3. CASE IsStart(g, c, irl)
  <2>1. g.start \in c.accessible
    BY CensusParts DEF IsCensused
  <2>2. RHSOf(irl) = {NSY_of(c, g.start)}
    BY <1>3 DEF IsStart, RHSOf
  <2>3. RHSOf(irl) \subseteq D
    BY <1>1, <2>1, <2>2
  <2>4. irl.lhs \in D
    BY <2>3 DEF IsDerived, ClosedUnder
  <2>5. IsFiniteSet(RHSOf(irl))
    BY <2>2, FS_Singleton
  <2> QED
    BY <2>3, <2>4, <2>5
<1>4. CASE IsMade(g, c, irl)
  <2>1. PICK r \in XRLs_of(g) : XRL_is_Used(c, g.rules[r]) /\ irl \in RulesMade(g, c, r)
    BY <1>4 DEF IsMade
  <2>2. PICK R : R = RulesMade(g, c, r) /\ ClosedUnder(R, D)
    BY <2>1, MadeIsClosed
  <2>3. g.rules[r].lhs \in c.accessible
    BY <2>1 DEF XRL_is_Used
  <2>4. RHSOf(g.rules[r]) \cup SeparatorOf(g.rules[r]) \subseteq c.accessible
    BY <2>3, AccessibleIsUsed
  <2>5. CASE g.rules[r].sequence
    <3>1. SequenceOK(g, c, r, R)
      BY <2>1, <2>2, <2>5, SequenceRuleOK DEF RulesMade
    <3>2. g.rules[r].rhs[1] \in RHSOf(g.rules[r])
      BY <2>1, <2>5, UsedTakesInput
    <3>3. NSY_of(c, g.rules[r].lhs) \in D /\ NSY_of(c, g.rules[r].rhs[1]) \in D
      BY <1>1, <2>3, <2>4, <3>2
    <3>4. g.rules[r].separator # NoXSY => NSY_of(c, g.rules[r].separator) \in D
      BY <1>1, <2>4 DEF SeparatorOf
    <3> QED
      BY <2>1, <2>2, <3>1, <3>3, <3>4, SequenceSymbolsDerive
  <2>6. CASE ~ g.rules[r].sequence
    <3>1. PICK L \in Nat : /\ PieceOK(g, c, r, L, 1, R) /\ NulledIn(g.rules[r], L, D)
                           /\ \A i \in 1 .. L : g.rules[r].rhs[i] \in RHSOf(g.rules[r])
      BY <2>1, <2>2, <2>6, RulePositions
    <3>2. \A i \in 1 .. L : Available(c, g.rules[r], D, i)
      BY <1>1, <2>4, <3>1 DEF Available
    <3> QED
      BY <2>1, <2>2, <3>1, <3>2, BNFSymbolsDerive
  <2> QED
    BY <2>5, <2>6
<1> QED
  BY <1>3, <1>4, RewriteParts

\* The last clause of InternalGrammarOK, and its rounds.
Derived(rules, S) == {irl.lhs : irl \in {i \in rules : RHSOf(i) \subseteq S}}
DerivedAtOnce(c, NSYs) ==
    {nsy \in NSYs : NSY_is_Nulling(nsy) \/ nsy \in {NSY_of(c, x) : x \in c.terminal}}

DerivesAll(c, rules, NSYs) ==
    LET terminals == {NSY_of(c, x) : x \in c.terminal}
        derives[n \in 0 .. Cardinality(NSYs)] ==
          IF n = 0 THEN {nsy \in NSYs : NSY_is_Nulling(nsy) \/ nsy \in terminals}
          ELSE LET prior == derives[n - 1]
               IN  prior \cup {irl.lhs : irl \in {i \in rules : RHSOf(i) \subseteq prior}}
    IN  NSYs \subseteq derives[Cardinality(NSYs)]

AreRounds(rules, base, N, d) ==
    d[0] = base /\ \A n \in 1 .. N : d[n] = d[n - 1] \cup Derived(rules, d[n - 1])

\* The recursion in InternalGrammarOK is by rounds, each from the one before.
LEMMA DerivesRows ==
    ASSUME NEW c, NEW rules, NEW NSYs, NEW N \in Nat, N = Cardinality(NSYs),
           \A irl \in rules : irl.lhs \in NSYs
    PROVE  \E d : /\ AreRounds(rules, DerivedAtOnce(c, NSYs), N, d)
                  /\ NSYs \subseteq d[N] => DerivesAll(c, rules, NSYs)
<1> DEFINE X == SUBSET NSYs
           step == [n \in 1 .. N |-> [T \in X |-> T \cup Derived(rules, T)]]
           derives[n \in 0 .. Cardinality(NSYs)] ==
             IF n = 0 THEN {nsy \in NSYs : NSY_is_Nulling(nsy) \/ nsy \in {NSY_of(c, x) : x \in c.terminal}}
             ELSE LET prior == derives[n - 1]
                  IN  prior \cup {irl.lhs : irl \in {i \in rules : RHSOf(i) \subseteq prior}}
<1>1. PICK base : base = DerivedAtOnce(c, NSYs) /\ base \in X
  BY DEF DerivedAtOnce
<1>2. step \in [1 .. N -> [X -> X]]
  BY DEF Derived
<1>3. PICK f \in [0 .. N -> X] : Iterates(f, N, base, step)
  <2> HIDE DEF step, X
  <2> QED
    BY <1>1, <1>2, PrimitiveRecursion
<1>4. \A n \in 1 .. N : f[n] = f[n - 1] \cup Derived(rules, f[n - 1])
  <2> SUFFICES ASSUME NEW n \in 1 .. N PROVE f[n] = f[n - 1] \cup Derived(rules, f[n - 1])
    OBVIOUS
  <2>1. f[n - 1] \in X
    BY <1>3
  <2>2. f[n] = step[n][f[n - 1]]
    BY <1>3 DEF Iterates
  <2> QED
    BY <2>1, <2>2
<1>5. f = [n \in 0 .. Cardinality(NSYs) |->
              IF n = 0 THEN {nsy \in NSYs : NSY_is_Nulling(nsy) \/ nsy \in {NSY_of(c, x) : x \in c.terminal}}
              ELSE LET prior == f[n - 1]
                   IN  prior \cup {irl.lhs : irl \in {i \in rules : RHSOf(i) \subseteq prior}}]
  <2> HIDE DEF step, X
  <2>1. f = [n \in 0 .. N |-> IF n = 0 THEN base ELSE f[n - 1] \cup Derived(rules, f[n - 1])]
    BY <1>3, <1>4 DEF Iterates
  <2>2. f = [n \in 0 .. Cardinality(NSYs) |->
                IF n = 0 THEN DerivedAtOnce(c, NSYs) ELSE f[n - 1] \cup Derived(rules, f[n - 1])]
    BY <1>1, <2>1, Zenon
  <2> QED
    BY <2>2, Zenon DEF Derived, DerivedAtOnce
<1>6. derives = [n \in 0 .. Cardinality(NSYs) |->
              IF n = 0 THEN {nsy \in NSYs : NSY_is_Nulling(nsy) \/ nsy \in {NSY_of(c, x) : x \in c.terminal}}
              ELSE LET prior == derives[n - 1]
                   IN  prior \cup {irl.lhs : irl \in {i \in rules : RHSOf(i) \subseteq prior}}]
  BY <1>5, Zenon
<1>7. NSYs \subseteq derives[Cardinality(NSYs)] => DerivesAll(c, rules, NSYs)
  BY Zenon DEF DerivesAll
<1>8. derives = [n \in 0 .. Cardinality(NSYs) |->
                  IF n = 0 THEN DerivedAtOnce(c, NSYs)
                  ELSE derives[n - 1] \cup Derived(rules, derives[n - 1])]
  BY <1>6, Zenon DEF Derived, DerivedAtOnce
<1> HIDE DEF derives, step, X
<1>9. derives = [n \in 0 .. N |->
                  IF n = 0 THEN base ELSE derives[n - 1] \cup Derived(rules, derives[n - 1])]
  BY <1>1, <1>8, Zenon
<1>10. derives[0] = base
  BY <1>9
<1>11. ASSUME NEW n \in 1 .. N
       PROVE  derives[n] = derives[n - 1] \cup Derived(rules, derives[n - 1])
  <2>1. n \in 0 .. N /\ n # 0
    OBVIOUS
  <2> QED
    BY <1>9, <2>1, Zenon
<1>12. AreRounds(rules, DerivedAtOnce(c, NSYs), N, derives)
  BY <1>1, <1>10, <1>11 DEF AreRounds
<1>13. NSYs \subseteq derives[N] => DerivesAll(c, rules, NSYs)
  BY <1>7
<1> QED
  BY <1>12, <1>13

\* After as many rounds as there are symbols nothing more derives.
LEMMA RoundsClose ==
    ASSUME NEW rules, NEW NSYs, IsFiniteSet(NSYs), NEW N \in Nat, N = Cardinality(NSYs),
           \A irl \in rules : irl.lhs \in NSYs, NEW base, base \subseteq NSYs,
           NEW d, AreRounds(rules, base, N, d)
    PROVE  /\ base \subseteq d[N] /\ d[N] \subseteq NSYs
           /\ Derived(rules, d[N]) \subseteq d[N]
<1>1. \A n \in 0 .. N : n < N => d[n + 1] = d[n] \cup Derived(rules, d[n])
  <2> SUFFICES ASSUME NEW n \in 0 .. N, n < N PROVE d[n + 1] = d[n] \cup Derived(rules, d[n])
    OBVIOUS
  <2>1. n + 1 \in 1 .. N /\ (n + 1) - 1 = n
    OBVIOUS
  <2> QED
    BY <2>1 DEF AreRounds
<1>2. \A S : Derived(rules, S) \subseteq NSYs
  BY DEF Derived
<1> DEFINE Row(n) ==
             /\ base \subseteq d[n] /\ d[n] \subseteq NSYs
             /\ Derived(rules, d[n]) \subseteq d[n] \/ Cardinality(d[n]) >= n
           Rows == {n \in 0 .. N : Row(n)}
<1>3. 0 \in Rows
  <2>1. IsFiniteSet(base) /\ Cardinality(base) \in Nat
    BY FS_Subset, FS_CardinalityType
  <2>2. d[0] = base
    BY DEF AreRounds
  <2> QED
    BY <2>1, <2>2
<1>4. ASSUME NEW n \in 0 .. N, n \in Rows, n < N
      PROVE  n + 1 \in Rows
  <2>1. PICK C, E : C = d[n] /\ E = d[n + 1]
    OBVIOUS
  <2>2. E = C \cup Derived(rules, C)
    BY <1>1, <1>4, <2>1
  <2>3. /\ base \subseteq C /\ C \subseteq NSYs
        /\ Derived(rules, C) \subseteq C \/ Cardinality(C) >= n
    BY <1>4, <2>1
  <2>4. base \subseteq E /\ C \subseteq E /\ E \subseteq NSYs
    BY <1>2, <2>2, <2>3
  <2>5. Derived(rules, E) \subseteq E \/ Cardinality(E) >= n + 1
    <3>1. CASE C = E
      BY <2>2, <3>1
    <3>2. CASE C # E
      <4>1. ~ (Derived(rules, C) \subseteq C)
        BY <2>2, <3>2
      <4>2. IsFiniteSet(E) /\ Cardinality(E) \in Nat /\ IsFiniteSet(C) /\ Cardinality(C) \in Nat
        BY <2>3, <2>4, FS_Subset, FS_CardinalityType
      <4>3. Cardinality(C) <= Cardinality(E) /\ Cardinality(C) # Cardinality(E)
        BY <2>4, <3>2, <4>2, FS_Subset
      <4> QED
        BY <2>3, <4>1, <4>2, <4>3
    <3> QED
      BY <3>1, <3>2
  <2>6. n + 1 \in 0 .. N
    BY <1>4
  <2> QED
    BY <2>1, <2>4, <2>5, <2>6
<1> HIDE DEF Rows
<1>5. N \in Rows
  BY <1>3, <1>4, UpTo
<1>6. Row(N)
  BY <1>5 DEF Rows
<1>7. Derived(rules, d[N]) \subseteq d[N]
  <2>1. CASE Cardinality(d[N]) >= N
    <3>1. d[N] \in SUBSET NSYs
      BY <1>6
    <3>2. Cardinality(d[N]) <= N /\ Cardinality(d[N]) \in Nat
      BY <3>1, FS_Subset, FS_CardinalityType
    <3>3. d[N] = NSYs
      BY <2>1, <3>1, <3>2, FS_Subset
    <3> QED
      BY <1>2, <3>3
  <2> QED
    BY <1>6, <2>1
<1> QED
  BY <1>6, <1>7

\* The internal symbols, and what may stand for an external symbol.
NSYsOf(rules) == {irl.lhs : irl \in rules} \cup UNION {RHSOf(irl) : irl \in rules}
SymbolsFor(g, c) == {Nulling_NSY(x) : x \in XSYs_of(g)} \cup {NSY_of(c, x) : x \in XSYs_of(g)}

\* The internal symbols are finitely many.
LEMMA NSYsAreFinite ==
    ASSUME NEW g, NEW c, IsCensused(g, c), c.accessible \subseteq c.productive
    PROVE  IsFiniteSet(NSYsOf(ToSet(Rewrite(g, c))))
<1>1. PICK W, rules : W = Rewrite(g, c) /\ rules = ToSet(W)
  OBVIOUS
<1>2. PICK n \in Nat : DOMAIN W = 1 .. n
  BY <1>1, RewriteParts
<1>3. IsFiniteSet(1 .. n)
  BY FS_Interval
<1>4. PICK lhs, rhs : /\ lhs = [i \in 1 .. n |-> W[i].lhs]
                      /\ rhs = [i \in 1 .. n |-> RHSOf(W[i])]
  OBVIOUS
<1>5. rules = {W[i] : i \in 1 .. n}
  BY <1>1, <1>2 DEF ToSet
<1>6. IsFiniteSet({irl.lhs : irl \in rules})
  <2>1. lhs \in Surjection(1 .. n, {irl.lhs : irl \in rules})
    BY <1>4, <1>5 DEF Surjection
  <2> QED
    BY <1>3, <2>1, FS_Surjection
<1>7. IsFiniteSet({RHSOf(irl) : irl \in rules})
  <2>1. PICK T : T = {RHSOf(irl) : irl \in rules}
    OBVIOUS
  <2>2. \A i \in 1 .. n : rhs[i] \in T
    BY <1>4, <1>5, <2>1
  <2>3. \A t \in T : \E i \in 1 .. n : rhs[i] = t
    BY <1>4, <1>5, <2>1
  <2>4. rhs \in Surjection(1 .. n, T)
    BY <1>4, <2>2, <2>3 DEF Surjection
  <2> QED
    BY <1>3, <2>1, <2>4, FS_Surjection
<1>8. PICK D : D = NSYsOf(rules) \cup SymbolsFor(g, c)
  OBVIOUS
<1>9. IsDerived(g, c, D)
  <2>1. GrammarOK(g) /\ c = CensusOf(g)
    BY DEF IsCensused
  <2>2. c.terminal \subseteq XSYs_of(g)
    BY <2>1, CensusParts, RulesInside
  <2>3. ClosedUnder(rules, D)
    BY <1>8 DEF ClosedUnder, NSYsOf
  <2> QED
    BY <1>1, <1>8, <2>2, <2>3 DEF IsDerived, SymbolsFor
<1>10. \A irl \in rules : IsFiniteSet(RHSOf(irl))
  BY <1>1, <1>9, SymbolsDerive
<1>11. IsFiniteSet(UNION {RHSOf(irl) : irl \in rules})
  BY <1>7, <1>10, FS_UNION
<1>12. IsFiniteSet(NSYsOf(rules))
  BY <1>6, <1>11, FS_Union DEF NSYsOf
<1> QED
  BY <1>1, <1>12

\* In a grammar with no unproductive symbol, every internal symbol derives.
LEMMA AllDerived ==
    ASSUME NEW g, NEW c, IsCensused(g, c), c.accessible \subseteq c.productive
    PROVE  DerivesAll(c, ToSet(Rewrite(g, c)), NSYsOf(ToSet(Rewrite(g, c))))
<1>1. PICK rules, NSYs : rules = ToSet(Rewrite(g, c)) /\ NSYs = NSYsOf(rules)
  OBVIOUS
<1>2. IsFiniteSet(NSYs)
  BY <1>1, NSYsAreFinite
<1>3. PICK N \in Nat : N = Cardinality(NSYs)
  BY <1>2, FS_CardinalityType
<1>4. \A irl \in rules : irl.lhs \in NSYs /\ RHSOf(irl) \subseteq NSYs
  BY <1>1 DEF NSYsOf
<1>5. PICK base : base = DerivedAtOnce(c, NSYs) /\ base \subseteq NSYs
  BY DEF DerivedAtOnce
<1>6. PICK d : AreRounds(rules, base, N, d) /\ (NSYs \subseteq d[N] => DerivesAll(c, rules, NSYs))
  <2>1. \A irl \in rules : irl.lhs \in NSYs
    BY <1>4
  <2>2. \E d : /\ AreRounds(rules, DerivedAtOnce(c, NSYs), N, d)
               /\ NSYs \subseteq d[N] => DerivesAll(c, rules, NSYs)
    <3>1. N \in Nat /\ N = Cardinality(NSYs)
      BY <1>3
    <3> QED
      BY <2>1, <3>1, DerivesRows, Zenon
  <2> QED
    BY <1>5, <2>2
<1>7. base \subseteq d[N] /\ d[N] \subseteq NSYs /\ Derived(rules, d[N]) \subseteq d[N]
  <2>1. /\ IsFiniteSet(NSYs) /\ N \in Nat /\ N = Cardinality(NSYs)
        /\ \A irl \in rules : irl.lhs \in NSYs
        /\ base \subseteq NSYs /\ AreRounds(rules, base, N, d)
    BY <1>2, <1>3, <1>4, <1>5, <1>6
  <2> QED
    BY <2>1, RoundsClose
<1>8. PICK D : D = d[N] \cup (SymbolsFor(g, c) \ NSYs)
  OBVIOUS
<1>9. IsDerived(g, c, D)
  <2>1. GrammarOK(g) /\ c = CensusOf(g)
    BY DEF IsCensused
  <2>2. c.terminal \subseteq XSYs_of(g)
    BY <2>1, CensusParts, RulesInside
  <2>3. \A x \in XSYs_of(g) : Nulling_NSY(x) \in D
    <3> SUFFICES ASSUME NEW x \in XSYs_of(g)
                 PROVE  Nulling_NSY(x) \in D
      OBVIOUS
    <3>1. Nulling_NSY(x) \in SymbolsFor(g, c)
      BY DEF SymbolsFor
    <3>2. NSY_is_Nulling(Nulling_NSY(x))
      BY DEF NSY_is_Nulling, Nulling_NSY, NSY
    <3>3. Nulling_NSY(x) \in NSYs => Nulling_NSY(x) \in base
      BY <1>5, <3>2 DEF DerivedAtOnce
    <3> QED
      BY <1>7, <1>8, <3>1, <3>3
  <2>4. \A x \in c.terminal : NSY_of(c, x) \in D
    <3> SUFFICES ASSUME NEW x \in c.terminal
                 PROVE  NSY_of(c, x) \in D
      OBVIOUS
    <3>1. NSY_of(c, x) \in SymbolsFor(g, c)
      BY <2>2 DEF SymbolsFor
    <3>2. NSY_of(c, x) \in NSYs => NSY_of(c, x) \in base
      BY <1>5 DEF DerivedAtOnce
    <3> QED
      BY <1>7, <1>8, <3>1, <3>2
  <2>5. ASSUME NEW irl \in rules, RHSOf(irl) \subseteq D
        PROVE  irl.lhs \in D
    <3>1. RHSOf(irl) \subseteq d[N]
      BY <1>4, <1>8, <2>5
    <3> QED
      BY <1>7, <1>8, <3>1 DEF Derived
  <2> QED
    BY <1>1, <2>3, <2>4, <2>5 DEF IsDerived, ClosedUnder
<1>10. NSYs \subseteq D
  <2>1. \A irl \in rules : irl.lhs \in D /\ RHSOf(irl) \subseteq D
    BY <1>1, <1>9, SymbolsDerive
  <2> QED
    BY <1>1, <2>1 DEF NSYsOf
<1>11. NSYs \subseteq d[N]
  BY <1>8, <1>10
<1> QED
  BY <1>1, <1>6, <1>11

-----------------------------------------------------------------------------
(* The internal grammar is in order *)

\* InternalGrammarOK, of the rules, their symbols and the symbols of pieces.
InternalOK(rules, NSYs, pieces) ==
    /\ \A irl \in rules : ~ NSY_is_Nulling(irl.lhs)
    /\ \A irl \in rules : \E nsy \in RHSOf(irl) : ~ NSY_is_Nulling(nsy)
    /\ \A irl \in rules : \A nsy \in RHSOf(irl) : nsy.kind # "start"
    /\ Cardinality({i \in DOMAIN irls : irls[i].lhs.kind = "start"}) <= 1
    /\ pieces \cap {NSY_of(census, x) : x \in census.terminal} = {}
    /\ \A irl \in rules :
          /\ irl.lhs \in pieces => irl.virtual_lhs
          /\ Cardinality({p \in DOMAIN irl.rhs : irl.rhs[p] \in pieces})
               = IF irl.virtual_rhs THEN 1 ELSE 0
          /\ irl.lhs.kind = "start" =>
                /\ irl.virtual_lhs /\ ~ irl.virtual_rhs /\ irl.real = 1
                /\ irl.rhs = <<NSY_of(census, irl.lhs.xsy)>> /\ irl.source = 0
          /\ irl.lhs.kind # "start" => SourceOK(irl)
    /\ census.accessible \subseteq census.productive => DerivesAll(census, rules, NSYs)

\* What the census and the rewrite give is what InternalGrammarOK asks for.
LEMMA InternalIsOK ==
    ASSUME CensusInv
    PROVE  InternalGrammarOK
<1> SUFFICES ASSUME is_precomputed
             PROVE  InternalGrammarOK
  BY Zenon DEF InternalGrammarOK
<1>1. PICK g, c : g = Censused /\ c = census
  OBVIOUS
<1>2. IsCensused(g, c) /\ irls = Rewrite(g, c)
  BY <1>1 DEF CensusInv, CensusDone, IsCensused
<1>3. PICK rules, NSYs, pieces :
         /\ rules = ToSet(irls) /\ NSYs = NSYsOf(rules) /\ pieces = PiecesOf(rules)
  OBVIOUS
<1>4. \A irl \in rules : RuleIsOK(g, c, pieces, irl)
  <2>1. \A irl \in rules : IsMade(g, c, irl) \/ IsStart(g, c, irl)
    BY <1>2, <1>3, RewriteParts
  <2> QED
    BY <1>2, <1>3, <2>1, MadeIsOK, StartIsOK
<1>5. Cardinality({i \in DOMAIN irls : irls[i].lhs.kind = "start"}) <= 1
  BY <1>2, RewriteParts
<1>6. pieces \cap {NSY_of(census, x) : x \in census.terminal} = {}
  <2>1. \A nsy \in pieces : nsy.kind \in {"virtual", "start"}
    BY <1>2, <1>3, PieceKinds
  <2>2. \A x : NSY_of(census, x).kind \in {"proper", "nulled"}
    BY DEF NSY_of, Nulling_NSY, NSY
  <2> QED
    BY <2>1, <2>2
<1>7. census.accessible \subseteq census.productive => DerivesAll(census, rules, NSYs)
  BY <1>1, <1>2, <1>3, AllDerived
<1>8. \A irl : FitsSource(g, irl) <=> SourceOK(irl)
  <2> SUFFICES ASSUME NEW irl
               PROVE  FitsSource(Censused, irl) <=> SourceOK(irl)
    BY <1>1
  <2> QED
    BY Zenon DEF FitsSource, SourceOK
<1>9. \A irl \in rules :
         /\ ~ NSY_is_Nulling(irl.lhs)
         /\ \E nsy \in RHSOf(irl) : ~ NSY_is_Nulling(nsy)
         /\ \A nsy \in RHSOf(irl) : nsy.kind # "start"
         /\ irl.lhs \in pieces => irl.virtual_lhs
         /\ Cardinality({p \in DOMAIN irl.rhs : irl.rhs[p] \in pieces})
              = IF irl.virtual_rhs THEN 1 ELSE 0
         /\ irl.lhs.kind = "start" =>
               /\ irl.virtual_lhs /\ ~ irl.virtual_rhs /\ irl.real = 1
               /\ irl.rhs = <<NSY_of(census, irl.lhs.xsy)>> /\ irl.source = 0
         /\ irl.lhs.kind # "start" => SourceOK(irl)
  BY <1>1, <1>4, <1>8 DEF RuleIsOK, NSY_is_Nulling
<1>10. InternalOK(rules, NSYs, pieces)
  BY <1>5, <1>6, <1>7, <1>9 DEF InternalOK
<1>11. /\ rules = {irls[i] : i \in DOMAIN irls}
       /\ NSYs = {irl.lhs : irl \in rules} \cup UNION {RHSOf(irl) : irl \in rules}
       /\ pieces = {irl.lhs : irl \in {i \in rules : i.virtual_lhs}}
  BY <1>3 DEF ToSet, NSYsOf, PiecesOf
<1>12. InternalOK(rules, {irl.lhs : irl \in rules} \cup UNION {RHSOf(irl) : irl \in rules},
                  {irl.lhs : irl \in {i \in rules : i.virtual_lhs}})
  BY <1>10, <1>11, Zenon
<1>13. InternalOK({irls[i] : i \in DOMAIN irls},
                  {irl.lhs : irl \in {irls[i] : i \in DOMAIN irls}}
                    \cup UNION {RHSOf(irl) : irl \in {irls[i] : i \in DOMAIN irls}},
                  {irl.lhs : irl \in {i \in {irls[i] : i \in DOMAIN irls} : i.virtual_lhs}})
  BY <1>11, <1>12, Zenon
<1> QED
  BY <1>13, Zenon DEF InternalGrammarOK, InternalOK, DerivesAll

\* However a grammar was built, the internal grammar that precomputation leaves is
\* what the recognizer and the valuator assume: rules with a symbol that is not
\* nulled, one start rule at most, pieces that go on in pieces of the same rule,
\* symbols where the external rule has them, and, when every accessible symbol
\* is productive, no symbol that derives nothing.
THEOREM InternalGrammarIsOK == GrammarSpec => []InternalGrammarOK
<1>1. CensusInv => InternalGrammarOK
  BY InternalIsOK
<1> QED
  BY <1>1, CensusAlways, PTL
=============================================================================
