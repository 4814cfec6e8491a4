------------------------ MODULE MarpaGrammar_proofs ------------------------
(***************************************************************************)
(* Lemmas about the AHMs of the precomputed grammar.                       *)
(***************************************************************************)
EXTENDS MarpaGrammar, FiniteSetTheorems, WellFoundedInduction, TLAPS

\* A non-empty set of naturals has a least element, the one Least chooses.
LEMMA LeastExists ==
    ASSUME NEW S, S \subseteq Nat, S # {}
    PROVE  Least(S) \in S /\ \A m \in S : Least(S) <= m
<1> DEFINE R == {ss \in Nat \X Nat : ss[1] < ss[2]}
<1>1. IsWellFoundedOn(R, Nat)
  BY NatLessThanWellFounded DEF OpToRel
<1> HIDE DEF R
<1>2. PICK n \in S : \A m \in S : ~ (<<m, n>> \in R)
  BY <1>1, WFMin
<1>3. ASSUME NEW m \in S
      PROVE  n <= m
  <2>1. m \in Nat /\ n \in Nat
    OBVIOUS
  <2>2. <<m, n>> \notin R
    BY <1>2
  <2>3. <<m, n>> \in R <=> m < n
    BY <2>1 DEF R
  <2> QED
    BY <2>1, <2>2, <2>3
<1> QED
  BY <1>3 DEF Least

\* The dot positions of an IRL are naturals up to its length, the length
\* being one of them: that of its completion.
LEMMA PositionsRange ==
    ASSUME NEW irl \in IRLs
    PROVE  /\ Len(RHS_of_IRL[irl]) \in Nat
           /\ Positions(irl) \subseteq 0 .. Len(RHS_of_IRL[irl])
           /\ Positions(irl) \subseteq Nat
           /\ Len(RHS_of_IRL[irl]) \in Positions(irl)
<1>1. RHS_of_IRL[irl] \in Seq(NSYs)
  BY GrammarAssumption
<1>2. Len(RHS_of_IRL[irl]) \in Nat
  BY <1>1
<1> QED
  BY <1>2 DEF Positions

\* AHMs are exactly the pairs of an IRL and one of its positions.
LEMMA AHMsAre ==
    \A irl \in IRLs : \A d \in Positions(irl) : [irl |-> irl, dot |-> d] \in AHMs
  BY DEF AHMs

\* An AHM is a rule with one of the dot positions of that rule.
LEMMA AHMParts ==
    ASSUME NEW ahm \in AHMs
    PROVE  /\ ahm.irl \in IRLs /\ ahm.dot \in Positions(ahm.irl)
           /\ ahm = [irl |-> ahm.irl, dot |-> ahm.dot]
  BY DEF AHMs

\* First_AHM_of_IRL is an AHM, and never a completion: every IRL has a
\* non-nulling symbol on its right side.
LEMMA FirstAHM ==
    ASSUME NEW irl \in IRLs
    PROVE  /\ First_AHM_of_IRL(irl) \in AHMs
           /\ ~ AHM_is_Completion(First_AHM_of_IRL(irl))
<1>1. Least(Positions(irl)) \in Positions(irl)
      /\ \A m \in Positions(irl) : Least(Positions(irl)) <= m
  BY PositionsRange, LeastExists
<1>2. PICK k \in 1 .. Len(RHS_of_IRL[irl]) : RHS_of_IRL[irl][k] \notin NullingNSYs
  BY GrammarAssumption
<1>3. k - 1 \in Positions(irl)
  BY <1>2, PositionsRange DEF Positions
<1>4. Least(Positions(irl)) <= k - 1 /\ k - 1 < Len(RHS_of_IRL[irl])
  BY <1>1, <1>2, <1>3, PositionsRange
<1>5. Least(Positions(irl)) # Len(RHS_of_IRL[irl])
  BY <1>1, <1>4, <1>2, PositionsRange
<1> QED
  BY <1>1, <1>5, AHMsAre DEF First_AHM_of_IRL, AHM_is_Completion

\* An AHM that is not a completion has a postdot symbol, which is not nulling,
\* and a next AHM, further on in the same IRL.
LEMMA NextAHM ==
    ASSUME NEW ahm \in AHMs, ~ AHM_is_Completion(ahm)
    PROVE  /\ Postdot_NSYID_of_AHM(ahm) \in NSYs \ NullingNSYs
           /\ Next_AHM_of_AHM(ahm) \in AHMs
           /\ Next_AHM_of_AHM(ahm).irl = ahm.irl
           /\ Next_AHM_of_AHM(ahm).dot > ahm.dot
<1> DEFINE L == Len(RHS_of_IRL[ahm.irl])
<1>1. ahm.irl \in IRLs /\ ahm.dot \in Positions(ahm.irl)
  BY AHMParts
<1>2. L \in Nat /\ ahm.dot \in 0 .. L /\ ahm.dot # L /\ L \in Positions(ahm.irl)
  BY <1>1, PositionsRange DEF AHM_is_Completion
<1>3. RHS_of_IRL[ahm.irl] \in Seq(NSYs) /\ ahm.dot + 1 \in 1 .. L
  BY <1>1, <1>2, GrammarAssumption
<1>4. Postdot_NSYID_of_AHM(ahm) \in NSYs \ NullingNSYs
  <2>1. Postdot_NSYID_of_AHM(ahm) = RHS_of_IRL[ahm.irl][ahm.dot + 1]
    BY DEF Postdot_NSYID_of_AHM
  <2>2. RHS_of_IRL[ahm.irl][ahm.dot + 1] \in NSYs
    BY <1>3
  <2>3. RHS_of_IRL[ahm.irl][ahm.dot + 1] \notin NullingNSYs
    BY <1>1, <1>2 DEF Positions
  <2> QED
    BY <2>1, <2>2, <2>3
<1>5. L \in PositionsAfter(ahm.irl, ahm.dot) /\ PositionsAfter(ahm.irl, ahm.dot) \subseteq Nat
  BY <1>1, <1>2, PositionsRange DEF PositionsAfter
<1>6. Least(PositionsAfter(ahm.irl, ahm.dot)) \in PositionsAfter(ahm.irl, ahm.dot)
  BY <1>5, LeastExists
<1>7. /\ Least(PositionsAfter(ahm.irl, ahm.dot)) \in Positions(ahm.irl)
      /\ Least(PositionsAfter(ahm.irl, ahm.dot)) > ahm.dot
  BY <1>6 DEF PositionsAfter
<1> QED
  BY <1>1, <1>4, <1>7, AHMsAre DEF Next_AHM_of_AHM

\* A completion has no postdot symbol, so an AHM with one is not a completion.
LEMMA PostdotMeansNext ==
    ASSUME NEW ahm \in AHMs, Postdot_NSYID_of_AHM(ahm) \in NSYs
    PROVE  ~ AHM_is_Completion(ahm)
  BY GrammarAssumption DEF Postdot_NSYID_of_AHM, NoNSY, NSYs

\* No AHM waits for the left side of the start rule.
LEMMA StartNotPostdot ==
    ASSUME StartIRL \in IRLs, NEW a \in AHMs
    PROVE  Postdot_NSYID_of_AHM(a) # LHSID_of_IRL[StartIRL]
<1> SUFFICES ASSUME Postdot_NSYID_of_AHM(a) = LHSID_of_IRL[StartIRL] PROVE FALSE
  OBVIOUS
<1>1. LHSID_of_IRL[StartIRL] \in NSYs
  BY GrammarAssumption
<1>2. ~ AHM_is_Completion(a)
  BY <1>1, PostdotMeansNext
<1>3. a.irl \in IRLs /\ a.dot \in 0 .. Len(RHS_of_IRL[a.irl]) /\ a.dot # Len(RHS_of_IRL[a.irl])
  BY <1>2, AHMParts, PositionsRange DEF AHM_is_Completion
<1>4. Len(RHS_of_IRL[a.irl]) \in Nat
  BY <1>3, PositionsRange
<1>5. a.dot + 1 \in 1 .. Len(RHS_of_IRL[a.irl])
  BY <1>3, <1>4
<1>6. RHS_of_IRL[a.irl][a.dot + 1] = LHSID_of_IRL[StartIRL]
  BY <1>2 DEF Postdot_NSYID_of_AHM
<1> QED
  BY <1>3, <1>5, <1>6, GrammarAssumption
-----------------------------------------------------------------------------
(* Recursion.  What a recursive function computes is proved by induction on
   its argument, with the set of arguments for which it is so. *)

\* A set that has 0 and, with a number below N, the next one, has all up to N.
LEMMA UpTo ==
    ASSUME NEW N \in Nat, NEW S, 0 \in S,
           \A n \in 0 .. N : n \in S /\ n < N => n + 1 \in S
    PROVE  \A n \in 0 .. N : n \in S
<1> SUFFICES ASSUME NEW n \in 0 .. N, n \notin S
             PROVE  FALSE
  OBVIOUS
<1> DEFINE Missing == {m \in 0 .. N : m \notin S}
<1>1. Missing \subseteq Nat /\ Missing # {}
  OBVIOUS
<1>2. Least(Missing) \in Missing /\ \A m \in Missing : Least(Missing) <= m
  BY <1>1, LeastExists
<1>3. PICK m \in Missing : \A k \in Missing : m <= k
  BY <1>2
<1>4. m # 0 /\ m - 1 \in 0 .. N /\ m - 1 < N
  BY <1>3
<1>5. m - 1 \in S
  BY <1>3, <1>4
<1> QED
  BY <1>3, <1>4, <1>5

\* f has this first value, and each step gives its next one.
Iterates(f, N, base, step) == f[0] = base /\ \A n \in 1 .. N : f[n] = step[n][f[n - 1]]

\* There is such a function.
LEMMA PrimitiveRecursion ==
    ASSUME NEW N \in Nat, NEW X, NEW base \in X, NEW step \in [1 .. N -> [X -> X]]
    PROVE  \E f \in [0 .. N -> X] : Iterates(f, N, base, step)
<1> DEFINE Defines(f, m) == f[0] = base /\ \A n \in 1 .. m : f[n] = step[n][f[n - 1]]
           S == {m \in 0 .. N : \E f \in [0 .. m -> X] : Defines(f, m)}
<1>1. 0 \in S
  <2>1. [n \in 0 .. 0 |-> base] \in [0 .. 0 -> X] /\ Defines([n \in 0 .. 0 |-> base], 0)
    OBVIOUS
  <2>2. 0 \in 0 .. N
    OBVIOUS
  <2> HIDE DEF Defines
  <2> QED
    BY <2>1, <2>2
<1>2. ASSUME NEW m \in 0 .. N, m \in S, m < N
      PROVE  m + 1 \in S
  <2>1. PICK f \in [0 .. m -> X] : Defines(f, m)
    BY <1>2
  <2> DEFINE g == [n \in 0 .. m + 1 |-> IF n = m + 1 THEN step[m + 1][f[m]] ELSE f[n]]
  <2>2. step[m + 1][f[m]] \in X
    <3>1. m + 1 \in 1 .. N /\ m \in 0 .. m
      BY <1>2
    <3> QED
      BY <3>1
  <2>3. g \in [0 .. m + 1 -> X]
    BY <2>2
  <2>4. g[0] = base
    BY <2>1
  <2>5. ASSUME NEW n \in 1 .. m + 1
        PROVE  g[n] = step[n][g[n - 1]]
    <3>1. CASE n = m + 1
      BY <3>1
    <3>2. CASE n # m + 1
      BY <3>2, <2>1
    <3> QED
      BY <3>1, <3>2
  <2> HIDE DEF g
  <2>6. Defines(g, m + 1)
    BY <2>4, <2>5
  <2>7. m + 1 \in 0 .. N
    BY <1>2
  <2> HIDE DEF Defines
  <2> QED
    BY <2>3, <2>6, <2>7
<1> HIDE DEF S
<1>3. \A m \in 0 .. N : m \in S
  BY <1>1, <1>2, UpTo
<1> QED
  BY <1>3 DEF S, Iterates

-----------------------------------------------------------------------------
(* Warshall's algorithm *)

IsTransitive(R) == \A a, b, c \in NSYs : <<a, b>> \in R /\ <<b, c>> \in R => <<a, c>> \in R

\* The rows of the algorithm follow its definition.
LEMMA ClosureRows ==
    ASSUME NEW R, R \subseteq NSYs \X NSYs
    PROVE  \E closed :
              /\ closed[0] = R
              /\ \A n \in 1 .. NSY_Count : closed[n] = JoinedThrough(closed[n - 1], n - 1)
              /\ transitive_closure(R) = closed[NSY_Count]
<1> DEFINE X == SUBSET (NSYs \X NSYs)
           step == [n \in 1 .. NSY_Count |-> [S \in X |-> JoinedThrough(S, n - 1)]]
           closed[n \in 0 .. NSY_Count] ==
             IF n = 0 THEN R ELSE JoinedThrough(closed[n - 1], n - 1)
<1>1. NSY_Count \in Nat
  BY GrammarAssumption
<1>2. step \in [1 .. NSY_Count -> [X -> X]]
  BY DEF JoinedThrough
<1>3. PICK f \in [0 .. NSY_Count -> X] : Iterates(f, NSY_Count, R, step)
  <2>1. R \in X
    OBVIOUS
  <2> HIDE DEF step, X
  <2> QED
    BY <1>1, <1>2, <2>1, PrimitiveRecursion
<1>4. \E g : g = [n \in 0 .. NSY_Count |->
                    IF n = 0 THEN R ELSE JoinedThrough(g[n - 1], n - 1)]
  <2>1. ASSUME NEW n \in 1 .. NSY_Count
        PROVE  f[n] = JoinedThrough(f[n - 1], n - 1)
    <3>1. f[n - 1] \in X
      BY <1>1, <1>3
    <3> QED
      BY <1>3, <3>1 DEF Iterates
  <2> HIDE DEF step, X
  <2>2. f = [n \in 0 .. NSY_Count |-> IF n = 0 THEN R ELSE JoinedThrough(f[n - 1], n - 1)]
    BY <1>1, <1>3, <2>1 DEF Iterates
  <2> QED
    BY <2>2, Zenon
<1>5. closed = [n \in 0 .. NSY_Count |->
                  IF n = 0 THEN R ELSE JoinedThrough(closed[n - 1], n - 1)]
  BY <1>4, Zenon
<1>6. transitive_closure(R) = closed[NSY_Count]
  BY Zenon DEF transitive_closure
<1> HIDE DEF closed, step, X
<1>7. closed[0] = R
  BY <1>1, <1>5
<1>8. \A n \in 1 .. NSY_Count : closed[n] = JoinedThrough(closed[n - 1], n - 1)
  BY <1>1, <1>5
<1> QED
  BY <1>6, <1>7, <1>8

\* Warshall's algorithm computes the least transitive relation that contains
\* the one it is given.
THEOREM ClosureIsLeast ==
    ASSUME NEW R, R \subseteq NSYs \X NSYs
    PROVE  /\ R \subseteq transitive_closure(R)
           /\ transitive_closure(R) \subseteq NSYs \X NSYs
           /\ IsTransitive(transitive_closure(R))
           /\ \A T : R \subseteq T /\ IsTransitive(T) => transitive_closure(R) \subseteq T
<1>1. PICK closed :
           /\ closed[0] = R
           /\ \A n \in 1 .. NSY_Count : closed[n] = JoinedThrough(closed[n - 1], n - 1)
           /\ transitive_closure(R) = closed[NSY_Count]
  BY ClosureRows
<1>2. NSY_Count \in Nat
  BY GrammarAssumption
<1>3. \A n \in 0 .. NSY_Count : n < NSY_Count =>
         closed[n + 1] = {e \in NSYs \X NSYs :
            e \in closed[n] \/ (<<e[1], n>> \in closed[n] /\ <<n, e[2]>> \in closed[n])}
  <2> SUFFICES ASSUME NEW n \in 0 .. NSY_Count, n < NSY_Count
               PROVE  closed[n + 1] = JoinedThrough(closed[n], n)
    BY DEF JoinedThrough
  <2>1. n + 1 \in 1 .. NSY_Count /\ (n + 1) - 1 = n
    BY <1>2
  <2> QED
    BY <1>1, <2>1
\* Row n has the pairs joined through symbols below n.
<1> DEFINE Row(n) ==
             /\ R \subseteq closed[n] /\ closed[n] \subseteq NSYs \X NSYs
             /\ \A a, c \in NSYs, k \in 0 .. n - 1 :
                   <<a, k>> \in closed[n] /\ <<k, c>> \in closed[n] => <<a, c>> \in closed[n]
           Rows == {n \in 0 .. NSY_Count : Row(n)}
<1>4. \A n \in 0 .. NSY_Count : n \in Rows
  <2>1. 0 \in Rows
    BY <1>1, <1>2
  <2>2. ASSUME NEW n \in 0 .. NSY_Count, n \in Rows, n < NSY_Count
        PROVE  n + 1 \in Rows
    <3> DEFINE C == closed[n]
               D == closed[n + 1]
    <3>1. D = {e \in NSYs \X NSYs : e \in C \/ (<<e[1], n>> \in C /\ <<n, e[2]>> \in C)}
      BY <1>3, <2>2
    <3>2. /\ R \subseteq C /\ C \subseteq NSYs \X NSYs
          /\ \A a, c \in NSYs, k \in 0 .. n - 1 :
                <<a, k>> \in C /\ <<k, c>> \in C => <<a, c>> \in C
      BY <2>2
    <3>3. n \in NSYs /\ n + 1 \in 0 .. NSY_Count
      BY <1>2, <2>2 DEF NSYs
    <3> HIDE DEF C, D
    <3>4. R \subseteq D /\ D \subseteq NSYs \X NSYs
      BY <3>1, <3>2
    <3>5. \A a, c \in NSYs : <<a, c>> \in D <=>
             <<a, c>> \in C \/ (<<a, n>> \in C /\ <<n, c>> \in C)
      BY <3>1
    <3>6. ASSUME NEW a \in NSYs, NEW c \in NSYs, NEW k \in 0 .. n,
                 <<a, k>> \in D, <<k, c>> \in D
          PROVE  <<a, c>> \in D
      <4>0. k \in NSYs
        BY <1>2, <3>3 DEF NSYs
      <4>1. CASE k = n
        BY <3>3, <3>5, <3>6, <4>1
      <4>2. CASE k # n
        <5>1. k \in 0 .. n - 1
          BY <4>2
        <5>2. <<a, k>> \in C \/ (<<a, n>> \in C /\ <<n, k>> \in C)
          BY <3>5, <3>6, <4>0
        <5>3. <<k, c>> \in C \/ (<<k, n>> \in C /\ <<n, c>> \in C)
          BY <3>5, <3>6, <4>0
        <5>4. \/ <<a, c>> \in C
              \/ <<a, n>> \in C /\ <<n, c>> \in C
          BY <3>2, <3>3, <5>1, <5>2, <5>3
        <5> QED
          BY <3>5, <5>4
      <4> QED
        BY <4>1, <4>2
    <3>7. Row(n + 1)
      <4>1. (n + 1) - 1 = n
        OBVIOUS
      <4> QED
        BY <3>4, <3>6, <4>1 DEF D
    <3> HIDE DEF Row
    <3> QED
      BY <3>3, <3>7
  <2> HIDE DEF Rows
  <2> QED
    BY <1>2, <2>1, <2>2, UpTo
<1>5. /\ R \subseteq transitive_closure(R)
      /\ transitive_closure(R) \subseteq NSYs \X NSYs
      /\ IsTransitive(transitive_closure(R))
  <2>1. Row(NSY_Count)
    BY <1>2, <1>4
  <2> QED
    BY <1>1, <1>2, <2>1 DEF IsTransitive, NSYs
<1>6. ASSUME NEW T, R \subseteq T, IsTransitive(T)
      PROVE  transitive_closure(R) \subseteq T
  <2> DEFINE Within == {n \in 0 .. NSY_Count : closed[n] \subseteq T}
  <2>1. 0 \in Within
    BY <1>1, <1>2, <1>6
  <2>2. ASSUME NEW n \in 0 .. NSY_Count, n \in Within, n < NSY_Count
        PROVE  n + 1 \in Within
    <3>1. n \in NSYs /\ n + 1 \in 0 .. NSY_Count
      BY <1>2, <2>2 DEF NSYs
    <3>2. ASSUME NEW e \in closed[n + 1]
          PROVE  e \in T
      <4>1. /\ e \in NSYs \X NSYs
            /\ e \in closed[n] \/ (<<e[1], n>> \in closed[n] /\ <<n, e[2]>> \in closed[n])
        BY <1>3, <2>2, <3>2
      <4>2. e = <<e[1], e[2]>> /\ e[1] \in NSYs /\ e[2] \in NSYs
        BY <4>1
      <4>3. closed[n] \subseteq T
        BY <2>2
      <4>4. CASE <<e[1], n>> \in closed[n] /\ <<n, e[2]>> \in closed[n]
        <5>1. <<e[1], n>> \in T /\ <<n, e[2]>> \in T
          BY <4>3, <4>4
        <5>2. <<e[1], e[2]>> \in T
          BY <1>6, <3>1, <4>2, <5>1 DEF IsTransitive
        <5> QED
          BY <4>2, <5>2
      <4> QED
        BY <4>1, <4>3, <4>4
    <3> QED
      BY <3>1, <3>2
  <2> HIDE DEF Within
  <2>3. NSY_Count \in Within
    BY <1>2, <2>1, <2>2, UpTo
  <2> QED
    BY <1>1, <2>3 DEF Within
<1> QED
  BY <1>5, <1>6

-----------------------------------------------------------------------------
(* What the prediction matrix relates *)

\* A prediction is direct, or there is a predicted rule that begins with the
\* LHS predicted: its prediction comes first.
LEMMA PredictionStep ==
    ASSUME NEW a \in NSYs, NEW c \in NSYs, <<a, c>> \in PredictionMatrix
    PROVE  \/ a = c
           \/ \E i \in IRLs : /\ <<a, LHSID_of_IRL[i]>> \in PredictionMatrix
                              /\ c = Postdot_NSYID_of_AHM(First_AHM_of_IRL(i))
<1> DEFINE lhs(i) == LHSID_of_IRL[i]
           first(i) == Postdot_NSYID_of_AHM(First_AHM_of_IRL(i))
           R == {<<lhs(i), lhs(i)>> : i \in IRLs} \cup {<<lhs(i), first(i)>> : i \in IRLs}
           T == {e \in PredictionMatrix :
                   \/ e[1] = e[2]
                   \/ \E i \in IRLs : <<e[1], lhs(i)>> \in PredictionMatrix /\ e[2] = first(i)}
<1>1. \A i \in IRLs : lhs(i) \in NSYs /\ first(i) \in NSYs
  BY FirstAHM, NextAHM, GrammarAssumption
<1>2. R \subseteq NSYs \X NSYs
  BY <1>1
<1>3. PredictionMatrix = transitive_closure(R)
  BY DEF PredictionMatrix
<1>4. /\ R \subseteq PredictionMatrix /\ IsTransitive(PredictionMatrix)
      /\ PredictionMatrix \subseteq NSYs \X NSYs
      /\ \A U : R \subseteq U /\ IsTransitive(U) => PredictionMatrix \subseteq U
  <2> HIDE DEF R
  <2> QED
    BY <1>2, <1>3, ClosureIsLeast
<1>5. R \subseteq T
  <2>1. \A i \in IRLs : <<lhs(i), lhs(i)>> \in PredictionMatrix
    BY <1>4
  <2> QED
    BY <1>4, <2>1
<1>6. IsTransitive(T)
  <2> SUFFICES ASSUME NEW x \in NSYs, NEW y \in NSYs, NEW z \in NSYs,
                      <<x, y>> \in T, <<y, z>> \in T
               PROVE  <<x, z>> \in T
    BY DEF IsTransitive
  <2>1. <<x, z>> \in PredictionMatrix
    BY <1>4 DEF IsTransitive
  <2>2. CASE y = z
    BY <2>2
  <2>3. CASE \E i \in IRLs : <<y, lhs(i)>> \in PredictionMatrix /\ z = first(i)
    <3>1. PICK i \in IRLs : <<y, lhs(i)>> \in PredictionMatrix /\ z = first(i)
      BY <2>3
    <3>2. <<x, lhs(i)>> \in PredictionMatrix
      BY <1>1, <1>4, <3>1 DEF IsTransitive
    <3> QED
      BY <2>1, <3>1, <3>2
  <2> QED
    BY <2>2, <2>3
<1>7. <<a, c>> \in T
  <2> HIDE DEF R, T
  <2> QED
    BY <1>4, <1>5, <1>6
<1> QED
  BY <1>7

\* The matrix relates the LHS of every rule to itself.
LEMMA PredictionReflexive ==
    ASSUME NEW i \in IRLs
    PROVE  <<LHSID_of_IRL[i], LHSID_of_IRL[i]>> \in PredictionMatrix
<1> DEFINE R == {<<LHSID_of_IRL[j], LHSID_of_IRL[j]>> : j \in IRLs}
                \cup {<<LHSID_of_IRL[j], Postdot_NSYID_of_AHM(First_AHM_of_IRL(j))>> : j \in IRLs}
<1>1. \A j \in IRLs : /\ LHSID_of_IRL[j] \in NSYs
                      /\ Postdot_NSYID_of_AHM(First_AHM_of_IRL(j)) \in NSYs
  BY FirstAHM, NextAHM, GrammarAssumption
<1>2. R \subseteq NSYs \X NSYs
  BY <1>1
<1>3. R \subseteq PredictionMatrix
  <2>1. PredictionMatrix = transitive_closure(R)
    BY DEF PredictionMatrix
  <2> HIDE DEF R
  <2> QED
    BY <1>2, <2>1, ClosureIsLeast
<1> QED
  BY <1>3

\* Predictions are closed: what begins with a predicted LHS is predicted.
LEMMA PredictionClosed ==
    ASSUME NEW a \in NSYs, NEW i \in IRLs, <<a, LHSID_of_IRL[i]>> \in PredictionMatrix
    PROVE  <<a, Postdot_NSYID_of_AHM(First_AHM_of_IRL(i))>> \in PredictionMatrix
<1> DEFINE R == {<<LHSID_of_IRL[j], LHSID_of_IRL[j]>> : j \in IRLs}
                \cup {<<LHSID_of_IRL[j], Postdot_NSYID_of_AHM(First_AHM_of_IRL(j))>> : j \in IRLs}
           lhs == LHSID_of_IRL[i]
           first == Postdot_NSYID_of_AHM(First_AHM_of_IRL(i))
<1>1. \A j \in IRLs : /\ LHSID_of_IRL[j] \in NSYs
                      /\ Postdot_NSYID_of_AHM(First_AHM_of_IRL(j)) \in NSYs
  BY FirstAHM, NextAHM, GrammarAssumption
<1>2. R \subseteq NSYs \X NSYs /\ <<lhs, first>> \in R
  BY <1>1
<1>3. R \subseteq PredictionMatrix /\ IsTransitive(PredictionMatrix)
  <2>1. PredictionMatrix = transitive_closure(R)
    BY DEF PredictionMatrix
  <2> HIDE DEF R
  <2> QED
    BY <1>2, <2>1, ClosureIsLeast
<1>4. <<a, lhs>> \in PredictionMatrix /\ <<lhs, first>> \in PredictionMatrix
  BY <1>2, <1>3
<1> QED
  BY <1>1, <1>3, <1>4 DEF IsTransitive

-----------------------------------------------------------------------------
(* Dot positions *)

\* A bounded non-empty set of naturals has a greatest element.
LEMMA GreatestExists ==
    ASSUME NEW S, S \subseteq Nat, S # {}, NEW N \in Nat, \A m \in S : m <= N
    PROVE  \E g \in S : \A m \in S : m <= g
<1> DEFINE T == {n \in Nat : N - n \in S}
<1>1. ASSUME NEW m \in S
      PROVE  N - m \in T
  BY <1>1
<1>2. T \subseteq Nat /\ T # {}
  BY <1>1
<1> HIDE DEF T
<1>3. Least(T) \in T /\ \A n \in T : Least(T) <= n
  BY <1>2, LeastExists
<1>4. Least(T) \in Nat /\ N - Least(T) \in S
  BY <1>3 DEF T
<1>5. ASSUME NEW m \in S
      PROVE  m <= N - Least(T)
  BY <1>1, <1>3, <1>4, <1>5
<1> QED
  BY <1>4, <1>5

\* The dot of a rule's first AHM stands behind nulling symbols only.
LEMMA NulledToFirst ==
    ASSUME NEW irl \in IRLs, NEW k \in 1 .. First_AHM_of_IRL(irl).dot
    PROVE  RHS_of_IRL[irl][k] \in NullingNSYs
<1>1. /\ Least(Positions(irl)) \in Positions(irl)
      /\ \A m \in Positions(irl) : Least(Positions(irl)) <= m
  BY PositionsRange, LeastExists
<1>2. First_AHM_of_IRL(irl).dot = Least(Positions(irl))
  BY DEF First_AHM_of_IRL
<1>3. Least(Positions(irl)) \in Nat /\ Least(Positions(irl)) <= Len(RHS_of_IRL[irl])
  BY <1>1, PositionsRange
<1>4. k \in Nat /\ k - 1 \in Nat /\ k - 1 < Least(Positions(irl))
  BY <1>2, <1>3
<1>5. k - 1 \notin Positions(irl)
  BY <1>1, <1>3, <1>4
<1>6. k - 1 < Len(RHS_of_IRL[irl]) /\ Len(RHS_of_IRL[irl]) \in Nat /\ (k - 1) + 1 = k
  BY <1>3, <1>4, PositionsRange
<1> QED
  BY <1>4, <1>5, <1>6 DEF Positions

\* The dot of the next AHM has passed one symbol, and nulling symbols after it.
LEMMA NulledToNext ==
    ASSUME NEW ahm \in AHMs, ~ AHM_is_Completion(ahm),
           NEW k \in ahm.dot + 2 .. Next_AHM_of_AHM(ahm).dot
    PROVE  RHS_of_IRL[ahm.irl][k] \in NullingNSYs
<1> DEFINE L == Len(RHS_of_IRL[ahm.irl])
           after == PositionsAfter(ahm.irl, ahm.dot)
<1>1. ahm.irl \in IRLs /\ ahm.dot \in Positions(ahm.irl)
  BY AHMParts
<1>2. L \in Nat /\ ahm.dot \in 0 .. L /\ ahm.dot # L /\ L \in Positions(ahm.irl)
  BY <1>1, PositionsRange DEF AHM_is_Completion
<1>3. L \in after /\ after \subseteq Nat
  BY <1>1, <1>2, PositionsRange DEF PositionsAfter
<1>4. Least(after) \in after /\ \A m \in after : Least(after) <= m
  BY <1>3, LeastExists
<1>5. Next_AHM_of_AHM(ahm).dot = Least(after) /\ Least(after) <= L /\ Least(after) \in Nat
  BY <1>3, <1>4 DEF Next_AHM_of_AHM
<1>6. k \in Nat /\ k - 1 \in 0 .. L /\ k - 1 > ahm.dot /\ k - 1 < Least(after) /\ (k - 1) + 1 = k
  BY <1>2, <1>5
<1>7. k - 1 \notin after
  BY <1>4, <1>5, <1>6
<1>8. k - 1 \notin Positions(ahm.irl) /\ k - 1 < L
  BY <1>5, <1>6, <1>7 DEF PositionsAfter
<1> QED
  BY <1>6, <1>8 DEF Positions

\* Every AHM of a rule but its first is the next one of another.
LEMMA PositionReached ==
    ASSUME NEW ahm \in AHMs, ahm # First_AHM_of_IRL(ahm.irl)
    PROVE  \E prev \in AHMs :
              /\ prev.irl = ahm.irl /\ prev.dot < ahm.dot
              /\ ~ AHM_is_Completion(prev) /\ Next_AHM_of_AHM(prev) = ahm
<1> DEFINE irl == ahm.irl
           L == Len(RHS_of_IRL[irl])
           before == {p \in Positions(irl) : p < ahm.dot}
<1>1. irl \in IRLs /\ ahm.dot \in Positions(irl) /\ ahm = [irl |-> irl, dot |-> ahm.dot]
  BY AHMParts
<1>2. L \in Nat /\ Positions(irl) \subseteq 0 .. L /\ Positions(irl) \subseteq Nat
  BY <1>1, PositionsRange
<1>3. /\ Least(Positions(irl)) \in Positions(irl)
      /\ \A m \in Positions(irl) : Least(Positions(irl)) <= m
  BY <1>1, <1>2, LeastExists
<1>4. Least(Positions(irl)) \in before
  <2>1. Least(Positions(irl)) # ahm.dot
    BY <1>1 DEF First_AHM_of_IRL
  <2> QED
    BY <1>1, <1>2, <1>3, <2>1
<1>5. PICK g \in before : \A m \in before : m <= g
  <2>1. before \subseteq Nat /\ \A m \in before : m <= L
    BY <1>2
  <2> HIDE DEF before
  <2> QED
    BY <1>2, <1>4, <2>1, GreatestExists
<1> DEFINE prev == [irl |-> irl, dot |-> g]
           after == PositionsAfter(irl, g)
<1>6. prev \in AHMs /\ g \in Positions(irl) /\ g < ahm.dot
  BY <1>1, AHMsAre
<1>7. ~ AHM_is_Completion(prev)
  BY <1>1, <1>2, <1>6 DEF AHM_is_Completion
<1>8. ahm.dot \in after /\ after \subseteq Nat
  BY <1>1, <1>2, <1>6 DEF PositionsAfter
<1>9. Least(after) \in after /\ \A m \in after : Least(after) <= m
  BY <1>8, LeastExists
<1>10. Least(after) \in Positions(irl) /\ Least(after) > g /\ Least(after) <= ahm.dot
  BY <1>8, <1>9 DEF PositionsAfter
<1>11. Least(after) = ahm.dot
  BY <1>1, <1>2, <1>5, <1>6, <1>10
<1>12. Next_AHM_of_AHM(prev) = ahm
  BY <1>1, <1>11 DEF Next_AHM_of_AHM
<1> QED
  BY <1>6, <1>7, <1>12

-----------------------------------------------------------------------------
(* Worklists *)

IsMonotone(U, grow) == \A S, T \in SUBSET U : S \subseteq T => grow[S] \subseteq grow[T]

\* A subset of U that no member of it makes grow.
IsClosed(U, grow, C) == C \in SUBSET U /\ grow[C] \subseteq C

\* f follows a worklist, from what it has, to its end.
FollowsWorklist(f, U, grow) ==
    f = [S \in SUBSET U |-> IF S \cup grow[S] = S THEN S ELSE f[S \cup grow[S]]]

\* There is such a function.
LEMMA WorklistFunction ==
    ASSUME NEW U, NEW grow \in [SUBSET U -> SUBSET U], IsMonotone(U, grow)
    PROVE  \E f : FollowsWorklist(f, U, grow)
<1> DEFINE least[S \in SUBSET U] ==
             {u \in U : \A C : IsClosed(U, grow, C) /\ S \subseteq C => u \in C}
<1>1. ASSUME NEW S \in SUBSET U
      PROVE  least[S] = IF S \cup grow[S] = S THEN S ELSE least[S \cup grow[S]]
  <2> DEFINE more == S \cup grow[S]
  <2>1. more \in SUBSET U
    OBVIOUS
  <2>2. CASE more = S
    <3>1. IsClosed(U, grow, S)
      BY <2>2 DEF IsClosed
    <3> QED
      BY <2>2, <3>1
  <2>3. CASE more # S
    <3>1. ASSUME NEW C, IsClosed(U, grow, C)
          PROVE  S \subseteq C <=> more \subseteq C
      BY <3>1 DEF IsClosed, IsMonotone
    <3> HIDE DEF more
    <3>2. least[S] = least[more]
      BY <2>1, <3>1
    <3> QED
      BY <2>3, <3>2 DEF more
  <2> QED
    BY <2>2, <2>3
<1>2. least = [S \in SUBSET U |-> IF S \cup grow[S] = S THEN S ELSE least[S \cup grow[S]]]
  <2>1. least = [S \in SUBSET U |-> least[S]]
    OBVIOUS
  <2> HIDE DEF least
  <2> QED
    BY <1>1, <2>1
<1> HIDE DEF least
<1> QED
  BY <1>2 DEF FollowsWorklist

\* A worklist over a finite set finds the least closed set that has what it
\* was started with.
LEMMA FixpointIsLeast ==
    ASSUME NEW U, IsFiniteSet(U), NEW grow \in [SUBSET U -> SUBSET U], IsMonotone(U, grow),
           NEW From \in SUBSET U
    PROVE  /\ From \subseteq Fixpoint(U, grow, From)
           /\ IsClosed(U, grow, Fixpoint(U, grow, From))
           /\ \A C : IsClosed(U, grow, C) /\ From \subseteq C => Fixpoint(U, grow, From) \subseteq C
<1> DEFINE fix[S \in SUBSET U] == IF S \cup grow[S] = S THEN S ELSE fix[S \cup grow[S]]
<1>1. fix = [S \in SUBSET U |-> IF S \cup grow[S] = S THEN S ELSE fix[S \cup grow[S]]]
  <2>1. \E f : FollowsWorklist(f, U, grow)
    BY WorklistFunction
  <2> QED
    BY <2>1, Zenon DEF FollowsWorklist
<1>2. Fixpoint(U, grow, From) = fix[From]
  BY Zenon DEF Fixpoint
<1> HIDE DEF fix
<1> DEFINE Ends(S) ==
             /\ S \subseteq fix[S] /\ IsClosed(U, grow, fix[S])
             /\ \A C : IsClosed(U, grow, C) /\ S \subseteq C => fix[S] \subseteq C
           Left(S) == Cardinality(U \ S)
           Bad == {S \in SUBSET U : ~ Ends(S)}
           Sizes == {n \in Nat : \E S \in Bad : n = Left(S)}
<1>3. \A S \in SUBSET U : Left(S) \in Nat
  BY FS_Subset, FS_CardinalityType
<1>4. ASSUME NEW S \in Bad
      PROVE  \E T \in Bad : Left(T) < Left(S)
  <2> DEFINE more == S \cup grow[S]
  <2>1. more \in SUBSET U
    OBVIOUS
  <2>2. fix[S] = IF more = S THEN S ELSE fix[more]
    BY <1>1
  <2>3. more # S
    <3>1. CASE more = S
      <4>1. fix[S] = S /\ IsClosed(U, grow, S)
        BY <2>2, <3>1 DEF IsClosed
      <4> QED
        BY <4>1
    <3> QED
      BY <3>1
  <2>4. ASSUME Ends(more) PROVE Ends(S)
    <3>1. fix[S] = fix[more]
      BY <2>2, <2>3
    <3>2. S \subseteq more
      OBVIOUS
    <3>3. ASSUME NEW C, IsClosed(U, grow, C), S \subseteq C
          PROVE  more \subseteq C
      BY <3>3 DEF IsClosed, IsMonotone
    <3> HIDE DEF more
    <3> QED
      BY <2>4, <3>1, <3>2, <3>3
  <2>5. more \in Bad
    <3> HIDE DEF Ends, more
    <3> QED
      BY <2>1, <2>4
  <2>6. Left(more) < Left(S)
    <3>1. U \ more \in SUBSET (U \ S) /\ U \ more # U \ S
      BY <2>1, <2>3
    <3>2. IsFiniteSet(U \ S)
      BY FS_Subset
    <3>3. Left(more) <= Left(S) /\ Left(more) # Left(S)
      <4> HIDE DEF more
      <4> QED
        BY <3>1, <3>2, FS_Subset
    <3>4. Left(more) \in Nat /\ Left(S) \in Nat
      <4> HIDE DEF Left, more
      <4> QED
        BY <1>3, <2>1
    <3> HIDE DEF Left, more
    <3> QED
      BY <3>3, <3>4
  <2> QED
    BY <2>5, <2>6
<1>5. Bad = {}
  <2> SUFFICES ASSUME Bad # {} PROVE FALSE
    OBVIOUS
  <2> HIDE DEF Left
  <2>1. Sizes # {} /\ Sizes \subseteq Nat
    BY <1>3
  <2>2. Least(Sizes) \in Sizes /\ \A m \in Sizes : Least(Sizes) <= m
    BY <2>1, LeastExists
  <2>3. PICK S \in Bad : Least(Sizes) = Left(S)
    BY <2>2
  <2> HIDE DEF Bad
  <2>4. PICK T \in Bad : Left(T) < Left(S)
    BY <1>4
  <2>5. Left(T) \in Sizes /\ Left(T) \in Nat /\ Left(S) \in Nat
    BY <1>3 DEF Bad
  <2> QED
    BY <2>2, <2>3, <2>4, <2>5
<1>6. Ends(From)
  BY <1>5
<1> QED
  BY <1>2, <1>6

\* What holds of a symbol, and passes from the left side of a rule to the
\* symbol that the rule begins with, holds of every symbol predicted from it.
LEMMA PredictionReaches ==
    ASSUME NEW a \in NSYs, NEW c \in NSYs, <<a, c>> \in PredictionMatrix,
           NEW Reached, a \in Reached,
           \A i \in IRLs : LHSID_of_IRL[i] \in Reached =>
              Postdot_NSYID_of_AHM(First_AHM_of_IRL(i)) \in Reached
    PROVE  c \in Reached
<1> DEFINE R == {<<LHSID_of_IRL[j], LHSID_of_IRL[j]>> : j \in IRLs}
                \cup {<<LHSID_of_IRL[j], Postdot_NSYID_of_AHM(First_AHM_of_IRL(j))>> : j \in IRLs}
           T == {e \in NSYs \X NSYs : e[1] \in Reached => e[2] \in Reached}
<1>1. \A j \in IRLs : /\ LHSID_of_IRL[j] \in NSYs
                      /\ Postdot_NSYID_of_AHM(First_AHM_of_IRL(j)) \in NSYs
  BY FirstAHM, NextAHM, GrammarAssumption
<1>2. R \subseteq NSYs \X NSYs /\ R \subseteq T
  BY <1>1
<1>3. IsTransitive(T)
  BY DEF IsTransitive
<1>4. PredictionMatrix \subseteq T
  <2>1. PredictionMatrix = transitive_closure(R)
    BY DEF PredictionMatrix
  <2> HIDE DEF R, T
  <2> QED
    BY <1>2, <1>3, <2>1, ClosureIsLeast
<1> QED
  BY <1>4

\* The matrix of predictions is one of symbols.
LEMMA PredictionMatrixType ==
    PredictionMatrix \subseteq NSYs \X NSYs
<1> DEFINE R == {<<LHSID_of_IRL[j], LHSID_of_IRL[j]>> : j \in IRLs}
                \cup {<<LHSID_of_IRL[j], Postdot_NSYID_of_AHM(First_AHM_of_IRL(j))>> : j \in IRLs}
<1>1. \A j \in IRLs : /\ LHSID_of_IRL[j] \in NSYs
                      /\ Postdot_NSYID_of_AHM(First_AHM_of_IRL(j)) \in NSYs
  BY FirstAHM, NextAHM, GrammarAssumption
<1>2. R \subseteq NSYs \X NSYs
  BY <1>1
<1>3. PredictionMatrix = transitive_closure(R)
  BY DEF PredictionMatrix
<1> HIDE DEF R
<1> QED
  BY <1>2, <1>3, ClosureIsLeast

-----------------------------------------------------------------------------
(* Right recursion, which Leo items are for. *)

\* What an item waits for just before it completes is the last proper symbol
\* of its rule.
LEMMA PostdotIsLast ==
    ASSUME NEW a \in AHMs, ~ AHM_is_Completion(a), AHM_is_Completion(Next_AHM_of_AHM(a))
    PROVE  Postdot_NSYID_of_AHM(a) = LastProperSymbol(a.irl)
<1> DEFINE rhs == RHS_of_IRL[a.irl]
           L == Len(RHS_of_IRL[a.irl])
           proper == {k \in 1 .. L : rhs[k] \notin NullingNSYs}
           last == CHOOSE k \in proper : \A j \in proper : j <= k
<1>1. /\ a.irl \in IRLs /\ a.dot \in 0 .. L /\ a.dot # L /\ L \in Nat
  BY AHMParts, PositionsRange DEF AHM_is_Completion
<1>2. Next_AHM_of_AHM(a).irl = a.irl /\ Next_AHM_of_AHM(a).dot = L
  BY NextAHM DEF AHM_is_Completion
<1>3. a.dot + 1 \in proper
  <2>1. a.dot + 1 \in 1 .. L
    BY <1>1
  <2>2. rhs[a.dot + 1] \notin NullingNSYs
    BY NextAHM DEF Postdot_NSYID_of_AHM
  <2> QED
    BY <2>1, <2>2
<1>4. \A j \in proper : j <= a.dot + 1
  <2> SUFFICES ASSUME NEW j \in 1 .. L, j > a.dot + 1
               PROVE  rhs[j] \in NullingNSYs
    BY <1>1
  <2>1. j \in a.dot + 2 .. Next_AHM_of_AHM(a).dot
    BY <1>1, <1>2
  <2> QED
    BY <2>1, NulledToNext
<1>5. last = a.dot + 1
  <2>1. last \in proper /\ \A j \in proper : j <= last
    <3> HIDE DEF proper
    <3> QED
      BY <1>3, <1>4
  <2>2. last \in Nat /\ a.dot + 1 \in Nat
    BY <1>1, <2>1
  <2> HIDE DEF proper, last
  <2>3. last <= a.dot + 1 /\ a.dot + 1 <= last
    BY <1>3, <1>4, <2>1
  <2> QED
    BY <2>2, <2>3
<1>6. LastProperSymbol(a.irl) = rhs[last]
  BY DEF LastProperSymbol
<1> HIDE DEF last
<1> QED
  BY <1>5, <1>6 DEF Postdot_NSYID_of_AHM

LEMMA LastProperType ==
    ASSUME NEW i \in IRLs
    PROVE  LastProperSymbol(i) \in NSYs
<1> DEFINE L == Len(RHS_of_IRL[i])
           proper == {k \in 1 .. L : RHS_of_IRL[i][k] \notin NullingNSYs}
<1>1. RHS_of_IRL[i] \in Seq(NSYs) /\ L \in Nat /\ proper # {} /\ proper \subseteq Nat
  BY GrammarAssumption, PositionsRange
<1>2. \A k \in proper : k <= L
  BY <1>1
<1>3. \E g \in proper : \A m \in proper : m <= g
  <2> HIDE DEF proper
  <2> QED
    BY <1>1, <1>2, GreatestExists
<1>4. (CHOOSE k \in proper : \A j \in proper : j <= k) \in proper
  <2> HIDE DEF proper
  <2> QED
    BY <1>3
<1> DEFINE last == CHOOSE k \in proper : \A j \in proper : j <= k
<1>5. LastProperSymbol(i) = RHS_of_IRL[i][last]
  BY DEF LastProperSymbol
<1>6. last \in 1 .. L
  BY <1>4
<1> HIDE DEF last
<1> QED
  BY <1>1, <1>5, <1>6

\* The right derivations of some rules are the least transitive relation that
\* takes the left side of each to its last proper symbol.
LEMMA RightDerivationsAre ==
    ASSUME NEW irls \in SUBSET IRLs
    PROVE  /\ \A i \in irls : <<LHSID_of_IRL[i], LastProperSymbol(i)>> \in RightDerivations(irls)
           /\ IsTransitive(RightDerivations(irls))
           /\ \A T : /\ \A i \in irls : <<LHSID_of_IRL[i], LastProperSymbol(i)>> \in T
                     /\ IsTransitive(T)
                     => RightDerivations(irls) \subseteq T
<1> DEFINE R == {<<LHSID_of_IRL[i], LastProperSymbol(i)>> : i \in irls}
<1>1. R \subseteq NSYs \X NSYs
  BY LastProperType, GrammarAssumption
<1>2. RightDerivations(irls) = transitive_closure(R)
  BY DEF RightDerivations
<1>3. \A T : R \subseteq T <=> \A i \in irls : <<LHSID_of_IRL[i], LastProperSymbol(i)>> \in T
  OBVIOUS
<1> HIDE DEF R
<1> QED
  BY <1>1, <1>2, <1>3, ClosureIsLeast

\* Symbols that derive each other on the right do so through right recursive
\* rules only.
LEMMA RecursionIsLeo ==
    ASSUME NEW a, NEW b,
           <<a, b>> \in RightDerivations(IRLs), <<b, a>> \in RightDerivations(IRLs)
    PROVE  <<a, b>> \in RightDerivations(LeoIRLs)
<1> DEFINE R == RightDerivations(IRLs)
           Leo == RightDerivations(LeoIRLs)
           T == {e \in R : <<e[2], e[1]>> \in R => e \in Leo}
<1>1. LeoIRLs \in SUBSET IRLs
  BY DEF LeoIRLs
<1>2. /\ \A i \in IRLs : <<LHSID_of_IRL[i], LastProperSymbol(i)>> \in R
      /\ IsTransitive(R)
      /\ \A S : /\ \A i \in IRLs : <<LHSID_of_IRL[i], LastProperSymbol(i)>> \in S
                /\ IsTransitive(S)
                => R \subseteq S
  <2>1. IRLs \in SUBSET IRLs
    OBVIOUS
  <2> QED
    BY <2>1, RightDerivationsAre
<1>3. /\ \A i \in LeoIRLs : <<LHSID_of_IRL[i], LastProperSymbol(i)>> \in Leo
      /\ IsTransitive(Leo)
  BY <1>1, RightDerivationsAre
<1>4. \A i \in IRLs : <<LastProperSymbol(i), LHSID_of_IRL[i]>> \in R => i \in LeoIRLs
  BY DEF LeoIRLs
<1> HIDE DEF R, Leo
<1>5. \A i \in IRLs : <<LHSID_of_IRL[i], LastProperSymbol(i)>> \in T
  BY <1>2, <1>3, <1>4
<1>6. IsTransitive(T)
  BY <1>2, <1>3 DEF IsTransitive
<1> HIDE DEF T
<1>7. R \subseteq T
  BY <1>2, <1>5, <1>6
<1> USE DEF T
<1>8. <<a, b>> \in T
  BY <1>7 DEF R
<1> QED
  BY <1>8 DEF R, Leo

\* A right recursive rule's left side derives itself.
LEMMA LeoIsRecursive ==
    ASSUME NEW i \in LeoIRLs
    PROVE  /\ i \in IRLs
           /\ <<LHSID_of_IRL[i], LHSID_of_IRL[i]>> \in RightDerivations(LeoIRLs)
           /\ <<LHSID_of_IRL[i], LastProperSymbol(i)>> \in RightDerivations(LeoIRLs)
<1>1. /\ LeoIRLs \in SUBSET IRLs /\ i \in IRLs /\ IRLs \in SUBSET IRLs
      /\ <<LastProperSymbol(i), LHSID_of_IRL[i]>> \in RightDerivations(IRLs)
  BY DEF LeoIRLs
<1>2. <<LHSID_of_IRL[i], LastProperSymbol(i)>> \in RightDerivations(IRLs)
  BY <1>1, RightDerivationsAre
<1>3. IsTransitive(RightDerivations(IRLs))
  BY <1>1, RightDerivationsAre
<1>4. <<LHSID_of_IRL[i], LHSID_of_IRL[i]>> \in RightDerivations(IRLs)
  <2>1. LHSID_of_IRL[i] \in NSYs /\ LastProperSymbol(i) \in NSYs
    BY <1>1, LastProperType, GrammarAssumption
  <2> QED
    BY <1>1, <1>2, <1>3, <2>1 DEF IsTransitive
<1> QED
  BY <1>1, <1>2, <1>4, RecursionIsLeo

-----------------------------------------------------------------------------
(* Event groups *)

\* The AHMs whose events can come with those of a Leo completion: the set
\* whose size is Event_Group_Size_of_AHM.
EventGroup(ahm) ==
    {inner \in AHMs :
        /\ AHM_has_Event(inner)
        /\ AHM_is_Leo_Completion(inner)
        /\ <<LHSID_of_IRL[ahm.irl], LHSID_of_IRL[inner.irl]>> \in RightDerivations(LeoIRLs)}

\* A set of AHMs of the group that is as large as the group is the group.
LEMMA GroupIsFull ==
    ASSUME NEW ahm \in AHMs, AHM_is_Leo_Completion(ahm), NEW cil, cil \subseteq EventGroup(ahm),
           ~ (Event_Group_Size_of_AHM(ahm) > Cardinality(cil))
    PROVE  cil = EventGroup(ahm)
<1> DEFINE rules == {i \in IRLs : \E a \in EventGroup(ahm) : a.irl = i}
           completion == [i \in rules |-> [irl |-> i, dot |-> Len(RHS_of_IRL[i])]]
<1>1. IsFiniteSet(rules)
  <2>1. 0 \in Int /\ IRL_Count - 1 \in Int
    BY GrammarAssumption
  <2>2. IsFiniteSet(IRLs)
    BY <2>1, FS_Interval DEF IRLs
  <2> QED
    BY <2>2, FS_Subset
<1>2. \A a \in EventGroup(ahm) : a = [irl |-> a.irl, dot |-> Len(RHS_of_IRL[a.irl])] /\ a.irl \in rules
  BY AHMParts DEF EventGroup, AHM_is_Leo_Completion, AHM_is_Completion
<1>3. \A i \in rules : completion[i] \in EventGroup(ahm)
  <2> SUFFICES ASSUME NEW i \in rules
               PROVE  [irl |-> i, dot |-> Len(RHS_of_IRL[i])] \in EventGroup(ahm)
    OBVIOUS
  <2>1. PICK a \in EventGroup(ahm) : a.irl = i
    OBVIOUS
  <2> QED
    BY <1>2, <2>1
<1>4. completion \in Surjection(rules, EventGroup(ahm))
  <2>1. completion \in [rules -> EventGroup(ahm)]
    BY <1>3
  <2>2. \A a \in EventGroup(ahm) : \E i \in rules : completion[i] = a
    BY <1>2
  <2> HIDE DEF completion, rules
  <2> QED
    BY <2>1, <2>2 DEF Surjection
<1>5. IsFiniteSet(EventGroup(ahm))
  <2> HIDE DEF completion, rules
  <2> QED
    BY <1>1, <1>4, FS_Surjection
<1>6. Event_Group_Size_of_AHM(ahm) = Cardinality(EventGroup(ahm))
  BY DEF Event_Group_Size_of_AHM, EventGroup
<1>7. /\ Cardinality(cil) \in Nat /\ Cardinality(EventGroup(ahm)) \in Nat
      /\ Cardinality(cil) <= Cardinality(EventGroup(ahm))
  BY <1>5, FS_Subset, FS_CardinalityType
<1> QED
  BY <1>5, <1>6, <1>7, FS_Subset
=============================================================================
