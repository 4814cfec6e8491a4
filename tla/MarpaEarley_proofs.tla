------------------------ MODULE MarpaEarley_proofs ------------------------
(***************************************************************************)
(* The recognizer finds what it should: the Earley sets that it builds,    *)
(* with the completions that Leo items stand for, are those of the         *)
(* reference account, for every grammar and every input.  So are the       *)
(* events of a call, as far as the settings of the application go.         *)
(***************************************************************************)
EXTENDS EarleyReference, MarpaRecce_proofs

-----------------------------------------------------------------------------
(* Spans *)

Stretches == Earlemes \X Earlemes

\* Composition gives stretches.
LEMMA ComposeType ==
    ASSUME NEW R \in SUBSET Stretches, NEW S \in SUBSET Stretches
    PROVE  Compose(R, S) \in SUBSET Stretches
  BY DEF Compose, Stretches

\* Composition joins stretches that meet.
LEMMA ComposeAt ==
    ASSUME NEW R \in SUBSET Stretches, NEW S \in SUBSET Stretches,
           NEW o \in Earlemes, NEW e \in Earlemes
    PROVE  <<o, e>> \in Compose(R, S) <=> \E m \in Earlemes : <<o, m>> \in R /\ <<m, e>> \in S
<1>1. ASSUME <<o, e>> \in Compose(R, S)
      PROVE  \E m \in Earlemes : <<o, m>> \in R /\ <<m, e>> \in S
  <2>1. PICK p \in R, q \in S : p[2] = q[1] /\ <<o, e>> = <<p[1], q[2]>>
    BY <1>1 DEF Compose
  <2>2. p = <<p[1], p[2]>> /\ q = <<q[1], q[2]>> /\ p[2] \in Earlemes
    BY DEF Stretches
  <2> QED
    BY <2>1, <2>2
<1>2. ASSUME NEW m \in Earlemes, <<o, m>> \in R, <<m, e>> \in S
      PROVE  <<o, e>> \in Compose(R, S)
  <2> DEFINE q == <<<<o, m>>, <<m, e>>>>
  <2>1. q \in R \X S /\ q[1][2] = q[2][1] /\ <<o, e>> = <<q[1][1], q[2][2]>>
    BY <1>2
  <2> HIDE DEF q
  <2> QED
    BY <2>1 DEF Compose
<1> QED
  BY <1>1, <1>2

\* The stretches of a symbol, and those that are no stretch at all.
LEMMA SpansType ==
    ASSUME NEW S \in SUBSET SymbolSpans, NEW nsy
    PROVE  /\ Spans(S, nsy) \in SUBSET Stretches /\ Identity \in SUBSET Stretches
           /\ nsy \in NullingNSYs => Spans(S, nsy) = Identity
           /\ nsy \notin NullingNSYs =>
                 \A m, e \in Earlemes : <<m, e>> \in Spans(S, nsy) <=> <<nsy, m, e>> \in S
  BY DEF Spans, Identity, Stretches, SymbolSpans

\* Composing with the stretches that are none changes nothing.
LEMMA ComposeIdentity ==
    ASSUME NEW R \in SUBSET Stretches
    PROVE  Compose(R, Identity) = R
<1>1. Identity \in SUBSET Stretches
  BY DEF Identity, Stretches
<1>2. \A m, e \in Earlemes : <<m, e>> \in Identity <=> m = e
  BY DEF Identity
<1>3. \A o, e \in Earlemes : <<o, e>> \in Compose(R, Identity) <=> <<o, e>> \in R
  <2> TAKE o \in Earlemes, e \in Earlemes
  <2>1. <<o, e>> \in Compose(R, Identity) <=>
           \E m \in Earlemes : <<o, m>> \in R /\ <<m, e>> \in Identity
    BY <1>1, ComposeAt
  <2> QED
    BY <1>2, <2>1
<1>4. Compose(R, Identity) \in SUBSET Stretches
  BY <1>1, ComposeType
<1> QED
  BY <1>3, <1>4 DEF Stretches

\* PrefixSpans follows its definition.
LEMMA PrefixRows ==
    ASSUME NEW S \in SUBSET SymbolSpans, NEW irl \in IRLs
    PROVE  /\ PrefixSpans(S, irl, 0) = Identity
           /\ \A d \in 1 .. Len(RHS_of_IRL[irl]) :
                 PrefixSpans(S, irl, d)
                    = Compose(PrefixSpans(S, irl, d - 1), Spans(S, RHS_of_IRL[irl][d]))
           /\ \A d \in 0 .. Len(RHS_of_IRL[irl]) : PrefixSpans(S, irl, d) \in SUBSET Stretches
<1> DEFINE X == SUBSET Stretches
           L == Len(RHS_of_IRL[irl])
           symbol(d) == Spans(S, RHS_of_IRL[irl][d])
           step == [d \in 1 .. L |-> [R \in X |-> Compose(R, symbol(d))]]
           prefix[d \in 0 .. L] == IF d = 0 THEN Identity ELSE Compose(prefix[d - 1], symbol(d))
<1>1. L \in Nat
  BY PositionsRange
<1>2. step \in [1 .. L -> [X -> X]]
  BY ComposeType, SpansType
<1>3. PICK f \in [0 .. L -> X] : Iterates(f, L, Identity, step)
  <2>1. Identity \in X
    BY SpansType
  <2> HIDE DEF step, X, L, prefix, symbol
  <2> QED
    BY <1>1, <1>2, <2>1, PrimitiveRecursion
<1>4. \E g : g = [d \in 0 .. L |-> IF d = 0 THEN Identity ELSE Compose(g[d - 1], symbol(d))]
  <2>1. ASSUME NEW n \in 1 .. L
        PROVE  f[n] = Compose(f[n - 1], symbol(n))
    <3>1. f[n - 1] \in X
      BY <1>1, <1>3
    <3> QED
      BY <1>3, <3>1 DEF Iterates
  <2> HIDE DEF step, X, symbol, L
  <2>2. f = [d \in 0 .. L |-> IF d = 0 THEN Identity ELSE Compose(f[d - 1], symbol(d))]
    BY <1>1, <1>3, <2>1 DEF Iterates
  <2> QED
    BY <2>2, Zenon
<1>5. prefix = [d \in 0 .. L |-> IF d = 0 THEN Identity ELSE Compose(prefix[d - 1], symbol(d))]
  BY <1>4, Zenon
<1>6. \A d : PrefixSpans(S, irl, d) = prefix[d]
  BY Zenon DEF PrefixSpans
<1> HIDE DEF prefix, step, X, symbol, L
<1>7. prefix[0] = Identity /\ \A d \in 1 .. L : prefix[d] = Compose(prefix[d - 1], symbol(d))
  BY <1>1, <1>5
<1>8. \A d \in 0 .. L : prefix[d] \in SUBSET Stretches
  <2> DEFINE Typed == {d \in 0 .. L : prefix[d] \in SUBSET Stretches}
  <2>1. 0 \in Typed
    <3>1. 0 \in 0 .. L /\ Identity \in SUBSET Stretches
      BY <1>1, SpansType
    <3> QED
      BY <1>7, <3>1
  <2>2. ASSUME NEW d \in 0 .. L, d \in Typed, d < L
        PROVE  d + 1 \in Typed
    <3>1. d + 1 \in 1 .. L /\ d + 1 \in 0 .. L /\ (d + 1) - 1 = d
      BY <1>1, <2>2
    <3>2. prefix[d + 1] = Compose(prefix[d], symbol(d + 1))
      BY <1>7, <3>1
    <3>3. prefix[d] \in SUBSET Stretches
      BY <2>2
    <3>4. symbol(d + 1) \in SUBSET Stretches
      BY SpansType DEF symbol
    <3>5. prefix[d + 1] \in SUBSET Stretches
      BY <3>2, <3>3, <3>4, ComposeType
    <3> QED
      BY <3>1, <3>5
  <2> HIDE DEF Typed
  <2>3. \A d \in 0 .. L : d \in Typed
    BY <1>1, <2>1, <2>2, UpTo
  <2> QED
    BY <2>3 DEF Typed
<1> QED
  BY <1>6, <1>7, <1>8 DEF symbol, L

\* Nulling symbols add nothing to what a prefix spans.
LEMMA PrefixNulled ==
    ASSUME NEW S \in SUBSET SymbolSpans, NEW irl \in IRLs,
           NEW c \in 0 .. Len(RHS_of_IRL[irl]), NEW d \in 0 .. Len(RHS_of_IRL[irl]), c <= d,
           \A k \in c + 1 .. d : RHS_of_IRL[irl][k] \in NullingNSYs
    PROVE  PrefixSpans(S, irl, d) = PrefixSpans(S, irl, c)
<1> DEFINE Same == {n \in 0 .. d - c : PrefixSpans(S, irl, c + n) = PrefixSpans(S, irl, c)}
<1>1. Len(RHS_of_IRL[irl]) \in Nat
  BY PositionsRange
<1>2. 0 \in Same
  BY <1>1
<1>3. ASSUME NEW n \in 0 .. d - c, n \in Same, n < d - c
      PROVE  n + 1 \in Same
  <2> DEFINE k == c + n + 1
  <2>1. k \in c + 1 .. d /\ k \in 1 .. Len(RHS_of_IRL[irl]) /\ k - 1 = c + n /\ k - 1 \in 0 .. Len(RHS_of_IRL[irl])
    BY <1>1, <1>3
  <2>2. Spans(S, RHS_of_IRL[irl][k]) = Identity
    BY <2>1, SpansType
  <2>3. PrefixSpans(S, irl, k) = Compose(PrefixSpans(S, irl, k - 1), Identity)
    BY <2>1, <2>2, PrefixRows
  <2>4. PrefixSpans(S, irl, k - 1) \in SUBSET Stretches
    BY <2>1, PrefixRows
  <2>5. PrefixSpans(S, irl, k) = PrefixSpans(S, irl, c + n)
    BY <2>1, <2>3, <2>4, ComposeIdentity
  <2>6. c + (n + 1) = k /\ n + 1 \in 0 .. d - c
    BY <1>1, <1>3
  <2> QED
    BY <1>3, <2>5, <2>6
<1> HIDE DEF Same
<1>4. d - c \in Nat /\ d - c \in 0 .. d - c
  BY <1>1
<1>5. d - c \in Same
  BY <1>2, <1>3, <1>4, UpTo
<1>6. c + (d - c) = d
  BY <1>1
<1> QED
  BY <1>5, <1>6 DEF Same

\* What stands before the dot of a rule's first AHM spans no input.
LEMMA SpansToFirst ==
    ASSUME NEW S \in SUBSET SymbolSpans, NEW irl \in IRLs
    PROVE  PrefixSpans(S, irl, First_AHM_of_IRL(irl).dot) = Identity
<1> DEFINE d == First_AHM_of_IRL(irl).dot
<1>1. d \in Positions(irl)
  BY FirstAHM, AHMParts DEF First_AHM_of_IRL
<1>2. d \in 0 .. Len(RHS_of_IRL[irl]) /\ Len(RHS_of_IRL[irl]) \in Nat
  BY <1>1, PositionsRange
<1>3. \A k \in 0 + 1 .. d : RHS_of_IRL[irl][k] \in NullingNSYs
  BY NulledToFirst
<1>4. 0 \in 0 .. Len(RHS_of_IRL[irl]) /\ 0 <= d
  BY <1>2
<1> HIDE DEF d
<1>5. PrefixSpans(S, irl, d) = PrefixSpans(S, irl, 0)
  BY <1>2, <1>3, <1>4, PrefixNulled
<1> QED
  BY <1>5, PrefixRows DEF d

\* Moving the dot of an AHM adds a stretch of its postdot symbol.
LEMMA SpansToNext ==
    ASSUME NEW S \in SUBSET SymbolSpans, NEW ahm \in AHMs, ~ AHM_is_Completion(ahm),
           NEW o \in Earlemes, NEW e \in Earlemes
    PROVE  <<o, e>> \in PrefixSpans(S, ahm.irl, Next_AHM_of_AHM(ahm).dot) <=>
              \E m \in Earlemes : /\ <<o, m>> \in PrefixSpans(S, ahm.irl, ahm.dot)
                                  /\ <<Postdot_NSYID_of_AHM(ahm), m, e>> \in S
<1> DEFINE irl == ahm.irl
           L == Len(RHS_of_IRL[irl])
           c == ahm.dot + 1
           d == Next_AHM_of_AHM(ahm).dot
           nsy == Postdot_NSYID_of_AHM(ahm)
<1>1. /\ irl \in IRLs /\ ahm.dot \in Positions(irl)
      /\ Next_AHM_of_AHM(ahm) \in AHMs /\ Next_AHM_of_AHM(ahm).irl = irl /\ d > ahm.dot
      /\ nsy \in NSYs \ NullingNSYs
  BY AHMParts, NextAHM
<1>2. d \in Positions(irl)
  BY <1>1, AHMParts
<1>3. L \in Nat /\ d \in 0 .. L /\ ahm.dot \in 0 .. L
  BY <1>1, <1>2, PositionsRange
<1>4. c \in 1 .. L /\ c \in 0 .. L /\ c <= d /\ c - 1 = ahm.dot
  BY <1>1, <1>3
<1>5. nsy = RHS_of_IRL[irl][c]
  BY DEF Postdot_NSYID_of_AHM
<1>6. \A k \in c + 1 .. d : RHS_of_IRL[irl][k] \in NullingNSYs
  <2>1. \A k \in c + 1 .. d : k \in ahm.dot + 2 .. d
    BY <1>3
  <2> QED
    BY <2>1, NulledToNext
<1> HIDE DEF c, d, L
<1>7. PrefixSpans(S, irl, d) = PrefixSpans(S, irl, c)
  BY <1>1, <1>3, <1>4, <1>6, PrefixNulled DEF L
<1>8. PrefixSpans(S, irl, c) = Compose(PrefixSpans(S, irl, ahm.dot), Spans(S, nsy))
  BY <1>1, <1>4, <1>5, PrefixRows DEF L
<1>9. PrefixSpans(S, irl, ahm.dot) \in SUBSET Stretches /\ Spans(S, nsy) \in SUBSET Stretches
  BY <1>1, <1>3, PrefixRows, SpansType DEF L
<1>10. <<o, e>> \in Compose(PrefixSpans(S, irl, ahm.dot), Spans(S, nsy)) <=>
          \E m \in Earlemes : <<o, m>> \in PrefixSpans(S, irl, ahm.dot) /\ <<m, e>> \in Spans(S, nsy)
  BY <1>9, ComposeAt
<1>11. \A m \in Earlemes : <<m, e>> \in Spans(S, nsy) <=> <<nsy, m, e>> \in S
  BY <1>1, SpansType
<1> QED
  BY <1>7, <1>8, <1>10, <1>11 DEF d

\* With more spans of symbols, prefixes span more.
LEMMA PrefixMonotone ==
    ASSUME NEW S \in SUBSET SymbolSpans, NEW T \in SUBSET SymbolSpans, S \subseteq T,
           NEW irl \in IRLs, NEW d \in 0 .. Len(RHS_of_IRL[irl])
    PROVE  PrefixSpans(S, irl, d) \subseteq PrefixSpans(T, irl, d)
<1> DEFINE L == Len(RHS_of_IRL[irl])
           Within == {n \in 0 .. L : PrefixSpans(S, irl, n) \subseteq PrefixSpans(T, irl, n)}
<1>1. L \in Nat
  BY PositionsRange
<1>2. 0 \in Within
  <2>1. PrefixSpans(S, irl, 0) = Identity /\ PrefixSpans(T, irl, 0) = Identity
    BY PrefixRows
  <2> QED
    BY <1>1, <2>1
<1>3. ASSUME NEW n \in 0 .. L, n \in Within, n < L
      PROVE  n + 1 \in Within
  <2> DEFINE nsy == RHS_of_IRL[irl][n + 1]
             P == PrefixSpans(S, irl, n)
             Q == PrefixSpans(T, irl, n)
  <2>1. n + 1 \in 1 .. L /\ n + 1 \in 0 .. L /\ (n + 1) - 1 = n
    BY <1>1, <1>3
  <2>2. /\ PrefixSpans(S, irl, n + 1) = Compose(P, Spans(S, nsy))
        /\ PrefixSpans(T, irl, n + 1) = Compose(Q, Spans(T, nsy))
        /\ P \in SUBSET Stretches /\ Q \in SUBSET Stretches
    BY <2>1, PrefixRows
  <2>3. P \subseteq Q
    BY <1>3
  <2>4. Spans(S, nsy) \subseteq Spans(T, nsy)
    BY DEF Spans
  <2> HIDE DEF P, Q, nsy
  <2>5. Compose(P, Spans(S, nsy)) \subseteq Compose(Q, Spans(T, nsy))
    BY <2>3, <2>4 DEF Compose
  <2>6. PrefixSpans(S, irl, n + 1) \subseteq PrefixSpans(T, irl, n + 1)
    BY <2>2, <2>5
  <2> QED
    BY <2>1, <2>6
<1> HIDE DEF Within
<1>4. \A n \in 0 .. L : n \in Within
  BY <1>1, <1>2, <1>3, UpTo
<1> QED
  BY <1>4 DEF Within

-----------------------------------------------------------------------------
(* The reference account is the least one. *)

SpansClosed(S) == S \in SUBSET SymbolSpans /\ RuleSpans(S) \subseteq S

PredictionsClosed(S, P) ==
    P \in SUBSET Predictions /\ PredictedNext(S, P) \subseteq P /\ <<StartIRL, 0>> \in P

\* Any account of the input: spans and predictions that are closed under the
\* rules and have what was read.
Account(S, P) == SpansClosed(S) /\ TokenSpans \subseteq S /\ PredictionsClosed(S, P)

\* What the rules add to spans are spans.
LEMMA RuleSpansType ==
    ASSUME NEW S \in SUBSET SymbolSpans
    PROVE  RuleSpans(S) \in SUBSET SymbolSpans
<1> SUFFICES ASSUME NEW s \in RuleSpans(S) PROVE s \in SymbolSpans
  OBVIOUS
<1>1. PICK i \in IRLs : \E p \in PrefixSpans(S, i, Len(RHS_of_IRL[i])) :
                            s = <<LHSID_of_IRL[i], p[1], p[2]>>
  BY DEF RuleSpans
<1>2. PICK p \in PrefixSpans(S, i, Len(RHS_of_IRL[i])) : s = <<LHSID_of_IRL[i], p[1], p[2]>>
  BY <1>1
<1>3. p \in Stretches
  <2>1. Len(RHS_of_IRL[i]) \in 0 .. Len(RHS_of_IRL[i])
    BY PositionsRange
  <2> QED
    BY <2>1, PrefixRows
<1>4. LHSID_of_IRL[i] \in NSYs
  BY GrammarAssumption
<1> QED
  BY <1>2, <1>3, <1>4 DEF Stretches, SymbolSpans

\* With more spans, the rules add more.
LEMMA RuleSpansMonotone ==
    ASSUME NEW S \in SUBSET SymbolSpans, NEW T \in SUBSET SymbolSpans, S \subseteq T
    PROVE  RuleSpans(S) \subseteq RuleSpans(T)
<1>1. \A i \in IRLs :
         PrefixSpans(S, i, Len(RHS_of_IRL[i])) \subseteq PrefixSpans(T, i, Len(RHS_of_IRL[i]))
  <2> TAKE i \in IRLs
  <2>1. Len(RHS_of_IRL[i]) \in 0 .. Len(RHS_of_IRL[i])
    BY PositionsRange
  <2> QED
    BY <2>1, PrefixMonotone
<1> QED
  BY <1>1 DEF RuleSpans

\* Where the right side of a rule spans a stretch, its left side does.
LEMMA RuleSpansAt ==
    ASSUME NEW S, NEW i \in IRLs, NEW o, NEW e,
           <<o, e>> \in PrefixSpans(S, i, Len(RHS_of_IRL[i]))
    PROVE  <<LHSID_of_IRL[i], o, e>> \in RuleSpans(S)
<1> DEFINE p == <<o, e>>
<1>1. p \in PrefixSpans(S, i, Len(RHS_of_IRL[i])) /\ <<LHSID_of_IRL[i], o, e>> = <<LHSID_of_IRL[i], p[1], p[2]>>
  OBVIOUS
<1> HIDE DEF p
<1> QED
  BY <1>1 DEF RuleSpans

\* There are finitely many symbols, rules and earlemes.
LEMMA CarriersFinite ==
    /\ IsFiniteSet(NSYs) /\ IsFiniteSet(IRLs) /\ IsFiniteSet(Earlemes)
    /\ IsFiniteSet(SymbolSpans) /\ IsFiniteSet(Predictions)
<1>1. IsFiniteSet(NSYs) /\ IsFiniteSet(IRLs) /\ IsFiniteSet(Earlemes)
  <2>1. 0 \in Int /\ NSY_Count - 1 \in Int /\ IRL_Count - 1 \in Int /\ JEARLEME_THRESHOLD \in Int
    BY GrammarAssumption, RecceAssumption
  <2>2. /\ IsFiniteSet(0 .. NSY_Count - 1) /\ IsFiniteSet(0 .. IRL_Count - 1)
        /\ IsFiniteSet(0 .. JEARLEME_THRESHOLD)
    BY <2>1, FS_Interval
  <2> QED
    BY <2>2 DEF NSYs, IRLs, Earlemes
<1>2. IsFiniteSet(NSYs \X Earlemes) /\ IsFiniteSet(IRLs \X Earlemes) /\ IsFiniteSet(Earlemes \X NSYs)
  BY <1>1, FS_Product
<1>3. IsFiniteSet((NSYs \X Earlemes) \X Earlemes)
  BY <1>1, <1>2, FS_Product
<1> DEFINE flat == [q \in (NSYs \X Earlemes) \X Earlemes |-> <<q[1][1], q[1][2], q[2]>>]
<1>4. flat \in Surjection((NSYs \X Earlemes) \X Earlemes, SymbolSpans)
  <2>1. flat \in [(NSYs \X Earlemes) \X Earlemes -> SymbolSpans]
    BY DEF SymbolSpans
  <2>2. ASSUME NEW s \in SymbolSpans
        PROVE  \E q \in (NSYs \X Earlemes) \X Earlemes : flat[q] = s
    <3> DEFINE q == <<<<s[1], s[2]>>, s[3]>>
    <3>1. q \in (NSYs \X Earlemes) \X Earlemes /\ flat[q] = s
      BY DEF SymbolSpans
    <3> QED
      BY <3>1
  <2> HIDE DEF flat
  <2> QED
    BY <2>1, <2>2 DEF Surjection
<1>5. IsFiniteSet(SymbolSpans)
  <2> HIDE DEF flat
  <2> QED
    BY <1>3, <1>4, FS_Surjection
<1> QED
  BY <1>1, <1>2, <1>5 DEF Predictions

\* What was read are spans.
LEMMA TokenSpansType ==
    ASSUME TypeInv
    PROVE  TokenSpans \in SUBSET SymbolSpans
<1>1. tokens \subseteq Alternatives
  BY DEF TypeInv, TypeOK, InputTypeOK
<1> QED
  BY <1>1 DEF TokenSpans, SymbolSpans, Alternatives

\* The spans of the input are the least closed ones that have what was read.
LEMMA InputSpansLeast ==
    ASSUME TypeInv
    PROVE  /\ SpansClosed(InputSpans) /\ TokenSpans \subseteq InputSpans
           /\ \A S : SpansClosed(S) /\ TokenSpans \subseteq S => InputSpans \subseteq S
<1> DEFINE grow == [S \in SUBSET SymbolSpans |-> RuleSpans(S)]
<1>1. grow \in [SUBSET SymbolSpans -> SUBSET SymbolSpans]
  BY RuleSpansType
<1>2. IsMonotone(SymbolSpans, grow)
  BY RuleSpansMonotone DEF IsMonotone
<1>3. InputSpans = Fixpoint(SymbolSpans, grow, TokenSpans)
  BY DEF InputSpans
<1>4. \A S : IsClosed(SymbolSpans, grow, S) <=> SpansClosed(S)
  BY DEF IsClosed, SpansClosed
<1> HIDE DEF grow
<1>5. /\ TokenSpans \subseteq Fixpoint(SymbolSpans, grow, TokenSpans)
      /\ IsClosed(SymbolSpans, grow, Fixpoint(SymbolSpans, grow, TokenSpans))
      /\ \A S : IsClosed(SymbolSpans, grow, S) /\ TokenSpans \subseteq S =>
             Fixpoint(SymbolSpans, grow, TokenSpans) \subseteq S
  BY <1>1, <1>2, CarriersFinite, TokenSpansType, FixpointIsLeast
<1> QED
  BY <1>3, <1>4, <1>5

\* What a set of predictions predicts: a rule whose left side is the postdot
\* symbol of an AHM that a predicted rule has reached.
LEMMA PredictedNextAt ==
    ASSUME NEW S \in SUBSET SymbolSpans, NEW P, NEW j, NEW e
    PROVE  <<j, e>> \in PredictedNext(S, P) <=>
              \E a \in AHMs, o \in Earlemes :
                 /\ j \in IRLs /\ LHSID_of_IRL[j] = Postdot_NSYID_of_AHM(a)
                 /\ <<o, e>> \in PrefixSpans(S, a.irl, a.dot) /\ <<a.irl, o>> \in P
<1>1. ASSUME <<j, e>> \in PredictedNext(S, P)
      PROVE  \E a \in AHMs, o \in Earlemes :
                 /\ j \in IRLs /\ LHSID_of_IRL[j] = Postdot_NSYID_of_AHM(a)
                 /\ <<o, e>> \in PrefixSpans(S, a.irl, a.dot) /\ <<a.irl, o>> \in P
  <2>1. PICK a \in AHMs :
          <<j, e>> \in {k \in IRLs : LHSID_of_IRL[k] = Postdot_NSYID_of_AHM(a)}
              \X {p[2] : p \in {q \in PrefixSpans(S, a.irl, a.dot) : <<a.irl, q[1]>> \in P}}
    BY <1>1 DEF PredictedNext
  <2>2. PICK p \in PrefixSpans(S, a.irl, a.dot) : <<a.irl, p[1]>> \in P /\ e = p[2]
    BY <2>1
  <2>3. PrefixSpans(S, a.irl, a.dot) \in SUBSET Stretches
    BY AHMParts, PositionsRange, PrefixRows
  <2>4. p = <<p[1], p[2]>> /\ p[1] \in Earlemes
    BY <2>3 DEF Stretches
  <2> QED
    BY <2>1, <2>2, <2>4
<1>2. ASSUME NEW a \in AHMs, NEW o \in Earlemes,
             j \in IRLs, LHSID_of_IRL[j] = Postdot_NSYID_of_AHM(a),
             <<o, e>> \in PrefixSpans(S, a.irl, a.dot), <<a.irl, o>> \in P
      PROVE  <<j, e>> \in PredictedNext(S, P)
  <2> DEFINE p == <<o, e>>
             rules == {k \in IRLs : LHSID_of_IRL[k] = Postdot_NSYID_of_AHM(a)}
             ends == {q[2] : q \in {r \in PrefixSpans(S, a.irl, a.dot) : <<a.irl, r[1]>> \in P}}
  <2>1. p \in PrefixSpans(S, a.irl, a.dot) /\ p[1] = o /\ p[2] = e
    BY <1>2
  <2> HIDE DEF p
  <2>2. e \in ends
    BY <1>2, <2>1
  <2>3. j \in rules
    BY <1>2
  <2>4. <<j, e>> \in rules \X ends
    BY <2>2, <2>3
  <2> QED
    BY <2>4 DEF PredictedNext
<1> QED
  BY <1>1, <1>2

\* Predictions predict predictions.
LEMMA PredictedNextType ==
    ASSUME NEW S \in SUBSET SymbolSpans, NEW P
    PROVE  PredictedNext(S, P) \in SUBSET Predictions
<1> SUFFICES ASSUME NEW a \in AHMs
             PROVE  {k \in IRLs : LHSID_of_IRL[k] = Postdot_NSYID_of_AHM(a)}
                       \X {p[2] : p \in {q \in PrefixSpans(S, a.irl, a.dot) : <<a.irl, q[1]>> \in P}}
                    \subseteq Predictions
  BY DEF PredictedNext
<1>1. PrefixSpans(S, a.irl, a.dot) \in SUBSET Stretches
  BY AHMParts, PositionsRange, PrefixRows
<1> QED
  BY <1>1 DEF Stretches, Predictions

\* The predictions of the reference account are the least closed ones that
\* have the start rule.
LEMMA PredictedLeast ==
    ASSUME StartIRL \in IRLs, NEW S \in SUBSET SymbolSpans
    PROVE  /\ PredictionsClosed(S, PredictedFrom(S, {<<StartIRL, 0>>}))
           /\ \A P : PredictionsClosed(S, P) => PredictedFrom(S, {<<StartIRL, 0>>}) \subseteq P
<1> DEFINE grow == [Q \in SUBSET Predictions |-> PredictedNext(S, Q)]
           start == {<<StartIRL, 0>>}
<1>1. grow \in [SUBSET Predictions -> SUBSET Predictions]
  BY PredictedNextType
<1>2. IsMonotone(Predictions, grow)
  <2> SUFFICES ASSUME NEW P \in SUBSET Predictions, NEW Q \in SUBSET Predictions, P \subseteq Q
               PROVE  PredictedNext(S, P) \subseteq PredictedNext(S, Q)
    BY DEF IsMonotone
  <2> QED
    BY DEF PredictedNext
<1>3. PredictedFrom(S, start) = Fixpoint(Predictions, grow, start)
  BY DEF PredictedFrom
<1>4. \A P : IsClosed(Predictions, grow, P) /\ start \subseteq P <=> PredictionsClosed(S, P)
  BY DEF IsClosed, PredictionsClosed
<1>5. start \in SUBSET Predictions
  BY RecceAssumption DEF Predictions, Earlemes
<1> HIDE DEF grow, start
<1>6. /\ start \subseteq Fixpoint(Predictions, grow, start)
      /\ IsClosed(Predictions, grow, Fixpoint(Predictions, grow, start))
      /\ \A P : IsClosed(Predictions, grow, P) /\ start \subseteq P =>
             Fixpoint(Predictions, grow, start) \subseteq P
  BY <1>1, <1>2, <1>5, CarriersFinite, FixpointIsLeast
<1>7. /\ PredictionsClosed(S, PredictedFrom(S, start))
      /\ \A P : PredictionsClosed(S, P) => PredictedFrom(S, start) \subseteq P
  BY <1>3, <1>4, <1>6
<1> QED
  BY <1>7 DEF start

-----------------------------------------------------------------------------
(* What an account of the input says of items. *)

\* A predicted rule's first item is in the Earley set that predicts it.
LEMMA AccountFirst ==
    ASSUME NEW S \in SUBSET SymbolSpans, NEW P, NEW i \in IRLs, NEW e \in Earlemes, <<i, e>> \in P
    PROVE  [ahm |-> First_AHM_of_IRL(i), origin |-> e] \in ItemsAt(S, P, e)
<1> DEFINE y == [ahm |-> First_AHM_of_IRL(i), origin |-> e]
<1>1. y \in YIMs /\ y.ahm = First_AHM_of_IRL(i) /\ y.origin = e /\ y.ahm.irl = i
  BY PredictionType DEF First_AHM_of_IRL
<1>2. <<e, e>> \in PrefixSpans(S, i, y.ahm.dot)
  BY <1>1, SpansToFirst DEF Identity
<1> HIDE DEF y
<1>3. y \in ItemsAt(S, P, e)
  BY <1>1, <1>2 DEF ItemsAt
<1> QED
  BY <1>3 DEF y

\* An item is advanced where its postdot symbol ends.
LEMMA AccountAdvance ==
    ASSUME NEW S \in SUBSET SymbolSpans, NEW P, NEW m \in Earlemes, NEW e \in Earlemes,
           NEW p \in YIMs, p \in ItemsAt(S, P, m),
           Postdot_NSYID_of_AHM(p.ahm) \in NSYs, <<Postdot_NSYID_of_AHM(p.ahm), m, e>> \in S
    PROVE  Advance(p) \in ItemsAt(S, P, e)
<1>1. p.ahm \in AHMs /\ p.origin \in Earlemes /\ ~ AHM_is_Completion(p.ahm)
  BY PostdotMeansNext DEF YIMs
<1>2. /\ Advance(p) \in YIMs /\ Advance(p).origin = p.origin
      /\ Advance(p).ahm = Next_AHM_of_AHM(p.ahm) /\ Advance(p).ahm.irl = p.ahm.irl
  BY <1>1, AdvanceType, NextAHM DEF Advance
<1>3. <<p.ahm.irl, p.origin>> \in P /\ <<p.origin, m>> \in PrefixSpans(S, p.ahm.irl, p.ahm.dot)
  BY DEF ItemsAt
<1>4. <<p.origin, e>> \in PrefixSpans(S, p.ahm.irl, Next_AHM_of_AHM(p.ahm).dot)
  BY <1>1, <1>3, SpansToNext
<1> QED
  BY <1>2, <1>3, <1>4 DEF ItemsAt

\* A completion makes its left side span what its item does.
LEMMA AccountCompletes ==
    ASSUME NEW S, SpansClosed(S), NEW P, NEW e \in Earlemes,
           NEW y \in YIMs, y \in ItemsAt(S, P, e), AHM_is_Completion(y.ahm)
    PROVE  <<LHS_NSYID_of_YIM(y), y.origin, e>> \in S
<1>1. y.ahm.irl \in IRLs /\ y.ahm.dot = Len(RHS_of_IRL[y.ahm.irl])
  BY AHMParts DEF YIMs, AHM_is_Completion
<1>2. <<y.origin, e>> \in PrefixSpans(S, y.ahm.irl, Len(RHS_of_IRL[y.ahm.irl]))
  BY <1>1 DEF ItemsAt
<1>3. <<LHSID_of_IRL[y.ahm.irl], y.origin, e>> \in RuleSpans(S)
  BY <1>1, <1>2, RuleSpansAt
<1> QED
  BY <1>3 DEF SpansClosed, LHS_NSYID_of_YIM

\* A rule whose left side an item's postdot symbol predicts, at once or
\* through other rules, is predicted in its Earley set.
LEMMA AccountPredicts ==
    ASSUME NEW S, SpansClosed(S), NEW P, PredictionsClosed(S, P), NEW e \in Earlemes,
           NEW y \in YIMs, y \in ItemsAt(S, P, e), NEW i \in IRLs,
           Postdot_NSYID_of_AHM(y.ahm) \in NSYs,
           <<Postdot_NSYID_of_AHM(y.ahm), LHSID_of_IRL[i]>> \in PredictionMatrix
    PROVE  <<i, e>> \in P
<1> DEFINE Reached == {c \in NSYs : \A j \in IRLs : LHSID_of_IRL[j] = c => <<j, e>> \in P}
           first(j) == First_AHM_of_IRL(j)
<1>1. S \in SUBSET SymbolSpans
  BY DEF SpansClosed
<1>2. \A j \in IRLs, a \in AHMs, o \in Earlemes :
         /\ LHSID_of_IRL[j] = Postdot_NSYID_of_AHM(a)
         /\ <<o, e>> \in PrefixSpans(S, a.irl, a.dot) /\ <<a.irl, o>> \in P
         => <<j, e>> \in P
  <2> TAKE j \in IRLs, a \in AHMs, o \in Earlemes
  <2> HAVE /\ LHSID_of_IRL[j] = Postdot_NSYID_of_AHM(a)
           /\ <<o, e>> \in PrefixSpans(S, a.irl, a.dot) /\ <<a.irl, o>> \in P
  <2>1. <<j, e>> \in PredictedNext(S, P)
    BY <1>1, PredictedNextAt
  <2> QED
    BY <2>1 DEF PredictionsClosed
<1>3. Postdot_NSYID_of_AHM(y.ahm) \in Reached
  <2>1. /\ y.ahm \in AHMs /\ y.origin \in Earlemes
        /\ <<y.ahm.irl, y.origin>> \in P /\ <<y.origin, e>> \in PrefixSpans(S, y.ahm.irl, y.ahm.dot)
    BY DEF YIMs, ItemsAt
  <2> QED
    BY <1>2, <2>1
<1>4. ASSUME NEW j \in IRLs, LHSID_of_IRL[j] \in Reached
      PROVE  Postdot_NSYID_of_AHM(first(j)) \in Reached
  <2>1. <<j, e>> \in P
    BY <1>4
  <2>2. first(j) \in AHMs /\ first(j).irl = j /\ Postdot_NSYID_of_AHM(first(j)) \in NSYs
    BY FirstAHM, NextAHM DEF First_AHM_of_IRL
  <2>3. <<e, e>> \in PrefixSpans(S, j, first(j).dot)
    BY <1>1, SpansToFirst DEF Identity
  <2> HIDE DEF first
  <2> QED
    BY <1>2, <2>1, <2>2, <2>3
<1>5. LHSID_of_IRL[i] \in NSYs
  BY GrammarAssumption
<1> HIDE DEF Reached
<1>6. LHSID_of_IRL[i] \in Reached
  BY <1>3, <1>4, <1>5, PredictionReaches
<1> QED
  BY <1>6 DEF Reached

-----------------------------------------------------------------------------
(* The chart is sound: every account of the input has every item in it. *)

InEveryAccount(y, e) == \A S, P : Account(S, P) => y \in ItemsAt(S, P, e)

\* A populated Leo item's effect is right wherever its symbol ends.
LimSound(k) ==
    LIM_is_Populated(k) =>
        \A S, P : Account(S, P) =>
            \A x \in Earlemes : <<k[2], k[1], x>> \in S =>
                [ahm |-> lims[k].top, origin |-> lims[k].origin] \in ItemsAt(S, P, x)

SoundInv ==
    /\ \A e \in Earlemes : \A y \in yims[e] : InEveryAccount(y, e)
    /\ \A k \in DOMAIN lims : LimSound(k)

\* As the input goes on, an account of it is one of what was read before.
LEMMA AccountStays ==
    ASSUME TypeInv, TypeInv', tokens \subseteq tokens', current_earleme <= current_earleme',
           NEW S, NEW P, Account(S, P)'
    PROVE  Account(S, P)
<1>1. /\ current_earleme \in Int /\ current_earleme' \in Int
      /\ \A t \in tokens : t.end \in Int
  BY DEF TypeInv, TypeOK, ClockTypeOK, InputTypeOK, Alternatives, Earlemes, NoEarleme
<1>2. TokenSpans \subseteq TokenSpans'
  BY <1>1 DEF TokenSpans
<1> QED
  BY <1>2 DEF Account, SpansClosed, PredictionsClosed

\* A step that leaves items and Leo items alone keeps the chart sound.
LEMMA SoundStays ==
    ASSUME TypeInv, TypeInv', SoundInv, UNCHANGED <<yims, lims>>,
           tokens \subseteq tokens', current_earleme <= current_earleme'
    PROVE  SoundInv'
<1>1. \A S, P : Account(S, P)' => Account(S, P)
  BY AccountStays
<1>2. \A e \in Earlemes : \A y \in yims'[e] : InEveryAccount(y, e)'
  BY <1>1 DEF SoundInv, InEveryAccount
<1>3. \A k \in DOMAIN lims' : LimSound(k)'
  BY <1>1 DEF SoundInv, LimSound, LIM_is_Populated
<1> QED
  BY <1>2, <1>3 DEF SoundInv

\* So does one that adds items that every account has.
LEMMA SoundGrows ==
    ASSUME TypeInv, SoundInv, UNCHANGED <<lims, tokens, current_earleme>>,
           current_earleme \in Earlemes,
           NEW new, \A y \in new : InEveryAccount(y, current_earleme),
           yims' = [yims EXCEPT ![current_earleme] = @ \cup new]
    PROVE  SoundInv'
<1>1. TokenSpans' = TokenSpans
  BY DEF TokenSpans
<1>2. \A S, P : Account(S, P)' <=> Account(S, P)
  BY <1>1 DEF Account, SpansClosed, PredictionsClosed
<1>3. \A e \in Earlemes :
         yims'[e] = IF e = current_earleme THEN yims[e] \cup new ELSE yims[e]
  BY DEF TypeInv, TypeOK, ChartTypeOK
<1>4. ASSUME NEW e \in Earlemes, NEW y \in yims'[e]
      PROVE  InEveryAccount(y, e)'
  <2>1. InEveryAccount(y, e)
    BY <1>3 DEF SoundInv
  <2> QED
    BY <1>2, <2>1 DEF InEveryAccount
<1>5. \A k \in DOMAIN lims' : LimSound(k)'
  BY <1>2 DEF SoundInv, LimSound, LIM_is_Populated
<1> QED
  BY <1>4, <1>5 DEF SoundInv

\* The items of the start of input: every account predicts the start rule and
\* whatever the rules it predicts predict.
LEMMA StartInputSound ==
    ASSUME TypeInv, ChartInv, StartInput
    PROVE  SoundInv'
<1>1. 0 \in Earlemes
  BY RecceAssumption DEF Earlemes
<1>2. /\ ~ G_is_Trivial /\ DOMAIN lims' = {}
      /\ yims' = [yims EXCEPT ![0] =
            {[ahm |-> First_AHM_of_IRL(i), origin |-> 0] : i \in IRLsSeenAtStart}]
      /\ \A e \in Earlemes : yims[e] = {}
  BY BeforeInput DEF StartInput
<1>3. ASSUME NEW S, NEW P, SpansClosed(S), PredictionsClosed(S, P)
      PROVE  \A i \in IRLsSeenAtStart : <<i, 0>> \in P
  <2> DEFINE C == {i \in IRLs : <<i, 0>> \in P}
  <2>1. S \in SUBSET SymbolSpans
    BY <1>3 DEF SpansClosed
  <2>2. StartIRL \in C
    BY <1>2, <1>3, SeenAtStart DEF PredictionsClosed
  <2>3. PredictedAtStart[C] \subseteq C
    <3> SUFFICES ASSUME NEW j \in PredictedAtStart[C]
                 PROVE  j \in C
      OBVIOUS
    <3>1. C \in SUBSET IRLs
      OBVIOUS
    <3>2. j \in IRLs /\ \E i \in C : Postdot_NSYID_of_AHM(First_AHM_of_IRL(i)) = LHSID_of_IRL[j]
      BY <3>1 DEF PredictedAtStart
    <3>3. PICK i \in C : Postdot_NSYID_of_AHM(First_AHM_of_IRL(i)) = LHSID_of_IRL[j]
      BY <3>2
    <3> DEFINE a == First_AHM_of_IRL(i)
    <3>4. a \in AHMs /\ a.irl = i
      BY FirstAHM DEF First_AHM_of_IRL
    <3>5. <<0, 0>> \in PrefixSpans(S, a.irl, a.dot)
      BY <1>1, <2>1, <3>4, SpansToFirst DEF Identity
    <3>6. <<j, 0>> \in PredictedNext(S, P)
      <4> HIDE DEF a
      <4>1. LHSID_of_IRL[j] = Postdot_NSYID_of_AHM(a)
        BY <3>3 DEF a
      <4>2. <<a.irl, 0>> \in P
        BY <3>4
      <4> QED
        BY <1>1, <2>1, <3>2, <3>4, <3>5, <4>1, <4>2, PredictedNextAt
    <3> QED
      BY <1>3, <3>2, <3>6 DEF PredictionsClosed
  <2>4. IRLsSeenAtStart \subseteq C
    <3> HIDE DEF C
    <3>1. C \in SUBSET IRLs
      BY DEF C
    <3> QED
      BY <1>2, <2>2, <2>3, <3>1, SeenAtStart
  <2> QED
    BY <2>4
<1>4. ASSUME NEW i \in IRLsSeenAtStart
      PROVE  InEveryAccount([ahm |-> First_AHM_of_IRL(i), origin |-> 0], 0)'
  <2>1. i \in IRLs
    BY <1>2, SeenAtStart
  <2> SUFFICES ASSUME NEW S, NEW P, Account(S, P)'
               PROVE  [ahm |-> First_AHM_of_IRL(i), origin |-> 0] \in ItemsAt(S, P, 0)
    BY DEF InEveryAccount
  <2>2. SpansClosed(S) /\ PredictionsClosed(S, P) /\ S \in SUBSET SymbolSpans
    BY DEF Account, SpansClosed, PredictionsClosed
  <2>3. <<i, 0>> \in P
    BY <1>3, <2>2
  <2> QED
    BY <1>1, <2>1, <2>2, <2>3, AccountFirst
<1>5. ASSUME NEW e \in Earlemes, NEW y \in yims'[e]
      PROVE  InEveryAccount(y, e)'
  <2>1. e = 0 /\ \E i \in IRLsSeenAtStart : y = [ahm |-> First_AHM_of_IRL(i), origin |-> 0]
    BY <1>1, <1>2 DEF TypeInv, TypeOK, ChartTypeOK
  <2>2. PICK i \in IRLsSeenAtStart : y = [ahm |-> First_AHM_of_IRL(i), origin |-> 0]
    BY <2>1
  <2>3. InEveryAccount([ahm |-> First_AHM_of_IRL(i), origin |-> 0], 0)'
    BY <1>4
  <2> QED
    BY <2>1, <2>2, <2>3, Zenon
<1> QED
  BY <1>2, <1>5 DEF SoundInv

\* A scanned token advances the items that wait for it.
LEMMA ScanSound ==
    ASSUME TypeInv, InputInv, ChartInv, SoundInv, ScanAlternative
    PROVE  SoundInv'
<1> DEFINE a == TopAlternative
           new == {Advance(p) : p \in PIMs(a.start, a.nsy)}
<1>1. /\ alternatives # <<>> /\ current_earleme \in Earlemes /\ a.end = current_earleme
  BY ScanPopsEnd DEF TypeInv, TypeOK, ChartTypeOK, PhasesAgree, ScanAlternative
<1>2. a \in Alternatives /\ a \in tokens
  BY <1>1, PopType DEF TypeInv, TypeOK, ChartInv, StacksAgree, TopAlternative
<1>3. a.start \in Earlemes /\ a.nsy \in NSYs
  BY <1>2 DEF Alternatives
<1>4. /\ UNCHANGED <<lims, tokens, current_earleme>>
      /\ yims' = [yims EXCEPT ![current_earleme] = @ \cup new]
  BY DEF ScanAlternative, clock
<1>5. <<a.nsy, a.start, current_earleme>> \in TokenSpans
  <2>1. a \in {u \in tokens : u.end <= current_earleme}
    BY <1>1, <1>2 DEF Earlemes
  <2> HIDE DEF a
  <2> QED
    BY <1>1, <2>1 DEF TokenSpans
<1> HIDE DEF a
<1>6. ASSUME NEW p \in PIMs(a.start, a.nsy)
      PROVE  InEveryAccount(Advance(p), current_earleme)
  <2> SUFFICES ASSUME NEW S, NEW P, Account(S, P)
               PROVE  Advance(p) \in ItemsAt(S, P, current_earleme)
    BY DEF InEveryAccount
  <2>1. /\ p \in YIMs /\ p \in yims[a.start] /\ Postdot_NSYID_of_AHM(p.ahm) = a.nsy
    BY <1>3, PIMsType DEF PIMs, TypeInv
  <2>2. p \in ItemsAt(S, P, a.start)
    BY <1>3, <2>1 DEF SoundInv, InEveryAccount
  <2>3. S \in SUBSET SymbolSpans /\ <<a.nsy, a.start, current_earleme>> \in S
    BY <1>5 DEF Account, SpansClosed
  <2> QED
    BY <1>1, <1>3, <2>1, <2>2, <2>3, AccountAdvance
<1>7. \A y \in new : InEveryAccount(y, current_earleme)
  BY <1>6
<1> HIDE DEF new
<1> QED
  BY <1>1, <1>4, <1>7, SoundGrows

\* What a completion spans, in every account.
LEMMA CauseSpans ==
    ASSUME TypeInv, ChartInv, SoundInv, pc = "complete", NEW cause \in completion_stack,
           NEW S, NEW P, Account(S, P)
    PROVE  <<LHS_NSYID_of_YIM(cause), cause.origin, current_earleme>> \in S
<1>1. /\ cause \in yims[current_earleme] /\ AHM_is_Completion(cause.ahm)
      /\ current_earleme \in Earlemes /\ cause \in YIMs
  BY CauseFits DEF TypeInv, TypeOK, ChartTypeOK
<1>2. cause \in ItemsAt(S, P, current_earleme) /\ SpansClosed(S)
  BY <1>1 DEF SoundInv, InEveryAccount, Account
<1> QED
  BY <1>1, <1>2, AccountCompletes

\* A cause advances the items that wait for it, or brings the effect of the
\* Leo item that stands for them.
LEMMA CompleteSound ==
    ASSUME TypeInv, ChartInv, SoundInv, CompleteCause
    PROVE  SoundInv'
<1>1. PICK cause \in completion_stack :
         CompleteWithLeo(cause) \/ CompleteWithPredecessors(cause)
  BY DEF CompleteCause
<1> DEFINE lhs == LHS_NSYID_of_YIM(cause)
<1>2. /\ pc = "complete" /\ UNCHANGED <<lims, tokens, current_earleme>>
  BY DEF CompleteCause, clock, input
<1>3. cause.origin \in Earlemes /\ current_earleme \in Earlemes /\ lhs \in NSYs
  BY <1>2, CauseFits
<1>4. \A S, P : Account(S, P) => <<lhs, cause.origin, current_earleme>> \in S
  BY <1>2, CauseSpans
<1> HIDE DEF lhs
<1>5. CASE CompleteWithLeo(cause)
  <2> DEFINE k == <<cause.origin, lhs>>
             effect == [ahm |-> lims[k].top, origin |-> lims[k].origin]
             new == {effect}
  <2>1. k \in DOMAIN lims /\ yims' = [yims EXCEPT ![current_earleme] = @ \cup new]
    BY <1>5 DEF CompleteWithLeo, lhs
  <2>2. LIM_is_Populated(k)
    BY <1>2, <2>1 DEF TypeInv, PhasesAgree
  <2>3. k[2] = lhs /\ k[1] = cause.origin
    OBVIOUS
  <2>4. LimSound(k)
    BY <2>1 DEF SoundInv
  <2>5. InEveryAccount(effect, current_earleme)
    <3> HIDE DEF k
    <3> QED
      BY <1>3, <1>4, <2>2, <2>3, <2>4 DEF InEveryAccount, LimSound
  <2>6. \A y \in new : InEveryAccount(y, current_earleme)
    BY <2>5
  <2> HIDE DEF new
  <2> QED
    BY <1>2, <1>3, <2>1, <2>6, SoundGrows
<1>6. CASE CompleteWithPredecessors(cause)
  <2> DEFINE new == {Advance(p) : p \in PIMs(cause.origin, lhs)}
  <2>1. yims' = [yims EXCEPT ![current_earleme] = @ \cup new]
    BY <1>6 DEF CompleteWithPredecessors, lhs
  <2>2. ASSUME NEW p \in PIMs(cause.origin, lhs)
        PROVE  InEveryAccount(Advance(p), current_earleme)
    <3> SUFFICES ASSUME NEW S, NEW P, Account(S, P)
                 PROVE  Advance(p) \in ItemsAt(S, P, current_earleme)
      BY DEF InEveryAccount
    <3>1. /\ p \in YIMs /\ p \in yims[cause.origin] /\ Postdot_NSYID_of_AHM(p.ahm) = lhs
      BY <1>3, PIMsType DEF PIMs, TypeInv
    <3>2. p \in ItemsAt(S, P, cause.origin)
      BY <1>3, <3>1 DEF SoundInv, InEveryAccount
    <3>3. S \in SUBSET SymbolSpans /\ <<lhs, cause.origin, current_earleme>> \in S
      BY <1>4 DEF Account, SpansClosed
    <3> QED
      BY <1>3, <3>1, <3>2, <3>3, AccountAdvance
  <2>3. \A y \in new : InEveryAccount(y, current_earleme)
    BY <2>2
  <2> HIDE DEF new
  <2> QED
    BY <1>2, <1>3, <2>1, <2>3, SoundGrows
<1> QED
  BY <1>1, <1>5, <1>6

\* Predicted_IRLs_of_AHM of the items of an Earley set are predicted there.
LEMMA PredictSound ==
    ASSUME TypeInv, SoundInv, AddPredictions
    PROVE  SoundInv'
<1> DEFINE predicted == UNION {Predicted_IRLs_of_AHM(y.ahm) : y \in yims[current_earleme]}
           new == {[ahm |-> First_AHM_of_IRL(i), origin |-> current_earleme] : i \in predicted}
<1>1. /\ current_earleme \in Earlemes /\ UNCHANGED <<lims, tokens, current_earleme>>
      /\ yims' = [yims EXCEPT ![current_earleme] = @ \cup new]
  BY DEF AddPredictions, TypeInv, TypeOK, ChartTypeOK, PhasesAgree, clock, input
<1>2. ASSUME NEW i \in predicted
      PROVE  InEveryAccount([ahm |-> First_AHM_of_IRL(i), origin |-> current_earleme], current_earleme)
  <2>1. PICK y \in yims[current_earleme] : i \in Predicted_IRLs_of_AHM(y.ahm)
    OBVIOUS
  <2>2. /\ i \in IRLs /\ <<Postdot_NSYID_of_AHM(y.ahm), LHSID_of_IRL[i]>> \in PredictionMatrix
    BY <2>1 DEF Predicted_IRLs_of_AHM
  <2>3. y \in YIMs
    BY <1>1 DEF TypeInv, TypeOK, ChartTypeOK
  <2>4. Postdot_NSYID_of_AHM(y.ahm) \in NSYs
    BY <2>2, PredictionMatrixType
  <2> SUFFICES ASSUME NEW S, NEW P, Account(S, P)
               PROVE  [ahm |-> First_AHM_of_IRL(i), origin |-> current_earleme]
                         \in ItemsAt(S, P, current_earleme)
    BY DEF InEveryAccount
  <2>5. SpansClosed(S) /\ PredictionsClosed(S, P) /\ S \in SUBSET SymbolSpans
    BY DEF Account, SpansClosed
  <2>6. y \in ItemsAt(S, P, current_earleme)
    BY <1>1 DEF SoundInv, InEveryAccount
  <2>7. <<i, current_earleme>> \in P
    BY <1>1, <2>2, <2>3, <2>4, <2>5, <2>6, AccountPredicts
  <2> QED
    BY <1>1, <2>2, <2>5, <2>7, AccountFirst
<1>3. \A y \in new : InEveryAccount(y, current_earleme)
  BY <1>2
<1> HIDE DEF new
<1> QED
  BY <1>1, <1>3, SoundGrows

\* New Leo items stand for nothing until they are populated.
LEMMA StartLIMsSound ==
    ASSUME TypeInv, SoundInv, StartLIMs
    PROVE  SoundInv'
<1> DEFINE new == IF using_leo
                  THEN {<<current_earleme, n>> : n \in {m \in NSYs : LeoEligible(m)}} ELSE {}
<1>1. /\ UNCHANGED <<yims, tokens, current_earleme>>
      /\ lims' = [k \in DOMAIN lims \cup new |-> IF k \in new THEN NewLIM(k[2]) ELSE lims[k]]
  BY DEF StartLIMs, clock, input
<1>2. \A k \in new : NewLIM(k[2]).origin = NoEarleme
  BY DEF NewLIM
<1> HIDE DEF new
<1>3. \A S, P : Account(S, P)' <=> Account(S, P)
  BY <1>1 DEF Account, TokenSpans, SpansClosed, PredictionsClosed
<1>4. \A e \in Earlemes : \A y \in yims'[e] : InEveryAccount(y, e)'
  BY <1>1, <1>3 DEF SoundInv, InEveryAccount
<1>5. ASSUME NEW k \in DOMAIN lims'
      PROVE  LimSound(k)'
  <2>1. CASE k \in new
    BY <1>1, <1>2, <2>1 DEF LimSound, LIM_is_Populated
  <2>2. CASE k \notin new
    <3>1. k \in DOMAIN lims /\ lims'[k] = lims[k]
      BY <1>1, <2>2
    <3> QED
      BY <1>3, <3>1 DEF SoundInv, LimSound, LIM_is_Populated
  <2> QED
    BY <2>1, <2>2
<1> QED
  BY <1>4, <1>5 DEF SoundInv

\* A populated Leo item stands for its trailhead and for what its predecessor
\* stands for.
LEMMA PopulateSound ==
    ASSUME TypeInv, ChartInv, SoundInv, PopulateLIM
    PROVE  SoundInv'
<1>1. PICK k \in DOMAIN lims :
         ~ LIM_is_Populated(k) /\ (PopulateFromBase(k) \/ PopulateFromPredecessor(k))
  BY DEF PopulateLIM
<1>2. UNCHANGED <<yims, tokens, current_earleme>>
  BY DEF PopulateLIM, clock, input
<1>3. /\ k[1] \in Earlemes /\ k[2] \in NSYs /\ lims[k] \in LIMs
  BY LimsBehind
<1>4. /\ LimJustified(k) /\ LimAgrees(k)
  BY DEF ChartInv, LimsJustified, LimsAgree
<1> DEFINE p == lims[k].trailhead
<1>5. /\ p \in YIMs /\ p \in yims[k[1]] /\ Postdot_NSYID_of_AHM(p.ahm) = k[2]
      /\ AHM_is_Completion(Next_AHM_of_AHM(p.ahm))
  BY <1>3, <1>4 DEF LimJustified, LIMs, Trailhead_AHM_of_LIM, TypeInv, PhasesAgree
<1>6. lims[k].top = Next_AHM_of_AHM(p.ahm)
  BY <1>1, <1>4 DEF LimAgrees, Trailhead_AHM_of_LIM
<1>7. /\ DOMAIN lims' = DOMAIN lims /\ \A j \in DOMAIN lims : j # k => lims'[j] = lims[j]
      /\ \/ lims'[k].top = lims[k].top /\ lims'[k].origin = p.origin
         \/ /\ PredecessorKey(k) \in DOMAIN lims /\ LIM_is_Populated(PredecessorKey(k))
            /\ lims'[k].top = lims[PredecessorKey(k)].top
            /\ lims'[k].origin = lims[PredecessorKey(k)].origin
  <2>1. CASE PopulateFromBase(k)
    BY <1>3, <2>1 DEF PopulateFromBase, LIMs
  <2>2. CASE PopulateFromPredecessor(k)
    BY <1>3, <2>2 DEF PopulateFromPredecessor, LIMs
  <2> QED
    BY <1>1, <2>1, <2>2
<1>8. \A S, P : Account(S, P)' <=> Account(S, P)
  BY <1>2 DEF Account, TokenSpans, SpansClosed, PredictionsClosed
<1>9. \A e \in Earlemes : \A y \in yims'[e] : InEveryAccount(y, e)'
  BY <1>2, <1>8 DEF SoundInv, InEveryAccount
<1>10. p \in YIMs /\ p.origin \in Earlemes /\ LHS_NSYID_of_YIM(p) \in NSYs
  BY <1>5, LHSType DEF YIMs
<1>11. ASSUME NEW S, NEW P, Account(S, P), NEW x \in Earlemes, <<k[2], k[1], x>> \in S
       PROVE  [ahm |-> lims'[k].top, origin |-> lims'[k].origin] \in ItemsAt(S, P, x)
  <2>1. S \in SUBSET SymbolSpans /\ SpansClosed(S)
    BY <1>11 DEF Account, SpansClosed
  <2>2. p \in ItemsAt(S, P, k[1])
    BY <1>3, <1>5, <1>11 DEF SoundInv, InEveryAccount
  <2>3. Advance(p) \in ItemsAt(S, P, x) /\ Advance(p) \in YIMs
    BY <1>3, <1>5, <1>11, <2>1, <2>2, AccountAdvance, AdvanceType
  <2>4. Advance(p).ahm = Next_AHM_of_AHM(p.ahm) /\ Advance(p).origin = p.origin
    BY DEF Advance
  <2>5. CASE lims'[k].top = lims[k].top /\ lims'[k].origin = p.origin
    BY <1>6, <2>3, <2>5 DEF Advance
  <2>6. CASE /\ PredecessorKey(k) \in DOMAIN lims /\ LIM_is_Populated(PredecessorKey(k))
             /\ lims'[k].top = lims[PredecessorKey(k)].top
             /\ lims'[k].origin = lims[PredecessorKey(k)].origin
    <3>1. <<LHS_NSYID_of_YIM(Advance(p)), Advance(p).origin, x>> \in S
      <4>1. AHM_is_Completion(Advance(p).ahm)
        BY <1>5, <2>4
      <4> QED
        BY <2>1, <2>3, <4>1, AccountCompletes
    <3>2. LHS_NSYID_of_YIM(Advance(p)) = LHS_NSYID_of_YIM(p)
      <4>1. p.ahm \in AHMs /\ ~ AHM_is_Completion(p.ahm)
        BY <1>3, <1>5, PostdotMeansNext DEF YIMs
      <4> QED
        BY <2>4, <4>1, NextAHM DEF LHS_NSYID_of_YIM
    <3> DEFINE q == PredecessorKey(k)
    <3>3. q[1] = p.origin /\ q[2] = LHS_NSYID_of_YIM(p)
      BY DEF PredecessorKey
    <3>4. LimSound(q)
      BY <2>6 DEF SoundInv
    <3> HIDE DEF q
    <3>5. [ahm |-> lims[q].top, origin |-> lims[q].origin] \in ItemsAt(S, P, x)
      BY <1>11, <2>4, <2>6, <3>1, <3>2, <3>3, <3>4 DEF LimSound, q
    <3> QED
      BY <2>6, <3>5 DEF q
  <2> QED
    BY <1>7, <2>5, <2>6
<1>12. ASSUME NEW j \in DOMAIN lims'
       PROVE  LimSound(j)'
  <2>1. CASE j = k
    BY <1>8, <1>11, <2>1 DEF LimSound
  <2>2. CASE j # k
    BY <1>7, <1>8, <2>2 DEF SoundInv, LimSound, LIM_is_Populated
  <2> QED
    BY <2>1, <2>2
<1> QED
  BY <1>9, <1>12 DEF SoundInv

\* The calls that leave the items alone.
LEMMA ReadsSound ==
    ASSUME TypeInv, TypeInv', ChartInv, SoundInv,
           Reads \/ Settings \/ PrePopulateCompletions \/ EarlemeCompleteEnds \/ UNCHANGED vars
    PROVE  SoundInv'
<1>1. current_earleme \in Int
  BY DEF TypeInv, TypeOK, ClockTypeOK, Earlemes, NoEarleme
<1>2. CASE UNCHANGED <<yims, lims, tokens, current_earleme>>
  BY <1>1, <1>2, SoundStays
<1>3. CASE StartInputTrivial
  <2>1. UNCHANGED <<yims, lims, tokens>> /\ current_earleme = NoEarleme /\ current_earleme' = 0
    BY <1>3 DEF StartInputTrivial, TypeInv, PhasesAgree
  <2> QED
    BY <2>1, SoundStays DEF NoEarleme
<1>4. CASE StartInput
  BY <1>4, StartInputSound
<1>5. ASSUME NEW x \in XSYs, NEW v \in TokenValues, NEW length \in TokenLengths,
             Alternative(x, v, length)
      PROVE  SoundInv'
  <2>1. UNCHANGED <<yims, lims, current_earleme>> /\ tokens \subseteq tokens'
    BY <1>5 DEF Alternative, chart
  <2> QED
    BY <1>1, <2>1, SoundStays
<1>6. CASE EarlemeCompleteExhausts \/ EarlemeCompleteEmpty \/ EarlemeCompleteBegins
  <2>1. UNCHANGED <<yims, lims, tokens>> /\ current_earleme' = current_earleme + 1
    BY <1>6 DEF EarlemeCompleteExhausts, EarlemeCompleteEmpty, EarlemeCompleteBegins, chart, input
  <2> QED
    BY <1>1, <2>1, SoundStays
<1>7. CASE \E x \in XSYs, v \in TokenValues, length \in TokenLengths :
             AlternativeFails(x, v, length) \/ AlternativeRejected(x, v, length)
  <2>1. UNCHANGED <<yims, lims, tokens, current_earleme>>
    BY <1>7 DEF AlternativeFails, AlternativeRejected, clock, chart, input
  <2> QED
    BY <1>2, <2>1
<1>8. CASE StartInputFails \/ EarlemeCompleteFails \/ CleanFails \/ Clean \/ UNCHANGED vars
  <2>1. UNCHANGED <<yims, lims, tokens, current_earleme>>
    BY <1>8 DEF StartInputFails, EarlemeCompleteFails, CleanFails, Clean, vars, clock, chart, input
  <2> QED
    BY <1>2, <2>1
<1>9. CASE Settings \/ PrePopulateCompletions \/ EarlemeCompleteEnds
  <2>1. UNCHANGED <<yims, lims, tokens, current_earleme>>
    BY <1>9 DEF Settings, SymbolActivate, SymbolDeactivate, ExpectedSymbolEventSet, ZWADefaultSet,
                IsUseLeoSet, WarningThresholdSet, PrePopulateCompletions, EarlemeCompleteEnds,
                clock, chart, input
  <2> QED
    BY <1>2, <2>1
<1> QED
  BY <1>3, <1>4, <1>5, <1>6, <1>7, <1>8, <1>9 DEF Reads

\* Every step of the recognizer keeps its items within the reference account.
LEMMA NextSound ==
    TypeInv /\ TypeInv' /\ InputInv /\ ChartInv /\ SoundInv /\ [Next]_vars => SoundInv'
<1> SUFFICES ASSUME TypeInv, TypeInv', InputInv, ChartInv, SoundInv, [Next]_vars PROVE SoundInv'
  OBVIOUS
<1>1. CASE EarlemeCompleteSteps
  BY <1>1, ScanSound, CompleteSound, PredictSound, StartLIMsSound, PopulateSound, ReadsSound
     DEF EarlemeCompleteSteps
<1>2. CASE Reads \/ Settings \/ UNCHANGED vars
  BY <1>2, ReadsSound
<1> QED
  BY <1>1, <1>2 DEF Next

\* Every item of every Earley set is in every account of the input.
LEMMA SoundAlways == Spec => []SoundInv
<1>1. Init => SoundInv
  BY DEF Init, SoundInv
<1>2. TypeInv /\ TypeInv' /\ InputInv /\ ChartInv /\ SoundInv /\ [Next]_vars => SoundInv'
  BY NextSound
<1> QED
  BY <1>1, <1>2, TypeCorrect, InputCorrect, ChartSound, PTL DEF Spec

-----------------------------------------------------------------------------
(* The chart is complete: what the tokens, the completions and the items that
   wait for a symbol call for has been added, or still will be. *)

\* A token is scanned when the items that wait for it have been advanced.
Scanned(t) == \A p \in PIMs(t.start, t.nsy) : Advance(p) \in yims[t.end]

TokensScanned ==
    \A t \in tokens :
        t.end <= current_earleme /\ (\A i \in DOMAIN alternatives : alternatives[i] # t) => Scanned(t)

\* A completion is finished when a Leo item has been used for it, or the items
\* that wait for its left side have been advanced.
Finished(y, e) ==
    \/ \E l \in leo_links : l.at = e /\ l.cause = y
    \/ \A p \in PIMs(y.origin, LHS_NSYID_of_YIM(y)) : Advance(p) \in yims[e]

Closing == {"idle", "postdot", "populate"}

CompletionsFinished ==
    \A e \in Earlemes : \A y \in yims[e] :
        /\ AHM_is_Completion(y.ahm)
        /\ e < current_earleme \/ pc \in Closing \/ (pc = "complete" /\ y \notin completion_stack)
        => Finished(y, e)

\* Every rule that an item of the Earley set waits for starts there.
PredictionsMade ==
    \A e \in Earlemes : e < current_earleme \/ pc \in Closing =>
        \A y \in yims[e], i \in IRLs : Postdot_NSYID_of_AHM(y.ahm) = LHSID_of_IRL[i] =>
            [ahm |-> First_AHM_of_IRL(i), origin |-> e] \in yims[e]

StartPredicted ==
    ~ G_is_Trivial /\ input_phase # "before" =>
        [ahm |-> First_AHM_of_IRL(StartIRL), origin |-> 0] \in yims[0]

DoneInv ==
    /\ TokensScanned /\ CompletionsFinished
    /\ NoAssertions => PredictionsMade
    /\ StartPredicted

\* The start of input predicts what its items wait for.
LEMMA StartInputDone ==
    ASSUME TypeInv, InputInv, ChartInv, StartInput
    PROVE  DoneInv'
<1> DEFINE set0 == {[ahm |-> First_AHM_of_IRL(i), origin |-> 0] : i \in IRLsSeenAtStart}
<1>1. /\ ~ G_is_Trivial /\ tokens' = {} /\ current_earleme' = 0
      /\ \A e \in Earlemes : yims'[e] = IF e = 0 THEN set0 ELSE {}
  BY BeforeInput DEF StartInput, InputInv, TokensAgree, TypeInv, TypeOK, ChartTypeOK
<1>2. /\ StartIRL \in IRLsSeenAtStart /\ IRLsSeenAtStart \in SUBSET IRLs
      /\ PredictedAtStart[IRLsSeenAtStart] \subseteq IRLsSeenAtStart
  BY <1>1, SeenAtStart
<1>3. 0 \in Earlemes
  BY RecceAssumption DEF Earlemes
<1>4. TokensScanned'
  BY <1>1 DEF TokensScanned
<1>5. CompletionsFinished'
  <2>1. \A i \in IRLsSeenAtStart : ~ AHM_is_Completion(First_AHM_of_IRL(i))
    BY <1>2, FirstAHM
  <2>2. \A e \in Earlemes : \A y \in yims'[e] : ~ AHM_is_Completion(y.ahm)
    <3> SUFFICES ASSUME NEW y \in set0 PROVE ~ AHM_is_Completion(y.ahm)
      BY <1>1
    <3>1. PICK i \in IRLsSeenAtStart : y = [ahm |-> First_AHM_of_IRL(i), origin |-> 0]
      OBVIOUS
    <3> QED
      BY <2>1, <3>1
  <2> QED
    BY <2>2, Zenon DEF CompletionsFinished
<1>6. ASSUME NoAssertions
      PROVE  PredictionsMade'
  <2> SUFFICES ASSUME NEW y \in set0, NEW j \in IRLs,
                      Postdot_NSYID_of_AHM(y.ahm) = LHSID_of_IRL[j]
               PROVE  [ahm |-> First_AHM_of_IRL(j), origin |-> 0] \in set0
    BY <1>1, <1>3 DEF PredictionsMade
  <2>1. PICK i \in IRLsSeenAtStart : y = [ahm |-> First_AHM_of_IRL(i), origin |-> 0]
    OBVIOUS
  <2>2. Postdot_NSYID_of_AHM(First_AHM_of_IRL(i)) = LHSID_of_IRL[j]
    BY <2>1
  <2>3. j \in PredictedAtStart[IRLsSeenAtStart]
    BY <1>2, <1>6, <2>2 DEF PredictedAtStart, NoAssertions, evaluate_zwas
  <2> QED
    BY <1>2, <2>3
<1>7. StartPredicted'
  BY <1>1, <1>2, <1>3 DEF StartPredicted
<1> QED
  BY <1>4, <1>5, <1>6, <1>7 DEF DoneInv

\* The calls that leave the chart alone.
LEMMA QuietDone ==
    ASSUME TypeInv, ChartInv, DoneInv,
           UNCHANGED <<yims, lims, links, completion_stack, current_earleme, alternatives, tokens>>,
           pc' = pc \/ (pc = "populate" /\ pc' = "idle"),
           input_phase' # "before" => input_phase # "before"
    PROVE  DoneInv'
<1>1. \A e, n : PIMs(e, n)' = PIMs(e, n)
  BY DEF PIMs
<1>2. TokensScanned'
  BY <1>1 DEF DoneInv, TokensScanned, Scanned, Advance
<1>3. \A y, e : Finished(y, e)' <=> Finished(y, e)
  BY <1>1 DEF Finished, Advance, LHS_NSYID_of_YIM, links
<1>4. CompletionsFinished'
  BY <1>3 DEF DoneInv, CompletionsFinished, Closing
<1>5. NoAssertions => PredictionsMade'
  BY DEF DoneInv, PredictionsMade, Closing
<1>6. StartPredicted'
  BY DEF DoneInv, StartPredicted
<1> QED
  BY <1>2, <1>4, <1>5, <1>6 DEF DoneInv

\* A new token is still to come.
LEMMA AlternativeDone ==
    ASSUME TypeInv, InputInv, ChartInv, DoneInv,
           NEW x \in XSYs, NEW v \in TokenValues, NEW length \in TokenLengths,
           Alternative(x, v, length)
    PROVE  DoneInv'
<1> DEFINE a == [nsy |-> NSY_of_XSY[x], start |-> current_earleme,
                 end |-> current_earleme + length, value |-> v]
<1>1. a.end = current_earleme + length /\ current_earleme \in Earlemes
      /\ current_earleme < current_earleme + length
  BY NewAlternativeType DEF Alternative
<1>2. tokens' \subseteq tokens \cup {a}
  BY DEF Alternative
<1> HIDE DEF a
<1>3. /\ UNCHANGED <<yims, lims, links, completion_stack, current_earleme, pc, input_phase>>
      /\ pc = "idle"
  BY DEF Alternative, PassesInitialChecks, chart
<1>4. \A e, n : PIMs(e, n)' = PIMs(e, n)
  BY <1>3 DEF PIMs
<1>5. ASSUME NEW t \in tokens', t.end <= current_earleme
      PROVE  Scanned(t)'
  <2>1. current_earleme \in Int /\ current_earleme + length \in Int
    BY RecceAssumption DEF TypeInv, TypeOK, ClockTypeOK, Earlemes, NoEarleme
  <2>2. t \in tokens
    BY <1>1, <1>2, <1>5, <2>1
  <2>3. \A i \in DOMAIN alternatives : alternatives[i] # t
    <3>1. \A u \in tokens : u.end \in Int
      BY InputNumbers
    <3> QED
      BY <1>3, <1>5, <2>1, <2>2, <3>1 DEF InputInv, TokensAgree
  <2>4. Scanned(t)
    BY <1>5, <2>2, <2>3 DEF DoneInv, TokensScanned
  <2> QED
    BY <1>3, <1>4, <2>4 DEF Scanned, Advance
<1>6. TokensScanned'
  BY <1>3, <1>5 DEF TokensScanned
<1>7. \A y, e : Finished(y, e)' <=> Finished(y, e)
  BY <1>3, <1>4 DEF Finished, Advance, LHS_NSYID_of_YIM, links
<1>8. CompletionsFinished'
  BY <1>3, <1>7 DEF DoneInv, CompletionsFinished, Closing
<1>9. NoAssertions => PredictionsMade'
  BY <1>3 DEF DoneInv, PredictionsMade, Closing
<1>10. StartPredicted'
  BY <1>3 DEF DoneInv, StartPredicted
<1> QED
  BY <1>6, <1>8, <1>9, <1>10 DEF DoneInv

\* The next earleme has no items yet, and its tokens are on the stack.
LEMMA EarlemeDone ==
    ASSUME TypeInv, InputInv, ChartInv, DoneInv,
           \/ EarlemeCompleteExhausts \/ EarlemeCompleteEmpty \/ EarlemeCompleteBegins
           \/ StartInputTrivial
    PROVE  DoneInv'
<1>1. /\ current_earleme \in Int /\ current_earleme' = current_earleme + 1
      /\ \A t \in tokens : t.end \in Int
  BY DEF TypeInv, TypeOK, ClockTypeOK, InputTypeOK, Alternatives, Earlemes, NoEarleme,
         EarlemeCompleteExhausts, EarlemeCompleteEmpty, EarlemeCompleteBegins,
         StartInputTrivial, PhasesAgree
<1>2. /\ UNCHANGED <<yims, lims, links, completion_stack, alternatives, tokens>>
      /\ pc = "idle" /\ (input_phase' # "before" => input_phase # "before" \/ G_is_Trivial)
  BY DEF EarlemeCompleteExhausts, EarlemeCompleteEmpty, EarlemeCompleteBegins,
         StartInputTrivial, chart, input
<1>3. \A e, n : PIMs(e, n)' = PIMs(e, n)
  BY <1>2 DEF PIMs
<1>4. \A e \in Earlemes : e > current_earleme => yims[e] = {}
  BY DEF ChartInv, ItemsAgree
<1>5. TokensScanned'
  <2> SUFFICES ASSUME NEW t \in tokens, t.end <= current_earleme',
                      \A i \in DOMAIN alternatives : alternatives[i] # t
               PROVE  Scanned(t)'
    BY <1>2 DEF TokensScanned
  <2>1. ~ (t.end > current_earleme)
    BY DEF InputInv, TokensAgree
  <2>2. Scanned(t)
    BY <1>1, <2>1 DEF DoneInv, TokensScanned
  <2> QED
    BY <1>2, <1>3, <2>2 DEF Scanned, Advance
<1>6. \A y, e : Finished(y, e)' <=> Finished(y, e)
  BY <1>2, <1>3 DEF Finished, Advance, LHS_NSYID_of_YIM, links
<1>7. CompletionsFinished'
  BY <1>2, <1>6 DEF DoneInv, CompletionsFinished, Closing
<1>8. NoAssertions => PredictionsMade'
  BY <1>2 DEF DoneInv, PredictionsMade, Closing
<1>9. StartPredicted'
  BY <1>2 DEF DoneInv, StartPredicted
<1> QED
  BY <1>5, <1>7, <1>8, <1>9 DEF DoneInv

\* Adding items to the current Earley set undoes nothing.
LEMMA DoneGrows ==
    ASSUME TypeInv, TypeInv', ChartInv, ChartInv', current_earleme \in Earlemes,
           NEW new, yims' = [yims EXCEPT ![current_earleme] = @ \cup new],
           UNCHANGED clock, leo_links \subseteq leo_links'
    PROVE  /\ yims'[current_earleme] = yims[current_earleme] \cup new
           /\ \A e \in Earlemes : yims[e] \subseteq yims'[e]
           /\ \A e \in Earlemes : e # current_earleme => yims'[e] = yims[e]
           /\ \A t \in tokens : t.end <= current_earleme /\ Scanned(t) => Scanned(t)'
           /\ \A e \in Earlemes : e <= current_earleme =>
                 \A y \in yims'[e] :
                     AHM_is_Completion(y.ahm) /\ Finished(y, e) => Finished(y, e)'
           /\ DoneInv => StartPredicted'
<1>1. \A e \in Earlemes :
         yims'[e] = IF e = current_earleme THEN yims[e] \cup new ELSE yims[e]
  BY DEF TypeInv, TypeOK, ChartTypeOK
<1>2. \A e \in Earlemes : \A n : e # current_earleme => PIMs(e, n)' = PIMs(e, n)
  BY <1>1 DEF PIMs
<1>3. ASSUME NEW t \in tokens, t.end <= current_earleme, Scanned(t)
      PROVE  Scanned(t)'
  <2>1. t.start \in Earlemes /\ t.end \in Earlemes /\ t.start < t.end
    BY DEF TypeInv, TypeOK, InputTypeOK, Alternatives, ChartInv, StacksAgree
  <2>2. t.start # current_earleme
    BY <1>3, <2>1 DEF Earlemes
  <2> QED
    BY <1>1, <1>2, <1>3, <2>1, <2>2 DEF Scanned, Advance
<1>4. ASSUME NEW e \in Earlemes, e <= current_earleme, NEW y \in yims'[e],
             AHM_is_Completion(y.ahm), Finished(y, e)
      PROVE  Finished(y, e)'
  <2>1. y.origin \in Earlemes /\ y.origin < e
    BY <1>4 DEF TypeInv, TypeOK, ChartTypeOK, YIMs, ChartInv, ItemsAgree, FitsAt
  <2>2. y.origin # current_earleme
    BY <1>4, <2>1 DEF Earlemes
  <2>3. PIMs(y.origin, LHS_NSYID_of_YIM(y))' = PIMs(y.origin, LHS_NSYID_of_YIM(y))
    BY <1>2, <2>1, <2>2 DEF LHS_NSYID_of_YIM
  <2> QED
    BY <1>1, <1>4, <2>3 DEF Finished, Advance, LHS_NSYID_of_YIM
<1>5. DoneInv => StartPredicted'
  <2>1. input_phase' = input_phase /\ 0 \in Earlemes
    BY RecceAssumption DEF clock, Earlemes
  <2> QED
    BY <1>1, <2>1 DEF DoneInv, StartPredicted
<1> QED
  BY <1>1, <1>3, <1>4, <1>5

\* A scanned token's items are in the Earley set.
LEMMA ScanDone ==
    ASSUME TypeInv, TypeInv', InputInv, ChartInv, ChartInv', DoneInv, ScanAlternative
    PROVE  DoneInv'
<1>0. PICK a : a = TopAlternative
  OBVIOUS
<1> DEFINE new == {Advance(p) : p \in PIMs(a.start, a.nsy)}
<1>1. /\ alternatives # <<>> /\ current_earleme \in Earlemes /\ a.end = current_earleme
  BY <1>0, ScanPopsEnd DEF TypeInv, TypeOK, ChartTypeOK, PhasesAgree, ScanAlternative
<1>2. a \in Alternatives /\ a \in tokens /\ a.start \in Earlemes /\ a.start < a.end
  BY <1>0, <1>1, PopType DEF TypeInv, TypeOK, ChartInv, StacksAgree, TopAlternative, Alternatives
<1>3. /\ UNCHANGED <<clock, leo_links, tokens, current_earleme, completion_stack>>
      /\ pc = "scan" /\ pc' = "scan"
      /\ yims' = [yims EXCEPT ![current_earleme] = @ \cup new]
  BY <1>0 DEF ScanAlternative, clock
<1>4. \A i \in DOMAIN alternatives :
         alternatives[i] = a \/ \E j \in DOMAIN alternatives' : alternatives'[j] = alternatives[i]
  <2>1. /\ DOMAIN alternatives = 1 .. Len(alternatives) /\ Len(alternatives) \in Nat
    BY DEF TypeInv, TypeOK, InputTypeOK
  <2>2. /\ DOMAIN alternatives' = 1 .. Len(alternatives) - 1
        /\ \A i \in 1 .. Len(alternatives) - 1 : alternatives'[i] = alternatives[i]
    BY <1>1, PopType DEF ScanAlternative, TypeInv, TypeOK
  <2> QED
    BY <1>0, <2>1, <2>2 DEF TopAlternative
<1>5. /\ yims'[current_earleme] = yims[current_earleme] \cup new
      /\ \A e \in Earlemes : yims[e] \subseteq yims'[e]
      /\ \A e \in Earlemes : e # current_earleme => yims'[e] = yims[e]
      /\ \A t \in tokens : t.end <= current_earleme /\ Scanned(t) => Scanned(t)'
      /\ \A e \in Earlemes : e <= current_earleme =>
            \A y \in yims'[e] :
                AHM_is_Completion(y.ahm) /\ Finished(y, e) => Finished(y, e)'
      /\ StartPredicted'
  <2> HIDE DEF new
  <2> QED
    BY <1>1, <1>3, DoneGrows
<1>6. Scanned(a)'
  <2>1. a.start # current_earleme
    BY <1>1, <1>2 DEF Earlemes
  <2>2. PIMs(a.start, a.nsy)' = PIMs(a.start, a.nsy)
    BY <1>2, <1>5, <2>1 DEF PIMs
  <2>3. \A p \in PIMs(a.start, a.nsy) : Advance(p) \in yims'[a.end]
    BY <1>1, <1>5
  <2> QED
    BY <2>2, <2>3 DEF Scanned, Advance
<1>7. TokensScanned'
  <2> SUFFICES ASSUME NEW t \in tokens, t.end <= current_earleme,
                      \A i \in DOMAIN alternatives' : alternatives'[i] # t
               PROVE  Scanned(t)'
    BY <1>3 DEF TokensScanned
  <2>1. CASE t = a
    BY <1>6, <2>1
  <2>2. CASE t # a
    <3>1. \A i \in DOMAIN alternatives : alternatives[i] # t
      BY <1>4, <2>2
    <3> QED
      BY <1>5, <3>1 DEF DoneInv, TokensScanned
  <2> QED
    BY <2>1, <2>2
<1>8. CompletionsFinished'
  <2> SUFFICES ASSUME NEW e \in Earlemes, NEW y \in yims'[e], AHM_is_Completion(y.ahm),
                      e < current_earleme
               PROVE  Finished(y, e)'
    BY <1>3 DEF CompletionsFinished, Closing
  <2>1. e # current_earleme /\ e <= current_earleme
    BY <1>1 DEF Earlemes
  <2>2. y \in yims[e]
    BY <1>5, <2>1
  <2>3. Finished(y, e)
    BY <2>2 DEF DoneInv, CompletionsFinished
  <2> QED
    BY <1>5, <2>1, <2>3
<1>9. ASSUME NoAssertions
      PROVE  PredictionsMade'
  BY <1>1, <1>3, <1>5, <1>9 DEF DoneInv, PredictionsMade, Closing, Earlemes
<1> QED
  BY <1>5, <1>7, <1>8, <1>9 DEF DoneInv

\* Every completion of the Earley set is put on the stack.
LEMMA PrePopulateDone ==
    ASSUME TypeInv, ChartInv, DoneInv, PrePopulateCompletions
    PROVE  DoneInv'
<1>1. /\ UNCHANGED <<yims, lims, links, current_earleme, alternatives, tokens, input_phase>>
      /\ pc = "scan" /\ pc' = "complete" /\ current_earleme \in Earlemes
      /\ completion_stack' = {y \in yims[current_earleme] : AHM_is_Completion(y.ahm)}
  BY DEF PrePopulateCompletions, clock, input, TypeInv, TypeOK, ChartTypeOK, PhasesAgree
<1>2. \A e, n : PIMs(e, n)' = PIMs(e, n)
  BY <1>1 DEF PIMs
<1>3. TokensScanned'
  BY <1>1, <1>2 DEF DoneInv, TokensScanned, Scanned, Advance
<1>4. \A y, e : Finished(y, e)' <=> Finished(y, e)
  BY <1>1, <1>2 DEF Finished, Advance, LHS_NSYID_of_YIM, links
<1>5. \A e \in Earlemes : e > current_earleme => yims[e] = {}
  BY DEF ChartInv, ItemsAgree
<1>6. CompletionsFinished'
  <2> SUFFICES ASSUME NEW e \in Earlemes, NEW y \in yims[e], AHM_is_Completion(y.ahm),
                      e < current_earleme \/ y \notin completion_stack'
               PROVE  Finished(y, e)
    BY <1>1, <1>4 DEF CompletionsFinished, Closing
  <2>1. e < current_earleme
    BY <1>1, <1>5 DEF Earlemes
  <2> QED
    BY <2>1 DEF DoneInv, CompletionsFinished
<1>7. NoAssertions => PredictionsMade'
  BY <1>1 DEF DoneInv, PredictionsMade, Closing
<1>8. StartPredicted'
  BY <1>1 DEF DoneInv, StartPredicted
<1> QED
  BY <1>3, <1>6, <1>7, <1>8 DEF DoneInv

\* The predictions of the Earley set are closed.
LEMMA PredictDone ==
    ASSUME TypeInv, TypeInv', ChartInv, ChartInv', DoneInv, AddPredictions
    PROVE  DoneInv'
<1> DEFINE predicted == UNION {Predicted_IRLs_of_AHM(y.ahm) : y \in yims[current_earleme]}
           new == {[ahm |-> First_AHM_of_IRL(i), origin |-> current_earleme] : i \in predicted}
<1>1. /\ current_earleme \in Earlemes
      /\ UNCHANGED <<clock, leo_links, tokens, alternatives, current_earleme, completion_stack>>
      /\ yims' = [yims EXCEPT ![current_earleme] = @ \cup new]
      /\ pc = "complete" /\ pc' = "postdot" /\ completion_stack = {}
  BY DEF AddPredictions, TypeInv, TypeOK, ChartTypeOK, PhasesAgree, clock, input, links
<1>2. predicted \subseteq IRLs
  BY DEF Predicted_IRLs_of_AHM
<1>3. /\ yims'[current_earleme] = yims[current_earleme] \cup new
      /\ \A e \in Earlemes : yims[e] \subseteq yims'[e]
      /\ \A e \in Earlemes : e # current_earleme => yims'[e] = yims[e]
      /\ \A t \in tokens : t.end <= current_earleme /\ Scanned(t) => Scanned(t)'
      /\ \A e \in Earlemes : e <= current_earleme =>
            \A y \in yims'[e] :
                AHM_is_Completion(y.ahm) /\ Finished(y, e) => Finished(y, e)'
      /\ StartPredicted'
  <2> HIDE DEF new
  <2> QED
    BY <1>1, DoneGrows
<1>4. \A y \in new : ~ AHM_is_Completion(y.ahm)
  <2> SUFFICES ASSUME NEW i \in predicted
               PROVE  ~ AHM_is_Completion([ahm |-> First_AHM_of_IRL(i), origin |-> current_earleme].ahm)
    OBVIOUS
  <2> QED
    BY <1>2, FirstAHM
<1>5. TokensScanned'
  BY <1>1, <1>3 DEF DoneInv, TokensScanned
<1>6. \A e \in Earlemes : e > current_earleme => yims'[e] = {}
  BY <1>1 DEF ChartInv, ItemsAgree
<1>7. CompletionsFinished'
  <2> SUFFICES ASSUME NEW e \in Earlemes, NEW y \in yims'[e], AHM_is_Completion(y.ahm)
               PROVE  Finished(y, e)'
    BY DEF CompletionsFinished
  <2>1. e <= current_earleme
    BY <1>1, <1>6 DEF Earlemes
  <2>2. y \in yims[e]
    BY <1>3, <1>4
  <2>3. e < current_earleme \/ e = current_earleme
    BY <1>1, <2>1 DEF Earlemes
  <2>4. Finished(y, e)
    BY <1>1, <2>2, <2>3 DEF DoneInv, CompletionsFinished
  <2> QED
    BY <1>3, <2>1, <2>4
<1>8. ASSUME NoAssertions
      PROVE  PredictionsMade'
  <2> SUFFICES ASSUME NEW e \in Earlemes, NEW y \in yims'[e], NEW j \in IRLs,
                      Postdot_NSYID_of_AHM(y.ahm) = LHSID_of_IRL[j]
               PROVE  [ahm |-> First_AHM_of_IRL(j), origin |-> e] \in yims'[e]
    BY DEF PredictionsMade
  <2>1. CASE e # current_earleme
    <3>1. e < current_earleme /\ yims'[e] = yims[e]
      BY <1>1, <1>3, <1>6, <2>1 DEF Earlemes
    <3> QED
      BY <1>8, <3>1 DEF DoneInv, PredictionsMade
  <2>2. CASE e = current_earleme
    <3>1. j \in predicted
      <4>1. CASE y \in yims[e]
        BY <2>2, <4>1, PredictionReflexive DEF Predicted_IRLs_of_AHM
      <4>2. CASE y \in new
        <5>1. PICK i \in predicted : y = [ahm |-> First_AHM_of_IRL(i), origin |-> current_earleme]
          BY <4>2
        <5>2. PICK z \in yims[current_earleme] : i \in Predicted_IRLs_of_AHM(z.ahm)
          OBVIOUS
        <5>3. /\ i \in IRLs /\ <<Postdot_NSYID_of_AHM(z.ahm), LHSID_of_IRL[i]>> \in PredictionMatrix
          BY <5>2 DEF Predicted_IRLs_of_AHM
        <5>4. Postdot_NSYID_of_AHM(z.ahm) \in NSYs
          BY <5>3, PredictionMatrixType
        <5>5. Postdot_NSYID_of_AHM(First_AHM_of_IRL(i)) = LHSID_of_IRL[j]
          BY <5>1
        <5>6. <<Postdot_NSYID_of_AHM(z.ahm), LHSID_of_IRL[j]>> \in PredictionMatrix
          BY <5>3, <5>4, <5>5, PredictionClosed
        <5>7. j \in Predicted_IRLs_of_AHM(z.ahm)
          BY <5>6 DEF Predicted_IRLs_of_AHM
        <5> QED
          BY <5>2, <5>7
      <4> QED
        BY <1>3, <2>2, <4>1, <4>2
    <3> QED
      BY <1>3, <2>2, <3>1
  <2> QED
    BY <2>1, <2>2
<1> QED
  BY <1>3, <1>5, <1>7, <1>8 DEF DoneInv

\* An item that has a source already is in the Earley set already.
LEMMA SourceMeansItem ==
    ASSUME ChartInv, NEW y, ~ HasNoSource(y)
    PROVE  y \in yims[current_earleme]
<1>1. \A l \in token_links : l.yim \in yims[l.at]
  BY DEF ChartInv, LinksJustified, TokenLinkJustified
<1>2. \A l \in completion_links : l.yim \in yims[l.at]
  BY DEF ChartInv, LinksJustified, CompletionLinkJustified
<1>3. \A l \in leo_links : l.yim \in yims[l.at]
  BY DEF ChartInv, LinksJustified, LeoLinkJustified
<1> QED
  BY <1>1, <1>2, <1>3 DEF HasNoSource

\* A cause is finished when it leaves the stack, and a completion that it adds
\* is put on the stack.
LEMMA CompleteDone ==
    ASSUME TypeInv, TypeInv', ChartInv, ChartInv', DoneInv, CompleteCause
    PROVE  DoneInv'
<1>1. PICK cause \in completion_stack :
         CompleteWithLeo(cause) \/ CompleteWithPredecessors(cause)
  BY DEF CompleteCause
<1> DEFINE lhs == LHS_NSYID_of_YIM(cause)
           k == <<cause.origin, lhs>>
<1>2. /\ pc = "complete" /\ pc' = "complete"
      /\ UNCHANGED <<clock, lims, tokens, alternatives, current_earleme>>
      /\ \A e \in Earlemes : e > current_earleme => yims'[e] = {}
  BY DEF CompleteCause, clock, input, ChartInv, ItemsAgree
<1>3. /\ cause.origin \in Earlemes /\ current_earleme \in Earlemes /\ lhs \in NSYs
      /\ cause.origin < current_earleme
  BY <1>2, CauseFits
<1>4. \E new :
         /\ yims' = [yims EXCEPT ![current_earleme] = @ \cup new]
         /\ leo_links \subseteq leo_links'
         /\ \/ \E l \in leo_links' : l.at = current_earleme /\ l.cause = cause
            \/ \A p \in PIMs(cause.origin, lhs) : Advance(p) \in new
         /\ completion_stack' = (completion_stack \ {cause})
               \cup {y \in new : AHM_is_Completion(y.ahm) /\ HasNoSource(y)}
  <2>1. CASE CompleteWithLeo(cause)
    <3> DEFINE effect == [ahm |-> lims[k].top, origin |-> lims[k].origin]
               l == [at |-> current_earleme, yim |-> effect, predecessor |-> k, cause |-> cause]
    <3>1. /\ yims' = [yims EXCEPT ![current_earleme] = @ \cup {effect}]
          /\ leo_links' = leo_links \cup {l} /\ k \in DOMAIN lims
          /\ completion_stack' = (completion_stack \ {cause})
                \cup (IF HasNoSource(effect) THEN {effect} ELSE {})
      BY <2>1 DEF CompleteWithLeo
    <3>2. effect.ahm = lims[k].top /\ l.at = current_earleme /\ l.cause = cause
      OBVIOUS
    <3>3. AHM_is_Completion(effect.ahm)
      BY <3>1, <3>2 DEF ChartInv, LimsAgree, LimAgrees
    <3> HIDE DEF effect, l
    <3>4. {y \in {effect} : AHM_is_Completion(y.ahm) /\ HasNoSource(y)}
             = IF HasNoSource(effect) THEN {effect} ELSE {}
      BY <3>3
    <3> QED
      BY <3>1, <3>2, <3>4
  <2>2. CASE CompleteWithPredecessors(cause)
    BY <2>2 DEF CompleteWithPredecessors
  <2> QED
    BY <1>1, <2>1, <2>2
<1>5. PICK new :
         /\ yims' = [yims EXCEPT ![current_earleme] = @ \cup new]
         /\ leo_links \subseteq leo_links'
         /\ \/ \E l \in leo_links' : l.at = current_earleme /\ l.cause = cause
            \/ \A p \in PIMs(cause.origin, lhs) : Advance(p) \in new
         /\ completion_stack' = (completion_stack \ {cause})
               \cup {y \in new : AHM_is_Completion(y.ahm) /\ HasNoSource(y)}
  BY <1>4
<1>6. /\ yims'[current_earleme] = yims[current_earleme] \cup new
      /\ \A e \in Earlemes : yims[e] \subseteq yims'[e]
      /\ \A e \in Earlemes : e # current_earleme => yims'[e] = yims[e]
      /\ \A t \in tokens : t.end <= current_earleme /\ Scanned(t) => Scanned(t)'
      /\ \A e \in Earlemes : e <= current_earleme =>
            \A y \in yims'[e] :
                AHM_is_Completion(y.ahm) /\ Finished(y, e) => Finished(y, e)'
      /\ StartPredicted'
  BY <1>2, <1>3, <1>5, DoneGrows
<1>7. TokensScanned'
  BY <1>2, <1>6 DEF DoneInv, TokensScanned
<1>8. Finished(cause, current_earleme)'
  <2>1. PIMs(cause.origin, lhs)' = PIMs(cause.origin, lhs)
    BY <1>3, <1>6 DEF PIMs, Earlemes
  <2>2. CASE \E l \in leo_links' : l.at = current_earleme /\ l.cause = cause
    BY <1>2, <2>2 DEF Finished
  <2>3. CASE \A p \in PIMs(cause.origin, lhs) : Advance(p) \in new
    BY <1>2, <1>6, <2>1, <2>3 DEF Finished, Advance, LHS_NSYID_of_YIM
  <2> QED
    BY <1>5, <2>2, <2>3
<1>9. CompletionsFinished'
  <2> SUFFICES ASSUME NEW e \in Earlemes, NEW y \in yims'[e], AHM_is_Completion(y.ahm),
                      e < current_earleme \/ y \notin completion_stack'
               PROVE  Finished(y, e)'
    BY <1>2 DEF CompletionsFinished, Closing
  <2>1. e <= current_earleme
    BY <1>2, <1>3 DEF Earlemes
  <2>2. CASE e < current_earleme
    <3>1. y \in yims[e]
      BY <1>3, <1>6, <2>2 DEF Earlemes
    <3>2. Finished(y, e)
      BY <2>2, <3>1 DEF DoneInv, CompletionsFinished
    <3> QED
      BY <1>6, <2>1, <3>2
  <2>3. CASE e = current_earleme /\ y \notin completion_stack'
    <3>1. CASE y = cause
      BY <1>2, <1>8, <2>3, <3>1 DEF Finished
    <3>2. CASE y # cause
      <4>1. y \notin completion_stack
        BY <1>5, <2>3, <3>2
      <4>2. y \in yims[current_earleme]
        BY <1>5, <1>6, <2>3, SourceMeansItem
      <4>3. Finished(y, e)
        BY <1>2, <2>3, <4>1, <4>2 DEF DoneInv, CompletionsFinished
      <4> QED
        BY <1>6, <2>1, <4>3
    <3> QED
      BY <3>1, <3>2
  <2> QED
    BY <1>3, <2>1, <2>2, <2>3 DEF Earlemes
<1>10. ASSUME NoAssertions
       PROVE  PredictionsMade'
  BY <1>2, <1>3, <1>6, <1>10 DEF DoneInv, PredictionsMade, Closing, Earlemes
<1> QED
  BY <1>6, <1>7, <1>9, <1>10 DEF DoneInv

\* Leo items are none of the matters here.
LEMMA LeoItemsDone ==
    ASSUME TypeInv, ChartInv, DoneInv, StartLIMs \/ PopulateLIM
    PROVE  DoneInv'
<1>1. /\ UNCHANGED <<yims, leo_links, completion_stack, current_earleme, alternatives, tokens, input_phase>>
      /\ pc \in Closing /\ pc' \in Closing
  BY DEF StartLIMs, PopulateLIM, clock, input, links, Closing
<1>2. \A e, n : PIMs(e, n)' = PIMs(e, n)
  BY <1>1 DEF PIMs
<1>3. TokensScanned'
  BY <1>1, <1>2 DEF DoneInv, TokensScanned, Scanned, Advance
<1>4. \A y, e : Finished(y, e)' <=> Finished(y, e)
  BY <1>1, <1>2 DEF Finished, Advance, LHS_NSYID_of_YIM
<1>5. CompletionsFinished'
  BY <1>1, <1>4 DEF DoneInv, CompletionsFinished
<1>6. NoAssertions => PredictionsMade'
  BY <1>1 DEF DoneInv, PredictionsMade
<1>7. StartPredicted'
  BY <1>1 DEF DoneInv, StartPredicted
<1> QED
  BY <1>3, <1>5, <1>6, <1>7 DEF DoneInv

\* The calls that only read the chart.
LEMMA ReadsDone ==
    ASSUME TypeInv, InputInv, ChartInv, DoneInv,
           Reads \/ Settings \/ EarlemeCompleteEnds \/ UNCHANGED vars
    PROVE  DoneInv'
<1>1. CASE StartInput
  BY <1>1, StartInputDone
<1>2. ASSUME NEW x \in XSYs, NEW v \in TokenValues, NEW length \in TokenLengths,
             Alternative(x, v, length)
      PROVE  DoneInv'
  BY <1>2, AlternativeDone
<1>3. CASE \/ EarlemeCompleteExhausts \/ EarlemeCompleteEmpty \/ EarlemeCompleteBegins
           \/ StartInputTrivial
  BY <1>3, EarlemeDone
<1>4. CASE \/ Settings \/ StartInputFails \/ EarlemeCompleteFails \/ CleanFails \/ Clean
           \/ UNCHANGED vars
           \/ \E x \in XSYs, v \in TokenValues, length \in TokenLengths :
                 AlternativeFails(x, v, length) \/ AlternativeRejected(x, v, length)
  <2>1. UNCHANGED <<clock, chart, alternatives, tokens, pc>>
    <3>1. CASE Settings
      BY <3>1 DEF Settings, SymbolActivate, SymbolDeactivate, ExpectedSymbolEventSet,
                  ZWADefaultSet, IsUseLeoSet, WarningThresholdSet, input
    <3>2. CASE \/ StartInputFails \/ EarlemeCompleteFails \/ CleanFails \/ Clean \/ UNCHANGED vars
      BY <3>2 DEF StartInputFails, EarlemeCompleteFails, CleanFails, Clean, vars, input
    <3>3. CASE \E x \in XSYs, v \in TokenValues, length \in TokenLengths :
                 AlternativeFails(x, v, length) \/ AlternativeRejected(x, v, length)
      BY <3>3 DEF AlternativeFails, AlternativeRejected, input
    <3> QED
      BY <1>4, <3>1, <3>2, <3>3
  <2>2. UNCHANGED <<yims, lims, links, completion_stack, current_earleme, alternatives, tokens,
                    pc, input_phase>>
    BY <2>1 DEF clock, chart
  <2> QED
    BY <2>2, QuietDone
<1>5. CASE EarlemeCompleteEnds
  <2>1. /\ UNCHANGED <<yims, lims, links, completion_stack, current_earleme, alternatives, tokens>>
        /\ pc = "populate" /\ pc' = "idle" /\ input_phase # "before"
    BY <1>5 DEF EarlemeCompleteEnds, chart, input, TypeInv, PhasesAgree
  <2> QED
    BY <2>1, QuietDone
<1> QED
  BY <1>1, <1>2, <1>3, <1>4, <1>5 DEF Reads

\* No step of the recognizer leaves anything out.
LEMMA NextDone ==
    /\ TypeInv /\ TypeInv' /\ InputInv /\ ChartInv /\ ChartInv' /\ DoneInv /\ [Next]_vars
    => DoneInv'
<1> SUFFICES ASSUME TypeInv, TypeInv', InputInv, ChartInv, ChartInv', DoneInv, [Next]_vars
             PROVE  DoneInv'
  OBVIOUS
<1>1. CASE EarlemeCompleteSteps
  BY <1>1, ScanDone, PrePopulateDone, CompleteDone, PredictDone, LeoItemsDone, ReadsDone
     DEF EarlemeCompleteSteps
<1>2. CASE Reads \/ Settings \/ UNCHANGED vars
  BY <1>2, ReadsDone
<1> QED
  BY <1>1, <1>2 DEF Next

\* Whatever the chart calls for has been added when its turn is over.
LEMMA DoneAlways == Spec => []DoneInv
<1>1. Init => DoneInv
  <2>1. Init => TokensScanned /\ StartPredicted
    BY DEF Init, TokensScanned, StartPredicted
  <2>2. Init => CompletionsFinished
    BY DEF Init, CompletionsFinished
  <2>3. Init => PredictionsMade
    BY DEF Init, PredictionsMade
  <2> QED
    BY <2>1, <2>2, <2>3 DEF DoneInv
<1>2. /\ TypeInv /\ TypeInv' /\ InputInv /\ ChartInv /\ ChartInv' /\ DoneInv /\ [Next]_vars
      => DoneInv'
  BY NextDone
<1> QED
  BY <1>1, <1>2, TypeCorrect, InputCorrect, ChartSound, PTL DEF Spec

-----------------------------------------------------------------------------
(* Leo paths. *)

\* The path from Leo items has them, the predecessor of each Leo item on it,
\* and no other.
LEMMA LeoPathsAre ==
    ASSUME TypeInv, NEW K \in SUBSET DOMAIN lims
    PROVE  /\ K \subseteq LeoPathsFrom(K) /\ LeoPathsFrom(K) \subseteq DOMAIN lims
           /\ \A k \in LeoPathsFrom(K) :
                 lims[k].predecessor \in DOMAIN lims => lims[k].predecessor \in LeoPathsFrom(K)
           /\ \A C \in SUBSET DOMAIN lims :
                 /\ K \subseteq C
                 /\ \A k \in C : lims[k].predecessor \in DOMAIN lims => lims[k].predecessor \in C
                 => LeoPathsFrom(K) \subseteq C
<1> DEFINE U == DOMAIN lims
           grow == [J \in SUBSET U |-> {k \in U : \E j \in J : lims[j].predecessor = k}]
<1>1. IsFiniteSet(U)
  <2>1. U \subseteq Earlemes \X NSYs
    BY DEF TypeInv, TypeOK, ChartTypeOK
  <2>2. IsFiniteSet(Earlemes \X NSYs)
    BY CarriersFinite, FS_Product
  <2> QED
    BY <2>1, <2>2, FS_Subset
<1>2. grow \in [SUBSET U -> SUBSET U]
  OBVIOUS
<1>3. IsMonotone(U, grow)
  BY DEF IsMonotone
<1>4. LeoPathsFrom(K) = Fixpoint(U, grow, K)
  BY DEF LeoPathsFrom
<1>5. ASSUME NEW C \in SUBSET U
      PROVE  IsClosed(U, grow, C) <=>
                \A k \in C : lims[k].predecessor \in U => lims[k].predecessor \in C
  <2>1. grow[C] = {k \in U : \E j \in C : lims[j].predecessor = k}
    OBVIOUS
  <2> HIDE DEF grow, U
  <2> QED
    BY <2>1 DEF IsClosed
<1> HIDE DEF grow
<1>6. /\ K \subseteq Fixpoint(U, grow, K)
      /\ IsClosed(U, grow, Fixpoint(U, grow, K))
      /\ \A C : IsClosed(U, grow, C) /\ K \subseteq C => Fixpoint(U, grow, K) \subseteq C
  BY <1>1, <1>2, <1>3, FixpointIsLeast
<1>7. LeoPathsFrom(K) \in SUBSET U
  BY <1>4, <1>6 DEF IsClosed
<1> QED
  BY <1>4, <1>5, <1>6, <1>7

\* The Leo items whose paths the Leo links of an Earley set stand for.
LinkedLIMs(e) == {l.predecessor : l \in {m \in leo_links : m.at = e}}

Expanded(e) == yims[e] \cup LeoExpansion(e)

\* A trailhead's completion is the trailhead advanced, and is a completion.
LEMMA TrailheadFacts ==
    ASSUME TypeInv, ChartInv, NEW k \in DOMAIN lims
    PROVE  /\ lims[k].trailhead \in YIMs /\ lims[k].trailhead \in yims[k[1]]
           /\ PIMs(k[1], k[2]) = {lims[k].trailhead}
           /\ Postdot_NSYID_of_AHM(lims[k].trailhead.ahm) = k[2]
           /\ TrailheadCompletion(k) = Advance(lims[k].trailhead)
           /\ TrailheadCompletion(k) \in YIMs /\ AHM_is_Completion(TrailheadCompletion(k).ahm)
           /\ TrailheadCompletion(k).origin = lims[k].trailhead.origin
           /\ PredecessorKey(k) =
                 <<TrailheadCompletion(k).origin, LHS_NSYID_of_YIM(TrailheadCompletion(k))>>
<1>1. LimJustified(k) /\ lims[k] \in LIMs /\ k[1] \in Earlemes /\ k[2] \in NSYs
  BY LimsBehind DEF ChartInv, LimsJustified
<1>2. /\ lims[k].trailhead \in YIMs /\ lims[k].trailhead \in yims[k[1]]
      /\ PIMs(k[1], k[2]) = {lims[k].trailhead}
      /\ Postdot_NSYID_of_AHM(lims[k].trailhead.ahm) = k[2]
  BY <1>1 DEF LimJustified, LIMs, TypeInv, PhasesAgree
<1>3. /\ lims[k].trailhead.ahm \in AHMs /\ ~ AHM_is_Completion(lims[k].trailhead.ahm)
      /\ Advance(lims[k].trailhead) \in YIMs
  BY <1>1, <1>2, PostdotMeansNext, AdvanceType DEF YIMs
<1>4. TrailheadCompletion(k) = Advance(lims[k].trailhead)
  BY DEF TrailheadCompletion, Advance, Trailhead_AHM_of_LIM
<1>5. /\ Advance(lims[k].trailhead).ahm = Trailhead_AHM_of_LIM(k)
      /\ Advance(lims[k].trailhead).origin = lims[k].trailhead.origin
  BY DEF Advance, Trailhead_AHM_of_LIM
<1>6. LHS_NSYID_of_YIM(Advance(lims[k].trailhead)) = LHS_NSYID_of_YIM(lims[k].trailhead)
  BY <1>3, <1>5, NextAHM DEF LHS_NSYID_of_YIM, Trailhead_AHM_of_LIM
<1> QED
  BY <1>1, <1>2, <1>3, <1>4, <1>5, <1>6 DEF LimJustified, PredecessorKey

\* On a path from the Leo links of an Earley set, every Leo item has the
\* links' effect, which is in the set; where the path ends, the effect is the
\* trailhead's completion.
LEMMA LeoPathEffect ==
    ASSUME TypeInv, ChartInv, \A k \in DOMAIN lims : LIM_is_Populated(k), NEW e,
           NEW k \in LeoPathsFrom(LinkedLIMs(e))
    PROVE  /\ k \in DOMAIN lims
           /\ \/ lims[k].predecessor = NoLIM /\ TrailheadCompletion(k) \in yims[e]
              \/ /\ PredecessorKey(k) \in LeoPathsFrom(LinkedLIMs(e))
                 /\ lims[k].predecessor = PredecessorKey(k)
<1> DEFINE effect(j) == [ahm |-> lims[j].top, origin |-> lims[j].origin]
           C == {j \in DOMAIN lims : effect(j) \in yims[e]}
<1>1. LinkedLIMs(e) \subseteq C
  <2> SUFFICES ASSUME NEW l \in leo_links, l.at = e
               PROVE  l.predecessor \in C
    BY DEF LinkedLIMs
  <2>1. LeoLinkJustified(l)
    BY DEF ChartInv, LinksJustified
  <2> QED
    BY <2>1 DEF LeoLinkJustified
<1>2. \A j \in DOMAIN lims : LimJustified(j) /\ LIM_is_Populated(j)
  BY DEF ChartInv, LimsJustified
<1>3. \A j \in C : lims[j].predecessor \in DOMAIN lims => lims[j].predecessor \in C
  <2> SUFFICES ASSUME NEW j \in C, lims[j].predecessor \in DOMAIN lims
               PROVE  lims[j].predecessor \in C
    OBVIOUS
  <2>1. lims[j].predecessor # NoLIM
    BY DEF NoLIM, NoEarleme, TypeInv, TypeOK, ChartTypeOK, Earlemes
  <2>2. /\ lims[j].top = lims[lims[j].predecessor].top
        /\ lims[j].origin = lims[lims[j].predecessor].origin
    BY <1>2, <2>1 DEF LimJustified
  <2> QED
    BY <2>2
<1> HIDE DEF C
<1>4. LinkedLIMs(e) \in SUBSET DOMAIN lims /\ C \in SUBSET DOMAIN lims
  BY <1>1 DEF C
<1>5. k \in C /\ k \in DOMAIN lims
  BY <1>1, <1>3, <1>4, LeoPathsAre
<1>6. CASE lims[k].predecessor = NoLIM
  <2>1. effect(k) = TrailheadCompletion(k)
    BY <1>2, <1>5, <1>6 DEF LimJustified, TrailheadCompletion
  <2> QED
    BY <1>5, <1>6, <2>1 DEF C
<1>7. CASE lims[k].predecessor # NoLIM
  <2>1. lims[k].predecessor = PredecessorKey(k) /\ PredecessorKey(k) \in DOMAIN lims
    BY <1>2, <1>5, <1>7 DEF LimJustified
  <2> QED
    BY <1>4, <1>5, <2>1, LeoPathsAre
<1> QED
  BY <1>5, <1>6, <1>7

\* A Leo expansion has the completions of the trailheads on its paths.
LEMMA LeoExpansionAt ==
    ASSUME NEW e
    PROVE  LeoExpansion(e) = {TrailheadCompletion(k) : k \in LeoPathsFrom(LinkedLIMs(e))}
  BY DEF LeoExpansion, LinkedLIMs

-----------------------------------------------------------------------------
(* Between calls, the chart is that of the reference account. *)

\* The state of a recognizer that has started, between calls, and at the end
\* of a call that has populated its Leo items.
Between ==
    /\ TypeInv /\ InputInv /\ ChartInv /\ SoundInv /\ DoneInv
    /\ pc \in {"idle", "populate"} /\ \A k \in DOMAIN lims : LIM_is_Populated(k)
    /\ input_phase # "before" /\ ~ G_is_Trivial

\* The stretches that the chart accounts for: wherever they start, the items
\* that wait for the symbol have been advanced to where they end, in the
\* chart or behind a Leo item.
Found ==
    {s \in SymbolSpans :
        /\ s[3] <= current_earleme
        /\ \A p \in PIMs(s[2], s[1]) : Advance(p) \in Expanded(s[3])}

PredictedInChart ==
    {q \in Predictions : [ahm |-> First_AHM_of_IRL(q[1]), origin |-> q[2]] \in yims[q[2]]}

\* Behind Leo items there are completions only.
LEMMA ExpansionCompletes ==
    ASSUME TypeInv, ChartInv, NEW e, NEW y \in LeoExpansion(e)
    PROVE  AHM_is_Completion(y.ahm)
<1>1. PICK k \in LeoPathsFrom(LinkedLIMs(e)) : y = TrailheadCompletion(k)
  BY LeoExpansionAt
<1>2. LinkedLIMs(e) \in SUBSET DOMAIN lims
  BY DEF LinkedLIMs, ChartInv, LinksJustified, LeoLinkJustified
<1>3. k \in DOMAIN lims
  BY <1>2, LeoPathsAre
<1> QED
  BY <1>1, <1>3, TrailheadFacts

\* Every item of a rule that the chart predicts is found, where what is
\* before its dot has been.
LEMMA PrefixFound ==
    ASSUME Between, NEW S \in SUBSET Found, NEW a \in AHMs,
           NEW o \in Earlemes, [ahm |-> First_AHM_of_IRL(a.irl), origin |-> o] \in yims[o],
           NEW e \in Earlemes, <<o, e>> \in PrefixSpans(S, a.irl, a.dot)
    PROVE  [ahm |-> a, origin |-> o] \in Expanded(e)
<1> DEFINE irl == a.irl
           L == Len(RHS_of_IRL[irl])
           Right(b) == \A m \in Earlemes : <<o, m>> \in PrefixSpans(S, irl, b.dot) =>
                           [ahm |-> b, origin |-> o] \in Expanded(m)
           Wrong == {d \in Nat : \E b \in AHMs : b.irl = irl /\ b.dot = d /\ ~ Right(b)}
<1>1. irl \in IRLs /\ S \in SUBSET SymbolSpans
  BY AHMParts DEF Found
<1>2. ASSUME NEW b \in AHMs, b.irl = irl, ~ Right(b),
             \A c \in AHMs : c.irl = irl /\ c.dot < b.dot => Right(c)
      PROVE  FALSE
  <2>1. PICK m \in Earlemes : /\ <<o, m>> \in PrefixSpans(S, irl, b.dot)
                              /\ ~ ([ahm |-> b, origin |-> o] \in Expanded(m))
    BY <1>2
  <2>2. CASE b = First_AHM_of_IRL(irl)
    <3>1. <<o, m>> \in Identity
      BY <1>1, <2>1, <2>2, SpansToFirst
    <3>2. o = m
      BY <3>1 DEF Identity
    <3> QED
      BY <2>1, <2>2, <3>2 DEF Expanded
  <2>3. CASE b # First_AHM_of_IRL(irl)
    <3>1. PICK c \in AHMs : /\ c.irl = irl /\ c.dot < b.dot
                            /\ ~ AHM_is_Completion(c) /\ Next_AHM_of_AHM(c) = b
      BY <1>2, <2>3, PositionReached
    <3>2. PICK n \in Earlemes : /\ <<o, n>> \in PrefixSpans(S, irl, c.dot)
                                /\ <<Postdot_NSYID_of_AHM(c), n, m>> \in S
      BY <1>1, <2>1, <3>1, SpansToNext
    <3> DEFINE p == [ahm |-> c, origin |-> o]
    <3>3. p \in Expanded(n)
      BY <1>2, <3>1, <3>2
    <3>4. p \in yims[n]
      BY <3>1, <3>3, ExpansionCompletes DEF Expanded, Between
    <3>5. p \in PIMs(n, Postdot_NSYID_of_AHM(c))
      BY <3>4 DEF PIMs
    <3> DEFINE s == <<Postdot_NSYID_of_AHM(c), n, m>>
    <3>6. s \in Found /\ s[1] = Postdot_NSYID_of_AHM(c) /\ s[2] = n /\ s[3] = m
      BY <3>2
    <3>7. Advance(p) = [ahm |-> b, origin |-> o]
      BY <3>1 DEF Advance
    <3> HIDE DEF p, s
    <3>8. Advance(p) \in Expanded(m)
      BY <3>5, <3>6 DEF Found
    <3> QED
      BY <2>1, <3>7, <3>8
  <2> QED
    BY <2>2, <2>3
<1>3. SUFFICES ASSUME Wrong # {} PROVE FALSE
  <2>1. a.dot \in Nat
    BY <1>1, AHMParts, PositionsRange
  <2> QED
    BY <2>1
<1>4. Wrong \subseteq Nat
  OBVIOUS
<1>5. PICK d \in Wrong : \A n \in Wrong : d <= n
  <2> HIDE DEF Wrong
  <2> QED
    BY <1>3, <1>4, LeastExists
<1>6. PICK b \in AHMs : b.irl = irl /\ b.dot = d /\ ~ Right(b)
  OBVIOUS
<1>7. ASSUME NEW c \in AHMs, c.irl = irl, c.dot < b.dot
      PROVE  Right(c)
  <2>1. c.dot \in Nat /\ b.dot \in Nat
    BY <1>1, <1>6, <1>7, AHMParts, PositionsRange
  <2>2. c.dot \notin Wrong
    <3>1. ~ (b.dot <= c.dot)
      BY <1>7, <2>1
    <3>2. \A n \in Wrong : b.dot <= n
      <4> HIDE DEF Wrong
      <4> QED
        BY <1>5, <1>6
    <3> HIDE DEF Wrong
    <3> QED
      BY <3>1, <3>2
  <2> QED
    BY <1>7, <2>1, <2>2
<1> QED
  BY <1>2, <1>6, <1>7

\* The tokens read are accounted for.
LEMMA TokensFound ==
    ASSUME Between
    PROVE  TokenSpans \subseteq Found
<1> SUFFICES ASSUME NEW t \in tokens, t.end <= current_earleme
             PROVE  <<t.nsy, t.start, t.end>> \in Found
  BY DEF TokenSpans
<1>1. /\ t.nsy \in NSYs /\ t.start \in Earlemes /\ t.end \in Earlemes
  BY DEF Between, TypeInv, TypeOK, InputTypeOK, Alternatives
<1>2. \A i \in DOMAIN alternatives : alternatives[i] # t
  <2>1. current_earleme \in Int
    BY InputNumbers DEF Between
  <2> QED
    BY <1>1, <2>1 DEF Between, InputInv, TokensAgree, Earlemes
<1>3. Scanned(t)
  BY <1>2 DEF Between, DoneInv, TokensScanned
<1> DEFINE s == <<t.nsy, t.start, t.end>>
<1>4. s \in SymbolSpans /\ s[1] = t.nsy /\ s[2] = t.start /\ s[3] = t.end
  BY <1>1 DEF SymbolSpans
<1> HIDE DEF s
<1>5. s \in Found
  BY <1>3, <1>4 DEF Found, Scanned, Expanded
<1> QED
  BY <1>5 DEF s

\* Where a completion is found, the items that wait for its left side have
\* been advanced, in the chart or behind a Leo item.
LEMMA CompletionsFound ==
    ASSUME Between, NEW y \in YIMs, AHM_is_Completion(y.ahm), NEW e \in Earlemes,
           e <= current_earleme, y \in Expanded(e),
           NEW p \in PIMs(y.origin, LHS_NSYID_of_YIM(y))
    PROVE  Advance(p) \in Expanded(e)
<1> DEFINE k == <<y.origin, LHS_NSYID_of_YIM(y)>>
<1>1. /\ TypeInv /\ ChartInv /\ \A j \in DOMAIN lims : LIM_is_Populated(j)
  BY DEF Between, TypeInv, PhasesAgree
<1>2. LinkedLIMs(e) \in SUBSET DOMAIN lims
  BY <1>1 DEF LinkedLIMs, ChartInv, LinksJustified, LeoLinkJustified
<1>3. k[1] = y.origin /\ k[2] = LHS_NSYID_of_YIM(y)
  OBVIOUS
<1>4. ASSUME k \in LeoPathsFrom(LinkedLIMs(e))
      PROVE  Advance(p) \in Expanded(e)
  <2>1. k \in DOMAIN lims
    BY <1>1, <1>2, <1>4, LeoPathsAre
  <2> HIDE DEF k
  <2>2. p = lims[k].trailhead
    BY <1>1, <1>3, <2>1, TrailheadFacts
  <2>3. Advance(p) = TrailheadCompletion(k)
    BY <1>1, <2>1, <2>2, TrailheadFacts
  <2> QED
    BY <1>4, <2>3, LeoExpansionAt DEF Expanded
<1>5. ASSUME y \in yims[e]
      PROVE  Advance(p) \in Expanded(e)
  <2>1. Finished(y, e)
    BY <1>5 DEF Between, DoneInv, CompletionsFinished, Closing
  <2>2. CASE \A q \in PIMs(y.origin, LHS_NSYID_of_YIM(y)) : Advance(q) \in yims[e]
    BY <2>2 DEF Expanded
  <2>3. CASE \E l \in leo_links : l.at = e /\ l.cause = y
    <3>1. PICK l \in leo_links : l.at = e /\ l.cause = y
      BY <2>3
    <3>2. l.predecessor = k
      BY <1>1, <3>1 DEF ChartInv, LinksJustified, LeoLinkJustified
    <3> HIDE DEF k
    <3>3. k \in LinkedLIMs(e)
      BY <3>1, <3>2 DEF LinkedLIMs
    <3> QED
      BY <1>1, <1>2, <1>4, <3>3, LeoPathsAre
  <2> QED
    BY <2>1, <2>2, <2>3 DEF Finished
<1>6. CASE y \in LeoExpansion(e)
  <2>1. PICK j \in LeoPathsFrom(LinkedLIMs(e)) : y = TrailheadCompletion(j)
    BY <1>6, LeoExpansionAt
  <2>2. j \in DOMAIN lims
    BY <1>1, <1>2, LeoPathsAre
  <2>3. PredecessorKey(j) = k
    BY <1>1, <2>1, <2>2, TrailheadFacts
  <2>4. \/ y \in yims[e] \/ k \in LeoPathsFrom(LinkedLIMs(e))
    BY <1>1, <2>1, <2>3, LeoPathEffect
  <2> QED
    BY <1>4, <1>5, <2>4
<1> QED
  BY <1>5, <1>6 DEF Expanded

\* What the chart accounts for is closed under the rules.
LEMMA FoundClosed ==
    ASSUME Between, NoAssertions
    PROVE  SpansClosed(Found)
<1>1. Found \in SUBSET SymbolSpans
  BY DEF Found
<1> SUFFICES ASSUME NEW s \in RuleSpans(Found)
             PROVE  s \in Found
  BY <1>1 DEF SpansClosed
<1>2. PICK i \in IRLs : \E q \in PrefixSpans(Found, i, Len(RHS_of_IRL[i])) :
                            s = <<LHSID_of_IRL[i], q[1], q[2]>>
  BY DEF RuleSpans
<1>3. PICK q \in PrefixSpans(Found, i, Len(RHS_of_IRL[i])) : s = <<LHSID_of_IRL[i], q[1], q[2]>>
  BY <1>2
<1>4. q \in Stretches
  <2>1. Len(RHS_of_IRL[i]) \in 0 .. Len(RHS_of_IRL[i])
    BY PositionsRange
  <2> QED
    BY <1>1, <2>1, PrefixRows
<1>5. PICK m \in Earlemes, e \in Earlemes : q = <<m, e>>
  BY <1>4 DEF Stretches
<1>6. s = <<LHSID_of_IRL[i], m, e>> /\ <<m, e>> \in PrefixSpans(Found, i, Len(RHS_of_IRL[i]))
  BY <1>3, <1>5
<1> DEFINE c == [irl |-> i, dot |-> Len(RHS_of_IRL[i])]
<1>7. c \in AHMs /\ c.irl = i /\ c.dot = Len(RHS_of_IRL[i]) /\ AHM_is_Completion(c)
  BY PositionsRange, AHMsAre DEF AHM_is_Completion
<1> HIDE DEF c
<1>8. e <= current_earleme
  <2>1. c # First_AHM_of_IRL(c.irl)
    BY <1>7, FirstAHM
  <2>2. PICK b \in AHMs : /\ b.irl = i /\ ~ AHM_is_Completion(b) /\ Next_AHM_of_AHM(b) = c
    BY <1>7, <2>1, PositionReached
  <2>3. <<m, e>> \in PrefixSpans(Found, b.irl, Next_AHM_of_AHM(b).dot)
    BY <1>6, <1>7, <2>2
  <2>4. PICK n \in Earlemes : <<Postdot_NSYID_of_AHM(b), n, e>> \in Found
    BY <1>1, <2>2, <2>3, SpansToNext
  <2> QED
    BY <2>4 DEF Found
<1>9. ASSUME NEW p \in PIMs(m, LHSID_of_IRL[i])
      PROVE  Advance(p) \in Expanded(e)
  <2>1. p \in yims[m] /\ Postdot_NSYID_of_AHM(p.ahm) = LHSID_of_IRL[i]
    BY DEF PIMs
  <2>2. [ahm |-> First_AHM_of_IRL(i), origin |-> m] \in yims[m]
    BY <2>1 DEF Between, DoneInv, PredictionsMade, Closing
  <2> DEFINE y == [ahm |-> c, origin |-> m]
  <2>3. y \in Expanded(e)
    BY <1>6, <1>7, <2>2, PrefixFound
  <2>4. y \in YIMs /\ y.ahm = c /\ y.origin = m /\ LHS_NSYID_of_YIM(y) = LHSID_of_IRL[i]
    BY <1>7 DEF YIMs, LHS_NSYID_of_YIM
  <2> HIDE DEF y
  <2> QED
    BY <1>7, <1>8, <2>3, <2>4, CompletionsFound
<1>10. s \in SymbolSpans /\ s[1] = LHSID_of_IRL[i] /\ s[2] = m /\ s[3] = e
  <2>1. LHSID_of_IRL[i] \in NSYs
    BY GrammarAssumption
  <2> QED
    BY <1>6, <2>1 DEF SymbolSpans
<1> QED
  BY <1>8, <1>9, <1>10 DEF Found

\* What the input spans, the chart accounts for.
LEMMA SpansFound ==
    ASSUME Between, NoAssertions
    PROVE  InputSpans \in SUBSET Found /\ InputSpans \in SUBSET SymbolSpans
<1>1. SpansClosed(Found) /\ TokenSpans \subseteq Found
  BY FoundClosed, TokensFound
<1>2. InputSpans \subseteq Found
  BY <1>1, InputSpansLeast DEF Between
<1> QED
  BY <1>2 DEF Found

\* What the reference account predicts, the chart has predicted.
LEMMA PredictionsInChart ==
    ASSUME Between, NoAssertions
    PROVE  PredictedFrom(InputSpans, {<<StartIRL, 0>>}) \subseteq PredictedInChart
<1>1. StartIRL \in IRLs
  BY SeenAtStart DEF Between
<1>2. InputSpans \in SUBSET Found /\ InputSpans \in SUBSET SymbolSpans
  BY SpansFound
<1>3. PredictedInChart \in SUBSET Predictions
  BY DEF PredictedInChart
<1>4. <<StartIRL, 0>> \in PredictedInChart
  <2> DEFINE q == <<StartIRL, 0>>
  <2>1. q \in Predictions /\ q[1] = StartIRL /\ q[2] = 0
    BY <1>1, RecceAssumption DEF Predictions, Earlemes
  <2>2. [ahm |-> First_AHM_of_IRL(StartIRL), origin |-> 0] \in yims[0]
    BY DEF Between, DoneInv, StartPredicted
  <2> HIDE DEF q
  <2>3. q \in PredictedInChart
    BY <2>1, <2>2 DEF PredictedInChart
  <2> QED
    BY <2>3 DEF q
<1>5. ASSUME NEW q \in PredictedNext(InputSpans, PredictedInChart)
      PROVE  q \in PredictedInChart
  <2>1. q \in Predictions
    BY <1>2, PredictedNextType
  <2>2. PICK j \in IRLs, e \in Earlemes : q = <<j, e>>
    BY <2>1 DEF Predictions
  <2>3. PICK a \in AHMs, o \in Earlemes :
           /\ LHSID_of_IRL[j] = Postdot_NSYID_of_AHM(a)
           /\ <<o, e>> \in PrefixSpans(InputSpans, a.irl, a.dot) /\ <<a.irl, o>> \in PredictedInChart
    BY <1>2, <1>5, <2>2, PredictedNextAt
  <2> DEFINE y == [ahm |-> a, origin |-> o]
  <2>4. [ahm |-> First_AHM_of_IRL(a.irl), origin |-> o] \in yims[o]
    BY <2>3 DEF PredictedInChart
  <2>5. y \in Expanded(e)
    BY <1>2, <2>3, <2>4, PrefixFound
  <2>6. y.ahm = a
    OBVIOUS
  <2>7. ~ AHM_is_Completion(a)
    <3>1. Postdot_NSYID_of_AHM(a) \in NSYs
      BY <2>3, GrammarAssumption
    <3> QED
      BY <3>1, PostdotMeansNext
  <2> HIDE DEF y
  <2>8. y \in yims[e]
    BY <2>5, <2>6, <2>7, ExpansionCompletes DEF Expanded, Between
  <2>9. [ahm |-> First_AHM_of_IRL(j), origin |-> e] \in yims[e]
    BY <2>3, <2>6, <2>8 DEF Between, DoneInv, PredictionsMade, Closing
  <2>10. q[1] = j /\ q[2] = e
    BY <2>2
  <2> QED
    BY <2>1, <2>9, <2>10 DEF PredictedInChart
<1>6. PredictionsClosed(InputSpans, PredictedInChart)
  BY <1>3, <1>4, <1>5 DEF PredictionsClosed
<1> QED
  BY <1>1, <1>2, <1>6, PredictedLeast

\* The chart has every item of the reference account, or it is behind a Leo
\* item.
LEMMA ChartComplete ==
    ASSUME Between, NoAssertions, NEW e \in Earlemes
    PROVE  ReferenceItems(e) \subseteq Expanded(e)
<1> SUFFICES ASSUME NEW y \in ReferenceItems(e)
             PROVE  y \in Expanded(e)
  OBVIOUS
<1>1. /\ y \in YIMs /\ <<y.ahm.irl, y.origin>> \in PredictedFrom(InputSpans, {<<StartIRL, 0>>})
      /\ <<y.origin, e>> \in PrefixSpans(InputSpans, y.ahm.irl, y.ahm.dot)
  BY DEF ReferenceItems, ItemsAt
<1>2. y.ahm \in AHMs /\ y.origin \in Earlemes /\ y = [ahm |-> y.ahm, origin |-> y.origin]
  BY <1>1 DEF YIMs
<1>3. [ahm |-> First_AHM_of_IRL(y.ahm.irl), origin |-> y.origin] \in yims[y.origin]
  <2> DEFINE q == <<y.ahm.irl, y.origin>>
  <2>1. q[1] = y.ahm.irl /\ q[2] = y.origin /\ q \in PredictedInChart
    BY <1>1, PredictionsInChart
  <2> HIDE DEF q
  <2> QED
    BY <2>1 DEF PredictedInChart
<1>4. [ahm |-> y.ahm, origin |-> y.origin] \in Expanded(e)
  BY <1>1, <1>2, <1>3, SpansFound, PrefixFound
<1> QED
  BY <1>2, <1>4

\* The reference account is an account of the input.
LEMMA ReferenceIsAccount ==
    ASSUME TypeInv, ~ G_is_Trivial
    PROVE  Account(InputSpans, PredictedFrom(InputSpans, {<<StartIRL, 0>>}))
<1>1. StartIRL \in IRLs
  BY SeenAtStart
<1>2. SpansClosed(InputSpans) /\ TokenSpans \subseteq InputSpans
  BY InputSpansLeast
<1>3. InputSpans \in SUBSET SymbolSpans
  BY <1>2 DEF SpansClosed
<1> QED
  BY <1>1, <1>2, <1>3, PredictedLeast DEF Account

\* What is behind the Leo items belongs to every account.
LEMMA ExpansionSound ==
    ASSUME Between, NEW S, NEW P, Account(S, P), NEW e \in Earlemes
    PROVE  LeoExpansion(e) \subseteq ItemsAt(S, P, e)
<1> DEFINE C == {k \in DOMAIN lims : <<k[2], k[1], e>> \in S}
<1>1. /\ TypeInv /\ ChartInv /\ \A j \in DOMAIN lims : LIM_is_Populated(j)
  BY DEF Between, TypeInv, PhasesAgree
<1>2. LinkedLIMs(e) \in SUBSET DOMAIN lims
  BY <1>1 DEF LinkedLIMs, ChartInv, LinksJustified, LeoLinkJustified
<1>3. SpansClosed(S) /\ S \in SUBSET SymbolSpans
  BY DEF Account, SpansClosed
<1>4. ASSUME NEW x \in Earlemes, NEW y \in yims[x]
      PROVE  y \in ItemsAt(S, P, x)
  BY <1>4 DEF Between, SoundInv, InEveryAccount
<1>5. ASSUME NEW k \in C
      PROVE  TrailheadCompletion(k) \in ItemsAt(S, P, e)
  <2>1. k \in DOMAIN lims /\ <<k[2], k[1], e>> \in S
    OBVIOUS
  <2>2. k[1] \in Earlemes /\ k[2] \in NSYs
    BY <1>3, <2>1 DEF SymbolSpans
  <2>3. lims[k].trailhead \in ItemsAt(S, P, k[1])
    BY <1>1, <1>4, <2>1, <2>2, TrailheadFacts
  <2>4. Advance(lims[k].trailhead) \in ItemsAt(S, P, e)
    BY <1>1, <1>3, <2>1, <2>2, <2>3, TrailheadFacts, AccountAdvance
  <2> QED
    BY <1>1, <2>1, <2>4, TrailheadFacts
<1>6. LinkedLIMs(e) \subseteq C
  <2> SUFFICES ASSUME NEW l \in leo_links, l.at = e
               PROVE  l.predecessor \in C
    BY DEF LinkedLIMs
  <2>1. LeoLinkJustified(l) /\ l.cause \in yims[e] /\ AHM_is_Completion(l.cause.ahm)
    BY <1>1 DEF ChartInv, LinksJustified, LeoLinkJustified
  <2>4. l.cause \in YIMs
    BY <1>1, <2>1 DEF TypeInv, TypeOK, ChartTypeOK
  <2>2. <<LHS_NSYID_of_YIM(l.cause), l.cause.origin, e>> \in S
    BY <1>3, <1>4, <2>1, <2>4, AccountCompletes
  <2>3. l.predecessor = <<l.cause.origin, LHS_NSYID_of_YIM(l.cause)>> /\ l.predecessor \in DOMAIN lims
    BY <2>1 DEF LeoLinkJustified
  <2> QED
    BY <2>2, <2>3
<1>7. ASSUME NEW k \in C, lims[k].predecessor \in DOMAIN lims
      PROVE  lims[k].predecessor \in C
  <2> DEFINE y == TrailheadCompletion(k)
  <2>1. k \in DOMAIN lims
    OBVIOUS
  <2>2. lims[k].predecessor # NoLIM
    BY <1>7, <1>1 DEF NoLIM, NoEarleme, TypeInv, TypeOK, ChartTypeOK, Earlemes
  <2>3. lims[k].predecessor = PredecessorKey(k)
    BY <1>1, <2>1, <2>2 DEF ChartInv, LimsJustified, LimJustified
  <2>4. y \in YIMs /\ AHM_is_Completion(y.ahm) /\ PredecessorKey(k) = <<y.origin, LHS_NSYID_of_YIM(y)>>
    BY <1>1, <2>1, TrailheadFacts
  <2>5. y \in ItemsAt(S, P, e)
    BY <1>5
  <2> HIDE DEF y
  <2>6. <<LHS_NSYID_of_YIM(y), y.origin, e>> \in S
    BY <1>3, <2>4, <2>5, AccountCompletes
  <2> QED
    BY <1>7, <2>3, <2>4, <2>6
<1> HIDE DEF C
<1>8. LeoPathsFrom(LinkedLIMs(e)) \subseteq C
  <2>1. C \in SUBSET DOMAIN lims
    BY DEF C
  <2> QED
    BY <1>1, <1>2, <1>6, <1>7, <2>1, LeoPathsAre
<1> QED
  BY <1>5, <1>8, LeoExpansionAt

\* The chart, with what is behind its Leo items, is that of the reference
\* account, in every Earley set.
LEMMA ChartExact ==
    ASSUME Between, NoAssertions, NEW e \in Earlemes
    PROVE  Expanded(e) = ReferenceItems(e)
<1>1. ReferenceItems(e) \subseteq Expanded(e)
  BY ChartComplete
<1> DEFINE P == PredictedFrom(InputSpans, {<<StartIRL, 0>>})
<1>2. Account(InputSpans, P)
  BY ReferenceIsAccount DEF Between
<1>3. ReferenceItems(e) = ItemsAt(InputSpans, P, e)
  BY DEF ReferenceItems
<1> HIDE DEF P
<1>4. yims[e] \subseteq ItemsAt(InputSpans, P, e)
  BY <1>2 DEF Between, SoundInv, InEveryAccount
<1>5. LeoExpansion(e) \subseteq ItemsAt(InputSpans, P, e)
  BY <1>2, ExpansionSound
<1> QED
  BY <1>1, <1>3, <1>4, <1>5 DEF Expanded

-----------------------------------------------------------------------------
(* What the recognizer promises *)

\* Where it has an Earley set, a recognizer between calls has started.
LEMMA EarleySetMeansStarted ==
    ASSUME TypeInv, InputInv, ChartInv, SoundInv, DoneInv, HasEarleySet
    PROVE  Between /\ current_earleme \in Earlemes
<1>1. current_earleme \in Earlemes
  BY DEF HasEarleySet, TypeInv, TypeOK, ChartTypeOK
<1>2. input_phase # "before"
  BY <1>1 DEF TypeInv, PhasesAgree, NoEarleme, Earlemes
<1>3. \A k \in DOMAIN lims : LIM_is_Populated(k)
  BY DEF HasEarleySet, TypeInv, PhasesAgree
<1> QED
  BY <1>1, <1>2, <1>3 DEF Between, HasEarleySet

\* The chart is exact in every state in which a client can look at it.
LEMMA ExactNow ==
    ASSUME TypeInv, InputInv, ChartInv, SoundInv, DoneInv, NoAssertions
    PROVE  EarleySetsExact
<1> SUFFICES ASSUME HasEarleySet
             PROVE  yims[current_earleme] \cup LeoExpansion(current_earleme) = FullEarleySet
  BY DEF EarleySetsExact
<1>1. PICK e \in Earlemes : e = current_earleme
  BY EarleySetMeansStarted
<1>2. Expanded(e) = ReferenceItems(e)
  BY EarleySetMeansStarted, ChartExact
<1> QED
  BY <1>1, <1>2 DEF Expanded, FullEarleySet

\* The Earley sets are exactly those of the reference account: with the
\* completions that its Leo links stand for, an Earley set has the items whose
\* rule is predicted where they start and whose symbols span the input from
\* there, and no other.  This is what the worklist of
\* marpa_r_earleme_complete, its duplicate detection, its predictions from
\* the transitive closure and the Leo items of postdot_items_create amount
\* to, for every grammar without zero-width assertions and every sequence of
\* calls.
THEOREM EarleySetsAreExact ==
    ASSUME NoAssertions
    PROVE  Spec => []EarleySetsExact
<1>1. TypeInv /\ InputInv /\ ChartInv /\ SoundInv /\ DoneInv => EarleySetsExact
  BY ExactNow
<1> QED
  BY <1>1, TypeCorrect, InputCorrect, ChartSound, SoundAlways, DoneAlways, PTL

\* No item that can still advance is left out for a Leo item, so that the
\* input that can be read next does not depend on where Leo items are used.
THEOREM PredictorsAreKept ==
    ASSUME NoAssertions
    PROVE  Spec => []LeoKeepsPredictors
<1>1. TypeInv /\ InputInv /\ ChartInv /\ SoundInv /\ DoneInv => LeoKeepsPredictors
  <2> SUFFICES ASSUME TypeInv, InputInv, ChartInv, SoundInv, DoneInv, HasEarleySet,
                      NEW y \in FullEarleySet, ~ AHM_is_Completion(y.ahm)
               PROVE  y \in yims[current_earleme]
    BY DEF LeoKeepsPredictors
  <2>1. y \in yims[current_earleme] \/ y \in LeoExpansion(current_earleme)
    BY ExactNow DEF EarleySetsExact
  <2> QED
    BY <2>1, ExpansionCompletes
<1> QED
  BY <1>1, TypeCorrect, InputCorrect, ChartSound, SoundAlways, DoneAlways, PTL

\* The start rule's completion is never left out for a Leo item: nothing waits
\* for the start symbol, so no Leo item is made for it, and a path of Leo
\* items that reaches the start rule ends there.
LEMMA StartNotBehindLeo ==
    ASSUME TypeInv, ChartInv, ~ G_is_Trivial, \A k \in DOMAIN lims : LIM_is_Populated(k),
           NEW e, StartCompletion \in LeoExpansion(e)
    PROVE  StartCompletion \in yims[e]
<1>1. PICK k \in LeoPathsFrom(LinkedLIMs(e)) : StartCompletion = TrailheadCompletion(k)
  BY LeoExpansionAt
<1>2. \/ StartCompletion \in yims[e]
      \/ PredecessorKey(k) \in LeoPathsFrom(LinkedLIMs(e))
  BY <1>1, LeoPathEffect
<1>3. k \in DOMAIN lims /\ LeoPathsFrom(LinkedLIMs(e)) \subseteq DOMAIN lims
  <2>1. LinkedLIMs(e) \in SUBSET DOMAIN lims
    BY DEF LinkedLIMs, ChartInv, LinksJustified, LeoLinkJustified
  <2> QED
    BY <2>1, LeoPathsAre
<1>4. PredecessorKey(k)[2] = LHSID_of_IRL[StartIRL]
  <2>1. PredecessorKey(k) =
          <<TrailheadCompletion(k).origin, LHS_NSYID_of_YIM(TrailheadCompletion(k))>>
    BY <1>3, TrailheadFacts
  <2>2. LHS_NSYID_of_YIM(StartCompletion) = LHSID_of_IRL[StartIRL]
    BY DEF StartCompletion, LHS_NSYID_of_YIM
  <2> QED
    BY <1>1, <2>1, <2>2
<1>5. ASSUME NEW j \in DOMAIN lims, j[2] = LHSID_of_IRL[StartIRL]
      PROVE  FALSE
  <2>1. /\ lims[j].trailhead \in YIMs
        /\ Postdot_NSYID_of_AHM(lims[j].trailhead.ahm) = LHSID_of_IRL[StartIRL]
    BY <1>5, TrailheadFacts
  <2>2. StartIRL \in IRLs
    BY SeenAtStart
  <2> QED
    BY <2>1, <2>2, StartNotPostdot DEF YIMs
<1> QED
  BY <1>2, <1>3, <1>4, <1>5

\* The start rule's completion, which marpa_b_new looks for among the items of
\* the Earley set, is there if and only if the input is recognized.
THEOREM AcceptanceIsExact ==
    ASSUME NoAssertions
    PROVE  Spec => []AcceptanceExact
<1>1. TypeInv /\ InputInv /\ ChartInv /\ SoundInv /\ DoneInv => AcceptanceExact
  <2> SUFFICES ASSUME TypeInv, InputInv, ChartInv, SoundInv, DoneInv, HasEarleySet
               PROVE  StartCompletion \in yims[current_earleme] <=> StartCompletion \in FullEarleySet
    BY DEF AcceptanceExact
  <2>1. yims[current_earleme] \cup LeoExpansion(current_earleme) = FullEarleySet
    BY ExactNow DEF EarleySetsExact
  <2>2. ~ G_is_Trivial /\ \A k \in DOMAIN lims : LIM_is_Populated(k)
    BY DEF HasEarleySet, TypeInv, PhasesAgree
  <2>3. StartCompletion \in LeoExpansion(current_earleme)
        => StartCompletion \in yims[current_earleme]
    BY <2>2, StartNotBehindLeo
  <2> QED
    BY <2>1, <2>3
<1> QED
  BY <1>1, TypeCorrect, InputCorrect, ChartSound, SoundAlways, DoneAlways, PTL


-----------------------------------------------------------------------------
(* Valued status *)

\* No status is locked before marpa_r_start_input sets up the bit vectors.
NothingLockedYet == input_phase = "before" => valued.locked = {}

\* Reading a token changes the status of no other symbol, and that of its own
\* only if it is not locked.
LEMMA ReadKeepsLocked ==
    ASSUME InputTypeOK, NEW x \in XSYs, NEW v, NEW length, PassesInitialChecks(x, v, length)
    PROVE  \A y \in valued.locked :
              /\ y \in valued.valued_terminal <=> y \in valued'.valued_terminal
              /\ y \in valued.unvalued_terminal <=> y \in valued'.unvalued_terminal
              /\ y \in valued'.locked
<1>1. valued' = LockValued(x, v)
  BY DEF PassesInitialChecks
<1>2. CASE HasValuedStatus(x, v)
  BY <1>1, <1>2 DEF LockValued
<1>3. CASE ~ HasValuedStatus(x, v)
  <2>1. x \notin valued.locked
    BY <1>3 DEF PassesInitialChecks, MayChangeStatus
  <2>2. CASE v # 0
    <3>1. valued' = [valued EXCEPT !.valued = @ \cup {x},
                        !.valued_terminal = @ \cup {x}, !.locked = @ \cup {x}]
      BY <1>1, <1>3, <2>2 DEF LockValued
    <3>2. /\ valued'.valued_terminal = valued.valued_terminal \cup {x}
          /\ valued'.unvalued_terminal = valued.unvalued_terminal
          /\ valued'.locked = valued.locked \cup {x}
      BY <3>1 DEF InputTypeOK
    <3> QED
      BY <2>1, <3>2
  <2>3. CASE v = 0
    <3>1. valued' = [valued EXCEPT !.unvalued = @ \cup {x},
                        !.unvalued_terminal = @ \cup {x}, !.locked = @ \cup {x}]
      BY <1>1, <1>3, <2>3 DEF LockValued
    <3>2. /\ valued'.unvalued_terminal = valued.unvalued_terminal \cup {x}
          /\ valued'.valued_terminal = valued.valued_terminal
          /\ valued'.locked = valued.locked \cup {x}
      BY <3>1 DEF InputTypeOK
    <3> QED
      BY <2>1, <3>2
  <2> QED
    BY <2>2, <2>3
<1> QED
  BY <1>2, <1>3

\* Only the start of input and the reading of a token touch the bit vectors.
LEMMA OtherCallsKeepValued ==
    ASSUME [Next]_vars,
           ~ StartInputTrivial, ~ StartInput,
           \A x \in XSYs, v \in TokenValues, length \in TokenLengths :
              ~ AlternativeRejected(x, v, length) /\ ~ Alternative(x, v, length)
    PROVE  UNCHANGED valued
<1>1. CASE EarlemeCompleteSteps
  BY <1>1 DEF EarlemeCompleteSteps, ScanAlternative, PrePopulateCompletions, CompleteCause,
              AddPredictions, StartLIMs, PopulateLIM, EarlemeCompleteEnds, input
<1>2. CASE Reads
  <2>1. CASE StartInputFails
    BY <2>1 DEF StartInputFails, input
  <2>2. CASE \E x \in XSYs, v \in TokenValues, length \in TokenLengths :
                AlternativeFails(x, v, length)
    BY <2>2 DEF AlternativeFails, input
  <2>3. CASE EarlemeCompleteFails \/ EarlemeCompleteExhausts \/ EarlemeCompleteEmpty
             \/ EarlemeCompleteBegins
    BY <2>3 DEF EarlemeCompleteFails, EarlemeCompleteExhausts, EarlemeCompleteEmpty,
                EarlemeCompleteBegins, input
  <2>4. CASE CleanFails \/ Clean
    BY <2>4 DEF CleanFails, Clean, input
  <2> QED
    BY <1>2, <2>1, <2>2, <2>3, <2>4 DEF Reads
<1>3. CASE Settings
  BY <1>3 DEF Settings, SymbolActivate, SymbolDeactivate, ExpectedSymbolEventSet,
              ZWADefaultSet, IsUseLeoSet, WarningThresholdSet, input
<1>4. CASE UNCHANGED vars
  BY <1>4 DEF vars, input
<1> QED
  BY <1>1, <1>2, <1>3, <1>4 DEF Next

\* Input, once started, never starts again.
LEMMA StartedStays ==
    ASSUME [Next]_vars, input_phase' = "before"
    PROVE  /\ input_phase = "before" /\ ~ StartInputTrivial /\ ~ StartInput
           /\ \A x \in XSYs, v \in TokenValues, length \in TokenLengths :
                 ~ AlternativeRejected(x, v, length) /\ ~ Alternative(x, v, length)
<1>1. input_phase = "before"
  <2>1. CASE EarlemeCompleteSteps
    BY <2>1 DEF EarlemeCompleteSteps, ScanAlternative, PrePopulateCompletions, CompleteCause,
                AddPredictions, StartLIMs, PopulateLIM, EarlemeCompleteEnds, clock
  <2>2. CASE Reads
    <3>1. CASE StartInputFails \/ StartInputTrivial \/ StartInput
      BY <3>1 DEF StartInputFails, StartInputTrivial, StartInput, clock
    <3>2. CASE \E x \in XSYs, v \in TokenValues, length \in TokenLengths :
                  \/ AlternativeFails(x, v, length)
                  \/ AlternativeRejected(x, v, length)
                  \/ Alternative(x, v, length)
      <4>1. PICK x \in XSYs, v \in TokenValues, length \in TokenLengths :
                  \/ AlternativeFails(x, v, length)
                  \/ AlternativeRejected(x, v, length)
                  \/ Alternative(x, v, length)
        BY <3>2
      <4>2. CASE AlternativeFails(x, v, length)
        BY <4>2 DEF AlternativeFails, clock
      <4>3. CASE AlternativeRejected(x, v, length)
        BY <4>3 DEF AlternativeRejected, PassesInitialChecks, clock
      <4>4. CASE Alternative(x, v, length)
        BY <4>4 DEF Alternative, PassesInitialChecks
      <4> QED
        BY <4>1, <4>2, <4>3, <4>4
    <3>3. CASE EarlemeCompleteFails \/ EarlemeCompleteExhausts \/ EarlemeCompleteEmpty
               \/ EarlemeCompleteBegins
      BY <3>3 DEF EarlemeCompleteFails, EarlemeCompleteExhausts, EarlemeCompleteEmpty,
                  EarlemeCompleteBegins, clock
    <3>4. CASE CleanFails \/ Clean
      BY <3>4 DEF CleanFails, Clean, clock
    <3> QED
      BY <2>2, <3>1, <3>2, <3>3, <3>4 DEF Reads
  <2>3. CASE Settings
    BY <2>3 DEF Settings, SymbolActivate, SymbolDeactivate, ExpectedSymbolEventSet,
                ZWADefaultSet, IsUseLeoSet, WarningThresholdSet, clock
  <2>4. CASE UNCHANGED vars
    BY <2>4 DEF vars, clock
  <2> QED
    BY <2>1, <2>2, <2>3, <2>4 DEF Next
<1>2. ~ StartInputTrivial /\ ~ StartInput
  BY DEF StartInputTrivial, StartInput
<1>3. \A x \in XSYs, v \in TokenValues, length \in TokenLengths :
         ~ AlternativeRejected(x, v, length) /\ ~ Alternative(x, v, length)
  BY <1>1 DEF AlternativeRejected, Alternative, PassesInitialChecks
<1> QED
  BY <1>1, <1>2, <1>3

\* marpa_r_alternative never changes a locked status: whatever the sequence of
\* reads, the values of a symbol are all of the kind it was locked to.
THEOREM LockedStays == Spec => LockedStatusIsFinal
<1> DEFINE Final ==
      \A x \in valued.locked :
          /\ x \in valued.valued_terminal <=> x \in valued'.valued_terminal
          /\ x \in valued.unvalued_terminal <=> x \in valued'.unvalued_terminal
          /\ x \in valued'.locked
<1>1. Init => NothingLockedYet
  BY DEF Init, NothingLockedYet
<1>2. NothingLockedYet /\ [Next]_vars => NothingLockedYet'
  <2> SUFFICES ASSUME NothingLockedYet, [Next]_vars, input_phase' = "before"
               PROVE  valued'.locked = {}
    BY DEF NothingLockedYet
  <2> QED
    BY StartedStays, OtherCallsKeepValued DEF NothingLockedYet
<1>3. TypeInv /\ NothingLockedYet /\ [Next]_vars => Final
  <2> SUFFICES ASSUME TypeInv, NothingLockedYet, [Next]_vars PROVE Final
    OBVIOUS
  <2>1. CASE StartInputTrivial \/ StartInput
    <3>1. valued.locked = {}
      BY <2>1 DEF StartInputTrivial, StartInput, NothingLockedYet
    <3> QED
      BY <3>1
  <2>2. ASSUME NEW x \in XSYs, NEW v \in TokenValues, NEW length \in TokenLengths,
               AlternativeRejected(x, v, length) \/ Alternative(x, v, length)
        PROVE  Final
    <3>1. PassesInitialChecks(x, v, length) /\ InputTypeOK
      BY <2>2 DEF AlternativeRejected, Alternative, TypeInv, TypeOK
    <3> QED
      BY <3>1, ReadKeepsLocked
  <2>3. CASE UNCHANGED valued
    BY <2>3
  <2> QED
    BY <2>1, <2>2, <2>3, OtherCallsKeepValued
<1> QED
  BY <1>1, <1>2, <1>3, TypeCorrect, PTL DEF Spec, LockedStatusIsFinal

-----------------------------------------------------------------------------
(* Active events *)

\* The declared events are at least as many as those that start out active.
LEMMA CountCoversAtStart == Init => ActiveCountCovers
<1> SUFFICES ASSUME Init,
                    CompletionStartsActive \subseteq CompletionEventXSYs,
                    NulledStartsActive \subseteq NulledEventXSYs,
                    PredictionStartsActive \subseteq PredictionEventXSYs
             PROVE  active_event_count >= Cardinality(active.completion)
                      + Cardinality(active.nulled) + Cardinality(active.prediction)
  BY DEF ActiveCountCovers
<1>1. /\ IsFiniteSet(CompletionEventXSYs) /\ IsFiniteSet(NulledEventXSYs)
      /\ IsFiniteSet(PredictionEventXSYs)
  BY SymbolAssumption, RecceAssumption, SymbolSetsFinite
<1>2. /\ Cardinality(CompletionStartsActive) <= Cardinality(CompletionEventXSYs)
      /\ Cardinality(NulledStartsActive) <= Cardinality(NulledEventXSYs)
      /\ Cardinality(PredictionStartsActive) <= Cardinality(PredictionEventXSYs)
  BY <1>1, FS_Subset
<1>3. /\ Cardinality(CompletionStartsActive) \in Nat /\ Cardinality(CompletionEventXSYs) \in Nat
      /\ Cardinality(NulledStartsActive) \in Nat /\ Cardinality(NulledEventXSYs) \in Nat
      /\ Cardinality(PredictionStartsActive) \in Nat /\ Cardinality(PredictionEventXSYs) \in Nat
  BY SymbolAssumption, RecceAssumption, SymbolSetsFinite
<1>4. /\ active.completion = CompletionStartsActive /\ active.nulled = NulledStartsActive
      /\ active.prediction = PredictionStartsActive
      /\ active_event_count = Cardinality(CompletionEventXSYs)
            + Cardinality(NulledEventXSYs) + Cardinality(PredictionEventXSYs)
  BY DEF Init
<1> QED
  BY <1>2, <1>3, <1>4

\* An activation moves the count exactly as it moves the bits.
LEMMA ActivationCounts ==
    ASSUME SettingsTypeOK, NEW kind \in {"completion", "nulled", "prediction"}, NEW x \in XSYs,
           SymbolActivate(kind, x) \/ SymbolDeactivate(kind, x)
    PROVE  \E d \in {-1, 0, 1} :
              /\ active_event_count' = active_event_count + d
              /\ Cardinality(active'[kind]) = Cardinality(active[kind]) + d
              /\ \A other \in {"completion", "nulled", "prediction"} \ {kind} :
                    active'[other] = active[other]
<1>1. active[kind] \subseteq XSYs /\ active_event_count \in Int
  BY DEF SettingsTypeOK
<1>2. IsFiniteSet(active[kind]) /\ Cardinality(active[kind]) \in Nat
  BY <1>1, SymbolSetsFinite
<1>3. CASE SymbolActivate(kind, x)
  <2>1. active'[kind] = active[kind] \cup {x}
    BY <1>3 DEF SymbolActivate, SettingsTypeOK
  <2>2. \A other \in {"completion", "nulled", "prediction"} \ {kind} :
           active'[other] = active[other]
    BY <1>3 DEF SymbolActivate, SettingsTypeOK
  <2>3. CASE x \in active[kind]
    <3>1. active_event_count' = active_event_count + 0 /\ active'[kind] = active[kind]
      BY <1>3, <2>1, <2>3 DEF SymbolActivate, IsActive
    <3>2. Cardinality(active'[kind]) = Cardinality(active[kind]) + 0
      BY <1>2, <3>1
    <3> QED
      BY <2>2, <3>1, <3>2
  <2>4. CASE x \notin active[kind]
    <3>1. active_event_count' = active_event_count + 1
      BY <1>3, <2>4 DEF SymbolActivate, IsActive
    <3>2. Cardinality(active'[kind]) = Cardinality(active[kind]) + 1
      BY <1>2, <2>1, <2>4, FS_AddElement
    <3> QED
      BY <2>2, <3>1, <3>2
  <2> QED
    BY <2>3, <2>4
<1>4. CASE SymbolDeactivate(kind, x)
  <2>1. active'[kind] = active[kind] \ {x}
    BY <1>4 DEF SymbolDeactivate, SettingsTypeOK
  <2>2. \A other \in {"completion", "nulled", "prediction"} \ {kind} :
           active'[other] = active[other]
    BY <1>4 DEF SymbolDeactivate, SettingsTypeOK
  <2>3. CASE x \notin active[kind]
    <3>1. active_event_count' = active_event_count - 0 /\ active'[kind] = active[kind]
      BY <1>4, <2>1, <2>3 DEF SymbolDeactivate, IsActive
    <3>2. /\ Cardinality(active'[kind]) = Cardinality(active[kind]) + 0
          /\ active_event_count' = active_event_count + 0
      BY <1>1, <1>2, <3>1
    <3> QED
      BY <2>2, <3>2
  <2>4. CASE x \in active[kind]
    <3>1. active_event_count' = active_event_count - 1
      BY <1>4, <2>4 DEF SymbolDeactivate, IsActive
    <3>2. Cardinality(active'[kind]) = Cardinality(active[kind]) - 1
      BY <1>2, <2>1, <2>4, FS_RemoveElement
    <3>3. /\ Cardinality(active'[kind]) = Cardinality(active[kind]) + (-1)
          /\ active_event_count' = active_event_count + (-1)
      BY <1>1, <1>2, <3>1, <3>2
    <3> QED
      BY <2>2, <3>3
  <2> QED
    BY <2>3, <2>4
<1> QED
  BY <1>3, <1>4

\* Nothing but the activations touches the active bits or their count.
LEMMA OtherCallsKeepActive ==
    ASSUME [Next]_vars,
           \A kind \in {"completion", "nulled", "prediction"}, x \in ToggledXSYs :
              ~ SymbolActivate(kind, x) /\ ~ SymbolDeactivate(kind, x)
    PROVE  UNCHANGED <<active, active_event_count>>
<1>1. CASE EarlemeCompleteSteps
  BY <1>1 DEF EarlemeCompleteSteps, ScanAlternative, PrePopulateCompletions, CompleteCause,
              AddPredictions, StartLIMs, PopulateLIM, EarlemeCompleteEnds, settings
<1>2. CASE Reads
  <2>1. ASSUME NEW x \in XSYs, NEW v \in TokenValues, NEW length \in TokenLengths,
               \/ AlternativeFails(x, v, length) \/ AlternativeRejected(x, v, length)
               \/ Alternative(x, v, length)
        PROVE  UNCHANGED <<active, active_event_count>>
    BY <2>1 DEF AlternativeFails, AlternativeRejected, Alternative, settings
  <2>2. CASE StartInputFails \/ StartInputTrivial \/ StartInput
    BY <2>2 DEF StartInputFails, StartInputTrivial, StartInput, settings
  <2>3. CASE \/ EarlemeCompleteFails \/ EarlemeCompleteExhausts \/ EarlemeCompleteEmpty
             \/ EarlemeCompleteBegins \/ CleanFails \/ Clean
    BY <2>3 DEF EarlemeCompleteFails, EarlemeCompleteExhausts, EarlemeCompleteEmpty,
                EarlemeCompleteBegins, CleanFails, Clean, settings
  <2> QED
    BY <1>2, <2>1, <2>2, <2>3 DEF Reads
<1>3. CASE Settings
  BY <1>3 DEF Settings, ExpectedSymbolEventSet, ZWADefaultSet, IsUseLeoSet,
              WarningThresholdSet
<1>4. CASE UNCHANGED vars
  BY <1>4 DEF vars, settings
<1> QED
  BY <1>1, <1>2, <1>3, <1>4 DEF Next

\* However the application turns events off and on, also events that it never
\* declared, marpa_r_earleme_complete skips trigger_events only when no event
\* is active.
THEOREM CountCovers == Spec => []ActiveCountCovers
<1>1. TypeInv /\ ActiveCountCovers /\ [Next]_vars => ActiveCountCovers'
  <2> SUFFICES ASSUME TypeInv, ActiveCountCovers, [Next]_vars PROVE ActiveCountCovers'
    OBVIOUS
  <2>1. ASSUME NEW kind \in {"completion", "nulled", "prediction"}, NEW x \in ToggledXSYs,
               SymbolActivate(kind, x) \/ SymbolDeactivate(kind, x)
        PROVE  ActiveCountCovers'
    <3>1. SettingsTypeOK /\ SettingsTypeOK'
      BY NextType DEF TypeInv, TypeOK
    <3>2. PICK d \in {-1, 0, 1} :
             /\ active_event_count' = active_event_count + d
             /\ Cardinality(active'[kind]) = Cardinality(active[kind]) + d
             /\ \A other \in {"completion", "nulled", "prediction"} \ {kind} :
                   active'[other] = active[other]
      BY <2>1, <3>1, ActivationCounts, RecceAssumption
    <3>3. /\ Cardinality(active.completion) \in Nat /\ Cardinality(active.nulled) \in Nat
          /\ Cardinality(active.prediction) \in Nat /\ active_event_count \in Int
      <4>1. /\ active.completion \subseteq XSYs /\ active.nulled \subseteq XSYs
            /\ active.prediction \subseteq XSYs /\ active_event_count \in Int
        BY <3>1 DEF SettingsTypeOK
      <4> QED
        BY <4>1, SymbolSetsFinite
    <3>4. \/ kind = "completion" /\ active'.nulled = active.nulled
                                 /\ active'.prediction = active.prediction
          \/ kind = "nulled" /\ active'.completion = active.completion
                             /\ active'.prediction = active.prediction
          \/ kind = "prediction" /\ active'.completion = active.completion
                                 /\ active'.nulled = active.nulled
      BY <3>2
    <3>5. Cardinality(active'.completion) + Cardinality(active'.nulled)
             + Cardinality(active'.prediction)
          = Cardinality(active.completion) + Cardinality(active.nulled)
             + Cardinality(active.prediction) + d
      BY <3>2, <3>3, <3>4
    <3> QED
      BY <3>2, <3>3, <3>5 DEF ActiveCountCovers
  <2>2. CASE UNCHANGED <<active, active_event_count>>
    BY <2>2 DEF ActiveCountCovers
  <2> QED
    BY <2>1, <2>2, OtherCallsKeepActive
<1> QED
  BY <1>1, CountCoversAtStart, TypeCorrect, PTL DEF Spec

-----------------------------------------------------------------------------
(* The events behind Leo items: the CIL of a populated Leo item has the AHMs
   with events of the trailheads on its path, all of them and no other. *)

Calls(k) == Event_AHMIDs_of_AHM(Trailhead_AHM_of_LIM(k))

PathClosed(C) ==
    /\ C \in SUBSET DOMAIN lims
    /\ \A j \in C : lims[j].predecessor \in DOMAIN lims => lims[j].predecessor \in C

CilAgrees(k) ==
    /\ lims[k].trailhead.ahm.irl \in LeoIRLs
    /\ LIM_is_Populated(k) =>
          /\ lims[k].top.irl \in LeoIRLs
          /\ <<LHSID_of_IRL[lims[k].top.irl], LHS_NSYID_of_YIM(lims[k].trailhead)>>
                \in RightDerivations(LeoIRLs)
          /\ lims[k].cil \subseteq EventGroup(lims[k].top)
          /\ Calls(k) \subseteq lims[k].cil
          /\ \A p \in DOMAIN lims : lims[k].predecessor = p => lims[p].cil \subseteq lims[k].cil
          /\ \A C : PathClosed(C) /\ k \in C => lims[k].cil \subseteq UNION {Calls(j) : j \in C}

CilsAgree == \A k \in DOMAIN lims : CilAgrees(k)

\* What a Leo item can call is in the event group of every top that derives
\* its trailhead's left side on the right.
LEMMA CallsInGroup ==
    ASSUME TypeInv, ChartInv, NEW k \in DOMAIN lims, CilAgrees(k), NEW top \in AHMs,
           <<LHSID_of_IRL[top.irl], LHS_NSYID_of_YIM(lims[k].trailhead)>>
              \in RightDerivations(LeoIRLs)
    PROVE  Calls(k) \subseteq EventGroup(top)
<1> DEFINE a == Trailhead_AHM_of_LIM(k)
<1>1. /\ lims[k].trailhead.ahm \in AHMs /\ ~ AHM_is_Completion(lims[k].trailhead.ahm)
      /\ AHM_is_Completion(a)
  <2>1. k[2] \in NSYs
    BY LimsBehind
  <2> QED
    BY <2>1, TrailheadFacts, PostdotMeansNext DEF TrailheadCompletion, YIMs
<1>2. a \in AHMs /\ a.irl = lims[k].trailhead.ahm.irl
  BY <1>1, NextAHM DEF Trailhead_AHM_of_LIM
<1>3. AHM_is_Leo_Completion(a)
  BY <1>1, <1>2 DEF CilAgrees, AHM_is_Leo_Completion
<1> QED
  BY <1>2, <1>3 DEF Calls, Event_AHMIDs_of_AHM, EventGroup, LHS_NSYID_of_YIM

\* New Leo items wait to be populated, and change nothing for the others.
LEMMA StartLIMsCils ==
    ASSUME TypeInv, ChartInv, CilsAgree, StartLIMs
    PROVE  CilsAgree'
<1> DEFINE new == IF using_leo
                  THEN {<<current_earleme, n>> : n \in {m \in NSYs : LeoEligible(m)}} ELSE {}
<1>1. lims' = [k \in DOMAIN lims \cup new |-> IF k \in new THEN NewLIM(k[2]) ELSE lims[k]]
  BY DEF StartLIMs
<1>2. \A k \in new : k[1] = current_earleme /\ k[2] \in NSYs /\ LeoEligible(k[2])
  OBVIOUS
<1> HIDE DEF new
<1>3. \A k \in DOMAIN lims : k \notin new /\ LIM_is_Populated(k) /\ CilAgrees(k)
  <2>1. current_earleme \in Int
    BY DEF TypeInv, TypeOK, ClockTypeOK, Earlemes, NoEarleme
  <2> QED
    BY <1>2, <2>1, LimsBehind
       DEF ChartInv, LimsAgree, LimAgrees, CilsAgree, StartLIMs, TypeInv, PhasesAgree, Earlemes
<1>4. DOMAIN lims' = DOMAIN lims \cup new /\ \A k \in DOMAIN lims : lims'[k] = lims[k]
  BY <1>1, <1>3
<1>5. \A k \in DOMAIN lims : Calls(k)' = Calls(k)
  BY <1>4 DEF Calls, Trailhead_AHM_of_LIM
<1>6. \A C : PathClosed(C)' => PathClosed(C \cap DOMAIN lims)
  BY <1>4 DEF PathClosed
<1>7. ASSUME NEW k \in new
      PROVE  CilAgrees(k)'
  <2>1. lims'[k] = NewLIM(k[2]) /\ LeoEligible(k[2])
    BY <1>1, <1>2
  <2>2. PICK y \in PIMs(current_earleme, k[2]) :
           PIMs(current_earleme, k[2]) = {y} /\ y.ahm.irl \in LeoIRLs
    BY <2>1 DEF LeoEligible
  <2>3. lims'[k].trailhead = y /\ lims'[k].origin = NoEarleme
    BY <2>1, <2>2 DEF NewLIM, PIMs
  <2> QED
    BY <2>2, <2>3 DEF CilAgrees, LIM_is_Populated
<1>8. ASSUME NEW k \in DOMAIN lims
      PROVE  CilAgrees(k)'
  <2>1. CilAgrees(k) /\ LIM_is_Populated(k) /\ lims'[k] = lims[k] /\ Calls(k)' = Calls(k)
    BY <1>3, <1>4, <1>5
  <2>2. ASSUME NEW C, PathClosed(C)', k \in C
        PROVE  lims[k].cil \subseteq UNION {Calls(j)' : j \in C}
    <3>1. lims[k].cil \subseteq UNION {Calls(j) : j \in C \cap DOMAIN lims}
      BY <1>6, <2>1, <2>2 DEF CilAgrees
    <3> QED
      BY <1>5, <3>1
  <2>3. ASSUME NEW p \in DOMAIN lims', lims[k].predecessor = p
        PROVE  lims'[p].cil \subseteq lims[k].cil
    <3>1. LimJustified(k) /\ LimAgrees(k) /\ p \in Earlemes \X NSYs
      <4>1. DOMAIN lims' \subseteq Earlemes \X NSYs
        <5>1. current_earleme \in Earlemes
          BY DEF StartLIMs, TypeInv, TypeOK, PhasesAgree, ChartTypeOK
        <5> QED
          BY <1>4, <5>1 DEF TypeInv, TypeOK, ChartTypeOK, new
      <4> QED
        BY <4>1 DEF ChartInv, LimsJustified, LimsAgree
    <3>2. p # NoLIM
      BY <3>1 DEF NoLIM, NoEarleme, Earlemes
    <3>3. p \in DOMAIN lims
      BY <2>1, <2>3, <3>1, <3>2 DEF LimJustified
    <3> QED
      BY <1>4, <2>1, <2>3, <3>3 DEF CilAgrees
  <2> QED
    BY <2>1, <2>2, <2>3 DEF CilAgrees, LIM_is_Populated
<1> QED
  BY <1>4, <1>7, <1>8 DEF CilsAgree

\* Populating a Leo item gives it the calls of its path: it adds its own to
\* those of its predecessor, or leaves them out where the predecessor has the
\* whole event group, which they are in.
LEMMA PopulateCils ==
    ASSUME TypeInv, ChartInv, CilsAgree, PopulateLIM
    PROVE  CilsAgree'
<1>1. PICK k \in DOMAIN lims :
         ~ LIM_is_Populated(k) /\ (PopulateFromBase(k) \/ PopulateFromPredecessor(k))
  BY DEF PopulateLIM
<1>2. /\ lims[k] \in LIMs /\ k[1] \in Earlemes /\ k[2] \in NSYs
      /\ CilAgrees(k) /\ LimAgrees(k) /\ LimJustified(k)
  BY LimsBehind DEF ChartInv, LimsAgree, LimsJustified, CilsAgree
<1> DEFINE p == PredecessorKey(k)
<1>3. /\ DOMAIN lims' = DOMAIN lims
      /\ \A j \in DOMAIN lims : j # k => lims'[j] = lims[j]
      /\ lims'[k].trailhead = lims[k].trailhead
      /\ \/ /\ lims'[k].top = lims[k].top /\ lims'[k].predecessor = lims[k].predecessor
            /\ lims'[k].cil = Calls(k)
         \/ /\ p \in DOMAIN lims /\ LIM_is_Populated(p)
            /\ lims'[k].top = lims[p].top /\ lims'[k].predecessor = p
            /\ lims'[k].cil = lims[p].cil \cup
                  IF Event_Group_Size_of_AHM(lims[p].top) > Cardinality(lims[p].cil)
                  THEN Calls(k) ELSE {}
  <2>1. CASE PopulateFromBase(k)
    BY <1>2, <2>1 DEF PopulateFromBase, LIMs, Calls
  <2>2. CASE PopulateFromPredecessor(k)
    BY <1>2, <2>2 DEF PopulateFromPredecessor, LIMs, Calls
  <2> QED
    BY <1>1, <2>1, <2>2
<1>4. /\ lims[k].predecessor = NoLIM /\ NoLIM \notin DOMAIN lims
      /\ lims[k].top = Trailhead_AHM_of_LIM(k)
  BY <1>1, <1>2 DEF LimAgrees, NoLIM, NoEarleme, Earlemes, TypeInv, TypeOK, ChartTypeOK
<1>5. \A j \in DOMAIN lims : Calls(j)' = Calls(j)
  BY <1>3 DEF Calls, Trailhead_AHM_of_LIM
<1>6. \A C : PathClosed(C)' => PathClosed(C)
  BY <1>3, <1>4 DEF PathClosed
<1>7. /\ lims[k].trailhead.ahm.irl \in LeoIRLs /\ lims[k].trailhead.ahm \in AHMs
      /\ ~ AHM_is_Completion(lims[k].trailhead.ahm)
      /\ Trailhead_AHM_of_LIM(k) \in AHMs
      /\ Trailhead_AHM_of_LIM(k).irl = lims[k].trailhead.ahm.irl
  <2>1. /\ lims[k].trailhead.ahm \in AHMs /\ ~ AHM_is_Completion(lims[k].trailhead.ahm)
    BY <1>2, TrailheadFacts, PostdotMeansNext DEF YIMs
  <2> QED
    BY <1>2, <2>1, NextAHM DEF Trailhead_AHM_of_LIM, CilAgrees
<1>8. /\ lims'[k].top \in AHMs /\ lims'[k].top.irl \in LeoIRLs
      /\ <<LHSID_of_IRL[lims'[k].top.irl], LHS_NSYID_of_YIM(lims[k].trailhead)>>
            \in RightDerivations(LeoIRLs)
  <2>1. CASE lims'[k].top = lims[k].top
    BY <1>4, <1>7, <2>1, LeoIsRecursive DEF LHS_NSYID_of_YIM
  <2>2. CASE p \in DOMAIN lims /\ LIM_is_Populated(p) /\ lims'[k].top = lims[p].top
    <3> DEFINE b == lims[p].trailhead.ahm
    <3>1. CilAgrees(p) /\ lims[p] \in LIMs /\ p[2] \in NSYs
      BY <2>2, LimsBehind DEF CilsAgree
    <3>2. /\ b \in AHMs /\ ~ AHM_is_Completion(b) /\ AHM_is_Completion(Next_AHM_of_AHM(b))
          /\ Postdot_NSYID_of_AHM(b) = p[2]
      BY <2>2, <3>1, TrailheadFacts, PostdotMeansNext
         DEF YIMs, TrailheadCompletion, Trailhead_AHM_of_LIM
    <3>3. LastProperSymbol(b.irl) = LHS_NSYID_of_YIM(lims[k].trailhead)
      BY <3>2, PostdotIsLast DEF PredecessorKey
    <3>4. <<LHSID_of_IRL[b.irl], LastProperSymbol(b.irl)>> \in RightDerivations(LeoIRLs)
      BY <3>1, LeoIsRecursive DEF CilAgrees
    <3>5. /\ lims[p].top \in AHMs /\ lims[p].top.irl \in LeoIRLs
          /\ <<LHSID_of_IRL[lims[p].top.irl], LHSID_of_IRL[b.irl]>> \in RightDerivations(LeoIRLs)
      BY <2>2, <3>1 DEF CilAgrees, LIMs, LHS_NSYID_of_YIM
    <3>6. IsTransitive(RightDerivations(LeoIRLs))
      BY RightDerivationsAre DEF LeoIRLs
    <3>7. /\ LHSID_of_IRL[lims[p].top.irl] \in NSYs /\ LHSID_of_IRL[b.irl] \in NSYs
          /\ LastProperSymbol(b.irl) \in NSYs
      BY <3>2, <3>5, AHMParts, LastProperType, GrammarAssumption
    <3> HIDE DEF b, p
    <3>8. <<LHSID_of_IRL[lims[p].top.irl], LastProperSymbol(b.irl)>> \in RightDerivations(LeoIRLs)
      BY <3>4, <3>5, <3>6, <3>7 DEF IsTransitive
    <3> QED
      BY <2>2, <3>3, <3>5, <3>8
  <2> QED
    BY <1>3, <2>1, <2>2
<1>9. Calls(k) \subseteq EventGroup(lims'[k].top)
  <2> PICK top \in AHMs : top = lims'[k].top
    BY <1>8
  <2> QED
    BY <1>2, <1>8, CallsInGroup
<1>10. /\ lims'[k].cil \subseteq EventGroup(lims'[k].top) /\ Calls(k) \subseteq lims'[k].cil
       /\ \/ lims'[k].predecessor = NoLIM /\ lims'[k].cil = Calls(k)
          \/ /\ p \in DOMAIN lims /\ LIM_is_Populated(p) /\ lims'[k].predecessor = p
             /\ lims[p].cil \subseteq lims'[k].cil
             /\ lims'[k].cil \subseteq lims[p].cil \cup Calls(k)
  <2>1. CASE lims'[k].cil = Calls(k) /\ lims'[k].predecessor = lims[k].predecessor
    BY <1>4, <1>9, <2>1
  <2>2. CASE /\ p \in DOMAIN lims /\ LIM_is_Populated(p)
             /\ lims'[k].top = lims[p].top /\ lims'[k].predecessor = p
             /\ lims'[k].cil = lims[p].cil \cup
                   IF Event_Group_Size_of_AHM(lims[p].top) > Cardinality(lims[p].cil)
                   THEN Calls(k) ELSE {}
    <3> HIDE DEF p
    <3>1. CilAgrees(p) /\ LimAgrees(p)
      BY <2>2 DEF CilsAgree, ChartInv, LimsAgree
    <3>2. lims[p].cil \subseteq EventGroup(lims[p].top) /\ AHM_is_Leo_Completion(lims[p].top)
      BY <2>2, <3>1 DEF CilAgrees, LimAgrees, AHM_is_Leo_Completion
    <3>3. CASE Event_Group_Size_of_AHM(lims[p].top) > Cardinality(lims[p].cil)
      BY <1>9, <2>2, <3>2, <3>3
    <3>4. CASE ~ (Event_Group_Size_of_AHM(lims[p].top) > Cardinality(lims[p].cil))
      <4>1. lims[p].cil = EventGroup(lims[p].top)
        BY <1>8, <2>2, <3>2, <3>4, GroupIsFull
      <4> QED
        BY <1>9, <2>2, <3>2, <3>4, <4>1
    <3> QED
      BY <3>3, <3>4
  <2> QED
    BY <1>3, <2>1, <2>2
<1> HIDE DEF p
<1>11. CilAgrees(k)'
  <2>1. ASSUME NEW q \in DOMAIN lims, lims'[k].predecessor = q
        PROVE  lims'[q].cil \subseteq lims'[k].cil
    BY <1>1, <1>3, <1>4, <1>10, <2>1
  <2>2. ASSUME NEW C, PathClosed(C)', k \in C
        PROVE  lims'[k].cil \subseteq UNION {Calls(j)' : j \in C}
    <3>1. PathClosed(C) /\ C \subseteq DOMAIN lims /\ \A j \in C : Calls(j)' = Calls(j)
      BY <1>5, <1>6, <2>2 DEF PathClosed
    <3>2. CASE lims'[k].cil = Calls(k)
      BY <2>2, <3>1, <3>2
    <3>3. CASE /\ p \in DOMAIN lims /\ LIM_is_Populated(p) /\ lims'[k].predecessor = p
               /\ lims'[k].cil \subseteq lims[p].cil \cup Calls(k)
      <4>1. p \in C
        BY <1>3, <2>2, <3>3 DEF PathClosed
      <4>2. lims[p].cil \subseteq UNION {Calls(j) : j \in C}
        BY <3>1, <3>3, <4>1 DEF CilsAgree, CilAgrees
      <4> QED
        BY <2>2, <3>1, <3>3, <4>2
    <3> QED
      BY <1>10, <3>2, <3>3
  <2>3. Calls(k)' = Calls(k) /\ LHS_NSYID_of_YIM(lims'[k].trailhead) = LHS_NSYID_of_YIM(lims[k].trailhead)
    BY <1>3, <1>5
  <2> QED
    BY <1>3, <1>7, <1>8, <1>10, <2>1, <2>2, <2>3 DEF CilAgrees
<1>12. ASSUME NEW j \in DOMAIN lims, j # k
       PROVE  CilAgrees(j)'
  <2>1. lims'[j] = lims[j] /\ CilAgrees(j)
    BY <1>3, <1>12 DEF CilsAgree
  <2>2. ASSUME LIM_is_Populated(j), NEW q \in DOMAIN lims, lims[j].predecessor = q
        PROVE  q # k /\ lims'[q].cil = lims[q].cil
    <3>1. LimJustified(j)
      BY DEF ChartInv, LimsJustified
    <3>2. LIM_is_Populated(q)
      BY <1>4, <2>2, <3>1 DEF LimJustified
    <3> QED
      BY <1>1, <1>3, <3>2
  <2>3. ASSUME LIM_is_Populated(j), NEW C, PathClosed(C)', j \in C
        PROVE  lims[j].cil \subseteq UNION {Calls(i)' : i \in C}
    <3>1. PathClosed(C) /\ C \subseteq DOMAIN lims /\ \A i \in C : Calls(i)' = Calls(i)
      BY <1>5, <1>6, <2>3 DEF PathClosed
    <3> QED
      BY <2>1, <2>3, <3>1 DEF CilAgrees
  <2>4. Calls(j)' = Calls(j)
    BY <1>5
  <2> QED
    BY <1>3, <2>1, <2>2, <2>3, <2>4 DEF CilAgrees, LIM_is_Populated
<1> QED
  BY <1>3, <1>11, <1>12 DEF CilsAgree

\* Only the making and the populating of Leo items touches them.
LEMMA OtherCallsKeepLims ==
    ASSUME [Next]_vars, ~ StartLIMs, ~ PopulateLIM
    PROVE  UNCHANGED lims
<1>1. CASE EarlemeCompleteSteps
  <2>1. CASE CompleteCause
    BY <2>1 DEF CompleteCause
  <2> QED
    BY <1>1, <2>1 DEF EarlemeCompleteSteps, ScanAlternative, PrePopulateCompletions,
                      AddPredictions, EarlemeCompleteEnds, chart
<1>2. CASE Reads
  <2>1. ASSUME NEW x \in XSYs, NEW v \in TokenValues, NEW length \in TokenLengths,
               \/ AlternativeFails(x, v, length) \/ AlternativeRejected(x, v, length)
               \/ Alternative(x, v, length)
        PROVE  UNCHANGED lims
    BY <2>1 DEF AlternativeFails, AlternativeRejected, Alternative, chart
  <2>2. CASE StartInputFails \/ StartInputTrivial \/ StartInput
    BY <2>2 DEF StartInputFails, StartInputTrivial, StartInput, chart
  <2>3. CASE \/ EarlemeCompleteFails \/ EarlemeCompleteExhausts \/ EarlemeCompleteEmpty
             \/ EarlemeCompleteBegins \/ CleanFails \/ Clean
    BY <2>3 DEF EarlemeCompleteFails, EarlemeCompleteExhausts, EarlemeCompleteEmpty,
                EarlemeCompleteBegins, CleanFails, Clean, chart
  <2> QED
    BY <1>2, <2>1, <2>2, <2>3 DEF Reads
<1>3. CASE Settings
  BY <1>3 DEF Settings, SymbolActivate, SymbolDeactivate, ExpectedSymbolEventSet,
              ZWADefaultSet, IsUseLeoSet, WarningThresholdSet, chart
<1>4. CASE UNCHANGED vars
  BY <1>4 DEF vars, chart
<1> QED
  BY <1>1, <1>2, <1>3, <1>4 DEF Next

\* Every populated Leo item has the calls of its path.
LEMMA CilsAlways == Spec => []CilsAgree
<1>1. Init => CilsAgree
  BY DEF Init, CilsAgree
<1>2. TypeInv /\ ChartInv /\ CilsAgree /\ [Next]_vars => CilsAgree'
  <2> SUFFICES ASSUME TypeInv, ChartInv, CilsAgree, [Next]_vars PROVE CilsAgree'
    OBVIOUS
  <2>1. CASE UNCHANGED lims
    <3>1. \A C : PathClosed(C)' <=> PathClosed(C)
      BY <2>1 DEF PathClosed
    <3>2. \A k : Calls(k)' = Calls(k)
      BY <2>1 DEF Calls, Trailhead_AHM_of_LIM
    <3>3. ASSUME NEW k \in DOMAIN lims
          PROVE  CilAgrees(k)'
      BY <2>1, <3>1, <3>2 DEF CilsAgree, CilAgrees, LIM_is_Populated
    <3> QED
      BY <2>1, <3>3 DEF CilsAgree
  <2> QED
    BY <2>1, StartLIMsCils, PopulateCils, OtherCallsKeepLims
<1> QED
  BY <1>1, <1>2, TypeCorrect, ChartSound, PTL DEF Spec

-----------------------------------------------------------------------------
(* The events of an Earley set *)

\* A recognizer that takes input has a grammar with rules, and the earlemes
\* that marpa_r_earleme_complete completes come after the first.
BusyInv ==
    /\ input_phase = "during" => ~ G_is_Trivial
    /\ pc # "idle" => current_earleme # 0

LEMMA BusyAlways == Spec => []BusyInv
<1>1. Init => BusyInv
  BY DEF Init, BusyInv
<1>2. TypeInv /\ BusyInv /\ [Next]_vars => BusyInv'
  <2> SUFFICES ASSUME TypeInv, BusyInv, [Next]_vars PROVE BusyInv'
    OBVIOUS
  <2>1. CASE EarlemeCompleteSteps
    <3>1. /\ input_phase' = "during" => input_phase = "during"
          /\ pc # "idle" /\ current_earleme' = current_earleme
      <4>1. CASE CompleteCause
        BY <4>1 DEF CompleteCause, clock
      <4> QED
        BY <2>1, <4>1 DEF EarlemeCompleteSteps, ScanAlternative, PrePopulateCompletions,
                          AddPredictions, StartLIMs, PopulateLIM, EarlemeCompleteEnds, clock
    <3> QED
      BY <3>1 DEF BusyInv
  <2>2. CASE StartInput
    BY <2>2 DEF StartInput, BusyInv
  <2>3. CASE EarlemeCompleteBegins
    <3>1. current_earleme \in Earlemes /\ current_earleme' = current_earleme + 1
      BY <2>3 DEF EarlemeCompleteBegins, TypeInv, PhasesAgree
    <3>2. current_earleme' # 0
      BY <3>1 DEF Earlemes
    <3> QED
      BY <2>3, <3>2 DEF EarlemeCompleteBegins, BusyInv
  <2>4. CASE pc' = "idle" /\ (input_phase' = "during" => input_phase = "during")
    BY <2>4 DEF BusyInv
  <2>5. CASE \E x \in XSYs, v \in TokenValues, length \in TokenLengths :
                \/ AlternativeFails(x, v, length) \/ AlternativeRejected(x, v, length)
                \/ Alternative(x, v, length)
    <3>1. pc' = "idle" /\ input_phase' = input_phase
      BY <2>5 DEF AlternativeFails, AlternativeRejected, Alternative, PassesInitialChecks, clock
    <3> QED
      BY <2>4, <3>1
  <2>6. CASE \/ StartInputFails \/ StartInputTrivial \/ EarlemeCompleteFails
             \/ EarlemeCompleteExhausts \/ EarlemeCompleteEmpty \/ CleanFails \/ Clean
    <3>1. pc' = "idle" /\ (input_phase' = "during" => input_phase = "during")
      BY <2>6 DEF StartInputFails, StartInputTrivial, EarlemeCompleteFails,
                  EarlemeCompleteExhausts, EarlemeCompleteEmpty, CleanFails, Clean, clock
    <3> QED
      BY <2>4, <3>1
  <2>7. CASE Settings
    <3>1. pc' = "idle" /\ input_phase' = input_phase
      BY <2>7 DEF Settings, SymbolActivate, SymbolDeactivate, ExpectedSymbolEventSet,
                  ZWADefaultSet, IsUseLeoSet, WarningThresholdSet, clock
    <3> QED
      BY <2>4, <3>1
  <2>8. CASE UNCHANGED vars
    BY <2>8 DEF vars, clock, BusyInv
  <2> QED
    BY <2>1, <2>2, <2>3, <2>5, <2>6, <2>7, <2>8 DEF Next, Reads
<1> QED
  BY <1>1, <1>2, TypeCorrect, PTL DEF Spec

\* The CILs of the Leo links of an Earley set have the calls of the Leo items
\* that the links stand for.
LEMMA LinkedCils ==
    ASSUME TypeInv, ChartInv, CilsAgree, \A k \in DOMAIN lims : LIM_is_Populated(k), NEW e
    PROVE  UNION {lims[k].cil : k \in LinkedLIMs(e)}
           = UNION {Calls(k) : k \in LeoPathsFrom(LinkedLIMs(e))}
<1> DEFINE K == LinkedLIMs(e)
           cils == UNION {lims[k].cil : k \in K}
<1>1. K \in SUBSET DOMAIN lims
  BY DEF LinkedLIMs, ChartInv, LinksJustified, LeoLinkJustified
<1>2. PathClosed(LeoPathsFrom(K)) /\ K \subseteq LeoPathsFrom(K)
  BY <1>1, LeoPathsAre DEF PathClosed
<1>3. \A k \in DOMAIN lims : CilAgrees(k) /\ LIM_is_Populated(k)
  BY DEF CilsAgree
<1> HIDE DEF K
<1>4. cils \subseteq UNION {Calls(k) : k \in LeoPathsFrom(K)}
  <2> SUFFICES ASSUME NEW k \in K
               PROVE  lims[k].cil \subseteq UNION {Calls(j) : j \in LeoPathsFrom(K)}
    OBVIOUS
  <2>1. k \in DOMAIN lims /\ CilAgrees(k) /\ LIM_is_Populated(k) /\ k \in LeoPathsFrom(K)
    BY <1>1, <1>2, <1>3
  <2> QED
    BY <1>2, <2>1 DEF CilAgrees
<1>5. \A k \in LeoPathsFrom(K) : Calls(k) \subseteq cils
  <2> DEFINE C == {k \in DOMAIN lims : lims[k].cil \subseteq cils}
  <2>1. K \subseteq C
    BY <1>1
  <2>2. \A k \in C : lims[k].predecessor \in DOMAIN lims => lims[k].predecessor \in C
    <3> SUFFICES ASSUME NEW k \in DOMAIN lims, lims[k].cil \subseteq cils,
                        NEW p \in DOMAIN lims, lims[k].predecessor = p
                 PROVE  lims[p].cil \subseteq cils
      OBVIOUS
    <3>1. lims[p].cil \subseteq lims[k].cil
      BY <1>3 DEF CilAgrees
    <3> QED
      BY <3>1
  <2>3. \A k \in C : Calls(k) \subseteq cils
    BY <1>3 DEF CilAgrees
  <2>4. C \in SUBSET DOMAIN lims
    OBVIOUS
  <2> HIDE DEF C, cils
  <2>5. LeoPathsFrom(K) \subseteq C
    BY <1>1, <2>1, <2>2, <2>4, LeoPathsAre
  <2> QED
    BY <2>3, <2>5
<1> QED
  BY <1>4, <1>5 DEF K

\* The AHMs that trigger events are those of the full Earley set that have any.
LEMMA EventAHMsAre ==
    ASSUME TypeInv, ChartInv, CilsAgree, \A k \in DOMAIN lims : LIM_is_Populated(k), NEW e
    PROVE  EventAHMs(yims[e], e) = {a \in {y.ahm : y \in Expanded(e)} : AHM_has_Event(a)}
<1> DEFINE path == LeoPathsFrom(LinkedLIMs(e))
<1>1. EventAHMs(yims[e], e)
      = {y.ahm : y \in {i \in yims[e] : AHM_has_Event(i.ahm)}}
        \cup UNION {lims[k].cil : k \in LinkedLIMs(e)}
  BY DEF EventAHMs, LinkedLIMs
<1>2. UNION {lims[k].cil : k \in LinkedLIMs(e)} = UNION {Calls(k) : k \in path}
  BY LinkedCils
<1> HIDE DEF path
<1>3. UNION {Calls(k) : k \in path} = {a \in {y.ahm : y \in LeoExpansion(e)} : AHM_has_Event(a)}
  <2>1. LeoExpansion(e) = {TrailheadCompletion(k) : k \in path}
    BY LeoExpansionAt DEF path
  <2>2. \A k \in path : TrailheadCompletion(k).ahm = Trailhead_AHM_of_LIM(k)
    BY DEF TrailheadCompletion
  <2>3. {y.ahm : y \in LeoExpansion(e)} = {Trailhead_AHM_of_LIM(k) : k \in path}
    BY <2>1, <2>2
  <2> QED
    BY <2>3 DEF Calls, Event_AHMIDs_of_AHM
<1> QED
  BY <1>1, <1>2, <1>3 DEF Expanded

\* What trigger_events makes of an Earley set is what the full set calls for.
LEMMA TriggersAreCalled ==
    ASSUME Between, CilsAgree, NoAssertions, current_earleme \in Earlemes, current_earleme # 0
    PROVE  trigger_events(yims[current_earleme], current_earleme) = CalledFor(FullEarleySet)
<1> PICK e \in Earlemes : e = current_earleme
  OBVIOUS
<1> DEFINE ahms == EventAHMs(yims[e], e)
           full == {y.ahm : y \in FullEarleySet}
<1>1. FullEarleySet = Expanded(e)
  BY ChartExact DEF FullEarleySet
<1>2. ahms = {a \in full : AHM_has_Event(a)}
  <2>1. ahms = {a \in {y.ahm : y \in Expanded(e)} : AHM_has_Event(a)}
    BY EventAHMsAre DEF Between
  <2> QED
    BY <1>1, <2>1
<1>3. /\ UNION {Completion_XSYIDs_of_AHM(y.ahm) : y \in FullEarleySet}
         = UNION {Completion_XSYIDs_of_AHM(a) : a \in full}
      /\ UNION {Nulled_XSYIDs_of_AHM(y.ahm) : y \in FullEarleySet}
         = UNION {Nulled_XSYIDs_of_AHM(a) : a \in full}
      /\ UNION {Prediction_XSYIDs_of_AHM(y.ahm) : y \in FullEarleySet}
         = UNION {Prediction_XSYIDs_of_AHM(a) : a \in full}
  OBVIOUS
<1> HIDE DEF ahms, full
<1>4. /\ UNION {Completion_XSYIDs_of_AHM(a) : a \in full}
         = UNION {Completion_XSYIDs_of_AHM(a) : a \in ahms}
      /\ UNION {Nulled_XSYIDs_of_AHM(a) : a \in full}
         = UNION {Nulled_XSYIDs_of_AHM(a) : a \in ahms}
      /\ UNION {Prediction_XSYIDs_of_AHM(a) : a \in full}
         = UNION {Prediction_XSYIDs_of_AHM(a) : a \in ahms}
  <2>1. \A a \in full : a \notin ahms =>
           /\ Completion_XSYIDs_of_AHM(a) = {} /\ Nulled_XSYIDs_of_AHM(a) = {}
           /\ Prediction_XSYIDs_of_AHM(a) = {}
    BY <1>2 DEF AHM_has_Event
  <2>2. ahms \subseteq full
    BY <1>2
  <2> QED
    BY <2>1, <2>2
<1>5. trigger_events(yims[e], e)
      = {<<"COMPLETED", x>> : x \in (UNION {Completion_XSYIDs_of_AHM(a) : a \in ahms})
                                        \cap active.completion}
        \cup {<<"NULLED", x>> : x \in (UNION {Nulled_XSYIDs_of_AHM(a) : a \in ahms})
                                        \cap active.nulled}
        \cup {<<"PREDICTED", x>> : x \in (UNION {Prediction_XSYIDs_of_AHM(a) : a \in ahms})
                                        \cap active.prediction}
  BY DEF trigger_events, ahms
<1> QED
  BY <1>3, <1>4, <1>5 DEF CalledFor

\* As long as only declared events start out active.
DeclaredStartActive ==
    /\ CompletionStartsActive \subseteq CompletionEventXSYs
    /\ NulledStartsActive \subseteq NulledEventXSYs
    /\ PredictionStartsActive \subseteq PredictionEventXSYs

\* With a count of zero, no event is active and none is called for.
LEMMA NoneCalled ==
    ASSUME TypeInv, ActiveCountCovers, DeclaredStartActive, ~ (active_event_count > 0), NEW items
    PROVE  CalledFor(items) = {}
<1>1. /\ active.completion \subseteq XSYs /\ active.nulled \subseteq XSYs
      /\ active.prediction \subseteq XSYs /\ active_event_count \in Int
  BY DEF TypeInv, TypeOK, SettingsTypeOK
<1>2. /\ IsFiniteSet(active.completion) /\ IsFiniteSet(active.nulled)
      /\ IsFiniteSet(active.prediction)
      /\ Cardinality(active.completion) \in Nat /\ Cardinality(active.nulled) \in Nat
      /\ Cardinality(active.prediction) \in Nat
  BY <1>1, SymbolSetsFinite
<1>3. active_event_count >= Cardinality(active.completion) + Cardinality(active.nulled)
                               + Cardinality(active.prediction)
  BY DEF ActiveCountCovers, DeclaredStartActive
<1>4. /\ Cardinality(active.completion) = 0 /\ Cardinality(active.nulled) = 0
      /\ Cardinality(active.prediction) = 0
  BY <1>1, <1>2, <1>3
<1>5. active.completion = {} /\ active.nulled = {} /\ active.prediction = {}
  BY <1>2, <1>4, FS_EmptySet
<1> QED
  BY <1>5 DEF CalledFor

\* The other events of a completed earleme are of other kinds.
LEMMA OtherKinds ==
    ASSUME TypeInv, NEW items, NEW trigger
    PROVE  /\ ExpectedEvents(items) \cap ({"COMPLETED", "NULLED", "PREDICTED"} \X XSYs) = {}
           /\ {<<"EXHAUSTED">>, <<"EARLEY_ITEM_THRESHOLD">>}
                 \cap ({"COMPLETED", "NULLED", "PREDICTED"} \X XSYs) = {}
           /\ CalledFor(items) \subseteq {"COMPLETED", "NULLED", "PREDICTED"} \X XSYs
<1>1. ExpectedEvents(items) \cap ({"COMPLETED", "NULLED", "PREDICTED"} \X XSYs) = {}
  BY DEF ExpectedEvents
<1>2. {<<"EXHAUSTED">>, <<"EARLEY_ITEM_THRESHOLD">>}
         \cap ({"COMPLETED", "NULLED", "PREDICTED"} \X XSYs) = {}
  <2>1. \A p \in {"COMPLETED", "NULLED", "PREDICTED"} \X XSYs : Len(p) = 2
    OBVIOUS
  <2>2. Len(<<"EXHAUSTED">>) = 1 /\ Len(<<"EARLEY_ITEM_THRESHOLD">>) = 1
    OBVIOUS
  <2> QED
    BY <2>1, <2>2
<1>3. CalledFor(items) \subseteq {"COMPLETED", "NULLED", "PREDICTED"} \X XSYs
  <2>1. /\ active.completion \subseteq XSYs /\ active.nulled \subseteq XSYs
        /\ active.prediction \subseteq XSYs
    BY DEF TypeInv, TypeOK, SettingsTypeOK
  <2> QED
    BY <2>1 DEF CalledFor
<1> QED
  BY <1>1, <1>2, <1>3

\* When an Earley set is done, a symbol's active events are triggered if and
\* only if an item of the full Earley set calls for them.  The events of the
\* completions that Leo items leave out come from the CILs of the Leo items,
\* which stop growing at the size of an event group; the count of active
\* events, with which trigger_events is skipped, covers those that are active
\* because only declared events start out active.
THEOREM EventsAreExact ==
    ASSUME NoAssertions, DeclaredStartActive
    PROVE  Spec => EventsExact
<1>1. /\ TypeInv /\ InputInv /\ ChartInv /\ SoundInv /\ DoneInv /\ CilsAgree /\ BusyInv
      /\ ActiveCountCovers /\ [Next]_vars
      => EventsExactWhenDone
  <2> SUFFICES ASSUME TypeInv, InputInv, ChartInv, SoundInv, DoneInv, CilsAgree, BusyInv,
                      ActiveCountCovers, [Next]_vars, pc = "populate", pc' = "idle"
               PROVE  events' \cap ({"COMPLETED", "NULLED", "PREDICTED"} \X XSYs)
                      = CalledFor(FullEarleySet)
    BY DEF EventsExactWhenDone
  <2>1. EarlemeCompleteEnds
    <3>1. CASE Reads
      <4>1. ASSUME NEW x \in XSYs, NEW v \in TokenValues, NEW length \in TokenLengths,
                   \/ AlternativeFails(x, v, length) \/ AlternativeRejected(x, v, length)
                   \/ Alternative(x, v, length)
            PROVE  FALSE
        BY <4>1 DEF AlternativeFails, AlternativeRejected, Alternative, PassesInitialChecks
      <4> QED
        BY <3>1, <4>1 DEF Reads, StartInputFails, StartInputTrivial, StartInput,
                   EarlemeCompleteFails, EarlemeCompleteExhausts, EarlemeCompleteEmpty,
                   EarlemeCompleteBegins, CleanFails, Clean
    <3>2. CASE Settings
      BY <3>2 DEF Settings, SymbolActivate, SymbolDeactivate, ExpectedSymbolEventSet,
                  ZWADefaultSet, IsUseLeoSet, WarningThresholdSet
    <3>3. CASE EarlemeCompleteSteps
      BY <3>3 DEF EarlemeCompleteSteps, ScanAlternative, PrePopulateCompletions, CompleteCause,
                  AddPredictions, StartLIMs, PopulateLIM
    <3>4. CASE UNCHANGED vars
      BY <3>4 DEF vars
    <3> QED
      BY <3>1, <3>2, <3>3, <3>4 DEF Next
  <2>2. /\ Between /\ current_earleme \in Earlemes /\ current_earleme # 0
    <3>1. input_phase = "during" /\ \A k \in DOMAIN lims : LIM_is_Populated(k)
      BY <2>1 DEF EarlemeCompleteEnds, TypeInv, PhasesAgree
    <3> QED
      BY <3>1 DEF Between, BusyInv, TypeInv, PhasesAgree
  <2> DEFINE items == yims[current_earleme]
             symbols == {"COMPLETED", "NULLED", "PREDICTED"} \X XSYs
  <2>3. \E others \in SUBSET {<<"EXHAUSTED">>, <<"EARLEY_ITEM_THRESHOLD">>} :
           events' = ExpectedEvents(items) \cup others \cup
              (IF active_event_count > 0 THEN trigger_events(items, current_earleme) ELSE {})
    <3>1. events' = ExpectedEvents(items)
              \cup ((IF NothingAhead(items) THEN {<<"EXHAUSTED">>} ELSE {})
                    \cup (IF Cardinality(items) >= warning_threshold
                          THEN {<<"EARLEY_ITEM_THRESHOLD">>} ELSE {}))
              \cup (IF active_event_count > 0
                    THEN trigger_events(items, current_earleme) ELSE {})
      BY <2>1 DEF EarlemeCompleteEnds
    <3> QED
      BY <3>1
  <2>4. (IF active_event_count > 0 THEN trigger_events(items, current_earleme) ELSE {})
        = CalledFor(FullEarleySet)
    BY <2>2, TriggersAreCalled, NoneCalled
  <2> PICK called : called = CalledFor(FullEarleySet)
    OBVIOUS
  <2>5. /\ ExpectedEvents(items) \cap symbols = {}
        /\ {<<"EXHAUSTED">>, <<"EARLEY_ITEM_THRESHOLD">>} \cap symbols = {}
        /\ called \subseteq symbols
    BY OtherKinds
  <2> HIDE DEF items, symbols
  <2>6. events' \cap symbols = called
    BY <2>3, <2>4, <2>5
  <2> QED
    BY <2>6 DEF symbols
<1> QED
  BY <1>1, TypeCorrect, InputCorrect, ChartSound, SoundAlways, DoneAlways, CilsAlways, BusyAlways,
     CountCovers, PTL DEF Spec, EventsExact
=============================================================================
