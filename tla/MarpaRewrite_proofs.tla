------------------------- MODULE MarpaRewrite_proofs -------------------------
(***************************************************************************)
(* What the internal rules of a rule derive, whatever grammar an           *)
(* application built: the right sides that the rule stands for, each in one *)
(* way; and the loops that the code finds in the rules of the grammar are  *)
(* those of the internal rules.                                            *)
(*                                                                         *)
(* The pieces of a rule are a table of its words, with one rule for each way *)
(* to end or to go on.                                                     *)
(***************************************************************************)
EXTENDS MarpaPrecompute_proofs

-----------------------------------------------------------------------------
(* What the pieces of a rule stand for: a word is a right side of the rule
   from a position on, named for the positions that are nulled in it. *)

IsFactor(c, rule, i) == rule.rhs[i] \in c.nullable /\ rule.rhs[i] \notin c.nulling
AreFactors(c, rule, s, e, N) == N \subseteq s .. e /\ \A i \in N : IsFactor(c, rule, i)
IsWord(c, rule, L, s, N) ==
    /\ AreFactors(c, rule, s, L, N)
    /\ \E i \in s .. L : i \notin N /\ rule.rhs[i] \notin c.nulling
Before(N, s2) == {i \in N : i < s2}
From(N, s2) == {i \in N : i >= s2}
Ends(c, rule, L, s2, N) == ~ IsWord(c, rule, L, s2, From(N, s2))

\* Of the rules of a piece that goes on at s2, if it does, each is for words, and
\* each word is for one rule.
IsOwn(g, c, r, L, s, s2, irl) ==
    \/ \E N : /\ IsWord(c, g.rules[r], L, s, N) /\ Ends(c, g.rules[r], L, s2, N)
              /\ IsFinal(g, c, r, L, s, N, irl)
    \/ \E N : /\ AreFactors(c, g.rules[r], s, s2 - 1, N) /\ s2 \in 1 .. L
              /\ IsContinued(g, c, r, s, s2 - 1, N, irl)
OneFinal(g, c, r, L, s, N, O) ==
    /\ \E irl \in O : IsFinal(g, c, r, L, s, N, irl)
    /\ \A a, b \in O : IsFinal(g, c, r, L, s, N, a) /\ IsFinal(g, c, r, L, s, N, b) => a = b
OneContinued(g, c, r, s, e, N, O) ==
    /\ \E irl \in O : IsContinued(g, c, r, s, e, N, irl)
    /\ \A a, b \in O : IsContinued(g, c, r, s, e, N, a) /\ IsContinued(g, c, r, s, e, N, b) => a = b
HasOneFor(g, c, r, L, s, s2, N, O) ==
    IF Ends(c, g.rules[r], L, s2, N) THEN OneFinal(g, c, r, L, s, N, O)
    ELSE OneContinued(g, c, r, s, s2 - 1, Before(N, s2), O)
Table(g, c, r, L, s, s2, O) ==
    /\ \A irl \in O : irl.lhs = LHS_of_Piece(g, c, r, s) /\ IsOwn(g, c, r, L, s, s2, irl)
    /\ \A N : IsWord(c, g.rules[r], L, s, N) => HasOneFor(g, c, r, L, s, s2, N, O)

\* A symbol that may be nulled tells whether it is.
LEMMA NulledDiffers ==
    ASSUME NEW c, NEW rule, NEW M, NEW N, NEW i, IsFactor(c, rule, i),
           NSYAt(c, rule, M, i) = NSYAt(c, rule, N, i)
    PROVE  i \in M <=> i \in N
<1>1. NSY_of(c, rule.rhs[i]).kind = "proper" /\ Nulling_NSY(rule.rhs[i]).kind = "nulled"
  BY DEF IsFactor, NSY_of, Nulling_NSY, NSY
<1> QED
  BY <1>1 DEF NSYAt

\* One rule is not for two words.
LEMMA FinalDiffers ==
    ASSUME NEW g, NEW c, NEW r, NEW L \in Nat, NEW s \in 1 .. L, NEW irl, NEW M, NEW N,
           AreFactors(c, g.rules[r], s, L, M), AreFactors(c, g.rules[r], s, L, N),
           IsFinal(g, c, r, L, s, M, irl), IsFinal(g, c, r, L, s, N, irl)
    PROVE  M = N
<1>1. ASSUME NEW i \in s .. L, IsFactor(c, g.rules[r], i)
      PROVE  i \in M <=> i \in N
  <2>1. PICK p \in 1 .. L - s + 1 : s + p - 1 = i
    <3>1. i - s + 1 \in 1 .. L - s + 1 /\ s + (i - s + 1) - 1 = i
      OBVIOUS
    <3> QED
      BY <3>1
  <2>2. irl.rhs[p] = NSYAt(c, g.rules[r], M, s + p - 1) /\ irl.rhs[p] = NSYAt(c, g.rules[r], N, s + p - 1)
    BY DEF IsFinal
  <2>3. NSYAt(c, g.rules[r], M, i) = NSYAt(c, g.rules[r], N, i)
    BY <2>1, <2>2
  <2> QED
    BY <1>1, <2>3, NulledDiffers
<1> QED
  BY <1>1 DEF AreFactors

\* Nor is one that goes on for two sets of nulled factors.
LEMMA ContinuedDiffers ==
    ASSUME NEW g, NEW c, NEW r, NEW s \in Nat, NEW e \in Nat, NEW irl, NEW M, NEW N,
           AreFactors(c, g.rules[r], s, e, M), AreFactors(c, g.rules[r], s, e, N),
           IsContinued(g, c, r, s, e, M, irl), IsContinued(g, c, r, s, e, N, irl)
    PROVE  M = N
<1>1. ASSUME NEW i \in s .. e, IsFactor(c, g.rules[r], i)
      PROVE  i \in M <=> i \in N
  <2>1. PICK p \in 1 .. e - s + 1 : s + p - 1 = i
    <3>1. i - s + 1 \in 1 .. e - s + 1 /\ s + (i - s + 1) - 1 = i
      OBVIOUS
    <3> QED
      BY <3>1
  <2>2. irl.rhs[p] = NSYAt(c, g.rules[r], M, s + p - 1) /\ irl.rhs[p] = NSYAt(c, g.rules[r], N, s + p - 1)
    BY DEF IsContinued
  <2>3. NSYAt(c, g.rules[r], M, i) = NSYAt(c, g.rules[r], N, i)
    BY <2>1, <2>2
  <2> QED
    BY <1>1, <2>3, NulledDiffers
<1> QED
  BY <1>1 DEF AreFactors

\* The rules of a piece by the words they are for: fin has those that end the rule,
\* con those that go on.
AreFinals(g, c, r, L, s, s2, O, Fs, fin) ==
    \A N \in Fs : /\ IsWord(c, g.rules[r], L, s, N) /\ Ends(c, g.rules[r], L, s2, N)
                  /\ fin[N] \in O /\ IsFinal(g, c, r, L, s, N, fin[N])
AreContinued(g, c, r, L, s, s2, O, Cs, con) ==
    \A N \in Cs : /\ AreFactors(c, g.rules[r], s, s2 - 1, N) /\ s2 \in 1 .. L
                  /\ con[N] \in O /\ IsContinued(g, c, r, s, s2 - 1, N, con[N])
AreAll(O, Fs, fin, Cs, con) ==
    \A irl \in O : (\E N \in Fs : irl = fin[N]) \/ (\E N \in Cs : irl = con[N])
CoverWords(c, rule, L, s, s2, Fs, Cs) ==
    \A N : IsWord(c, rule, L, s, N) =>
              IF Ends(c, rule, L, s2, N) THEN N \in Fs ELSE Before(N, s2) \in Cs

\* A listing of the rules of a piece by the words they are for is its table.
LEMMA TableOf ==
    ASSUME NEW g, NEW c, NEW r, NEW L \in Nat, NEW s \in 1 .. L, NEW s2 \in Nat, s < s2,
           NEW O, NEW Fs, NEW fin, NEW Cs, NEW con,
           AreFinals(g, c, r, L, s, s2, O, Fs, fin), AreContinued(g, c, r, L, s, s2, O, Cs, con),
           AreAll(O, Fs, fin, Cs, con), CoverWords(c, g.rules[r], L, s, s2, Fs, Cs)
    PROVE  Table(g, c, r, L, s, s2, O)
<1>1. ASSUME NEW irl \in O
      PROVE  irl.lhs = LHS_of_Piece(g, c, r, s) /\ IsOwn(g, c, r, L, s, s2, irl)
  <2>1. CASE \E N \in Fs : irl = fin[N]
    <3>1. PICK N : /\ IsWord(c, g.rules[r], L, s, N) /\ Ends(c, g.rules[r], L, s2, N)
                   /\ IsFinal(g, c, r, L, s, N, irl)
      BY <2>1 DEF AreFinals
    <3> QED
      BY <3>1 DEF IsOwn, IsFinal
  <2>2. CASE \E N \in Cs : irl = con[N]
    <3>1. PICK N : /\ AreFactors(c, g.rules[r], s, s2 - 1, N) /\ s2 \in 1 .. L
                   /\ IsContinued(g, c, r, s, s2 - 1, N, irl)
      BY <2>2 DEF AreContinued
    <3> QED
      BY <3>1 DEF IsOwn, IsContinued
  <2> QED
    BY <2>1, <2>2 DEF AreAll
<1>2. ASSUME NEW N, IsWord(c, g.rules[r], L, s, N)
      PROVE  HasOneFor(g, c, r, L, s, s2, N, O)
  <2>1. CASE Ends(c, g.rules[r], L, s2, N)
    <3>1. N \in Fs
      BY <1>2, <2>1 DEF CoverWords
    <3>2. fin[N] \in O /\ IsFinal(g, c, r, L, s, N, fin[N])
      BY <3>1 DEF AreFinals
    <3>3. ASSUME NEW a \in O, IsFinal(g, c, r, L, s, N, a)
          PROVE  a = fin[N]
      <4>1. CASE \E M \in Fs : a = fin[M]
        <5>1. PICK M \in Fs : a = fin[M]
          BY <4>1
        <5>2. IsFinal(g, c, r, L, s, M, a) /\ IsWord(c, g.rules[r], L, s, M)
          BY <5>1 DEF AreFinals
        <5>3. M = N
          BY <1>2, <3>3, <5>2, FinalDiffers DEF IsWord
        <5> QED
          BY <5>1, <5>3
      <4>2. CASE \E M \in Cs : a = con[M]
        <5>1. a.virtual_rhs = TRUE
          BY <4>2 DEF AreContinued, IsContinued
        <5>2. a.virtual_rhs = FALSE
          BY <3>3 DEF IsFinal
        <5> QED
          BY <5>1, <5>2
      <4> QED
        BY <4>1, <4>2 DEF AreAll
    <3>4. OneFinal(g, c, r, L, s, N, O)
      BY <3>2, <3>3, Zenon DEF OneFinal
    <3> QED
      BY <2>1, <3>4 DEF HasOneFor
  <2>2. CASE ~ Ends(c, g.rules[r], L, s2, N)
    <3> DEFINE B == Before(N, s2)
    <3>1. B \in Cs
      BY <1>2, <2>2 DEF CoverWords
    <3> HIDE DEF B
    <3>2. /\ con[B] \in O /\ IsContinued(g, c, r, s, s2 - 1, B, con[B])
          /\ AreFactors(c, g.rules[r], s, s2 - 1, B)
      BY <3>1 DEF AreContinued
    <3>3. ASSUME NEW a \in O, IsContinued(g, c, r, s, s2 - 1, B, a)
          PROVE  a = con[B]
      <4>1. CASE \E M \in Cs : a = con[M]
        <5>1. PICK M \in Cs : a = con[M]
          BY <4>1
        <5>2. IsContinued(g, c, r, s, s2 - 1, M, a) /\ AreFactors(c, g.rules[r], s, s2 - 1, M)
          BY <5>1 DEF AreContinued
        <5>3. s \in Nat /\ s2 - 1 \in Nat
          OBVIOUS
        <5>4. M = B
          BY <3>2, <3>3, <5>2, <5>3, ContinuedDiffers
        <5> QED
          BY <5>1, <5>4
      <4>2. CASE \E M \in Fs : a = fin[M]
        <5>1. a.virtual_rhs = FALSE
          BY <4>2 DEF AreFinals, IsFinal
        <5>2. a.virtual_rhs = TRUE
          BY <3>3 DEF IsContinued
        <5> QED
          BY <5>1, <5>2
      <4> QED
        BY <4>1, <4>2 DEF AreAll
    <3>4. OneContinued(g, c, r, s, s2 - 1, B, O)
      BY <3>2, <3>3, Zenon DEF OneContinued
    <3> QED
      BY <2>2, <3>4 DEF HasOneFor, B
  <2> QED
    BY <2>1, <2>2
<1> QED
  BY <1>1, <1>2 DEF Table

\* Whether a symbol that is nulling is named makes no difference.
LEMMA SameFinal ==
    ASSUME NEW g, NEW c, NEW r, NEW L \in Nat, NEW s \in 1 .. L, NEW irl, NEW M, NEW N,
           IsFinal(g, c, r, L, s, M, irl),
           \A i \in s .. L : (i \in M <=> i \in N) \/ g.rules[r].rhs[i] \in c.nulling
    PROVE  IsFinal(g, c, r, L, s, N, irl)
<1>1. ASSUME NEW p \in 1 .. L - s + 1
      PROVE  NSYAt(c, g.rules[r], M, s + p - 1) = NSYAt(c, g.rules[r], N, s + p - 1)
  <2>1. s + p - 1 \in s .. L
    OBVIOUS
  <2>2. g.rules[r].rhs[s + p - 1] \in c.nulling =>
           NSY_of(c, g.rules[r].rhs[s + p - 1]) = Nulling_NSY(g.rules[r].rhs[s + p - 1])
    BY DEF NSY_of
  <2> QED
    BY <2>1, <2>2 DEF NSYAt
<1> QED
  BY <1>1 DEF IsFinal

\* The first two factors of a piece.
IsPieceAt(g, c, r, L, m, f, suffix, k, s) ==
    IsFactored(g, c, r, L, m, f, suffix) /\ k \in 1 .. m /\ s \in 1 .. L /\ FirstFrom(f, k, s)

\* The first factor of a piece.
LEMMA FirstFactor ==
    ASSUME NEW g, NEW c, NEW r, NEW L, NEW m, NEW f, NEW suffix, NEW k, NEW s,
           IsPieceAt(g, c, r, L, m, f, suffix, k, s)
    PROVE  /\ L \in Nat /\ m \in Nat /\ k \in Nat /\ suffix \in 0 .. L /\ Len(g.rules[r].rhs) = L
           /\ f[k] \in s .. L /\ IsFactor(c, g.rules[r], f[k])
           /\ m = k => \A i \in s .. L : IsFactor(c, g.rules[r], i) => i = f[k]
<1>1. L \in Nat /\ m \in Nat /\ k \in Nat /\ suffix \in 0 .. L /\ Len(g.rules[r].rhs) = L
  BY DEF IsPieceAt, IsFactored
<1>2. f[k] \in 1 .. L /\ IsFactor(c, g.rules[r], f[k])
  BY FactorBounds DEF IsPieceAt, IsFactor
<1>3. ASSUME m = k, NEW i \in s .. L, IsFactor(c, g.rules[r], i)
      PROVE  i = f[k]
  BY <1>1, <1>3, LaterFactors DEF IsPieceAt, IsFactor
<1> QED
  BY <1>1, <1>2, <1>3 DEF IsPieceAt, FirstFrom

\* The second factor of a piece, and what may be nulled besides the two.
LEMMA SecondFactor ==
    ASSUME NEW g, NEW c, NEW r, NEW L, NEW m, NEW f, NEW suffix, NEW k, NEW s,
           IsPieceAt(g, c, r, L, m, f, suffix, k, s), k + 1 \in 1 .. m
    PROVE  /\ f[k + 1] \in s .. L /\ f[k] < f[k + 1] /\ IsFactor(c, g.rules[r], f[k + 1])
           /\ \A i \in s .. L : IsFactor(c, g.rules[r], i) => i = f[k] \/ i >= f[k + 1]
           /\ k + 1 = m =>
                 \A i \in s .. L : IsFactor(c, g.rules[r], i) => i = f[k] \/ i = f[k + 1]
<1>1. L \in Nat /\ m \in Nat /\ k \in Nat /\ f[k] \in s .. L
  BY FirstFactor
<1>2. k < k + 1 /\ k \in 1 .. m
  BY <1>1 DEF IsPieceAt
<1>3. f[k + 1] \in 1 .. L /\ IsFactor(c, g.rules[r], f[k + 1]) /\ f[k] < f[k + 1]
  BY <1>2, FactorBounds DEF IsPieceAt, IsFactor
<1>4. ASSUME NEW i \in s .. L, IsFactor(c, g.rules[r], i)
      PROVE  /\ i = f[k] \/ i >= f[k + 1]
             /\ k + 1 = m => i = f[k] \/ i = f[k + 1]
  BY <1>1, <1>4, LaterFactors DEF IsPieceAt, IsFactor
<1> QED
  BY <1>1, <1>3, <1>4 DEF IsPieceAt

\* After the last symbol that is not nullable everything may be nulled.
LEMMA AfterSuffix ==
    ASSUME NEW g, NEW c, NEW r, NEW L, NEW m, NEW f, NEW suffix, NEW k, NEW s,
           IsPieceAt(g, c, r, L, m, f, suffix, k, s)
    PROVE  /\ \A i \in s .. L : i > suffix =>
                 IsFactor(c, g.rules[r], i) \/ g.rules[r].rhs[i] \in c.nulling
           /\ s <= suffix => /\ suffix \in s .. L /\ ~ IsFactor(c, g.rules[r], suffix)
                             /\ g.rules[r].rhs[suffix] \notin c.nulling
<1>1. L \in Nat /\ suffix \in 0 .. L /\ s \in 1 .. L
  BY FirstFactor DEF IsPieceAt
<1>2. /\ suffix # 0 => g.rules[r].rhs[suffix] \notin c.nullable \cup c.nulling
      /\ \A i \in 1 .. L : g.rules[r].rhs[i] \notin c.nullable \cup c.nulling => i <= suffix
  BY FactorBounds DEF IsPieceAt
<1>3. ASSUME NEW i \in s .. L, i > suffix
      PROVE  IsFactor(c, g.rules[r], i) \/ g.rules[r].rhs[i] \in c.nulling
  <2>1. i \in 1 .. L /\ ~ (i <= suffix)
    BY <1>1, <1>3
  <2> QED
    BY <1>2, <2>1 DEF IsFactor
<1> QED
  BY <1>1, <1>2, <1>3 DEF IsFactor

\* A piece that is followed by one of what may all be nulled.
LEMMA Table1 ==
    ASSUME NEW g, NEW c, NEW r, NEW L, NEW m, NEW f, NEW suffix, NEW k, NEW s,
           IsPieceAt(g, c, r, L, m, f, suffix, k, s), k + 1 \in 1 .. m, f[k + 1] > suffix
    PROVE  Table(g, c, r, L, s, f[k + 1], OwnRules1(g, c, r, L, s, f[k], f[k + 1], suffix))
<1>1. PICK rule, first, second, O :
         /\ rule = g.rules[r] /\ first = f[k] /\ second = f[k + 1]
         /\ O = OwnRules1(g, c, r, L, s, first, second, suffix)
  OBVIOUS
<1>2. /\ L \in Nat /\ suffix \in 0 .. L /\ Len(g.rules[r].rhs) = L /\ s \in 1 .. L
      /\ first \in s .. L /\ IsFactor(c, rule, first)
  BY <1>1, FirstFactor DEF IsPieceAt
<1>3. /\ second \in s .. L /\ first < second /\ IsFactor(c, rule, second) /\ second > suffix
      /\ \A i \in s .. L : IsFactor(c, rule, i) => i = first \/ i >= second
  BY <1>1, SecondFactor
<1>4. /\ \A i \in s .. L : i > suffix => IsFactor(c, rule, i) \/ rule.rhs[i] \in c.nulling
      /\ s <= suffix => suffix \in s .. L /\ ~ IsFactor(c, rule, suffix) /\ rule.rhs[suffix] \notin c.nulling
  BY <1>1, AfterSuffix
<1>5. PICK A, B : A = {i \in second .. L : IsFactor(c, rule, i)} /\ B = {first} \cup A
  OBVIOUS
<1>6. /\ first \notin A /\ A # B /\ A \subseteq second .. L /\ A \subseteq s .. L /\ B \subseteq s .. L
      /\ AreFactors(c, rule, s, L, A) /\ AreFactors(c, rule, s, L, B)
      /\ \A i \in second .. L : i \in A \/ rule.rhs[i] \in c.nulling
  <2>1. first \notin A
    BY <1>2, <1>3, <1>5
  <2>2. A # B
    BY <1>5, <2>1
  <2>3. A \subseteq second .. L
    BY <1>5
  <2>4. A \subseteq s .. L /\ B \subseteq s .. L
    BY <1>2, <1>3, <1>5
  <2>5. (\A i \in A : IsFactor(c, rule, i)) /\ (\A i \in B : IsFactor(c, rule, i))
    BY <1>2, <1>5
  <2>6. \A i \in second .. L : i \in A \/ rule.rhs[i] \in c.nulling
    <3>1. \A i \in second .. L : i \in s .. L /\ i > suffix
      BY <1>2, <1>3
    <3> QED
      BY <1>4, <1>5, <3>1
  <2> QED
    BY <2>1, <2>2, <2>3, <2>4, <2>5, <2>6 DEF AreFactors
<1>7. \A N : Ends(c, rule, L, second, N) \/ ~ (A \subseteq N)
  <2> SUFFICES ASSUME NEW N, A \subseteq N
               PROVE  Ends(c, rule, L, second, N)
    OBVIOUS
  <2>1. \A i \in second .. L : i \notin From(N, second) => rule.rhs[i] \in c.nulling
    BY <1>2, <1>3, <1>6 DEF From
  <2> QED
    BY <2>1 DEF Ends, IsWord
<1>8. ASSUME NEW N, IsWord(c, rule, L, s, N), Ends(c, rule, L, second, N)
      PROVE  A \subseteq N
  <2> SUFFICES ASSUME NEW i \in A, i \notin N
               PROVE  FALSE
    OBVIOUS
  <2>1. i \in second .. L /\ rule.rhs[i] \notin c.nulling
    BY <1>5 DEF IsFactor
  <2>2. AreFactors(c, rule, second, L, From(N, second))
    <3>1. N \subseteq s .. L /\ \A j \in N : IsFactor(c, rule, j)
      BY <1>8 DEF IsWord, AreFactors
    <3>2. From(N, second) \subseteq second .. L
      <4>1. \A j \in s .. L : j >= second => j \in second .. L
        BY <1>2, <1>3
      <4> QED
        BY <3>1, <4>1 DEF From
    <3> QED
      BY <3>1, <3>2 DEF AreFactors, From
  <2>3. i \notin From(N, second)
    BY DEF From
  <2> QED
    BY <1>8, <2>1, <2>2, <2>3 DEF Ends, IsWord
<1>9. PICK a, b, d, e :
         /\ a = FinalIRL(g, c, r, s, second .. L, 2)
         /\ b = FinalIRL(g, c, r, s, {first} \cup second .. L, 0)
         /\ d = ContinuedIRL(g, c, r, s, second - 1, {}, 3)
         /\ e = ContinuedIRL(g, c, r, s, second - 1, {first}, 1)
  OBVIOUS
<1>10. O = {d, a, e} \cup IF s <= suffix THEN {b} ELSE {}
  BY <1>1, <1>9 DEF OwnRules1, OwnFinal, NNAllowed
<1>11. IsFinal(g, c, r, L, s, A, a) /\ IsFinal(g, c, r, L, s, B, b)
  <2>1. IsFinal(g, c, r, L, s, second .. L, a) /\ IsFinal(g, c, r, L, s, {first} \cup second .. L, b)
    BY <1>2, <1>9, FinalParts
  <2>2. \A i \in s .. L : (i \in second .. L <=> i \in A) \/ rule.rhs[i] \in c.nulling
    BY <1>6
  <2>3. \A i \in s .. L : (i \in {first} \cup second .. L <=> i \in B) \/ rule.rhs[i] \in c.nulling
    BY <1>5, <2>2
  <2>4. IsFinal(g, c, r, L, s, A, a)
    BY <1>1, <1>2, <2>1, <2>2, SameFinal
  <2>5. IsFinal(g, c, r, L, s, B, b)
    BY <1>1, <1>2, <2>1, <2>3, SameFinal
  <2> QED
    BY <2>4, <2>5
<1>12. IsContinued(g, c, r, s, second - 1, {}, d) /\ IsContinued(g, c, r, s, second - 1, {first}, e)
  <2>1. s \in Nat /\ second - 1 \in Nat /\ s <= second - 1
    BY <1>2, <1>3
  <2> QED
    BY <1>9, <2>1, ContinuedParts
<1> DEFINE Fs == {A} \cup IF s <= suffix THEN {B} ELSE {}
           fin == [N \in {A, B} |-> IF N = A THEN a ELSE b]
           Cs == {{}, {first}}
           con == [N \in Cs |-> IF N = {} THEN d ELSE e]
<1>13. fin[A] = a /\ fin[B] = b /\ con[{}] = d /\ con[{first}] = e
  BY <1>6
<1>14. IsWord(c, rule, L, s, A) /\ (s <= suffix => IsWord(c, rule, L, s, B))
  <2>1. IsWord(c, rule, L, s, A)
    BY <1>2, <1>6 DEF IsWord, IsFactor
  <2>2. s <= suffix => suffix \notin B
    BY <1>2, <1>4, <1>6 DEF AreFactors
  <2> QED
    BY <1>4, <1>6, <2>1, <2>2 DEF IsWord
<1>15. AreFinals(g, c, r, L, s, second, O, Fs, fin)
  <2> HIDE DEF fin
  <2>1. A \subseteq A /\ A \subseteq B
    BY <1>5
  <2>2. Ends(c, rule, L, second, A) /\ Ends(c, rule, L, second, B)
    BY <1>7, <2>1
  <2>3. \A N \in Fs : N = A \/ (N = B /\ s <= suffix)
    OBVIOUS
  <2> HIDE DEF Fs
  <2> QED
    BY <1>1, <1>10, <1>11, <1>13, <1>14, <2>2, <2>3 DEF AreFinals
<1>16. AreContinued(g, c, r, L, s, second, O, Cs, con)
  <2>1. AreFactors(c, rule, s, second - 1, {}) /\ AreFactors(c, rule, s, second - 1, {first})
    BY <1>2, <1>3 DEF AreFactors
  <2>2. second \in 1 .. L
    BY <1>2, <1>3
  <2>3. \A N \in Cs : N = {} \/ N = {first}
    OBVIOUS
  <2> HIDE DEF Cs, con
  <2> QED
    BY <1>1, <1>10, <1>12, <1>13, <2>1, <2>2, <2>3 DEF AreContinued
<1>17. AreAll(O, Fs, fin, Cs, con)
  <2>1. A \in Fs /\ (s <= suffix => B \in Fs) /\ {} \in Cs /\ {first} \in Cs
    OBVIOUS
  <2> HIDE DEF Fs, fin, Cs, con
  <2> QED
    BY <1>10, <1>13, <2>1 DEF AreAll
<1>18. CoverWords(c, rule, L, s, second, Fs, Cs)
  <2> SUFFICES ASSUME NEW N, IsWord(c, rule, L, s, N)
               PROVE  IF Ends(c, rule, L, second, N) THEN N \in Fs ELSE Before(N, second) \in Cs
    BY DEF CoverWords
  <2>1. \A i \in N : i \in s .. L /\ (i = first \/ i \in A)
    <3>1. N \subseteq s .. L /\ \A j \in N : IsFactor(c, rule, j)
      BY DEF IsWord, AreFactors
    <3>2. \A i \in N : i \in s .. L /\ (i = first \/ i >= second)
      BY <1>3, <3>1
    <3>3. \A i \in s .. L : i >= second => i \in second .. L
      BY <1>2, <1>3
    <3> QED
      BY <1>5, <3>1, <3>2, <3>3
  <2>2. CASE Ends(c, rule, L, second, N)
    <3>1. A \subseteq N
      BY <1>8, <2>2
    <3>2. N = A \/ N = B
      BY <1>5, <2>1, <3>1
    <3>3. ASSUME N = B
          PROVE  s <= suffix
      <4>1. PICK i \in s .. L : i \notin B /\ rule.rhs[i] \notin c.nulling
        BY <3>3 DEF IsWord
      <4>2. ~ IsFactor(c, rule, i)
        BY <1>2, <1>3, <1>5, <4>1
      <4>3. ~ (i > suffix)
        BY <1>4, <4>1, <4>2
      <4> QED
        BY <1>2, <4>3
    <3> QED
      BY <2>2, <3>2, <3>3
  <2>3. CASE ~ Ends(c, rule, L, second, N)
    <3>1. Before(N, second) \subseteq {first}
      BY <1>2, <1>3, <1>6, <2>1 DEF Before
    <3> QED
      BY <2>3, <3>1
  <2> QED
    BY <2>2, <2>3
<1> HIDE DEF Fs, fin, Cs, con
<1>19. second \in Nat /\ s < second
  BY <1>2, <1>3
<1>20. Table(g, c, r, L, s, second, O)
  BY <1>1, <1>2, <1>15, <1>16, <1>17, <1>18, <1>19, TableOf
<1> QED
  BY <1>1, <1>20

\* A piece that goes on after its second factor, since a symbol follows that is
\* not nullable.
LEMMA Table2 ==
    ASSUME NEW g, NEW c, NEW r, NEW L, NEW m, NEW f, NEW suffix, NEW k, NEW s,
           IsPieceAt(g, c, r, L, m, f, suffix, k, s), k + 1 \in 1 .. m, ~ (f[k + 1] > suffix)
    PROVE  /\ f[k + 1] + 1 \in 1 .. L
           /\ Table(g, c, r, L, s, f[k + 1] + 1, OwnRules2(g, c, r, s, f[k], f[k + 1]))
<1>1. PICK rule, first, second, s2, O :
         /\ rule = g.rules[r] /\ first = f[k] /\ second = f[k + 1] /\ s2 = second + 1
         /\ O = OwnRules2(g, c, r, s, first, second)
  OBVIOUS
<1>2. /\ L \in Nat /\ suffix \in 0 .. L /\ Len(g.rules[r].rhs) = L /\ s \in 1 .. L
      /\ first \in s .. L /\ IsFactor(c, rule, first)
  BY <1>1, FirstFactor DEF IsPieceAt
<1>3. /\ second \in s .. L /\ first < second /\ IsFactor(c, rule, second) /\ second <= suffix
      /\ \A i \in s .. L : IsFactor(c, rule, i) => i = first \/ i >= second
  <2>1. /\ second \in s .. L /\ first < second /\ IsFactor(c, rule, second)
        /\ \A i \in s .. L : IsFactor(c, rule, i) => i = first \/ i >= second
    BY <1>1, SecondFactor
  <2>2. second <= suffix
    BY <1>1, <1>2, <2>1
  <2> QED
    BY <2>1, <2>2
<1>4. suffix \in s2 .. L /\ ~ IsFactor(c, rule, suffix) /\ rule.rhs[suffix] \notin c.nulling
  <2>1. s <= suffix
    BY <1>2, <1>3
  <2>2. ~ IsFactor(c, rule, suffix) /\ rule.rhs[suffix] \notin c.nulling
    BY <1>1, <2>1, AfterSuffix
  <2>3. suffix # second
    BY <1>3, <2>2
  <2> QED
    BY <1>1, <1>2, <1>3, <2>2, <2>3
<1>5. s2 \in 1 .. L /\ s2 \in Nat /\ s < s2 /\ s2 - 1 = second
  BY <1>1, <1>2, <1>3, <1>4
<1>6. ASSUME NEW N, IsWord(c, rule, L, s, N)
      PROVE  ~ Ends(c, rule, L, s2, N)
  <2>1. N \subseteq s .. L /\ \A j \in N : IsFactor(c, rule, j)
    BY <1>6 DEF IsWord, AreFactors
  <2>2. \A j \in s .. L : j >= s2 => j \in s2 .. L
    BY <1>2, <1>5
  <2>3. From(N, s2) \subseteq s2 .. L
    BY <2>1, <2>2 DEF From
  <2>4. AreFactors(c, rule, s2, L, From(N, s2))
    BY <2>1, <2>3 DEF AreFactors, From
  <2>5. suffix \notin From(N, s2)
    BY <1>4, <2>1 DEF From
  <2> QED
    BY <1>4, <2>4, <2>5 DEF Ends, IsWord
<1> DEFINE Cs == SUBSET {first, second}
           con == [N \in Cs |-> IF N = {} THEN ContinuedIRL(g, c, r, s, second, {}, 3)
                                ELSE IF N = {second} THEN ContinuedIRL(g, c, r, s, second, {second}, 2)
                                ELSE IF N = {first} THEN ContinuedIRL(g, c, r, s, second, {first}, 1)
                                ELSE ContinuedIRL(g, c, r, s, second, {first, second}, 0)]
<1>7. \A N \in Cs : N = {} \/ N = {second} \/ N = {first} \/ N = {first, second}
  OBVIOUS
<1>8. /\ con[{}] = ContinuedIRL(g, c, r, s, second, {}, 3)
      /\ con[{second}] = ContinuedIRL(g, c, r, s, second, {second}, 2)
      /\ con[{first}] = ContinuedIRL(g, c, r, s, second, {first}, 1)
      /\ con[{first, second}] = ContinuedIRL(g, c, r, s, second, {first, second}, 0)
  <2>1. first # second
    BY <1>2, <1>3
  <2>2. {second} # {} /\ {first} # {} /\ {first, second} # {} /\ {first} # {second}
        /\ {first, second} # {first} /\ {first, second} # {second}
    BY <2>1
  <2>3. {} \in Cs /\ {second} \in Cs /\ {first} \in Cs /\ {first, second} \in Cs
    OBVIOUS
  <2> HIDE DEF Cs
  <2>4. /\ con[{}] = ContinuedIRL(g, c, r, s, second, {}, 3)
        /\ con[{second}] = ContinuedIRL(g, c, r, s, second, {second}, 2)
    BY <2>2, <2>3, Zenon
  <2>5. con[{first}] = ContinuedIRL(g, c, r, s, second, {first}, 1)
    BY <2>2, <2>3, Zenon
  <2>6. con[{first, second}] = ContinuedIRL(g, c, r, s, second, {first, second}, 0)
    BY <2>2, <2>3, Zenon
  <2> QED
    BY <2>4, <2>5, <2>6
<1>9. AreContinued(g, c, r, L, s, s2, O, Cs, con)
  <2> HIDE DEF con
  <2>1. s \in Nat /\ second \in Nat /\ s <= second
    BY <1>2, <1>3
  <2>2. \A N, q : IsContinued(g, c, r, s, second, N, ContinuedIRL(g, c, r, s, second, N, q))
    BY <2>1, ContinuedParts
  <2>3. \A N \in Cs : IsContinued(g, c, r, s, second, N, con[N])
    <3> SUFFICES ASSUME NEW N \in Cs
                 PROVE  IsContinued(g, c, r, s, second, N, con[N])
      OBVIOUS
    <3>1. \E q : con[N] = ContinuedIRL(g, c, r, s, second, N, q)
      BY <1>7, <1>8, Zenon
    <3> QED
      BY <2>2, <3>1, Zenon
  <2>4. \A N \in Cs : con[N] \in O
    <3>1. con[{}] \in O /\ con[{second}] \in O /\ con[{first}] \in O /\ con[{first, second}] \in O
      BY <1>1, <1>8 DEF OwnRules2
    <3> QED
      BY <1>7, <3>1, Zenon
  <2>5. \A N \in Cs : AreFactors(c, rule, s, second, N)
    BY <1>2, <1>3 DEF AreFactors
  <2> HIDE DEF Cs
  <2> QED
    BY <1>1, <1>5, <2>3, <2>4, <2>5 DEF AreContinued
<1>10. PICK fin : fin = {}
  OBVIOUS
<1>11. AreFinals(g, c, r, L, s, s2, O, {}, fin)
  BY DEF AreFinals
<1>12. AreAll(O, {}, fin, Cs, con)
  <2>1. {} \in Cs /\ {second} \in Cs /\ {first} \in Cs /\ {first, second} \in Cs
    OBVIOUS
  <2> HIDE DEF Cs, con
  <2>2. O = {con[{}], con[{second}], con[{first}], con[{first, second}]}
    BY <1>1, <1>8 DEF OwnRules2
  <2> QED
    BY <2>1, <2>2 DEF AreAll
<1>13. CoverWords(c, rule, L, s, s2, {}, Cs)
  <2> SUFFICES ASSUME NEW N, IsWord(c, rule, L, s, N)
               PROVE  IF Ends(c, rule, L, s2, N) THEN N \in {} ELSE Before(N, s2) \in Cs
    BY DEF CoverWords
  <2>1. N \subseteq s .. L /\ \A j \in N : IsFactor(c, rule, j)
    BY DEF IsWord, AreFactors
  <2>2. \A i \in s .. L : IsFactor(c, rule, i) /\ i < s2 => i = first \/ i = second
    BY <1>1, <1>2, <1>3
  <2>3. Before(N, s2) \subseteq {first, second}
    BY <2>1, <2>2 DEF Before
  <2> QED
    BY <1>6, <2>3
<1> HIDE DEF Cs, con
<1>14. Table(g, c, r, L, s, s2, O)
  BY <1>1, <1>2, <1>5, <1>9, <1>11, <1>12, <1>13, TableOf
<1> QED
  BY <1>1, <1>5, <1>14

\* Nothing follows the last piece.
LEMMA LastEnds ==
    ASSUME NEW c, NEW rule, NEW L \in Nat, NEW N
    PROVE  Ends(c, rule, L, L + 1, N)
<1>1. \A i : i \notin (L + 1) .. L
  OBVIOUS
<1> QED
  BY <1>1 DEF Ends, IsWord

\* The last piece when it has two factors.
LEMMA Table3 ==
    ASSUME NEW g, NEW c, NEW r, NEW L, NEW m, NEW f, NEW suffix, NEW k, NEW s,
           IsPieceAt(g, c, r, L, m, f, suffix, k, s), m - k = 1
    PROVE  Table(g, c, r, L, s, L + 1, OwnRules3(g, c, r, s, f[k], f[k + 1], suffix))
<1>1. PICK rule, first, second, s2, O :
         /\ rule = g.rules[r] /\ first = f[k] /\ second = f[k + 1] /\ s2 = L + 1
         /\ O = OwnRules3(g, c, r, s, first, second, suffix)
  OBVIOUS
<1>2. /\ L \in Nat /\ m \in Nat /\ k \in Nat /\ suffix \in 0 .. L /\ Len(g.rules[r].rhs) = L
      /\ s \in 1 .. L /\ first \in s .. L /\ IsFactor(c, rule, first)
  BY <1>1, FirstFactor DEF IsPieceAt
<1>3. k + 1 \in 1 .. m /\ k + 1 = m
  BY <1>2
<1>4. /\ second \in s .. L /\ first < second /\ IsFactor(c, rule, second)
      /\ \A i \in s .. L : IsFactor(c, rule, i) => i = first \/ i = second
  BY <1>1, <1>3, SecondFactor
<1>5. /\ \A i \in s .. L : i > suffix => IsFactor(c, rule, i) \/ rule.rhs[i] \in c.nulling
      /\ s <= suffix => suffix \in s .. L /\ ~ IsFactor(c, rule, suffix) /\ rule.rhs[suffix] \notin c.nulling
  BY <1>1, AfterSuffix
<1>6. \A N : Ends(c, rule, L, s2, N)
  BY <1>1, <1>2, LastEnds
<1> DEFINE B == {first, second}
           Fs == {{}, {second}, {first}} \cup IF s <= suffix THEN {B} ELSE {}
           fin == [N \in SUBSET B |-> IF N = {} THEN FinalIRL(g, c, r, s, {}, 3)
                                ELSE IF N = {second} THEN FinalIRL(g, c, r, s, {second}, 2)
                                ELSE IF N = {first} THEN FinalIRL(g, c, r, s, {first}, 1)
                                ELSE FinalIRL(g, c, r, s, {first, second}, 0)]
<1>7. \A N \in Fs : N = {} \/ N = {second} \/ N = {first} \/ (N = B /\ s <= suffix)
  OBVIOUS
<1>8. /\ fin[{}] = FinalIRL(g, c, r, s, {}, 3)
      /\ fin[{second}] = FinalIRL(g, c, r, s, {second}, 2)
      /\ fin[{first}] = FinalIRL(g, c, r, s, {first}, 1)
      /\ fin[{first, second}] = FinalIRL(g, c, r, s, {first, second}, 0)
  <2>1. first # second
    BY <1>2, <1>4
  <2>2. {second} # {} /\ {first} # {} /\ {first, second} # {} /\ {first} # {second}
        /\ {first, second} # {first} /\ {first, second} # {second}
    BY <2>1
  <2>3. {} \in SUBSET B /\ {second} \in SUBSET B /\ {first} \in SUBSET B /\ {first, second} \in SUBSET B
    OBVIOUS
  <2> HIDE DEF B
  <2>4. /\ fin[{}] = FinalIRL(g, c, r, s, {}, 3)
        /\ fin[{second}] = FinalIRL(g, c, r, s, {second}, 2)
    BY <2>2, <2>3, Zenon
  <2>5. fin[{first}] = FinalIRL(g, c, r, s, {first}, 1)
    BY <2>2, <2>3, Zenon
  <2>6. fin[{first, second}] = FinalIRL(g, c, r, s, {first, second}, 0)
    BY <2>2, <2>3, Zenon
  <2> QED
    BY <2>4, <2>5, <2>6
<1>9. O = {fin[{}], fin[{second}], fin[{first}]} \cup IF s <= suffix THEN {fin[B]} ELSE {}
  <2> HIDE DEF fin
  <2> QED
    BY <1>1, <1>8 DEF OwnRules3, OwnFinal, NNAllowed
<1>10. \A N \in Fs : IsWord(c, rule, L, s, N)
  <2>1. AreFactors(c, rule, s, L, B)
    BY <1>2, <1>4 DEF AreFactors
  <2>2. \A N \in Fs : AreFactors(c, rule, s, L, N)
    BY <2>1 DEF AreFactors
  <2>3. rule.rhs[first] \notin c.nulling /\ rule.rhs[second] \notin c.nulling
    BY <1>2, <1>4 DEF IsFactor
  <2>4. first # second
    BY <1>2, <1>4
  <2>5. \E i \in s .. L : i \notin {} /\ rule.rhs[i] \notin c.nulling
    BY <1>2, <2>3
  <2>6. \E i \in s .. L : i \notin {second} /\ rule.rhs[i] \notin c.nulling
    BY <1>2, <2>3, <2>4
  <2>7. \E i \in s .. L : i \notin {first} /\ rule.rhs[i] \notin c.nulling
    BY <1>4, <2>3, <2>4
  <2>8. s <= suffix => \E i \in s .. L : i \notin B /\ rule.rhs[i] \notin c.nulling
    BY <1>2, <1>4, <1>5
  <2> HIDE DEF Fs, B
  <2>9. \A N \in Fs : \E i \in s .. L : i \notin N /\ rule.rhs[i] \notin c.nulling
    BY <1>7, <2>5, <2>6, <2>7, <2>8
  <2> QED
    BY <2>2, <2>9 DEF IsWord
<1>11. AreFinals(g, c, r, L, s, s2, O, Fs, fin)
  <2> HIDE DEF fin
  <2>1. \A N, q : IsFinal(g, c, r, L, s, N, FinalIRL(g, c, r, s, N, q))
    BY <1>2, FinalParts
  <2>2. \A N \in Fs : IsFinal(g, c, r, L, s, N, fin[N])
    <3> SUFFICES ASSUME NEW N \in Fs
                 PROVE  IsFinal(g, c, r, L, s, N, fin[N])
      OBVIOUS
    <3>1. \E q : fin[N] = FinalIRL(g, c, r, s, N, q)
      BY <1>7, <1>8, Zenon
    <3> QED
      BY <2>1, <3>1, Zenon
  <2> HIDE DEF Fs, B
  <2>3. \A N \in Fs : fin[N] \in O
    BY <1>7, <1>9
  <2> QED
    BY <1>1, <1>6, <1>10, <2>2, <2>3 DEF AreFinals
<1>12. PICK con : con = {}
  OBVIOUS
<1>13. AreContinued(g, c, r, L, s, s2, O, {}, con)
  BY DEF AreContinued
<1>14. AreAll(O, Fs, fin, {}, con)
  <2>1. {} \in Fs /\ {second} \in Fs /\ {first} \in Fs /\ (s <= suffix => B \in Fs)
    OBVIOUS
  <2> HIDE DEF Fs, fin, B
  <2> QED
    BY <1>9, <2>1 DEF AreAll
<1>15. CoverWords(c, rule, L, s, s2, Fs, {})
  <2> SUFFICES ASSUME NEW N, IsWord(c, rule, L, s, N)
               PROVE  N \in Fs
    BY <1>6 DEF CoverWords
  <2>1. N \subseteq B
    BY <1>4 DEF IsWord, AreFactors
  <2>2. N = {} \/ N = {second} \/ N = {first} \/ N = B
    BY <2>1
  <2>3. ASSUME N = B
        PROVE  s <= suffix
    <3>1. PICK i \in s .. L : i \notin B /\ rule.rhs[i] \notin c.nulling
      BY <2>3 DEF IsWord
    <3>2. ~ IsFactor(c, rule, i)
      BY <1>4, <3>1
    <3>3. ~ (i > suffix)
      BY <1>5, <3>1, <3>2
    <3> QED
      BY <1>2, <3>3
  <2> QED
    BY <2>2, <2>3
<1> HIDE DEF Fs, fin
<1>16. s2 \in Nat /\ s < s2
  BY <1>1, <1>2
<1>17. Table(g, c, r, L, s, s2, O)
  BY <1>1, <1>2, <1>11, <1>13, <1>14, <1>15, <1>16, TableOf
<1> QED
  BY <1>1, <1>17

\* The last piece when it has one.
LEMMA Table4 ==
    ASSUME NEW g, NEW c, NEW r, NEW L, NEW m, NEW f, NEW suffix, NEW k, NEW s,
           IsPieceAt(g, c, r, L, m, f, suffix, k, s), m = k
    PROVE  Table(g, c, r, L, s, L + 1, OwnRules4(g, c, r, s, f[k], suffix))
<1>1. PICK rule, first, s2, O :
         /\ rule = g.rules[r] /\ first = f[k] /\ s2 = L + 1
         /\ O = OwnRules4(g, c, r, s, first, suffix)
  OBVIOUS
<1>2. /\ L \in Nat /\ suffix \in 0 .. L /\ Len(g.rules[r].rhs) = L
      /\ s \in 1 .. L /\ first \in s .. L /\ IsFactor(c, rule, first)
      /\ \A i \in s .. L : IsFactor(c, rule, i) => i = first
  BY <1>1, FirstFactor DEF IsPieceAt
<1>3. /\ \A i \in s .. L : i > suffix => IsFactor(c, rule, i) \/ rule.rhs[i] \in c.nulling
      /\ s <= suffix => suffix \in s .. L /\ ~ IsFactor(c, rule, suffix) /\ rule.rhs[suffix] \notin c.nulling
  BY <1>1, AfterSuffix
<1>4. \A N : Ends(c, rule, L, s2, N)
  BY <1>1, <1>2, LastEnds
<1>5. PICK a, b : a = FinalIRL(g, c, r, s, {}, 3) /\ b = FinalIRL(g, c, r, s, {first}, 0)
  OBVIOUS
<1> DEFINE Fs == {{}} \cup IF s <= suffix THEN {{first}} ELSE {}
           fin == [N \in {{}, {first}} |-> IF N = {} THEN a ELSE b]
<1>6. fin[{}] = a /\ fin[{first}] = b
  OBVIOUS
<1>7. O = {a} \cup IF s <= suffix THEN {b} ELSE {}
  BY <1>1, <1>5 DEF OwnRules4, OwnFinal, NNAllowed
<1>8. IsFinal(g, c, r, L, s, {}, a) /\ IsFinal(g, c, r, L, s, {first}, b)
  BY <1>2, <1>5, FinalParts
<1>9. IsWord(c, rule, L, s, {}) /\ (s <= suffix => IsWord(c, rule, L, s, {first}))
  <2>1. AreFactors(c, rule, s, L, {}) /\ AreFactors(c, rule, s, L, {first})
    BY <1>2 DEF AreFactors
  <2>2. s <= suffix => suffix \notin {first}
    BY <1>2, <1>3
  <2> QED
    BY <1>2, <1>3, <2>1, <2>2 DEF IsWord, IsFactor
<1>10. AreFinals(g, c, r, L, s, s2, O, Fs, fin)
  <2> HIDE DEF fin
  <2>1. \A N \in Fs : N = {} \/ (N = {first} /\ s <= suffix)
    OBVIOUS
  <2> HIDE DEF Fs
  <2> QED
    BY <1>1, <1>4, <1>6, <1>7, <1>8, <1>9, <2>1 DEF AreFinals
<1>11. PICK con : con = {}
  OBVIOUS
<1>12. AreContinued(g, c, r, L, s, s2, O, {}, con)
  BY DEF AreContinued
<1>13. AreAll(O, Fs, fin, {}, con)
  <2>1. {} \in Fs /\ (s <= suffix => {first} \in Fs)
    OBVIOUS
  <2> HIDE DEF Fs, fin
  <2> QED
    BY <1>6, <1>7, <2>1 DEF AreAll
<1>14. CoverWords(c, rule, L, s, s2, Fs, {})
  <2> SUFFICES ASSUME NEW N, IsWord(c, rule, L, s, N)
               PROVE  N \in Fs
    BY <1>4 DEF CoverWords
  <2>1. N \subseteq {first}
    BY <1>2 DEF IsWord, AreFactors
  <2>2. ASSUME N = {first}
        PROVE  s <= suffix
    <3>1. PICK i \in s .. L : i \notin N /\ rule.rhs[i] \notin c.nulling
      BY DEF IsWord
    <3>2. ~ IsFactor(c, rule, i)
      BY <1>2, <2>2, <3>1
    <3>3. ~ (i > suffix)
      BY <1>3, <3>1, <3>2
    <3> QED
      BY <1>2, <3>3
  <2> QED
    BY <2>1, <2>2
<1> HIDE DEF Fs, fin
<1>15. s2 \in Nat /\ s < s2
  BY <1>1, <1>2
<1>16. Table(g, c, r, L, s, s2, O)
  BY <1>1, <1>2, <1>10, <1>12, <1>13, <1>14, <1>15, TableOf
<1> QED
  BY <1>1, <1>16

-----------------------------------------------------------------------------
(* No rule is made twice *)

\* The variants of a piece differ in rank, and in left side from what follows.
Ranked(q, lhs, rank) == NoneTwice(q) /\ \A irl \in ToSet(q) : irl.lhs = lhs /\ irl.rank = rank
AreRanked(lhs, P1, P2, P3, P4, r1, r2, r3, r4) ==
    /\ Ranked(P1, lhs, r1) /\ Ranked(P2, lhs, r2) /\ Ranked(P3, lhs, r3) /\ Ranked(P4, lhs, r4)
    /\ r1 # r2 /\ r1 # r3 /\ r1 # r4 /\ r2 # r3 /\ r2 # r4 /\ r3 # r4
OnceApart(q, lhs) == NoneTwice(q) /\ \A irl \in ToSet(q) : irl.lhs # lhs

\* Rules of a piece with different ranks, joined, have no repetition.
LEMMA RankedOnce ==
    ASSUME NEW X, NEW P1 \in Seq(X), NEW P2 \in Seq(X), NEW P3 \in Seq(X), NEW P4 \in Seq(X),
           NEW P5 \in Seq(X), NEW lhs, NEW r1, NEW r2, NEW r3, NEW r4,
           AreRanked(lhs, P1, P2, P3, P4, r1, r2, r3, r4), OnceApart(P5, lhs)
    PROVE  /\ NoneTwice(P1 \o P2 \o P3 \o P4 \o P5)
           /\ NoneTwice(P1 \o P2 \o P3 \o P4)
           /\ NoneTwice(P1 \o P4)
<1>1. PICK Q1, Q2, Q3, Q4, Q5 :
         Q1 = P1 \o P2 /\ Q2 = Q1 \o P3 /\ Q3 = Q2 \o P4 /\ Q4 = Q3 \o P5 /\ Q5 = P1 \o P4
  OBVIOUS
<1>2. NoneTwice(P1) /\ NoneTwice(P2) /\ NoneTwice(P3) /\ NoneTwice(P4)
  BY DEF Ranked, AreRanked
<1>3. Q1 \in Seq(X) /\ ToSet(Q1) = ToSet(P1) \cup ToSet(P2) /\ NoneTwice(Q1)
  <2>1. ToSet(P1) \cap ToSet(P2) = {}
    BY DEF Ranked, AreRanked
  <2> QED
    BY <1>1, <1>2, <2>1, ConcatParts, OnceParts
<1>4. Q2 \in Seq(X) /\ ToSet(Q2) = ToSet(Q1) \cup ToSet(P3) /\ NoneTwice(Q2)
  <2>1. ToSet(Q1) \cap ToSet(P3) = {}
    BY <1>3 DEF Ranked, AreRanked
  <2>2. Q1 \in Seq(X) /\ P3 \in Seq(X)
    BY <1>3
  <2>3. NoneTwice(Q1) /\ NoneTwice(P3) /\ Q2 = Q1 \o P3
    BY <1>1, <1>2, <1>3
  <2>4. Q2 \in Seq(X) /\ ToSet(Q2) = ToSet(Q1) \cup ToSet(P3)
    BY <2>2, <2>3, ConcatParts
  <2>5. NoneTwice(Q2)
    BY <2>1, <2>2, <2>3, OnceParts
  <2> QED
    BY <2>4, <2>5
<1>5. Q3 \in Seq(X) /\ ToSet(Q3) = ToSet(Q2) \cup ToSet(P4) /\ NoneTwice(Q3)
  <2>1. ToSet(Q2) \cap ToSet(P4) = {}
    BY <1>3, <1>4 DEF Ranked, AreRanked
  <2>2. Q2 \in Seq(X) /\ P4 \in Seq(X)
    BY <1>4
  <2>3. NoneTwice(Q2) /\ NoneTwice(P4) /\ Q3 = Q2 \o P4
    BY <1>1, <1>2, <1>4
  <2>4. Q3 \in Seq(X) /\ ToSet(Q3) = ToSet(Q2) \cup ToSet(P4)
    BY <2>2, <2>3, ConcatParts
  <2>5. NoneTwice(Q3)
    BY <2>1, <2>2, <2>3, OnceParts
  <2> QED
    BY <2>4, <2>5
<1>6. NoneTwice(Q4)
  <2>1. ToSet(Q3) \cap ToSet(P5) = {}
    BY <1>3, <1>4, <1>5 DEF Ranked, AreRanked, OnceApart
  <2>2. Q3 \in Seq(X) /\ P5 \in Seq(X) /\ NoneTwice(Q3) /\ NoneTwice(P5)
    BY <1>5 DEF OnceApart
  <2> QED
    BY <1>1, <2>1, <2>2, OnceParts
<1>7. NoneTwice(Q5)
  <2>1. ToSet(P1) \cap ToSet(P4) = {}
    BY DEF Ranked, AreRanked
  <2> QED
    BY <1>1, <1>2, <2>1, OnceParts
<1> QED
  BY <1>1, <1>5, <1>6, <1>7, Zenon

RankOf(g, r, q) == IRL_CHAF_Rank_by_XRL(g.rules[r], q)

\* A rule gives its four variants different ranks.
LEMMA RanksDiffer ==
    ASSUME NEW g, NEW r, g.rules[r].rank \in Int
    PROVE  \A p, q \in 0 .. 3 : p # q => RankOf(g, r, p) # RankOf(g, r, q)
<1>1. PICK n \in Int : n = g.rules[r].rank * 4
  OBVIOUS
<1>2. CASE g.rules[r].null_ranks_high
  <2>1. \A q \in 0 .. 3 : RankOf(g, r, q) = n + (3 - q)
    BY <1>1, <1>2 DEF RankOf, IRL_CHAF_Rank_by_XRL, MAXIMUM_CHAF_RANK
  <2> QED
    BY <2>1
<1>3. CASE ~ g.rules[r].null_ranks_high
  <2>1. \A q \in 0 .. 3 : RankOf(g, r, q) = n + q
    BY <1>1, <1>3 DEF RankOf, IRL_CHAF_Rank_by_XRL, MAXIMUM_CHAF_RANK
  <2> QED
    BY <2>1
<1> QED
  BY <1>2, <1>3

\* The rank of a variant is that of its place in the piece.
LEMMA VariantRanks ==
    ASSUME NEW g, NEW c, NEW r, NEW s, NEW q
    PROVE  /\ \A nulled : Ranked(<<FinalIRL(g, c, r, s, nulled, q)>>, LHS_of_Piece(g, c, r, s), RankOf(g, r, q))
           /\ \A e, nulled : Ranked(<<ContinuedIRL(g, c, r, s, e, nulled, q)>>,
                                    LHS_of_Piece(g, c, r, s), RankOf(g, r, q))
           /\ Ranked(<<>>, LHS_of_Piece(g, c, r, s), RankOf(g, r, q))
<1>1. ASSUME NEW irl, irl.lhs = LHS_of_Piece(g, c, r, s), irl.rank = RankOf(g, r, q)
      PROVE  Ranked(<<irl>>, LHS_of_Piece(g, c, r, s), RankOf(g, r, q))
  <2>1. \A x \in ToSet(<<irl>>) : x = irl
    BY DEF ToSet
  <2> QED
    BY <1>1, <2>1, SingleOnce DEF Ranked
<1>2. ASSUME NEW nulled
      PROVE  Ranked(<<FinalIRL(g, c, r, s, nulled, q)>>, LHS_of_Piece(g, c, r, s), RankOf(g, r, q))
  <2>1. /\ FinalIRL(g, c, r, s, nulled, q).lhs = LHS_of_Piece(g, c, r, s)
        /\ FinalIRL(g, c, r, s, nulled, q).rank = RankOf(g, r, q)
    BY DEF FinalIRL, NewIRL, RankOf
  <2> QED
    BY <1>1, <2>1
<1>3. ASSUME NEW e, NEW nulled
      PROVE  Ranked(<<ContinuedIRL(g, c, r, s, e, nulled, q)>>, LHS_of_Piece(g, c, r, s), RankOf(g, r, q))
  <2>1. /\ ContinuedIRL(g, c, r, s, e, nulled, q).lhs = LHS_of_Piece(g, c, r, s)
        /\ ContinuedIRL(g, c, r, s, e, nulled, q).rank = RankOf(g, r, q)
    BY DEF ContinuedIRL, NewIRL, RankOf
  <2> QED
    BY <1>1, <2>1
<1>4. Ranked(<<>>, LHS_of_Piece(g, c, r, s), RankOf(g, r, q))
  BY SingleOnce DEF Ranked, ToSet
<1> QED
  BY <1>2, <1>3, <1>4

\* What follows a piece in PiecesFrom has no rule twice and none of the piece.
Following(m, k, f, suffix, h, q) ==
    /\ m - k >= 2 /\ f[k + 1] > suffix => q = h[<<k + 1, f[k + 1]>>]
    /\ m - k >= 2 /\ ~ (f[k + 1] > suffix) => q = h[<<k + 2, f[k + 1] + 1>>]

\* No rule is made twice for a piece and what follows it.
LEMMA PiecesFromOnce ==
    ASSUME NEW g, NEW c, NEW r, NEW L, NEW m, NEW f, NEW suffix, IsFactored(g, c, r, L, m, f, suffix),
           g.rules[r].rank \in Int, NEW h, NEW k \in 1 .. m, NEW s \in 1 .. L,
           NEW rest \in Seq(PieceRules(g, c, r, L)), Following(m, k, f, suffix, h, rest),
           OnceApart(rest, LHS_of_Piece(g, c, r, s))
    PROVE  NoneTwice(PiecesFrom(g, c, r, f, k, s, h))
<1> DEFINE X == PieceRules(g, c, r, L)
           made == PiecesFrom(g, c, r, f, k, s, h)
           lhs == LHS_of_Piece(g, c, r, s)
           F(nulled, q) == <<FinalIRL(g, c, r, s, nulled, q)>>
           U(nulled) == IF NNAllowed(s, suffix) THEN F(nulled, 0) ELSE <<>>
           C(e, nulled, q) == <<ContinuedIRL(g, c, r, s, e, nulled, q)>>
           R(q) == RankOf(g, r, q)
<1>1. /\ L \in Nat /\ m \in Nat /\ suffix \in 0 .. L /\ Len(f) = m /\ Len(g.rules[r].rhs) = L
      /\ suffix = nullable_suffix(c, g.rules[r])
  BY DEF IsFactored
<1>2. made = CASE m - k >= 2 /\ f[k + 1] > suffix ->
                    C(f[k + 1] - 1, {}, 3) \o F(f[k + 1] .. L, 2) \o C(f[k + 1] - 1, {f[k]}, 1)
                    \o U({f[k]} \cup f[k + 1] .. L) \o h[<<k + 1, f[k + 1]>>]
               [] m - k >= 2 /\ ~ (f[k + 1] > suffix) ->
                    C(f[k + 1], {}, 3) \o C(f[k + 1], {f[k + 1]}, 2) \o C(f[k + 1], {f[k]}, 1)
                    \o C(f[k + 1], {f[k], f[k + 1]}, 0) \o h[<<k + 2, f[k + 1] + 1>>]
               [] m - k = 1 ->
                    F({}, 3) \o F({f[k + 1]}, 2) \o F({f[k]}, 1) \o U({f[k], f[k + 1]})
               [] OTHER -> F({}, 3) \o U({f[k]})
  BY <1>1, Zenon DEF PiecesFrom, NullableFrom
<1>3. ASSUME NEW nulled, nulled \subseteq 1 .. L, NEW q \in 0 .. 3
      PROVE  /\ F(nulled, q) \in Seq(X) /\ Ranked(F(nulled, q), lhs, R(q))
             /\ U(nulled) \in Seq(X) /\ Ranked(U(nulled), lhs, R(0))
             /\ \A e \in 1 .. L : C(e, nulled, q) \in Seq(X) /\ Ranked(C(e, nulled, q), lhs, R(q))
  <2>1. 0 \in 0 .. 3
    OBVIOUS
  <2>2. FinalIRL(g, c, r, s, nulled, q) \in X /\ FinalIRL(g, c, r, s, nulled, 0) \in X
    BY <1>3, <2>1, FinalIsPiece
  <2>3. \A e \in 1 .. L : ContinuedIRL(g, c, r, s, e, nulled, q) \in X
    BY <1>3, ContinuedIsPiece
  <2> HIDE DEF X
  <2>4. F(nulled, q) \in Seq(X) /\ F(nulled, 0) \in Seq(X) /\ <<>> \in Seq(X)
    BY <2>2, SingleParts
  <2>5. \A e \in 1 .. L : C(e, nulled, q) \in Seq(X)
    BY <2>3, SingleParts
  <2>6. /\ Ranked(F(nulled, q), lhs, R(q)) /\ Ranked(F(nulled, 0), lhs, R(0))
        /\ (\A e \in 1 .. L : Ranked(C(e, nulled, q), lhs, R(q))) /\ Ranked(<<>>, lhs, R(0))
    BY VariantRanks
  <2> HIDE DEF F, C, R, lhs
  <2> QED
    BY <2>4, <2>5, <2>6
<1>4. R(3) # R(2) /\ R(3) # R(1) /\ R(3) # R(0) /\ R(2) # R(1) /\ R(2) # R(0) /\ R(1) # R(0)
  BY RanksDiffer
<1>5. OnceApart(rest, lhs) /\ rest \in Seq(X)
  OBVIOUS
<1>6. ASSUME NEW P1, NEW P2, NEW P3, NEW P4,
             P1 \in Seq(X), P2 \in Seq(X), P3 \in Seq(X), P4 \in Seq(X),
             Ranked(P1, lhs, R(3)), Ranked(P2, lhs, R(2)), Ranked(P3, lhs, R(1)), Ranked(P4, lhs, R(0))
      PROVE  /\ NoneTwice(P1 \o P2 \o P3 \o P4 \o rest)
             /\ NoneTwice(P1 \o P2 \o P3 \o P4)
             /\ NoneTwice(P1 \o P4)
  <2> HIDE DEF R, lhs, X
  <2>1. PICK r1, r2, r3, r4 : r1 = R(3) /\ r2 = R(2) /\ r3 = R(1) /\ r4 = R(0)
    OBVIOUS
  <2>2. AreRanked(lhs, P1, P2, P3, P4, r1, r2, r3, r4)
    BY <1>4, <1>6, <2>1 DEF AreRanked
  <2> QED
    BY <1>5, <1>6, <2>2, RankedOnce
<1>7. /\ f[k] \in 1 .. L /\ {f[k]} \subseteq 1 .. L /\ {} \subseteq 1 .. L
      /\ m - k >= 1 => /\ f[k + 1] \in 1 .. L /\ f[k + 1] - 1 \in 1 .. L /\ f[k + 1] .. L \subseteq 1 .. L
                       /\ {f[k + 1]} \subseteq 1 .. L /\ {f[k], f[k + 1]} \subseteq 1 .. L
                       /\ {f[k]} \cup f[k + 1] .. L \subseteq 1 .. L
  <2>1. \A j \in 1 .. m : f[j] \in 1 .. L
    BY FactorBounds
  <2>2. m - k >= 1 => k + 1 \in 1 .. m /\ k < k + 1
    BY <1>1
  <2>3. m - k >= 1 => f[k] < f[k + 1] /\ f[k + 1] \in 1 .. L
    BY <2>1, <2>2, FactorBounds
  <2> QED
    BY <1>1, <2>1, <2>3
<1>8. 0 \in 0 .. 3 /\ 1 \in 0 .. 3 /\ 2 \in 0 .. 3 /\ 3 \in 0 .. 3
  OBVIOUS
<1>9. m - k >= 2 => m - k >= 1 /\ m - k # 1
  BY <1>1
<1> HIDE DEF X, F, U, C, made, R, lhs
<1>10. CASE m - k >= 2 /\ f[k + 1] > suffix
  <2>1. PICK P1, P2, P3, P4 :
           /\ P1 = C(f[k + 1] - 1, {}, 3) /\ P2 = F(f[k + 1] .. L, 2)
           /\ P3 = C(f[k + 1] - 1, {f[k]}, 1) /\ P4 = U({f[k]} \cup f[k + 1] .. L)
    OBVIOUS
  <2>2. rest = h[<<k + 1, f[k + 1]>>]
    BY <1>10 DEF Following
  <2>3. made = P1 \o P2 \o P3 \o P4 \o rest
    BY <1>2, <1>9, <1>10, <2>1, <2>2, Zenon
  <2>4. P1 \in Seq(X) /\ Ranked(P1, lhs, R(3))
    BY <1>3, <1>7, <1>8, <1>9, <1>10, <2>1, Zenon
  <2>5. P2 \in Seq(X) /\ Ranked(P2, lhs, R(2))
    BY <1>3, <1>7, <1>8, <1>9, <1>10, <2>1, Zenon
  <2>6. P3 \in Seq(X) /\ Ranked(P3, lhs, R(1))
    BY <1>3, <1>7, <1>8, <1>9, <1>10, <2>1, Zenon
  <2>7. P4 \in Seq(X) /\ Ranked(P4, lhs, R(0))
    BY <1>3, <1>7, <1>8, <1>9, <1>10, <2>1, Zenon
  <2>8. NoneTwice(made)
    BY <1>6, <2>3, <2>4, <2>5, <2>6, <2>7, Zenon
  <2> QED
    BY <2>8 DEF made
<1>11. CASE m - k >= 2 /\ ~ (f[k + 1] > suffix)
  <2>1. PICK P1, P2, P3, P4 :
           /\ P1 = C(f[k + 1], {}, 3) /\ P2 = C(f[k + 1], {f[k + 1]}, 2)
           /\ P3 = C(f[k + 1], {f[k]}, 1) /\ P4 = C(f[k + 1], {f[k], f[k + 1]}, 0)
    OBVIOUS
  <2>2. rest = h[<<k + 2, f[k + 1] + 1>>]
    BY <1>11 DEF Following
  <2>3. made = P1 \o P2 \o P3 \o P4 \o rest
    BY <1>2, <1>9, <1>11, <2>1, <2>2, Zenon
  <2>4. P1 \in Seq(X) /\ Ranked(P1, lhs, R(3))
    BY <1>3, <1>7, <1>8, <1>9, <1>11, <2>1, Zenon
  <2>5. P2 \in Seq(X) /\ Ranked(P2, lhs, R(2))
    BY <1>3, <1>7, <1>8, <1>9, <1>11, <2>1, Zenon
  <2>6. P3 \in Seq(X) /\ Ranked(P3, lhs, R(1))
    BY <1>3, <1>7, <1>8, <1>9, <1>11, <2>1, Zenon
  <2>7. P4 \in Seq(X) /\ Ranked(P4, lhs, R(0))
    BY <1>3, <1>7, <1>8, <1>9, <1>11, <2>1, Zenon
  <2>8. NoneTwice(made)
    BY <1>6, <2>3, <2>4, <2>5, <2>6, <2>7, Zenon
  <2> QED
    BY <2>8 DEF made
<1>12. CASE m - k = 1
  <2>1. PICK P1, P2, P3, P4 :
           /\ P1 = F({}, 3) /\ P2 = F({f[k + 1]}, 2) /\ P3 = F({f[k]}, 1) /\ P4 = U({f[k], f[k + 1]})
    OBVIOUS
  <2>2. ~ (m - k >= 2) /\ m - k >= 1
    BY <1>1, <1>12
  <2>3. made = P1 \o P2 \o P3 \o P4
    BY <1>2, <1>12, <2>1, <2>2, Zenon
  <2>4. P1 \in Seq(X) /\ Ranked(P1, lhs, R(3))
    BY <1>3, <1>7, <1>8, <2>1, Zenon
  <2>5. P2 \in Seq(X) /\ Ranked(P2, lhs, R(2))
    BY <1>3, <1>7, <1>8, <2>1, <2>2, Zenon
  <2>6. P3 \in Seq(X) /\ Ranked(P3, lhs, R(1))
    BY <1>3, <1>7, <1>8, <2>1, Zenon
  <2>7. P4 \in Seq(X) /\ Ranked(P4, lhs, R(0))
    BY <1>3, <1>7, <1>8, <2>1, <2>2, Zenon
  <2>8. NoneTwice(made)
    BY <1>6, <2>3, <2>4, <2>5, <2>6, <2>7, Zenon
  <2> QED
    BY <2>8 DEF made
<1>13. CASE ~ (m - k >= 2) /\ m - k # 1
  <2>1. PICK P1, P2, P3, P4 : P1 = F({}, 3) /\ P2 = F({}, 2) /\ P3 = F({}, 1) /\ P4 = U({f[k]})
    OBVIOUS
  <2>2. made = P1 \o P4
    BY <1>2, <1>13, <2>1, Zenon
  <2>3. P1 \in Seq(X) /\ Ranked(P1, lhs, R(3))
    BY <1>3, <1>7, <1>8, <2>1, Zenon
  <2>4. P2 \in Seq(X) /\ Ranked(P2, lhs, R(2))
    BY <1>3, <1>7, <1>8, <2>1, Zenon
  <2>5. P3 \in Seq(X) /\ Ranked(P3, lhs, R(1))
    BY <1>3, <1>7, <1>8, <2>1, Zenon
  <2>6. P4 \in Seq(X) /\ Ranked(P4, lhs, R(0))
    BY <1>3, <1>7, <1>8, <2>1, Zenon
  <2>7. NoneTwice(made)
    BY <1>6, <2>2, <2>3, <2>4, <2>5, <2>6, Zenon
  <2> QED
    BY <2>7 DEF made
<1> QED
  BY <1>10, <1>11, <1>12, <1>13

-----------------------------------------------------------------------------
(* The pieces of a rule together *)

\* The rules R are those of pieces that start at the positions P, each piece with its
\* table.
OfPiece(g, c, r, s, R) == {irl \in R : irl.lhs = LHS_of_Piece(g, c, r, s)}
HasTable(g, c, r, L, s, R, P) ==
    \E s2 \in s + 1 .. L + 1 :
       (s2 = L + 1 \/ s2 \in P) /\ Table(g, c, r, L, s, s2, OfPiece(g, c, r, s, R))
Tables(g, c, r, L, R, P) ==
    /\ P \subseteq 1 .. L
    /\ \A s \in P : HasTable(g, c, r, L, s, R, P)
    /\ \A irl \in R : \E s \in P : irl.lhs = LHS_of_Piece(g, c, r, s)
StartsAt(s, P) == s \in P /\ \A t \in P : t >= s
PiecesExact(g, c, r, L, s, q) ==
    NoneTwice(q) /\ \E P : StartsAt(s, P) /\ Tables(g, c, r, L, ToSet(q), P)

\* The symbol of a piece tells where it starts.
LEMMA PieceSymbolsDiffer ==
    ASSUME NEW g, NEW c, NEW r, NEW s, NEW t, LHS_of_Piece(g, c, r, s) = LHS_of_Piece(g, c, r, t)
    PROVE  s = t
<1>1. \A x : NSY_of(c, x).kind \in {"proper", "nulled"}
  BY DEF NSY_of, Nulling_NSY, NSY
<1>2. \A p : VirtualNSY(g, r, p).kind = "virtual" /\ VirtualNSY(g, r, p).position = p
  BY DEF VirtualNSY, NSY
<1> QED
  BY <1>1, <1>2 DEF LHS_of_Piece

\* A piece and the pieces that follow it.
LEMMA EarlierTable ==
    ASSUME NEW g, NEW c, NEW r, NEW L \in Nat, NEW s \in 1 .. L, NEW s2 \in 1 .. L, s < s2,
           NEW O, Table(g, c, r, L, s, s2, O), NEW T, NEW Q, StartsAt(s2, Q), Tables(g, c, r, L, T, Q)
    PROVE  StartsAt(s, {s} \cup Q) /\ Tables(g, c, r, L, O \cup T, {s} \cup Q)
<1> DEFINE P == {s} \cup Q
           R == O \cup T
<1>1. Q \subseteq 1 .. L /\ \A t \in Q : t > s
  BY DEF Tables, StartsAt
<1>2. StartsAt(s, P)
  BY <1>1 DEF StartsAt
<1>3. \A irl \in O : irl.lhs = LHS_of_Piece(g, c, r, s)
  BY DEF Table
<1>4. \A irl \in T : \E t \in Q : irl.lhs = LHS_of_Piece(g, c, r, t)
  BY DEF Tables
<1>5. OfPiece(g, c, r, s, R) = O
  <2>1. \A irl \in T : irl.lhs # LHS_of_Piece(g, c, r, s)
    BY <1>1, <1>4, PieceSymbolsDiffer
  <2> QED
    BY <1>3, <2>1 DEF OfPiece
<1>6. ASSUME NEW t \in Q
      PROVE  OfPiece(g, c, r, t, R) = OfPiece(g, c, r, t, T)
  <2>1. \A irl \in O : irl.lhs # LHS_of_Piece(g, c, r, t)
    BY <1>1, <1>3, PieceSymbolsDiffer
  <2> QED
    BY <2>1 DEF OfPiece
<1>7. HasTable(g, c, r, L, s, R, P)
  <2>1. s2 \in s + 1 .. L + 1 /\ s2 \in P
    BY DEF StartsAt
  <2>2. Table(g, c, r, L, s, s2, OfPiece(g, c, r, s, R))
    BY <1>5
  <2> HIDE DEF P, R
  <2> QED
    BY <2>1, <2>2 DEF HasTable
<1>8. ASSUME NEW t \in Q
      PROVE  HasTable(g, c, r, L, t, R, P)
  <2>1. PICK t2 \in t + 1 .. L + 1 :
          (t2 = L + 1 \/ t2 \in Q) /\ Table(g, c, r, L, t, t2, OfPiece(g, c, r, t, T))
    BY DEF Tables, HasTable
  <2>2. (t2 = L + 1 \/ t2 \in P) /\ Table(g, c, r, L, t, t2, OfPiece(g, c, r, t, R))
    BY <1>6, <2>1
  <2> HIDE DEF P, R
  <2> QED
    BY <2>1, <2>2 DEF HasTable
<1>9. P \subseteq 1 .. L
  BY <1>1
<1>10. \A irl \in R : \E t \in P : irl.lhs = LHS_of_Piece(g, c, r, t)
  BY <1>3, <1>4
<1> HIDE DEF P, R
<1>11. \A t \in P : HasTable(g, c, r, L, t, R, P)
  BY <1>7, <1>8 DEF P
<1>12. Tables(g, c, r, L, R, P)
  BY <1>9, <1>10, <1>11 DEF Tables
<1> QED
  BY <1>2, <1>12 DEF P, R

\* One piece alone.
LEMMA OneTable ==
    ASSUME NEW g, NEW c, NEW r, NEW L \in Nat, NEW s \in 1 .. L, NEW O, Table(g, c, r, L, s, L + 1, O)
    PROVE  StartsAt(s, {s}) /\ Tables(g, c, r, L, O, {s})
<1>1. OfPiece(g, c, r, s, O) = O
  BY DEF Table, OfPiece
<1>2. L + 1 \in s + 1 .. L + 1
  OBVIOUS
<1>3. HasTable(g, c, r, L, s, O, {s})
  BY <1>1, <1>2 DEF HasTable
<1>4. \A irl \in O : \E t \in {s} : irl.lhs = LHS_of_Piece(g, c, r, t)
  BY DEF Table
<1> QED
  BY <1>3, <1>4 DEF StartsAt, Tables

\* What comes after a piece is apart from it.
LEMMA LaterApart ==
    ASSUME NEW g, NEW c, NEW r, NEW L \in Nat, NEW s \in 1 .. L, NEW s2 \in 1 .. L, s < s2,
           NEW q, PiecesExact(g, c, r, L, s2, q)
    PROVE  OnceApart(q, LHS_of_Piece(g, c, r, s))
<1>1. PICK P : StartsAt(s2, P) /\ Tables(g, c, r, L, ToSet(q), P)
  BY DEF PiecesExact
<1>2. \A t \in P : t # s
  BY <1>1 DEF StartsAt, Tables
<1>3. \A irl \in ToSet(q) : irl.lhs # LHS_of_Piece(g, c, r, s)
  BY <1>1, <1>2, PieceSymbolsDiffer DEF Tables
<1> QED
  BY <1>3 DEF OnceApart, PiecesExact

\* The same of the rules as a sequence: what goes before, and the last piece.
LEMMA EarlierExact ==
    ASSUME NEW g, NEW c, NEW r, NEW L \in Nat, NEW s \in 1 .. L, NEW s2 \in 1 .. L, s < s2,
           NEW O, Table(g, c, r, L, s, s2, O), NEW q, PiecesExact(g, c, r, L, s2, q),
           NEW made, NoneTwice(made), ToSet(made) = O \cup ToSet(q)
    PROVE  PiecesExact(g, c, r, L, s, made)
<1>1. PICK P : StartsAt(s2, P) /\ Tables(g, c, r, L, ToSet(q), P)
  BY DEF PiecesExact
<1>2. StartsAt(s, {s} \cup P) /\ Tables(g, c, r, L, O \cup ToSet(q), {s} \cup P)
  BY <1>1, EarlierTable
<1> QED
  BY <1>2 DEF PiecesExact

\* A piece that no other follows.
LEMMA LastExact ==
    ASSUME NEW g, NEW c, NEW r, NEW L \in Nat, NEW s \in 1 .. L,
           NEW O, Table(g, c, r, L, s, L + 1, O), NEW made, NoneTwice(made), ToSet(made) = O
    PROVE  PiecesExact(g, c, r, L, s, made)
<1>1. StartsAt(s, {s}) /\ Tables(g, c, r, L, O, {s})
  BY OneTable
<1> QED
  BY <1>1 DEF PiecesExact

\* The rules of the pieces of a rule are for its words, each for its own.
LEMMA PiecesAreExact ==
    ASSUME NEW g, NEW c, NEW r, NEW L, NEW m, NEW f, NEW suffix, IsFactored(g, c, r, L, m, f, suffix),
           m # 0, g.rules[r].rank \in Int
    PROVE  PiecesExact(g, c, r, L, 1, PieceIRLs(g, c, r))
<1>1. PICK h \in [(1 .. m) \X (1 .. L) -> Seq(PieceRules(g, c, r, L))] :
         /\ \A at \in (1 .. m) \X (1 .. L) : h[at] = PiecesFrom(g, c, r, f, at[1], at[2], h)
         /\ PieceIRLs(g, c, r) = h[<<1, 1>>]
  <2>1. \E h : IsPieces(g, c, r, L, m, f, h)
    BY PieceIRLsParts
  <2> QED
    BY <2>1, Zenon DEF IsPieces
<1>2. L \in Nat /\ m \in Nat /\ suffix \in 0 .. L
  BY DEF IsFactored
<1>3. /\ \A j \in 1 .. m : f[j] \in 1 .. L
      /\ \A i, j \in 1 .. m : i < j => f[i] < f[j]
  <2>1. \A j \in 1 .. m : f[j] \in 1 .. L
    BY FactorBounds
  <2>2. \A i, j \in 1 .. m : i < j => f[i] < f[j]
    BY FactorBounds
  <2> QED
    BY <2>1, <2>2
<1> DEFINE Shown(k) == \A s \in 1 .. L : FirstFrom(f, k, s) => PiecesExact(g, c, r, L, s, h[<<k, s>>])
           S == {n \in 0 .. m : \A k \in 1 .. m : k > m - n => Shown(k)}
<1>4. ASSUME NEW k \in 1 .. m, \A j \in 1 .. m : j > k => Shown(j)
      PROVE  Shown(k)
  <2> SUFFICES ASSUME NEW s \in 1 .. L, FirstFrom(f, k, s)
               PROVE  PiecesExact(g, c, r, L, s, h[<<k, s>>])
    OBVIOUS
  <2>1. h[<<k, s>>] = PiecesFrom(g, c, r, f, k, s, h)
    <3>1. <<k, s>> \in (1 .. m) \X (1 .. L) /\ <<k, s>>[1] = k /\ <<k, s>>[2] = s
      OBVIOUS
    <3> QED
      BY <1>1, <3>1
  <2>2. PiecesMade(g, c, r, L, m, f, suffix, k, s, h, h[<<k, s>>])
    <3>1. PiecesMade(g, c, r, L, m, f, suffix, k, s, h, PiecesFrom(g, c, r, f, k, s, h))
      BY <1>1, PiecesFromParts
    <3> QED
      BY <2>1, <3>1
  <2>3. IsPieceAt(g, c, r, L, m, f, suffix, k, s)
    BY DEF IsPieceAt
  <2>4. ASSUME NEW rest \in Seq(PieceRules(g, c, r, L)), Following(m, k, f, suffix, h, rest),
               OnceApart(rest, LHS_of_Piece(g, c, r, s))
        PROVE  NoneTwice(h[<<k, s>>])
    BY <2>1, <2>4, PiecesFromOnce
  <2>5. CASE m - k >= 2 /\ f[k + 1] > suffix
    <3>1. k + 1 \in 1 .. m /\ k + 1 > k /\ k + 1 # 1 /\ (k + 1) - 1 = k /\ k < k + 1
      BY <1>2, <2>5
    <3>2. f[k + 1] \in 1 .. L /\ f[k] < f[k + 1] /\ f[k] \in 1 .. L
      BY <1>3, <3>1
    <3>3. FirstFrom(f, k + 1, f[k + 1]) /\ s < f[k + 1]
      BY <1>2, <3>1, <3>2 DEF FirstFrom
    <3>4. PICK s2, rest : s2 = f[k + 1] /\ rest = h[<<k + 1, s2>>]
      OBVIOUS
    <3>5. rest \in Seq(PieceRules(g, c, r, L))
      BY <3>1, <3>2, <3>4
    <3>6. PiecesExact(g, c, r, L, s2, rest)
      BY <1>4, <3>1, <3>2, <3>3, <3>4
    <3>7. OnceApart(rest, LHS_of_Piece(g, c, r, s))
      BY <1>2, <3>2, <3>3, <3>4, <3>6, LaterApart
    <3>8. Following(m, k, f, suffix, h, rest)
      BY <2>5, <3>4 DEF Following
    <3>9. NoneTwice(h[<<k, s>>])
      BY <2>4, <3>5, <3>7, <3>8
    <3>10. Table(g, c, r, L, s, s2, OwnRules1(g, c, r, L, s, f[k], f[k + 1], suffix))
      BY <2>3, <2>5, <3>1, <3>4, Table1
    <3>11. ToSet(h[<<k, s>>]) = OwnRules1(g, c, r, L, s, f[k], f[k + 1], suffix) \cup ToSet(rest)
      BY <2>2, <2>5, <3>4 DEF PiecesMade
    <3> QED
      BY <1>2, <3>2, <3>3, <3>4, <3>6, <3>9, <3>10, <3>11, EarlierExact
  <2>6. CASE m - k >= 2 /\ ~ (f[k + 1] > suffix)
    <3>1. /\ k + 1 \in 1 .. m /\ k + 2 \in 1 .. m /\ k + 2 > k /\ k + 2 # 1 /\ (k + 2) - 1 = k + 1
          /\ k + 1 < k + 2 /\ k < k + 1
      BY <1>2, <2>6
    <3>2. f[k + 1] \in 1 .. L /\ f[k + 2] \in 1 .. L /\ f[k + 1] < f[k + 2] /\ f[k] < f[k + 1] /\ f[k] \in 1 .. L
      BY <1>3, <3>1
    <3>3. FirstFrom(f, k + 2, f[k + 1] + 1) /\ f[k + 1] + 1 \in 1 .. L /\ s < f[k + 1] + 1
      <4>1. f[k + 1] + 1 \in 1 .. L /\ f[k + 1] + 1 <= f[k + 2] /\ f[k + 1] < f[k + 1] + 1
        BY <1>2, <3>2
      <4>2. f[(k + 2) - 1] = f[k + 1] /\ k + 2 # 1
        BY <3>1
      <4>3. s <= f[k] /\ s \in 1 .. L
        BY <1>2 DEF FirstFrom
      <4>4. s < f[k + 1] + 1
        BY <3>2, <4>3
      <4> QED
        BY <4>1, <4>2, <4>4 DEF FirstFrom
    <3>4. PICK s2, rest : s2 = f[k + 1] + 1 /\ rest = h[<<k + 2, s2>>]
      OBVIOUS
    <3>5. rest \in Seq(PieceRules(g, c, r, L))
      BY <3>1, <3>3, <3>4
    <3>6. PiecesExact(g, c, r, L, s2, rest)
      BY <1>4, <3>1, <3>3, <3>4
    <3>7. OnceApart(rest, LHS_of_Piece(g, c, r, s))
      BY <1>2, <3>3, <3>4, <3>6, LaterApart
    <3>8. Following(m, k, f, suffix, h, rest)
      BY <2>6, <3>4 DEF Following
    <3>9. NoneTwice(h[<<k, s>>])
      BY <2>4, <3>5, <3>7, <3>8
    <3>10. Table(g, c, r, L, s, s2, OwnRules2(g, c, r, s, f[k], f[k + 1]))
      BY <2>3, <2>6, <3>1, <3>4, Table2
    <3>11. ToSet(h[<<k, s>>]) = OwnRules2(g, c, r, s, f[k], f[k + 1]) \cup ToSet(rest)
      BY <2>2, <2>6, <3>4 DEF PiecesMade
    <3> QED
      BY <1>2, <3>3, <3>4, <3>6, <3>9, <3>10, <3>11, EarlierExact
  <2>7. ASSUME ~ (m - k >= 2)
        PROVE  NoneTwice(h[<<k, s>>])
    <3>1. <<>> \in Seq(PieceRules(g, c, r, L))
      BY SingleParts
    <3>2. Following(m, k, f, suffix, h, <<>>)
      BY <2>7 DEF Following
    <3>3. OnceApart(<<>>, LHS_of_Piece(g, c, r, s))
      BY SingleOnce DEF OnceApart, ToSet
    <3> QED
      BY <2>4, <3>1, <3>2, <3>3
  <2>8. CASE m - k = 1
    <3>1. Table(g, c, r, L, s, L + 1, OwnRules3(g, c, r, s, f[k], f[k + 1], suffix))
      BY <2>3, <2>8, Table3
    <3>2. ToSet(h[<<k, s>>]) = OwnRules3(g, c, r, s, f[k], f[k + 1], suffix)
      BY <2>2, <2>8 DEF PiecesMade
    <3>3. ~ (m - k >= 2)
      BY <1>2, <2>8
    <3> QED
      BY <1>2, <2>7, <3>1, <3>2, <3>3, LastExact
  <2>9. CASE m = k
    <3>1. Table(g, c, r, L, s, L + 1, OwnRules4(g, c, r, s, f[k], suffix))
      BY <2>3, <2>9, Table4
    <3>2. ToSet(h[<<k, s>>]) = OwnRules4(g, c, r, s, f[k], suffix)
      BY <2>2, <2>9 DEF PiecesMade
    <3>3. ~ (m - k >= 2)
      BY <1>2, <2>9
    <3> QED
      BY <1>2, <2>7, <3>1, <3>2, <3>3, LastExact
  <2>10. m - k >= 2 \/ m - k = 1 \/ m = k
    BY <1>2
  <2> QED
    BY <2>5, <2>6, <2>8, <2>9, <2>10
<1> HIDE DEF Shown
<1>5. 0 \in S
  BY <1>2
<1>6. ASSUME NEW n \in 0 .. m, n \in S, n < m
      PROVE  n + 1 \in S
  <2>1. ASSUME NEW k \in 1 .. m, k > m - (n + 1)
        PROVE  Shown(k)
    <3>1. \A j \in 1 .. m : j > k => j > m - n
      BY <1>2, <2>1
    <3> QED
      BY <1>4, <1>6, <3>1
  <2> QED
    BY <1>2, <1>6, <2>1
<1> HIDE DEF S
<1>7. \A n \in 0 .. m : n \in S
  BY <1>2, <1>5, <1>6, UpTo
<1>8. Shown(1)
  <2>1. m \in 0 .. m /\ 1 \in 1 .. m /\ 1 > m - m
    BY <1>2
  <2> QED
    BY <1>7, <2>1 DEF S
<1>9. 1 \in 1 .. m /\ 1 \in 1 .. L /\ FirstFrom(f, 1, 1)
  <2>1. 1 \in 1 .. m
    BY <1>2
  <2>2. f[1] \in 1 .. L
    BY <1>3, <2>1
  <2> QED
    BY <1>2, <2>1, <2>2 DEF FirstFrom
<1> QED
  BY <1>1, <1>8, <1>9 DEF Shown

\* A rule without factors.
LEMMA PlainIsExact ==
    ASSUME NEW g, NEW c, NEW r, NEW L, NEW f, NEW suffix, IsFactored(g, c, r, L, 0, f, suffix),
           \E i \in 1 .. L : g.rules[r].rhs[i] \notin c.nulling
    PROVE  PiecesExact(g, c, r, L, 1, <<PlainIRL(g, c, r)>>)
<1>1. PICK irl : irl = PlainIRL(g, c, r)
  OBVIOUS
<1>2. L \in Nat /\ Len(g.rules[r].rhs) = L /\ DOMAIN g.rules[r].rhs = 1 .. L /\ 1 \in 1 .. L
  BY DEF IsFactored
<1>3. \A i \in 1 .. L : ~ IsFactor(c, g.rules[r], i)
  BY FactorBounds DEF IsFactor
<1>4. IsFinal(g, c, r, L, 1, {}, irl)
  <2>1. /\ irl.lhs = LHS_of_Piece(g, c, r, 1) /\ irl.source = r
        /\ irl.virtual_lhs = FALSE /\ irl.virtual_rhs = FALSE
        /\ irl.rhs = [i \in 1 .. L |-> NSY_of(c, g.rules[r].rhs[i])]
    BY <1>1, <1>2 DEF PlainIRL, NewIRL, LHS_of_Piece
  <2>5. L - 1 + 1 = L /\ \A p \in 1 .. L : 1 + p - 1 = p
    BY <1>2
  <2>2. Len(irl.rhs) = L - 1 + 1 /\ DOMAIN irl.rhs = 1 .. L - 1 + 1
    BY <1>2, <2>1, <2>5
  <2>3. \A p \in 1 .. L - 1 + 1 : irl.rhs[p] = NSYAt(c, g.rules[r], {}, 1 + p - 1)
    BY <1>2, <2>1, <2>5 DEF NSYAt
  <2>4. irl.virtual_lhs = (1 > 1)
    <3>1. (1 > 1) = FALSE
      OBVIOUS
    <3> QED
      BY <2>1, <3>1
  <2> QED
    BY <2>1, <2>2, <2>3, <2>4 DEF IsFinal
<1>5. ASSUME NEW N, AreFactors(c, g.rules[r], 1, L, N)
      PROVE  N = {}
  BY <1>3, <1>5 DEF AreFactors
<1>6. IsWord(c, g.rules[r], L, 1, {})
  BY DEF IsWord, AreFactors
<1>7. \A N : Ends(c, g.rules[r], L, L + 1, N)
  BY <1>2, LastEnds
<1>8. PICK fin, con : fin = [N \in {{}} |-> irl] /\ con = {}
  OBVIOUS
<1>9. AreFinals(g, c, r, L, 1, L + 1, {irl}, {{}}, fin)
  BY <1>4, <1>6, <1>7, <1>8 DEF AreFinals
<1>10. AreContinued(g, c, r, L, 1, L + 1, {irl}, {}, con)
  BY DEF AreContinued
<1>11. AreAll({irl}, {{}}, fin, {}, con)
  BY <1>8 DEF AreAll
<1>12. CoverWords(c, g.rules[r], L, 1, L + 1, {{}}, {})
  BY <1>5, <1>7 DEF CoverWords, IsWord
<1>13. L + 1 \in Nat /\ 1 < L + 1
  BY <1>2
<1>14. Table(g, c, r, L, 1, L + 1, {irl})
  BY <1>2, <1>9, <1>10, <1>11, <1>12, <1>13, TableOf
<1>15. NoneTwice(<<irl>>) /\ ToSet(<<irl>>) = {irl}
  BY SingleOnce DEF ToSet
<1> QED
  BY <1>1, <1>2, <1>14, <1>15, LastExact

\* The internal rules of a rule that is used and is not a sequence.
RuleExact(g, c, r) ==
    \E L \in Nat : /\ Len(g.rules[r].rhs) = L /\ DOMAIN g.rules[r].rhs = 1 .. L /\ 1 \in 1 .. L
                   /\ PiecesExact(g, c, r, L, 1, IRLs_of_XRL(g, c, r))

\* They are for its words, each for its own.
LEMMA RuleIsExact ==
    ASSUME NEW g, GrammarOK(g), NEW c, NEW r \in XRLs_of(g), XRL_is_Used(c, g.rules[r]),
           ~ g.rules[r].sequence
    PROVE  RuleExact(g, c, r)
<1>1. /\ g.rules[r].rhs \in Seq(Nat)
      /\ \E i \in DOMAIN g.rules[r].rhs : g.rules[r].rhs[i] \notin c.nulling
  BY UsedShows
<1>2. PICK L, m, f, suffix : IsFactored(g, c, r, L, m, f, suffix)
  BY <1>1, RuleIsFactored
<1>3. /\ L \in Nat /\ Len(g.rules[r].rhs) = L /\ DOMAIN g.rules[r].rhs = 1 .. L
      /\ m \in Nat /\ Len(f) = m /\ f = FactorPositions(c, g.rules[r]) /\ DOMAIN f = 1 .. m
  BY <1>2 DEF IsFactored
<1>4. g.rules[r].rank \in Int
  <2>1. g.rules \in Seq(Rules)
    BY DEF GrammarOK
  <2>2. g.rules[r] \in Rules
    BY <2>1 DEF XRLs_of
  <2> QED
    BY <2>2 DEF Rules
<1>5. 1 \in 1 .. L
  BY <1>1, <1>3
<1>6. CASE m # 0
  <2>1. f # <<>>
    BY <1>3, <1>6
  <2>2. IRLs_of_XRL(g, c, r) = PieceIRLs(g, c, r)
    BY <1>3, <2>1, Zenon DEF IRLs_of_XRL
  <2>3. PiecesExact(g, c, r, L, 1, PieceIRLs(g, c, r))
    BY <1>2, <1>4, <1>6, PiecesAreExact
  <2> QED
    BY <1>3, <1>5, <2>2, <2>3 DEF RuleExact
<1>7. CASE m = 0
  <2>1. f = <<>>
    <3>1. f \in [1 .. m -> FactorsOf(c, g.rules[r])]
      BY <1>2 DEF IsFactored
    <3> QED
      BY <1>7, <3>1
  <2>2. IRLs_of_XRL(g, c, r) = <<PlainIRL(g, c, r)>>
    BY <1>3, <2>1, Zenon DEF IRLs_of_XRL, PlainIRL
  <2>3. PiecesExact(g, c, r, L, 1, <<PlainIRL(g, c, r)>>)
    BY <1>1, <1>2, <1>3, <1>7, PlainIsExact
  <2> QED
    BY <1>3, <1>5, <2>2, <2>3 DEF RuleExact
<1> QED
  BY <1>6, <1>7

-----------------------------------------------------------------------------
(* Loops: from the internal rules to the rules of the grammar *)

\* The symbol of a rule that alone is not nulled.
IsUnitAt(c, rule, p) ==
    /\ p \in DOMAIN rule.rhs
    /\ \A q \in DOMAIN rule.rhs : q # p => rule.rhs[q] \in c.nullable
    /\ rule.rhs[p] \notin c.nullable \/ rule.rhs[p] \notin c.nulling

\* The symbols that a rule may derive when all else in it is nulled.
LEMMA UnitSymbolsAre ==
    ASSUME NEW c, NEW rule, NEW L \in Nat, DOMAIN rule.rhs = 1 .. L, NEW x
    PROVE  x \in UnitSymbols(c, rule) <=> \E p : rule.rhs[p] = x /\ IsUnitAt(c, rule, p)
<1> DEFINE proper == {i \in DOMAIN rule.rhs : rule.rhs[i] \notin c.nullable}
<1>1. IsFiniteSet(proper) /\ Cardinality(proper) \in Nat
  <2>1. IsFiniteSet(1 .. L)
    BY FS_Interval
  <2>2. proper \subseteq 1 .. L
    OBVIOUS
  <2>3. IsFiniteSet(proper)
    BY <2>1, <2>2, FS_Subset
  <2> QED
    BY <2>3, FS_CardinalityType
<1>2. UnitSymbols(c, rule) = CASE Cardinality(proper) = 1 -> {rule.rhs[i] : i \in proper}
                               [] Cardinality(proper) = 0 -> RHSOf(rule) \ c.nulling
                               [] OTHER -> {}
  BY DEF UnitSymbols
<1> HIDE DEF proper
<1>3. ASSUME NEW p, rule.rhs[p] = x, IsUnitAt(c, rule, p)
      PROVE  x \in UnitSymbols(c, rule)
  <2>1. CASE rule.rhs[p] \notin c.nullable
    <3>1. proper = {p}
      BY <1>3, <2>1 DEF IsUnitAt, proper
    <3>2. Cardinality(proper) = 1 /\ Cardinality(proper) # 0
      <4>1. Cardinality(proper) = 1
        BY <3>1, FS_Singleton
      <4> QED
        BY <4>1
    <3>3. x \in {rule.rhs[i] : i \in proper}
      BY <1>3, <3>1
    <3> QED
      BY <1>2, <3>2, <3>3, Zenon
  <2>2. CASE rule.rhs[p] \in c.nullable
    <3>1. proper = {}
      BY <1>3, <2>2 DEF IsUnitAt, proper
    <3>2. Cardinality(proper) = 0 /\ Cardinality(proper) # 1
      BY <3>1, FS_EmptySet
    <3>3. x \in RHSOf(rule) \ c.nulling
      BY <1>3, <2>2 DEF IsUnitAt, RHSOf
    <3> QED
      BY <1>2, <3>2, <3>3, Zenon
  <2> QED
    BY <2>1, <2>2
<1>4. ASSUME x \in UnitSymbols(c, rule)
      PROVE  \E p : rule.rhs[p] = x /\ IsUnitAt(c, rule, p)
  <2>1. \/ Cardinality(proper) = 1 /\ x \in {rule.rhs[i] : i \in proper}
        \/ Cardinality(proper) = 0 /\ x \in RHSOf(rule) \ c.nulling
    BY <1>2, <1>4, Zenon
  <2>2. CASE Cardinality(proper) = 1 /\ x \in {rule.rhs[i] : i \in proper}
    <3>1. PICK p : proper = {p}
      BY <1>1, <2>2, FS_Singleton
    <3>2. rule.rhs[p] = x
      BY <2>2, <3>1
    <3>3. IsUnitAt(c, rule, p)
      BY <3>1 DEF IsUnitAt, proper
    <3> QED
      BY <3>2, <3>3
  <2>3. CASE Cardinality(proper) = 0 /\ x \in RHSOf(rule) \ c.nulling
    <3>1. proper = {}
      BY <1>1, <2>3, FS_EmptySet
    <3>2. PICK p \in DOMAIN rule.rhs : rule.rhs[p] = x
      BY <2>3 DEF RHSOf
    <3>3. IsUnitAt(c, rule, p)
      BY <2>3, <3>1, <3>2 DEF IsUnitAt, proper
    <3> QED
      BY <3>2, <3>3
  <2> QED
    BY <2>1, <2>2, <2>3
<1> QED
  BY <1>3, <1>4

\* What is made of a rule, by its left side.
MadeShown(g, c, irl) ==
    /\ irl.source \in XRLs_of(g) /\ XRL_is_Used(c, g.rules[irl.source])
    /\ irl \in RulesMade(g, c, irl.source)
    /\ irl.lhs.kind \in {"proper", "virtual"}
    /\ irl.lhs.kind = "proper" => irl.lhs.xsy = g.rules[irl.source].lhs
    /\ irl.lhs.kind = "virtual" => irl.lhs.rule = irl.source

\* Each internal rule but the start rule is of a used rule, which its left side shows.
LEMMA MadeShows ==
    ASSUME NEW g, NEW c, IsCensused(g, c), NEW irl, IsMade(g, c, irl)
    PROVE  MadeShown(g, c, irl)
<1>1. PICK r \in XRLs_of(g) : XRL_is_Used(c, g.rules[r]) /\ irl \in RulesMade(g, c, r)
  BY DEF IsMade
<1>2. IRLFits(g, r, RulesMade(g, c, r), irl)
  BY <1>1, MadeFits
<1>3. irl.source = r /\ irl.virtual_lhs \in BOOLEAN
      /\ irl.lhs.kind = (IF irl.virtual_lhs THEN "virtual" ELSE "proper")
  BY <1>2 DEF IRLFits
<1>4. /\ irl.virtual_lhs \/ irl.lhs.xsy = g.rules[irl.source].lhs
      /\ irl.virtual_lhs => irl.lhs.rule = irl.source
  BY <1>2 DEF IRLFits, FitsSource
<1> QED
  BY <1>1, <1>3, <1>4 DEF MadeShown

\* The symbols of a used rule that are nulled can be.
LEMMA NulledIsNullable ==
    ASSUME NEW g, NEW c, IsCensused(g, c), NEW r \in XRLs_of(g), XRL_is_Used(c, g.rules[r])
    PROVE  /\ \A q \in DOMAIN g.rules[r].rhs :
                 g.rules[r].rhs[q] \in c.nulling => g.rules[r].rhs[q] \in c.nullable
           /\ \A q \in DOMAIN g.rules[r].rhs : \A N :
                 /\ q \in N => IsFactor(c, g.rules[r], q)
                 /\ NSYAt(c, g.rules[r], N, q).kind = "nulled"
                 => g.rules[r].rhs[q] \in c.nullable
<1>1. RHSOf(g.rules[r]) \subseteq c.productive
  BY DEF XRL_is_Used
<1>2. \A q \in DOMAIN g.rules[r].rhs :
         g.rules[r].rhs[q] \in c.nulling => g.rules[r].rhs[q] \in c.nullable
  BY <1>1, NullingIsNullable DEF RHSOf
<1>3. ASSUME NEW q \in DOMAIN g.rules[r].rhs, NEW N, q \in N => IsFactor(c, g.rules[r], q),
             NSYAt(c, g.rules[r], N, q).kind = "nulled"
      PROVE  g.rules[r].rhs[q] \in c.nullable
  <2>1. q \in N \/ g.rules[r].rhs[q] \in c.nulling
    BY <1>3, KindOfSymbol
  <2> QED
    BY <1>2, <1>3, <2>1 DEF IsFactor
<1> QED
  BY <1>2, <1>3

\* Where the piece starts that a rule is of, and what is before it.
At(irl) == IF irl.lhs.kind = "virtual" THEN irl.lhs.position ELSE 0
NullableBefore(g, c, irl) ==
    \A q \in DOMAIN g.rules[irl.source].rhs :
       q < At(irl) => g.rules[irl.source].rhs[q] \in c.nullable
GoesOn(g, c, i, j) ==
    /\ i.source = j.source /\ At(i) < At(j)
    /\ \A q \in DOMAIN g.rules[i.source].rhs :
          At(i) <= q /\ q < At(j) => g.rules[i.source].rhs[q] \in c.nullable
Enters(g, c, i, j) ==
    /\ At(j) = 0
    /\ NullableBefore(g, c, i) =>
          g.rules[j.source].lhs \in UnitSymbols(c, g.rules[i.source])

\* A rule that ends its rule, and a rule that goes on.
LEMMA FinalGoes ==
    ASSUME NEW g, NEW c, IsCensused(g, c), NEW i, MadeShown(g, c, i), NEW j, MadeShown(g, c, j),
           DerivesAlone(i, j.lhs), NEW L \in Nat, DOMAIN g.rules[i.source].rhs = 1 .. L,
           NEW s \in 1 .. L, NEW N, IsWord(c, g.rules[i.source], L, s, N),
           IsFinal(g, c, i.source, L, s, N, i)
    PROVE  Enters(g, c, i, j)
<1>1. PICK r, rule : r = i.source /\ rule = g.rules[r]
  OBVIOUS
<1>2. /\ DOMAIN i.rhs = 1 .. L - s + 1
      /\ \A p \in 1 .. L - s + 1 : i.rhs[p] = NSYAt(c, rule, N, s + p - 1)
      /\ i.lhs = LHS_of_Piece(g, c, r, s)
  BY <1>1 DEF IsFinal
<1>3. PICK p \in 1 .. L - s + 1 :
         i.rhs[p] = j.lhs /\ \A q \in 1 .. L - s + 1 : i.rhs[q].kind = "nulled" <=> q # p
  BY <1>2 DEF DerivesAlone, NSY_is_Nulling
<1>4. PICK at : at = s + p - 1
  OBVIOUS
<1>5. at \in s .. L /\ NSYAt(c, rule, N, at) = j.lhs
  BY <1>2, <1>3, <1>4
<1>6. NSYAt(c, rule, N, at).kind = "proper" /\ NSYAt(c, rule, N, at).xsy = rule.rhs[at]
  BY <1>3, <1>5, KindOfSymbol DEF MadeShown
<1>7. rule.rhs[at] = g.rules[j.source].lhs /\ At(j) = 0
  BY <1>5, <1>6 DEF MadeShown, At
<1>8. rule.rhs[at] \notin c.nulling
  BY <1>6 DEF NSYAt, NSY_of, Nulling_NSY, NSY
<1>9. ASSUME NEW q \in s .. L, q # at
      PROVE  rule.rhs[q] \in c.nullable
  <2>1. q - s + 1 \in 1 .. L - s + 1 /\ s + (q - s + 1) - 1 = q /\ q - s + 1 # p
    BY <1>4, <1>9
  <2>2. NSYAt(c, rule, N, q).kind = "nulled"
    BY <1>2, <1>3, <2>1
  <2>3. q \in N => IsFactor(c, rule, q)
    BY <1>1 DEF IsWord, AreFactors
  <2>4. q \in DOMAIN rule.rhs
    BY <1>1
  <2> QED
    BY <1>1, <2>2, <2>3, <2>4, NulledIsNullable DEF MadeShown
<1>10. ASSUME NullableBefore(g, c, i)
       PROVE  IsUnitAt(c, rule, at)
  <2>1. ASSUME NEW q \in 1 .. L, q < s
        PROVE  rule.rhs[q] \in c.nullable
    <3>1. At(i) = s
      <4>1. s # 1
        BY <2>1
      <4> QED
        BY <1>2, <4>1 DEF LHS_of_Piece, VirtualNSY, NSY, At
    <3> QED
      BY <1>1, <1>10, <2>1, <3>1 DEF NullableBefore
  <2>2. \A q \in 1 .. L : q # at => rule.rhs[q] \in c.nullable
    <3>1. \A q \in 1 .. L : q < s \/ q \in s .. L
      OBVIOUS
    <3> QED
      BY <1>9, <2>1, <3>1
  <2> QED
    BY <1>1, <1>5, <1>8, <2>2 DEF IsUnitAt
<1>11. NullableBefore(g, c, i) => rule.rhs[at] \in UnitSymbols(c, rule)
  BY <1>1, <1>10, UnitSymbolsAre
<1> QED
  BY <1>1, <1>7, <1>11 DEF Enters

\* A rule that goes on can only derive alone the symbol of the piece it goes on in.
LEMMA ContinuedGoes ==
    ASSUME NEW g, NEW c, IsCensused(g, c), NEW i, MadeShown(g, c, i), NEW j, MadeShown(g, c, j),
           DerivesAlone(i, j.lhs), NEW L \in Nat, DOMAIN g.rules[i.source].rhs = 1 .. L,
           NEW s \in 1 .. L, NEW s2 \in 1 .. L, s < s2,
           NEW N, AreFactors(c, g.rules[i.source], s, s2 - 1, N),
           IsContinued(g, c, i.source, s, s2 - 1, N, i)
    PROVE  GoesOn(g, c, i, j)
<1>1. PICK r, rule : r = i.source /\ rule = g.rules[r]
  OBVIOUS
<1>2. PICK n : n = (s2 - 1) - s + 1
  OBVIOUS
<1>3. n \in Nat /\ (s2 - 1) - s + 2 = n + 1 /\ (s2 - 1) + 1 = s2 /\ n + 1 \in 1 .. n + 1
  BY <1>2
<1>4. /\ DOMAIN i.rhs = 1 .. n + 1
      /\ \A p \in 1 .. n : i.rhs[p] = NSYAt(c, rule, N, s + p - 1)
      /\ i.lhs = LHS_of_Piece(g, c, r, s)
      /\ i.rhs[n + 1] = VirtualNSY(g, r, s2)
  BY <1>1, <1>2, <1>3 DEF IsContinued
<1>5. PICK p \in 1 .. n + 1 :
         i.rhs[p] = j.lhs /\ \A q \in 1 .. n + 1 : i.rhs[q].kind = "nulled" <=> q # p
  BY <1>4 DEF DerivesAlone, NSY_is_Nulling
<1>6. /\ VirtualNSY(g, r, s2).kind = "virtual" /\ VirtualNSY(g, r, s2).rule = r
      /\ VirtualNSY(g, r, s2).position = s2
  BY DEF VirtualNSY, NSY
<1>7. p = n + 1
  BY <1>3, <1>4, <1>5, <1>6
<1>8. j.source = r /\ At(j) = s2
  BY <1>4, <1>5, <1>6, <1>7 DEF MadeShown, At
<1>9. ASSUME NEW q \in s .. s2 - 1
      PROVE  rule.rhs[q] \in c.nullable
  <2>1. q - s + 1 \in 1 .. n /\ s + (q - s + 1) - 1 = q /\ q - s + 1 # n + 1
        /\ q - s + 1 \in 1 .. n + 1
    BY <1>2, <1>9
  <2>2. NSYAt(c, rule, N, q).kind = "nulled"
    BY <1>4, <1>5, <1>7, <2>1
  <2>3. q \in N => IsFactor(c, rule, q)
    BY <1>1 DEF AreFactors
  <2>4. q \in DOMAIN rule.rhs
    BY <1>1
  <2> QED
    BY <1>1, <2>2, <2>3, <2>4, NulledIsNullable DEF MadeShown
<1>10. At(i) = s \/ (s = 1 /\ At(i) = 0)
  <2>1. CASE s = 1
    <3>1. i.lhs = NSY_of(c, g.rules[r].lhs)
      BY <1>4, <2>1 DEF LHS_of_Piece
    <3>2. i.lhs.kind # "virtual"
      BY <3>1 DEF NSY_of, Nulling_NSY, NSY
    <3> QED
      BY <2>1, <3>2 DEF At
  <2>2. CASE s # 1
    BY <1>4, <2>2 DEF LHS_of_Piece, VirtualNSY, NSY, At
  <2> QED
    BY <2>1, <2>2
<1>11. At(i) < At(j)
  BY <1>8, <1>10
<1>12. \A q \in DOMAIN rule.rhs : At(i) <= q /\ q < At(j) => rule.rhs[q] \in c.nullable
  <2>1. \A q \in 1 .. L : At(i) <= q /\ q < s2 => q \in s .. s2 - 1
    BY <1>10
  <2> QED
    BY <1>1, <1>8, <1>9, <2>1
<1> QED
  BY <1>1, <1>8, <1>11, <1>12 DEF GoesOn

\* The first positions of what a sequence makes.
LEMMA SequenceGoes ==
    ASSUME NEW g, NEW c, IsCensused(g, c), NEW i, MadeShown(g, c, i), NEW j, MadeShown(g, c, j),
           DerivesAlone(i, j.lhs), g.rules[i.source].sequence
    PROVE  GoesOn(g, c, i, j) \/ Enters(g, c, i, j)
<1>1. PICK r, rule : r = i.source /\ rule = g.rules[r]
  OBVIOUS
<1>2. r \in XRLs_of(g) /\ XRL_is_Used(c, rule) /\ i \in RulesMade(g, c, r)
  BY <1>1 DEF MadeShown
<1>3. SequenceOK(g, c, r, RulesMade(g, c, r))
  BY <1>1, <1>2, SequenceRuleOK DEF RulesMade
<1>4. IsOfSequence(g, c, r, i)
  BY <1>2, <1>3 DEF SequenceOK
<1>5. DOMAIN rule.rhs = 1 .. 1
  <2>1. GrammarOK(g)
    BY DEF IsCensused
  <2>2. rule.rhs \in Seq(Nat) /\ WellMade(rule)
    BY <1>1, <1>2, <2>1, UsedShows
  <2> QED
    BY <1>1, <2>2 DEF WellMade
<1>6. rule.rhs[1] \notin c.nulling /\ rule.rhs[1] \in RHSOf(rule)
  BY <1>1, <1>2, UsedTakesInput
<1>7. rule.rhs[1] \notin c.nullable /\ (rule.separator # NoXSY => rule.separator \notin c.nullable)
  <2>1. RHSOf(rule) \cup SeparatorOf(rule) \subseteq counted(g)
    BY <1>1, <1>2 DEF counted
  <2> QED
    BY <1>6, <2>1 DEF IsCensused, SeparatorOf
<1>8. rule.separator # NoXSY => rule.separator \notin c.nulling
  <2>1. rule.separator # NoXSY => rule.separator \in c.productive
    BY <1>2 DEF XRL_is_Used, SeparatorOf
  <2>2. c.nulling \cap c.productive \subseteq c.nullable
    BY NullingIsNullable
  <2> QED
    BY <1>7, <2>1, <2>2
<1>9. PICK v, item, separator :
         v = VirtualNSY(g, r, 1) /\ item = NSY_of(c, rule.rhs[1]) /\ separator = NSY_of(c, rule.separator)
  OBVIOUS
<1>10. /\ v.kind = "virtual" /\ v.rule = r /\ v.position = 1
       /\ item.kind = "proper" /\ item.xsy = rule.rhs[1]
       /\ rule.separator # NoXSY => separator.kind = "proper"
  BY <1>6, <1>8, <1>9 DEF VirtualNSY, NSY_of, NSY
<1>11. PICK p \in DOMAIN i.rhs :
          i.rhs[p] = j.lhs /\ \A q \in DOMAIN i.rhs : i.rhs[q].kind = "nulled" <=> q # p
  BY DEF DerivesAlone, NSY_is_Nulling
<1>12. CASE i.rhs = <<v>> /\ i.lhs = NSY_of(c, rule.lhs)
  <2>1. p = 1 /\ j.lhs = v
    BY <1>11, <1>12
  <2>2. j.source = r /\ At(j) = 1
    BY <1>10, <2>1 DEF MadeShown, At
  <2>3. At(i) = 0
    BY <1>12 DEF At, NSY_of, Nulling_NSY, NSY
  <2>4. \A q \in DOMAIN rule.rhs : ~ (q < 1)
    BY <1>5
  <2> QED
    BY <1>1, <2>2, <2>3, <2>4 DEF GoesOn
<1>13. CASE i.rhs = <<item>>
  <2>1. p = 1 /\ j.lhs = item
    BY <1>11, <1>13
  <2>2. rule.rhs[1] = g.rules[j.source].lhs /\ At(j) = 0
    BY <1>10, <2>1 DEF MadeShown, At
  <2>3. IsUnitAt(c, rule, 1)
    BY <1>5, <1>6 DEF IsUnitAt
  <2>4. rule.rhs[1] \in UnitSymbols(c, rule)
    BY <1>5, <2>3, UnitSymbolsAre
  <2> QED
    BY <1>1, <2>2, <2>4 DEF Enters
<1>14. ASSUME \E x, y : i.rhs = <<x, y>> /\ x.kind # "nulled" /\ y.kind # "nulled"
       PROVE  FALSE
  <2>1. PICK x, y : i.rhs = <<x, y>> /\ x.kind # "nulled" /\ y.kind # "nulled"
    BY <1>14
  <2>2. 1 \in DOMAIN i.rhs /\ 2 \in DOMAIN i.rhs /\ i.rhs[1] = x /\ i.rhs[2] = y
    BY <2>1
  <2> QED
    BY <1>11, <2>1, <2>2
<1>15. ASSUME \E x, y, z : i.rhs = <<x, y, z>> /\ x.kind # "nulled" /\ y.kind # "nulled"
       PROVE  FALSE
  <2>1. PICK x, y, z : i.rhs = <<x, y, z>> /\ x.kind # "nulled" /\ y.kind # "nulled"
    BY <1>15
  <2>2. 1 \in DOMAIN i.rhs /\ 2 \in DOMAIN i.rhs /\ i.rhs[1] = x /\ i.rhs[2] = y
    BY <2>1
  <2> QED
    BY <1>11, <2>1, <2>2
<1>16. CASE IsTop(g, c, r, i)
  BY <1>1, <1>9, <1>12, <1>16 DEF IsTop, IsIRL
<1>17. CASE IsTerminated(g, c, r, i)
  <2>1. i.rhs = <<v, separator>> /\ rule.separator # NoXSY
    BY <1>1, <1>9, <1>17 DEF IsTerminated, IsIRL
  <2> QED
    BY <1>10, <1>14, <2>1
<1>18. CASE IsFirstItem(g, c, r, i)
  BY <1>1, <1>9, <1>13, <1>18 DEF IsFirstItem, IsIRL
<1>19. CASE IsNextItem(g, c, r, i)
  <2>1. i.rhs = <<v, item>>
    BY <1>1, <1>9, <1>19 DEF IsNextItem, IsIRL
  <2> QED
    BY <1>10, <1>14, <2>1
<1>20. CASE IsSeparatedItem(g, c, r, i)
  <2>1. i.rhs = <<v, separator, item>> /\ rule.separator # NoXSY
    BY <1>1, <1>9, <1>20 DEF IsSeparatedItem, IsIRL
  <2> QED
    BY <1>10, <1>15, <2>1
<1> QED
  BY <1>4, <1>16, <1>17, <1>18, <1>19, <1>20 DEF IsOfSequence

\* A rule that derives the left side of another goes on with its external rule, or enters
\* one that it is in a unit transition to.
LEMMA UnitGoes ==
    ASSUME NEW g, NEW c, IsCensused(g, c), NEW i, MadeShown(g, c, i), NEW j, MadeShown(g, c, j),
           DerivesAlone(i, j.lhs)
    PROVE  GoesOn(g, c, i, j) \/ Enters(g, c, i, j)
<1>1. CASE g.rules[i.source].sequence
  BY <1>1, SequenceGoes
<1>2. CASE ~ g.rules[i.source].sequence
  <2>1. PICK r : r = i.source
    OBVIOUS
  <2>2. r \in XRLs_of(g) /\ XRL_is_Used(c, g.rules[r]) /\ i \in RulesMade(g, c, r) /\ GrammarOK(g)
    BY <2>1 DEF MadeShown, IsCensused
  <2>3. RuleExact(g, c, r)
    BY <1>2, <2>1, <2>2, RuleIsExact
  <2>4. PICK L \in Nat : /\ DOMAIN g.rules[r].rhs = 1 .. L
                         /\ PiecesExact(g, c, r, L, 1, IRLs_of_XRL(g, c, r))
    BY <2>3 DEF RuleExact
  <2>5. PICK P : Tables(g, c, r, L, RulesMade(g, c, r), P)
    BY <2>4 DEF PiecesExact, RulesMade
  <2>6. PICK s \in P : i.lhs = LHS_of_Piece(g, c, r, s)
    BY <2>2, <2>5 DEF Tables
  <2>7. s \in 1 .. L /\ HasTable(g, c, r, L, s, RulesMade(g, c, r), P)
    BY <2>5, <2>6 DEF Tables
  <2>8. PICK s2 \in s + 1 .. L + 1 : Table(g, c, r, L, s, s2, OfPiece(g, c, r, s, RulesMade(g, c, r)))
    BY <2>7 DEF HasTable
  <2>9. i \in OfPiece(g, c, r, s, RulesMade(g, c, r))
    BY <2>2, <2>6 DEF OfPiece
  <2>10. IsOwn(g, c, r, L, s, s2, i)
    BY <2>8, <2>9 DEF Table
  <2>11. CASE \E N : IsWord(c, g.rules[r], L, s, N) /\ IsFinal(g, c, r, L, s, N, i)
    <3>1. PICK N : IsWord(c, g.rules[r], L, s, N) /\ IsFinal(g, c, r, L, s, N, i)
      BY <2>11
    <3>2. Enters(g, c, i, j)
      BY <2>1, <2>4, <2>7, <3>1, FinalGoes
    <3> QED
      BY <3>2
  <2>12. CASE \E N : /\ AreFactors(c, g.rules[r], s, s2 - 1, N) /\ s2 \in 1 .. L
                     /\ IsContinued(g, c, r, s, s2 - 1, N, i)
    <3>1. PICK N : /\ AreFactors(c, g.rules[r], s, s2 - 1, N) /\ s2 \in 1 .. L
                   /\ IsContinued(g, c, r, s, s2 - 1, N, i)
      BY <2>12
    <3>2. s < s2
      BY <2>7
    <3>3. GoesOn(g, c, i, j)
      BY <2>1, <2>4, <2>7, <3>1, <3>2, ContinuedGoes
    <3> QED
      BY <3>3
  <2> QED
    BY <2>10, <2>11, <2>12 DEF IsOwn
<1> QED
  BY <1>1, <1>2

\* The unit transitions of the internal rules, numbered from 0, and their closure.
UnitIRLs(W) ==
    {e \in (0 .. Len(W) - 1) \X (0 .. Len(W) - 1) : DerivesAlone(W[e[1] + 1], W[e[2] + 1].lhs)}
UnitClosure(W) == closure_of(UnitIRLs(W), Len(W))
UnitXRLs(g, c) ==
    {e \in (0 .. Len(g.rules) - 1) \X (0 .. Len(g.rules) - 1) :
       g.rules[e[2] + 1].lhs \in UnitSymbols(c, g.rules[e[1] + 1])}
Transitions(g, c) == closure_of(UnitXRLs(g, c), Len(g.rules))

\* What a path of unit transitions from an internal rule to another shows.
Follows(g, c, i, j) ==
    /\ MadeShown(g, c, j)
    /\ MadeShown(g, c, i) =>
          /\ NullableBefore(g, c, j) \/ GoesOn(g, c, i, j)
          /\ NullableBefore(g, c, i) =>
                /\ NullableBefore(g, c, j)
                /\ \/ <<i.source - 1, j.source - 1>> \in Transitions(g, c)
                   \/ i.source = j.source /\ At(i) < At(j)

\* The closure of the unit transitions between rules.
LEMMA TransitionsAre ==
    ASSUME NEW g, GrammarOK(g), NEW c
    PROVE  \E n \in Nat :
              /\ XRLs_of(g) = 1 .. n /\ Len(g.rules) = n
              /\ UnitXRLs(g, c) \subseteq Transitions(g, c)
              /\ Transitions(g, c) \subseteq (0 .. n - 1) \X (0 .. n - 1)
              /\ IsTransitiveTo(Transitions(g, c), n)
              /\ \A T : UnitXRLs(g, c) \subseteq T /\ IsTransitiveTo(T, n) =>
                           Transitions(g, c) \subseteq T
<1>1. g.rules \in Seq(Rules)
  BY DEF GrammarOK
<1>2. PICK n \in Nat : XRLs_of(g) = 1 .. n /\ Len(g.rules) = n
  BY <1>1 DEF XRLs_of
<1>3. UnitXRLs(g, c) \subseteq (0 .. n - 1) \X (0 .. n - 1)
  BY <1>2 DEF UnitXRLs
<1>4. PICK R, C : R = UnitXRLs(g, c) /\ C = Transitions(g, c)
  OBVIOUS
<1>5. C = closure_of(R, n)
  BY <1>2, <1>4 DEF Transitions
<1>6. /\ R \subseteq C /\ C \subseteq (0 .. n - 1) \X (0 .. n - 1) /\ IsTransitiveTo(C, n)
      /\ \A T : R \subseteq T /\ IsTransitiveTo(T, n) => C \subseteq T
  BY <1>3, <1>4, <1>5, WarshallIsLeast
<1> QED
  BY <1>2, <1>4, <1>6

\* The loops are the rules that the closure leads back to themselves.
LEMMA LoopRulesAre ==
    ASSUME NEW g, NEW c, NEW r
    PROVE  r \in LoopRules(g, c) <=> r \in XRLs_of(g) /\ <<r - 1, r - 1>> \in Transitions(g, c)
  BY DEF LoopRules, Transitions, UnitXRLs

\* The closure of the unit transitions between internal rules.
LEMMA UnitsAre ==
    ASSUME NEW g, NEW c, IsCensused(g, c), NEW W, W = Rewrite(g, c)
    PROVE  \E n \in Nat :
              /\ DOMAIN W = 1 .. n /\ Len(W) = n
              /\ UnitIRLs(W) \subseteq UnitClosure(W)
              /\ UnitClosure(W) \subseteq (0 .. n - 1) \X (0 .. n - 1)
              /\ IsTransitiveTo(UnitClosure(W), n)
              /\ \A T : UnitIRLs(W) \subseteq T /\ IsTransitiveTo(T, n) => UnitClosure(W) \subseteq T
<1>1. PICK n \in Nat : DOMAIN W = 1 .. n /\ Len(W) = n
  BY RewriteParts
<1>2. UnitIRLs(W) \subseteq (0 .. n - 1) \X (0 .. n - 1)
  BY <1>1 DEF UnitIRLs
<1>3. PICK R, C : R = UnitIRLs(W) /\ C = UnitClosure(W)
  OBVIOUS
<1>4. C = closure_of(R, n)
  BY <1>1, <1>3 DEF UnitClosure
<1>5. /\ R \subseteq C /\ C \subseteq (0 .. n - 1) \X (0 .. n - 1) /\ IsTransitiveTo(C, n)
      /\ \A T : R \subseteq T /\ IsTransitiveTo(T, n) => C \subseteq T
  BY <1>2, <1>3, <1>4, WarshallIsLeast
<1> QED
  BY <1>1, <1>3, <1>5

\* A piece starts at a position.
LEMMA StageIsNumber ==
    ASSUME NEW g, NEW c, IsCensused(g, c), NEW irl, MadeShown(g, c, irl)
    PROVE  At(irl) \in Nat
<1>1. PICK r : r = irl.source
  OBVIOUS
<1>2. r \in XRLs_of(g) /\ XRL_is_Used(c, g.rules[r]) /\ irl \in RulesMade(g, c, r) /\ GrammarOK(g)
  BY <1>1 DEF MadeShown, IsCensused
<1>3. \A x : NSY_of(c, x).kind # "virtual"
  BY DEF NSY_of, Nulling_NSY, NSY
<1>4. \A s : VirtualNSY(g, r, s).position = s
  BY DEF VirtualNSY, NSY
<1>5. CASE g.rules[r].sequence
  <2>1. SequenceOK(g, c, r, RulesMade(g, c, r))
    BY <1>2, <1>5, SequenceRuleOK DEF RulesMade
  <2>2. IsOfSequence(g, c, r, irl)
    BY <1>2, <2>1 DEF SequenceOK
  <2>3. irl.lhs = NSY_of(c, g.rules[r].lhs) \/ irl.lhs = VirtualNSY(g, r, 1)
    BY <2>2, Zenon DEF IsOfSequence, IsTop, IsTerminated, IsFirstItem, IsNextItem, IsSeparatedItem, IsIRL
  <2> QED
    BY <1>3, <1>4, <2>3 DEF At
<1>6. CASE ~ g.rules[r].sequence
  <2>1. RuleExact(g, c, r)
    BY <1>2, <1>6, RuleIsExact
  <2>2. PICK L \in Nat : PiecesExact(g, c, r, L, 1, IRLs_of_XRL(g, c, r))
    BY <2>1 DEF RuleExact
  <2>3. PICK P : Tables(g, c, r, L, RulesMade(g, c, r), P)
    BY <2>2 DEF PiecesExact, RulesMade
  <2>4. PICK s \in P : irl.lhs = LHS_of_Piece(g, c, r, s)
    BY <1>2, <2>3 DEF Tables
  <2>5. s \in Nat
    BY <2>3, <2>4 DEF Tables
  <2> QED
    BY <1>3, <1>4, <2>4, <2>5 DEF LHS_of_Piece, At
<1> QED
  BY <1>5, <1>6

\* One unit transition.
LEMMA FollowsOne ==
    ASSUME NEW g, NEW c, IsCensused(g, c), NEW i, NEW j,
           MadeShown(g, c, j) \/ IsStart(g, c, j),
           \A nsy \in RHSOf(i) : nsy.kind # "start",
           DerivesAlone(i, j.lhs)
    PROVE  Follows(g, c, i, j)
<1>1. j.lhs \in RHSOf(i)
  BY DEF DerivesAlone, RHSOf
<1>2. MadeShown(g, c, j)
  BY <1>1 DEF IsStart
<1>3. ASSUME MadeShown(g, c, i)
      PROVE  /\ NullableBefore(g, c, j) \/ GoesOn(g, c, i, j)
             /\ NullableBefore(g, c, i) =>
                   /\ NullableBefore(g, c, j)
                   /\ \/ <<i.source - 1, j.source - 1>> \in Transitions(g, c)
                      \/ i.source = j.source /\ At(i) < At(j)
  <2>1. PICK n \in Nat : /\ XRLs_of(g) = 1 .. n /\ Len(g.rules) = n
                         /\ UnitXRLs(g, c) \subseteq Transitions(g, c)
    BY TransitionsAre DEF IsCensused
  <2>2. i.source \in 1 .. n /\ j.source \in 1 .. n
    BY <1>2, <1>3, <2>1 DEF MadeShown
  <2>3. DOMAIN g.rules[j.source].rhs \subseteq Nat \ {0}
    <3>1. GrammarOK(g)
      BY DEF IsCensused
    <3>2. g.rules[j.source].rhs \in Seq(Nat)
      BY <1>2, <3>1, UsedShows DEF MadeShown
    <3> QED
      BY <3>2
  <2>4. CASE Enters(g, c, i, j)
    <3>1. NullableBefore(g, c, j)
      BY <2>3, <2>4 DEF Enters, NullableBefore
    <3>2. ASSUME NullableBefore(g, c, i)
          PROVE  <<i.source - 1, j.source - 1>> \in Transitions(g, c)
      <4>1. g.rules[j.source].lhs \in UnitSymbols(c, g.rules[i.source])
        BY <2>4, <3>2 DEF Enters
      <4>2. PICK e : e = <<i.source - 1, j.source - 1>>
        OBVIOUS
      <4>3. e \in (0 .. n - 1) \X (0 .. n - 1) /\ e[1] + 1 = i.source /\ e[2] + 1 = j.source
        BY <2>2, <4>2
      <4>4. e \in UnitXRLs(g, c)
        BY <2>1, <4>1, <4>3 DEF UnitXRLs
      <4> QED
        BY <2>1, <4>2, <4>4
    <3> QED
      BY <3>1, <3>2
  <2>5. CASE GoesOn(g, c, i, j)
    <3>1. ASSUME NullableBefore(g, c, i), NEW q \in DOMAIN g.rules[j.source].rhs, q < At(j)
          PROVE  g.rules[j.source].rhs[q] \in c.nullable
      <4>1. q \in DOMAIN g.rules[i.source].rhs /\ i.source = j.source
        BY <2>5, <3>1 DEF GoesOn
      <4>2. CASE q < At(i)
        BY <3>1, <4>1, <4>2 DEF NullableBefore
      <4>3. CASE At(i) <= q
        BY <2>5, <3>1, <4>1, <4>3 DEF GoesOn
      <4>4. At(i) \in Int /\ q \in Int
        BY <1>3, <2>3, <3>1, StageIsNumber
      <4> QED
        BY <4>2, <4>3, <4>4
    <3> QED
      BY <2>5, <3>1 DEF GoesOn, NullableBefore
  <2> QED
    BY <1>2, <1>3, <2>4, <2>5, UnitGoes
<1> QED
  BY <1>2, <1>3 DEF Follows

\* One after the other.
LEMMA FollowsOn ==
    ASSUME NEW g, NEW c, IsCensused(g, c), NEW i, NEW j, NEW k,
           Follows(g, c, i, j), Follows(g, c, j, k)
    PROVE  Follows(g, c, i, k)
<1>1. MadeShown(g, c, j) /\ MadeShown(g, c, k)
  BY DEF Follows
<1>2. ASSUME MadeShown(g, c, i)
      PROVE  /\ NullableBefore(g, c, k) \/ GoesOn(g, c, i, k)
             /\ NullableBefore(g, c, i) =>
                   /\ NullableBefore(g, c, k)
                   /\ \/ <<i.source - 1, k.source - 1>> \in Transitions(g, c)
                      \/ i.source = k.source /\ At(i) < At(k)
  <2>1. At(i) \in Nat /\ At(j) \in Nat /\ At(k) \in Nat
    BY <1>1, <1>2, StageIsNumber
  <2>2. /\ NullableBefore(g, c, j) \/ GoesOn(g, c, i, j)
        /\ NullableBefore(g, c, i) =>
              /\ NullableBefore(g, c, j)
              /\ \/ <<i.source - 1, j.source - 1>> \in Transitions(g, c)
                 \/ i.source = j.source /\ At(i) < At(j)
    BY <1>2 DEF Follows
  <2>3. /\ NullableBefore(g, c, k) \/ GoesOn(g, c, j, k)
        /\ NullableBefore(g, c, j) =>
              /\ NullableBefore(g, c, k)
              /\ \/ <<j.source - 1, k.source - 1>> \in Transitions(g, c)
                 \/ j.source = k.source /\ At(j) < At(k)
    BY <1>1 DEF Follows
  <2>4. ASSUME GoesOn(g, c, i, j), GoesOn(g, c, j, k)
        PROVE  GoesOn(g, c, i, k)
    <3>1. i.source = j.source /\ j.source = k.source /\ At(i) < At(k)
      BY <2>1, <2>4 DEF GoesOn
    <3>2. g.rules[i.source].rhs \in Seq(Nat)
      BY <1>2, UsedShows DEF MadeShown, IsCensused
    <3>3. ASSUME NEW q \in DOMAIN g.rules[i.source].rhs, At(i) <= q, q < At(k)
          PROVE  g.rules[i.source].rhs[q] \in c.nullable
      <4>1. q < At(j) \/ At(j) <= q
        <5>1. DOMAIN g.rules[i.source].rhs \subseteq Nat
          BY <3>2
        <5>2. q \in Nat
          BY <5>1
        <5> QED
          BY <2>1, <5>2
      <4>2. CASE q < At(j)
        BY <2>4, <3>3, <4>2 DEF GoesOn
      <4>3. CASE At(j) <= q
        BY <2>4, <3>1, <3>3, <4>3 DEF GoesOn
      <4> QED
        BY <4>1, <4>2, <4>3
    <3> QED
      BY <3>1, <3>3 DEF GoesOn
  <2>5. NullableBefore(g, c, k) \/ GoesOn(g, c, i, k)
    BY <2>2, <2>3, <2>4
  <2>6. ASSUME NullableBefore(g, c, i)
        PROVE  \/ <<i.source - 1, k.source - 1>> \in Transitions(g, c)
               \/ i.source = k.source /\ At(i) < At(k)
    <3>1. PICK n \in Nat : /\ XRLs_of(g) = 1 .. n /\ IsTransitiveTo(Transitions(g, c), n)
      BY TransitionsAre DEF IsCensused
    <3>2. PICK a, b, d : a = i.source - 1 /\ b = j.source - 1 /\ d = k.source - 1
      OBVIOUS
    <3>3. a \in 0 .. n - 1 /\ b \in 0 .. n - 1 /\ d \in 0 .. n - 1
      <4>1. i.source \in 1 .. n /\ j.source \in 1 .. n /\ k.source \in 1 .. n
        BY <1>1, <1>2, <3>1 DEF MadeShown
      <4> QED
        BY <3>2, <4>1
    <3>4. <<a, b>> \in Transitions(g, c) /\ <<b, d>> \in Transitions(g, c)
             => <<a, d>> \in Transitions(g, c)
      BY <3>1, <3>3 DEF IsTransitiveTo
    <3>5. <<a, b>> \in Transitions(g, c) \/ (i.source = j.source /\ At(i) < At(j))
      BY <2>2, <2>6, <3>2
    <3>6. <<b, d>> \in Transitions(g, c) \/ (j.source = k.source /\ At(j) < At(k))
      BY <2>2, <2>3, <2>6, <3>2
    <3>7. CASE <<a, b>> \in Transitions(g, c) /\ <<b, d>> \in Transitions(g, c)
      BY <3>2, <3>4, <3>7
    <3>8. CASE i.source = j.source /\ <<b, d>> \in Transitions(g, c)
      BY <3>2, <3>8
    <3>9. CASE j.source = k.source /\ <<a, b>> \in Transitions(g, c)
      BY <3>2, <3>9
    <3>10. CASE i.source = j.source /\ At(i) < At(j) /\ j.source = k.source /\ At(j) < At(k)
      BY <2>1, <3>10
    <3> QED
      BY <3>5, <3>6, <3>7, <3>8, <3>9, <3>10
  <2> QED
    BY <2>2, <2>3, <2>5, <2>6
<1> QED
  BY <1>1, <1>2 DEF Follows

\* An internal rule that derives itself is of a rule that does.
LEMMA CyclicIsLoop ==
    ASSUME NEW g, NEW c, IsCensused(g, c), NEW W, W = Rewrite(g, c),
           NEW i \in 1 .. Len(W), <<i - 1, i - 1>> \in UnitClosure(W)
    PROVE  W[i].source \in LoopRules(g, c)
<1>1. PICK n \in Nat : /\ DOMAIN W = 1 .. n /\ Len(W) = n
                       /\ \A T : UnitIRLs(W) \subseteq T /\ IsTransitiveTo(T, n) =>
                                    UnitClosure(W) \subseteq T
  BY UnitsAre
<1> DEFINE T == {e \in (0 .. n - 1) \X (0 .. n - 1) : Follows(g, c, W[e[1] + 1], W[e[2] + 1])}
<1>2. \A k \in 1 .. n : /\ MadeShown(g, c, W[k]) \/ IsStart(g, c, W[k])
                        /\ \A nsy \in RHSOf(W[k]) : nsy.kind # "start"
  <2> SUFFICES ASSUME NEW k \in 1 .. n
               PROVE  /\ MadeShown(g, c, W[k]) \/ IsStart(g, c, W[k])
                      /\ \A nsy \in RHSOf(W[k]) : nsy.kind # "start"
    OBVIOUS
  <2>1. W[k] \in ToSet(W)
    BY <1>1 DEF ToSet
  <2>2. IsMade(g, c, W[k]) \/ IsStart(g, c, W[k])
    BY <2>1, RewriteParts
  <2>3. RuleIsOK(g, c, PiecesOf(ToSet(Rewrite(g, c))), W[k])
    BY <2>2, MadeIsOK, StartIsOK
  <2>4. IsMade(g, c, W[k]) => MadeShown(g, c, W[k])
    BY MadeShows
  <2> QED
    BY <2>2, <2>3, <2>4 DEF RuleIsOK
<1>3. UnitIRLs(W) \subseteq T
  <2> SUFFICES ASSUME NEW e \in UnitIRLs(W)
               PROVE  e \in T
    OBVIOUS
  <2>1. /\ e \in (0 .. n - 1) \X (0 .. n - 1) /\ e[1] + 1 \in 1 .. n /\ e[2] + 1 \in 1 .. n
        /\ DerivesAlone(W[e[1] + 1], W[e[2] + 1].lhs)
    BY <1>1 DEF UnitIRLs
  <2>2. Follows(g, c, W[e[1] + 1], W[e[2] + 1])
    BY <1>2, <2>1, FollowsOne
  <2> QED
    BY <2>1, <2>2
<1>4. IsTransitiveTo(T, n)
  <2> SUFFICES ASSUME NEW x \in 0 .. n - 1, NEW y \in 0 .. n - 1, NEW z \in 0 .. n - 1,
                      <<x, y>> \in T, <<y, z>> \in T
               PROVE  <<x, z>> \in T
    BY DEF IsTransitiveTo
  <2>1. Follows(g, c, W[x + 1], W[y + 1]) /\ Follows(g, c, W[y + 1], W[z + 1])
    OBVIOUS
  <2>2. Follows(g, c, W[x + 1], W[z + 1])
    BY <2>1, FollowsOn
  <2>3. <<x, z>> \in (0 .. n - 1) \X (0 .. n - 1) /\ <<x, z>>[1] = x /\ <<x, z>>[2] = z
    OBVIOUS
  <2> QED
    BY <2>2, <2>3
<1>5. <<i - 1, i - 1>> \in T
  BY <1>1, <1>3, <1>4
<1>6. Follows(g, c, W[i], W[i])
  <2>1. (i - 1) + 1 = i
    BY <1>1
  <2> QED
    BY <1>5, <2>1
<1> HIDE DEF T
<1>7. PICK irl : irl = W[i]
  OBVIOUS
<1>8. MadeShown(g, c, irl) /\ Follows(g, c, irl, irl) /\ At(irl) \in Nat
  BY <1>6, <1>7, StageIsNumber DEF Follows
<1>9. NullableBefore(g, c, irl)
  BY <1>8 DEF Follows, GoesOn
<1>10. <<irl.source - 1, irl.source - 1>> \in Transitions(g, c)
  BY <1>8, <1>9 DEF Follows
<1>11. irl.source \in XRLs_of(g)
  BY <1>8 DEF MadeShown
<1> QED
  BY <1>7, <1>10, <1>11, LoopRulesAre

-----------------------------------------------------------------------------
(* Loops: from the rules of the grammar to the internal rules *)

\* Unit transitions lead from a rule to all those with a left side.
Leads(W, i, nsy) == \A j \in DOMAIN W : W[j].lhs = nsy => <<i - 1, j - 1>> \in UnitClosure(W)

\* One unit transition leads there.
LEMMA LeadsAtOnce ==
    ASSUME NEW g, NEW c, IsCensused(g, c), NEW W, W = Rewrite(g, c), NEW i \in DOMAIN W,
           NEW nsy, DerivesAlone(W[i], nsy)
    PROVE  Leads(W, i, nsy)
<1>1. PICK n \in Nat : DOMAIN W = 1 .. n /\ Len(W) = n /\ UnitIRLs(W) \subseteq UnitClosure(W)
  BY UnitsAre
<1>2. ASSUME NEW j \in DOMAIN W, W[j].lhs = nsy
      PROVE  <<i - 1, j - 1>> \in UnitClosure(W)
  <2>1. PICK e : e = <<i - 1, j - 1>>
    OBVIOUS
  <2>2. e \in (0 .. n - 1) \X (0 .. n - 1) /\ e[1] + 1 = i /\ e[2] + 1 = j
    BY <1>1, <2>1
  <2>3. e \in UnitIRLs(W)
    BY <1>1, <1>2, <2>2 DEF UnitIRLs
  <2> QED
    BY <1>1, <2>1, <2>3
<1> QED
  BY <1>2 DEF Leads

\* One transition after another leads there.
LEMMA LeadsOn ==
    ASSUME NEW g, NEW c, IsCensused(g, c), NEW W, W = Rewrite(g, c), NEW i \in DOMAIN W,
           NEW k \in DOMAIN W, Leads(W, i, W[k].lhs), NEW nsy, Leads(W, k, nsy)
    PROVE  Leads(W, i, nsy)
<1>1. PICK n \in Nat : DOMAIN W = 1 .. n /\ IsTransitiveTo(UnitClosure(W), n)
  BY UnitsAre
<1>2. ASSUME NEW j \in DOMAIN W, W[j].lhs = nsy
      PROVE  <<i - 1, j - 1>> \in UnitClosure(W)
  <2>1. <<i - 1, k - 1>> \in UnitClosure(W) /\ <<k - 1, j - 1>> \in UnitClosure(W)
    BY <1>2 DEF Leads
  <2>2. i - 1 \in 0 .. n - 1 /\ k - 1 \in 0 .. n - 1 /\ j - 1 \in 0 .. n - 1
    BY <1>1
  <2> QED
    BY <1>1, <2>1, <2>2 DEF IsTransitiveTo
<1> QED
  BY <1>2 DEF Leads

\* Some rule with that left side, made of a rule, leads to those with another.
LeadsFrom(W, r, lhs, nsy) ==
    \E i \in DOMAIN W : W[i].lhs = lhs /\ W[i].source = r /\ Leads(W, i, nsy)

\* What is made of a used rule is among the internal rules.
LEMMA MadeIsNumbered ==
    ASSUME NEW g, NEW c, IsCensused(g, c), NEW W, W = Rewrite(g, c), NEW r \in XRLs_of(g),
           XRL_is_Used(c, g.rules[r]), NEW irl \in RulesMade(g, c, r)
    PROVE  \E i \in DOMAIN W : W[i] = irl
<1>1. IsMade(g, c, irl)
  BY DEF IsMade
<1>2. irl \in ToSet(W)
  BY <1>1, RewriteParts
<1> QED
  BY <1>2 DEF ToSet

\* A rule in which all but one symbol can be nulled, nulled.
LEMMA FinalLeads ==
    ASSUME NEW g, NEW c, NEW r, NEW L \in Nat, NEW s \in 1 .. L, NEW p \in s .. L, NEW M, NEW irl,
           IsFinal(g, c, r, L, s, M, irl), p \notin M, g.rules[r].rhs[p] \notin c.nulling,
           \A q \in s .. L : q # p => q \in M \/ g.rules[r].rhs[q] \in c.nulling
    PROVE  DerivesAlone(irl, NSY_of(c, g.rules[r].rhs[p]))
<1>1. PICK rule, x, at : rule = g.rules[r] /\ x = rule.rhs[p] /\ at = p - s + 1
  OBVIOUS
<1>2. /\ DOMAIN irl.rhs = 1 .. L - s + 1
      /\ \A q \in 1 .. L - s + 1 : irl.rhs[q] = NSYAt(c, rule, M, s + q - 1)
  BY <1>1 DEF IsFinal
<1>3. at \in 1 .. L - s + 1 /\ s + at - 1 = p
  BY <1>1
<1>4. irl.rhs[at] = NSY_of(c, x) /\ NSY_of(c, x).kind = "proper"
  <2>1. irl.rhs[at] = NSYAt(c, rule, M, p)
    BY <1>2, <1>3
  <2>2. NSYAt(c, rule, M, p) = NSY_of(c, x)
    BY <1>1 DEF NSYAt
  <2> QED
    BY <1>1, <2>1, <2>2 DEF NSY_of, NSY
<1>5. ASSUME NEW q \in 1 .. L - s + 1, q # at
      PROVE  irl.rhs[q].kind = "nulled"
  <2>1. s + q - 1 \in s .. L /\ s + q - 1 # p
    BY <1>1, <1>5
  <2>2. s + q - 1 \in M \/ rule.rhs[s + q - 1] \in c.nulling
    BY <1>1, <2>1
  <2>3. NSYAt(c, rule, M, s + q - 1) = Nulling_NSY(rule.rhs[s + q - 1])
    BY <2>2 DEF NSYAt, NSY_of
  <2> QED
    BY <1>2, <2>3 DEF Nulling_NSY, NSY
<1>6. \A q \in 1 .. L - s + 1 : irl.rhs[q].kind = "nulled" <=> q # at
  BY <1>4, <1>5
<1> QED
  BY <1>1, <1>2, <1>3, <1>4, <1>6 DEF DerivesAlone, NSY_is_Nulling

\* A rule that goes on, with all before that nulled.
LEMMA ContinuedLeads ==
    ASSUME NEW g, NEW c, NEW r, NEW L \in Nat, NEW s \in 1 .. L, NEW s2 \in 1 .. L, s < s2,
           NEW M, NEW irl, IsContinued(g, c, r, s, s2 - 1, M, irl),
           \A q \in s .. s2 - 1 : q \in M \/ g.rules[r].rhs[q] \in c.nulling
    PROVE  DerivesAlone(irl, LHS_of_Piece(g, c, r, s2))
<1>1. PICK rule, n : rule = g.rules[r] /\ n = (s2 - 1) - s + 1
  OBVIOUS
<1>2. n \in Nat /\ (s2 - 1) - s + 2 = n + 1 /\ (s2 - 1) + 1 = s2 /\ n + 1 \in 1 .. n + 1
  BY <1>1
<1>3. /\ DOMAIN irl.rhs = 1 .. n + 1
      /\ \A q \in 1 .. n : irl.rhs[q] = NSYAt(c, rule, M, s + q - 1)
      /\ irl.rhs[n + 1] = VirtualNSY(g, r, s2)
  BY <1>1, <1>2 DEF IsContinued
<1>4. LHS_of_Piece(g, c, r, s2) = VirtualNSY(g, r, s2) /\ VirtualNSY(g, r, s2).kind = "virtual"
  BY DEF LHS_of_Piece, VirtualNSY, NSY
<1>5. ASSUME NEW q \in 1 .. n
      PROVE  irl.rhs[q].kind = "nulled"
  <2>1. s + q - 1 \in s .. s2 - 1
    BY <1>1
  <2>2. s + q - 1 \in M \/ rule.rhs[s + q - 1] \in c.nulling
    BY <1>1, <2>1
  <2>3. NSYAt(c, rule, M, s + q - 1) = Nulling_NSY(rule.rhs[s + q - 1])
    BY <2>2 DEF NSYAt, NSY_of
  <2> QED
    BY <1>3, <2>3 DEF Nulling_NSY, NSY
<1>6. \A q \in 1 .. n + 1 : irl.rhs[q].kind = "nulled" <=> q # n + 1
  <2>1. \A q \in 1 .. n + 1 : q \in 1 .. n \/ q = n + 1
    BY <1>2
  <2>2. ~ (n + 1 \in 1 .. n)
    BY <1>2
  <2>3. irl.rhs[n + 1].kind # "nulled"
    BY <1>3, <1>4
  <2>4. \A q \in 1 .. n : q # n + 1
    BY <1>2
  <2> QED
    BY <1>5, <2>1, <2>3, <2>4
<1> QED
  BY <1>2, <1>3, <1>4, <1>6 DEF DerivesAlone, NSY_is_Nulling

\* The pieces of a rule lead to the one symbol that is not nulled.
LEMMA PiecesLead ==
    ASSUME NEW g, NEW c, IsCensused(g, c), NEW W, W = Rewrite(g, c), NEW r \in XRLs_of(g),
           XRL_is_Used(c, g.rules[r]), NEW L \in Nat, DOMAIN g.rules[r].rhs = 1 .. L,
           NEW P, Tables(g, c, r, L, RulesMade(g, c, r), P),
           NEW p, IsUnitAt(c, g.rules[r], p), g.rules[r].rhs[p] \notin c.nulling
    PROVE  \A s \in P : s <= p =>
              LeadsFrom(W, r, LHS_of_Piece(g, c, r, s), NSY_of(c, g.rules[r].rhs[p]))
<1>1. PICK rule, nsy, R :
         rule = g.rules[r] /\ nsy = NSY_of(c, rule.rhs[p]) /\ R = RulesMade(g, c, r)
  OBVIOUS
<1>2. p \in 1 .. L /\ P \subseteq 1 .. L
  BY DEF IsUnitAt, Tables
<1>3. \A q \in 1 .. L : q # p => IsFactor(c, rule, q) \/ rule.rhs[q] \in c.nulling
  BY <1>1 DEF IsUnitAt, IsFactor
<1> DEFINE Shown(s) == LeadsFrom(W, r, LHS_of_Piece(g, c, r, s), nsy)
           S == {n \in 0 .. L : \A s \in P : s <= p /\ s > L - n => Shown(s)}
<1>4. ASSUME NEW s \in P, s <= p, \A t \in P : t <= p /\ t > s => Shown(t)
      PROVE  Shown(s)
  <2>1. s \in 1 .. L /\ p \in s .. L /\ HasTable(g, c, r, L, s, R, P)
    BY <1>1, <1>2, <1>4 DEF Tables
  <2>2. PICK s2 \in s + 1 .. L + 1 :
           (s2 = L + 1 \/ s2 \in P) /\ Table(g, c, r, L, s, s2, OfPiece(g, c, r, s, R))
    BY <2>1 DEF HasTable
  <2>3. PICK O, M : /\ O = OfPiece(g, c, r, s, R)
                    /\ M = {q \in s .. L : q # p /\ IsFactor(c, rule, q)}
    OBVIOUS
  <2>4. IsWord(c, rule, L, s, M)
    <3>1. AreFactors(c, rule, s, L, M)
      BY <2>3 DEF AreFactors
    <3>2. p \notin M /\ rule.rhs[p] \notin c.nulling
      BY <1>1, <2>3
    <3> QED
      BY <2>1, <3>1, <3>2 DEF IsWord
  <2>5. HasOneFor(g, c, r, L, s, s2, M, O)
    BY <1>1, <2>2, <2>3, <2>4 DEF Table
  <2>6. ASSUME NEW irl \in O
        PROVE  irl.lhs = LHS_of_Piece(g, c, r, s) /\ irl \in R /\ \E i \in DOMAIN W : W[i] = irl
    BY <1>1, <2>3, MadeIsNumbered DEF OfPiece
  <2>7. \A q \in s .. L : q # p => q \in M \/ rule.rhs[q] \in c.nulling
    BY <1>3, <2>1, <2>3
  <2>8. CASE Ends(c, rule, L, s2, M)
    <3>1. PICK irl \in O : IsFinal(g, c, r, L, s, M, irl)
      BY <1>1, <2>5, <2>8 DEF HasOneFor, OneFinal
    <3>2. PICK i \in DOMAIN W : W[i] = irl
      BY <2>6
    <3>3. DerivesAlone(W[i], nsy)
      BY <1>1, <2>1, <2>3, <2>7, <3>1, <3>2, FinalLeads
    <3>4. Leads(W, i, nsy)
      BY <3>3, LeadsAtOnce
    <3>5. W[i].lhs = LHS_of_Piece(g, c, r, s) /\ W[i].source = r
      BY <3>1, <3>2 DEF IsFinal
    <3> QED
      BY <3>4, <3>5 DEF LeadsFrom
  <2>9. CASE ~ Ends(c, rule, L, s2, M)
    <3>1. IsWord(c, rule, L, s2, From(M, s2))
      BY <2>9 DEF Ends
    <3>2. PICK i \in s2 .. L : i \notin From(M, s2) /\ rule.rhs[i] \notin c.nulling
      BY <3>1 DEF IsWord
    <3>3. i \in s .. L /\ i >= s2
      BY <2>1, <2>2, <3>2
    <3>4. i = p
      BY <2>7, <3>2, <3>3 DEF From
    <3>5. s2 \in P /\ s2 <= p /\ s2 > s /\ s < s2 /\ s2 \in 1 .. L
      BY <1>2, <2>1, <2>2, <3>2, <3>4
    <3>6. Shown(s2)
      BY <1>4, <3>5
    <3>7. PICK k \in DOMAIN W : W[k].lhs = LHS_of_Piece(g, c, r, s2) /\ Leads(W, k, nsy)
      BY <3>6 DEF LeadsFrom
    <3>8. PICK irl \in O : IsContinued(g, c, r, s, s2 - 1, Before(M, s2), irl)
      BY <1>1, <2>5, <2>9 DEF HasOneFor, OneContinued
    <3>9. PICK h \in DOMAIN W : W[h] = irl
      BY <2>6
    <3>10. \A q \in s .. s2 - 1 : q \in Before(M, s2) \/ rule.rhs[q] \in c.nulling
      <4>1. \A q \in s .. s2 - 1 : q \in s .. L /\ q # p /\ q < s2
        BY <2>1, <3>5
      <4> QED
        BY <2>7, <4>1 DEF Before
    <3>11. DerivesAlone(W[h], W[k].lhs)
      BY <1>1, <2>1, <3>5, <3>7, <3>8, <3>9, <3>10, ContinuedLeads
    <3>12. Leads(W, h, W[k].lhs)
      BY <3>11, LeadsAtOnce
    <3>13. Leads(W, h, nsy)
      BY <3>7, <3>12, LeadsOn
    <3>14. W[h].lhs = LHS_of_Piece(g, c, r, s) /\ W[h].source = r
      BY <3>8, <3>9 DEF IsContinued
    <3> QED
      BY <3>13, <3>14 DEF LeadsFrom
  <2> QED
    BY <2>8, <2>9
<1> HIDE DEF Shown
<1>5. 0 \in S
  BY <1>2
<1>6. ASSUME NEW n \in 0 .. L, n \in S, n < L
      PROVE  n + 1 \in S
  <2>1. ASSUME NEW s \in P, s <= p, s > L - (n + 1)
        PROVE  Shown(s)
    <3>1. \A t \in P : t <= p /\ t > s => t > L - n
      BY <1>2, <2>1
    <3>2. \A t \in P : t <= p /\ t > s => Shown(t)
      BY <1>6, <3>1
    <3> QED
      BY <1>4, <2>1, <3>2
  <2> QED
    BY <1>6, <2>1
<1> HIDE DEF S
<1>7. \A n \in 0 .. L : n \in S
  BY <1>5, <1>6, UpTo
<1>8. ASSUME NEW s \in P, s <= p
      PROVE  Shown(s)
  <2>1. L \in S /\ s > L - L
    BY <1>2, <1>7
  <2> QED
    BY <1>8, <2>1 DEF S
<1> QED
  BY <1>1, <1>8 DEF Shown

\* A sequence of one item leads to the item.
LEMMA SequenceLeads ==
    ASSUME NEW g, NEW c, IsCensused(g, c), NEW W, W = Rewrite(g, c), NEW r \in XRLs_of(g),
           XRL_is_Used(c, g.rules[r]), g.rules[r].sequence
    PROVE  LeadsFrom(W, r, NSY_of(c, g.rules[r].lhs), NSY_of(c, g.rules[r].rhs[1]))
<1>1. SequenceOK(g, c, r, RulesMade(g, c, r))
  BY SequenceRuleOK DEF RulesMade
<1>2. PICK top \in RulesMade(g, c, r) : IsTop(g, c, r, top)
  BY <1>1 DEF SequenceOK
<1>3. PICK first \in RulesMade(g, c, r) : IsFirstItem(g, c, r, first)
  BY <1>1 DEF SequenceOK
<1>4. PICK i \in DOMAIN W : W[i] = top
  BY MadeIsNumbered
<1>5. PICK k \in DOMAIN W : W[k] = first
  BY MadeIsNumbered
<1>6. \A x, y : x.kind # "nulled" /\ y.rhs = <<x>> => DerivesAlone(y, x)
  BY DEF DerivesAlone, NSY_is_Nulling
<1>7. DerivesAlone(W[i], W[k].lhs)
  <2>1. W[k].lhs = VirtualNSY(g, r, 1) /\ W[i].rhs = <<VirtualNSY(g, r, 1)>>
    BY <1>2, <1>3, <1>4, <1>5 DEF IsTop, IsFirstItem, IsIRL
  <2>2. VirtualNSY(g, r, 1).kind # "nulled"
    BY DEF VirtualNSY, NSY
  <2> QED
    BY <1>6, <2>1, <2>2
<1>8. DerivesAlone(W[k], NSY_of(c, g.rules[r].rhs[1]))
  <2>1. W[k].rhs = <<NSY_of(c, g.rules[r].rhs[1])>>
    BY <1>3, <1>5 DEF IsFirstItem, IsIRL
  <2>2. g.rules[r].rhs[1] \notin c.nulling
    BY UsedTakesInput
  <2>3. NSY_of(c, g.rules[r].rhs[1]).kind # "nulled"
    BY <2>2 DEF NSY_of, NSY
  <2> QED
    BY <1>6, <2>1, <2>3
<1>9. Leads(W, i, W[k].lhs) /\ Leads(W, k, NSY_of(c, g.rules[r].rhs[1]))
  BY <1>7, <1>8, LeadsAtOnce
<1>10. Leads(W, i, NSY_of(c, g.rules[r].rhs[1]))
  BY <1>9, LeadsOn
<1>11. W[i].lhs = NSY_of(c, g.rules[r].lhs) /\ W[i].source = r
  BY <1>2, <1>4 DEF IsTop, IsIRL
<1> QED
  BY <1>10, <1>11 DEF LeadsFrom

\* The internal rules of a used rule lead to each of its unit symbols.
LEMMA UsedLeads ==
    ASSUME NEW g, NEW c, IsCensused(g, c), NEW W, W = Rewrite(g, c), NEW r \in XRLs_of(g),
           XRL_is_Used(c, g.rules[r]), NEW x \in UnitSymbols(c, g.rules[r]), x \notin c.nulling
    PROVE  LeadsFrom(W, r, NSY_of(c, g.rules[r].lhs), NSY_of(c, x))
<1>1. GrammarOK(g)
  BY DEF IsCensused
<1>2. g.rules[r].rhs \in Seq(Nat) /\ WellMade(g.rules[r])
  BY <1>1, UsedShows
<1>3. PICK L \in Nat : DOMAIN g.rules[r].rhs = 1 .. L /\ Len(g.rules[r].rhs) = L
  BY <1>2
<1>4. PICK p : g.rules[r].rhs[p] = x /\ IsUnitAt(c, g.rules[r], p)
  BY <1>3, UnitSymbolsAre
<1>5. CASE g.rules[r].sequence
  <2>1. L = 1
    BY <1>2, <1>3, <1>5 DEF WellMade
  <2>2. p = 1
    BY <1>3, <1>4, <2>1 DEF IsUnitAt
  <2> QED
    BY <1>4, <1>5, <2>2, SequenceLeads
<1>6. CASE ~ g.rules[r].sequence
  <2>1. RuleExact(g, c, r)
    BY <1>1, <1>6, RuleIsExact
  <2>2. PICK K \in Nat : Len(g.rules[r].rhs) = K /\ PiecesExact(g, c, r, K, 1, IRLs_of_XRL(g, c, r))
    BY <2>1 DEF RuleExact
  <2>3. K = L
    BY <1>3, <2>2
  <2>4. PICK P : StartsAt(1, P) /\ Tables(g, c, r, L, RulesMade(g, c, r), P)
    BY <2>2, <2>3 DEF PiecesExact, RulesMade
  <2>5. 1 \in P /\ 1 <= p
    BY <1>3, <1>4, <2>4 DEF StartsAt, IsUnitAt
  <2>6. LeadsFrom(W, r, LHS_of_Piece(g, c, r, 1), NSY_of(c, g.rules[r].rhs[p]))
    BY <1>3, <1>4, <2>4, <2>5, PiecesLead
  <2>7. LHS_of_Piece(g, c, r, 1) = NSY_of(c, g.rules[r].lhs)
    BY DEF LHS_of_Piece
  <2> QED
    BY <1>4, <2>6, <2>7
<1> QED
  BY <1>5, <1>6

\* What a unit transition passes on: what can be reached forward, and what
\* derives something back.
SeparatorsOK(g, c) == \A rule \in RulesOf(g) : SeparatorOf(rule) \subseteq c.productive
DerivesBack(c, rule) ==
    rule.lhs \in c.productive /\ RHSOf(rule) \subseteq c.productive /\ ~ XRL_is_Nulling(c, rule)

\* A rule derives something, and its symbols, if a symbol it has a unit transition to does.
LEMMA UnitPassesOn ==
    ASSUME NEW g, NEW c, IsCensused(g, c), SeparatorsOK(g, c), NEW rule \in RulesOf(g),
           NEW x \in UnitSymbols(c, rule)
    PROVE  /\ rule.lhs \in c.accessible => x \in c.accessible
           /\ x \in c.productive => DerivesBack(c, rule) /\ x \notin c.nulling
<1>1. GrammarOK(g) /\ c = CensusOf(g) /\ g.start # NoXSY
  BY DEF IsCensused
<1>2. PICK L \in Nat : DOMAIN rule.rhs = 1 .. L
  <2>1. PICK r \in XRLs_of(g) : rule = g.rules[r]
    BY DEF RulesOf
  <2>2. g.rules \in Seq(Rules)
    BY <1>1 DEF GrammarOK
  <2>3. rule \in Rules
    BY <2>1, <2>2 DEF XRLs_of
  <2>4. rule.rhs \in Seq(Nat)
    BY <2>3 DEF Rules
  <2> QED
    BY <2>4
<1>3. PICK p : rule.rhs[p] = x /\ IsUnitAt(c, rule, p)
  BY <1>2, UnitSymbolsAre
<1>4. x \in RHSOf(rule)
  BY <1>3 DEF IsUnitAt, RHSOf
<1>5. rule.lhs \in c.accessible => x \in c.accessible
  <2>1. ReachClosed(g, c.accessible)
    BY <1>1, AccessibleIsLeast
  <2> QED
    BY <1>4, <2>1 DEF ReachClosed
<1>6. ASSUME x \in c.productive
      PROVE  DerivesBack(c, rule) /\ x \notin c.nulling
  <2>1. DerivableClosed(g, c.nullable, c.terminal, c.productive)
    BY <1>1, ProductiveIsLeast
  <2>2. c.nullable \subseteq c.productive
    BY <2>1 DEF DerivableClosed
  <2>3. RHSOf(rule) \subseteq c.productive
    BY <1>3, <1>6, <2>2 DEF IsUnitAt, RHSOf
  <2>4. RequiredOf(rule) \subseteq c.productive
    BY <2>3 DEF RequiredOf, SeparatorsOK
  <2>5. rule.lhs \in c.productive
    BY <2>1, <2>4 DEF DerivableClosed
  <2>6. c.nulling \cap c.productive \subseteq c.nullable
    BY NullingIsNullable
  <2>7. x \notin c.nulling
    BY <1>3, <1>6, <2>6 DEF IsUnitAt
  <2>8. ~ XRL_is_Nulling(c, rule)
    BY <1>4, <2>7 DEF XRL_is_Nulling
  <2> QED
    BY <2>3, <2>5, <2>7, <2>8 DEF DerivesBack
<1> QED
  BY <1>5, <1>6

\* What a path of unit transitions between rules shows.
LoopPath(g, c, W, a, b) ==
    /\ g.rules[a].lhs \in c.accessible => g.rules[b].lhs \in c.accessible
    /\ g.rules[b].lhs \in c.productive => g.rules[a].lhs \in c.productive
    /\ g.rules[a].lhs \in c.accessible /\ g.rules[b].lhs \in c.productive =>
          LeadsFrom(W, a, NSY_of(c, g.rules[a].lhs), NSY_of(c, g.rules[b].lhs))

\* One unit transition between rules.
LEMMA LoopPathOne ==
    ASSUME NEW g, NEW c, IsCensused(g, c), SeparatorsOK(g, c), NEW W, W = Rewrite(g, c),
           NEW a \in XRLs_of(g), NEW b \in XRLs_of(g),
           g.rules[b].lhs \in UnitSymbols(c, g.rules[a])
    PROVE  LoopPath(g, c, W, a, b)
<1>1. PICK x : x = g.rules[b].lhs
  OBVIOUS
<1>2. g.rules[a] \in RulesOf(g)
  BY DEF RulesOf
<1>3. /\ g.rules[a].lhs \in c.accessible => x \in c.accessible
      /\ x \in c.productive => DerivesBack(c, g.rules[a]) /\ x \notin c.nulling
  BY <1>1, <1>2, UnitPassesOn
<1>4. ASSUME g.rules[a].lhs \in c.accessible, x \in c.productive
      PROVE  LeadsFrom(W, a, NSY_of(c, g.rules[a].lhs), NSY_of(c, x))
  <2>1. XRL_is_Used(c, g.rules[a])
    BY <1>2, <1>3, <1>4 DEF DerivesBack, XRL_is_Used, SeparatorsOK
  <2> QED
    BY <1>1, <1>3, <1>4, <2>1, UsedLeads
<1> QED
  BY <1>1, <1>3, <1>4 DEF LoopPath, DerivesBack

\* One path after the other.
LEMMA LoopPathOn ==
    ASSUME NEW g, NEW c, IsCensused(g, c), NEW W, W = Rewrite(g, c), NEW x, NEW y, NEW z,
           LoopPath(g, c, W, x, y), LoopPath(g, c, W, y, z)
    PROVE  LoopPath(g, c, W, x, z)
<1>1. ASSUME g.rules[x].lhs \in c.accessible, g.rules[z].lhs \in c.productive
      PROVE  LeadsFrom(W, x, NSY_of(c, g.rules[x].lhs), NSY_of(c, g.rules[z].lhs))
  <2>1. g.rules[y].lhs \in c.accessible /\ g.rules[y].lhs \in c.productive
    BY <1>1 DEF LoopPath
  <2>2. PICK i \in DOMAIN W : /\ W[i].lhs = NSY_of(c, g.rules[x].lhs) /\ W[i].source = x
                              /\ Leads(W, i, NSY_of(c, g.rules[y].lhs))
    BY <1>1, <2>1 DEF LoopPath, LeadsFrom
  <2>3. PICK k \in DOMAIN W : /\ W[k].lhs = NSY_of(c, g.rules[y].lhs)
                              /\ Leads(W, k, NSY_of(c, g.rules[z].lhs))
    BY <1>1, <2>1 DEF LoopPath, LeadsFrom
  <2>4. Leads(W, i, NSY_of(c, g.rules[z].lhs))
    BY <2>2, <2>3, LeadsOn
  <2> QED
    BY <2>2, <2>4 DEF LeadsFrom
<1> QED
  BY <1>1 DEF LoopPath

\* A used rule that derives itself has an internal rule that does.
LEMMA LoopIsCyclic ==
    ASSUME NEW g, NEW c, IsCensused(g, c), SeparatorsOK(g, c), NEW W, W = Rewrite(g, c),
           NEW r \in LoopRules(g, c), XRL_is_Used(c, g.rules[r])
    PROVE  \E i \in DOMAIN W : W[i].source = r /\ <<i - 1, i - 1>> \in UnitClosure(W)
<1>1. PICK n \in Nat :
         /\ XRLs_of(g) = 1 .. n /\ Len(g.rules) = n
         /\ \A T : UnitXRLs(g, c) \subseteq T /\ IsTransitiveTo(T, n) => Transitions(g, c) \subseteq T
  BY TransitionsAre DEF IsCensused
<1>2. r \in 1 .. n /\ <<r - 1, r - 1>> \in Transitions(g, c)
  BY <1>1, LoopRulesAre
<1> DEFINE T == {e \in (0 .. n - 1) \X (0 .. n - 1) : LoopPath(g, c, W, e[1] + 1, e[2] + 1)}
<1>3. UnitXRLs(g, c) \subseteq T
  <2> SUFFICES ASSUME NEW e \in UnitXRLs(g, c)
               PROVE  e \in T
    OBVIOUS
  <2>1. /\ e \in (0 .. n - 1) \X (0 .. n - 1) /\ e[1] + 1 \in 1 .. n /\ e[2] + 1 \in 1 .. n
        /\ g.rules[e[2] + 1].lhs \in UnitSymbols(c, g.rules[e[1] + 1])
    BY <1>1 DEF UnitXRLs
  <2>2. LoopPath(g, c, W, e[1] + 1, e[2] + 1)
    BY <1>1, <2>1, LoopPathOne
  <2> QED
    BY <2>1, <2>2
<1>4. IsTransitiveTo(T, n)
  <2> SUFFICES ASSUME NEW x \in 0 .. n - 1, NEW y \in 0 .. n - 1, NEW z \in 0 .. n - 1,
                      <<x, y>> \in T, <<y, z>> \in T
               PROVE  <<x, z>> \in T
    BY DEF IsTransitiveTo
  <2>1. LoopPath(g, c, W, x + 1, y + 1) /\ LoopPath(g, c, W, y + 1, z + 1)
    OBVIOUS
  <2>2. LoopPath(g, c, W, x + 1, z + 1)
    BY <2>1, LoopPathOn
  <2>3. <<x, z>> \in (0 .. n - 1) \X (0 .. n - 1) /\ <<x, z>>[1] = x /\ <<x, z>>[2] = z
    OBVIOUS
  <2> QED
    BY <2>2, <2>3
<1>5. <<r - 1, r - 1>> \in T
  BY <1>1, <1>2, <1>3, <1>4
<1>6. LoopPath(g, c, W, r, r)
  <2>1. (r - 1) + 1 = r
    BY <1>2
  <2> QED
    BY <1>5, <2>1
<1> HIDE DEF T
<1>7. g.rules[r].lhs \in c.accessible /\ g.rules[r].lhs \in c.productive
  <2>1. DerivableClosed(g, c.nullable, c.terminal, c.productive)
    BY ProductiveIsLeast DEF IsCensused
  <2>2. RequiredOf(g.rules[r]) \subseteq c.productive
    BY DEF XRL_is_Used, RequiredOf
  <2>3. g.rules[r] \in RulesOf(g)
    BY <1>1, <1>2 DEF RulesOf
  <2>4. g.rules[r].lhs \in c.productive
    BY <2>1, <2>2, <2>3 DEF DerivableClosed
  <2> QED
    BY <2>4 DEF XRL_is_Used
<1>8. PICK i \in DOMAIN W : /\ W[i].lhs = NSY_of(c, g.rules[r].lhs) /\ W[i].source = r
                            /\ Leads(W, i, NSY_of(c, g.rules[r].lhs))
  BY <1>6, <1>7 DEF LoopPath, LeadsFrom
<1>9. <<i - 1, i - 1>> \in UnitClosure(W)
  BY <1>8 DEF Leads
<1> QED
  BY <1>8, <1>9

-----------------------------------------------------------------------------
(* has_cycle *)

\* marpa_g_precompute has noted whether there are loops: the rules and the census do
\* not change after it.
CycleNoted == is_precomputed => has_cycle = (LoopRules(external, census) # {})

\* The loops depend on the rules and the census only.
LEMMA LoopsOfRules ==
    ASSUME NEW g, NEW h, g.rules = h.rules, NEW c
    PROVE  LoopRules(g, c) = LoopRules(h, c)
  BY DEF LoopRules, XRLs_of

\* Nothing is noted of a new grammar.
LEMMA CycleNotedInit ==
    ASSUME GrammarInit
    PROVE  CycleNoted
  BY DEF GrammarInit, CycleNoted

\* The calls that build a grammar keep the rules once it is precomputed.
LEMMA ConstructionKeepsCycle ==
    ASSUME CycleNoted, ConstructionCalls
    PROVE  CycleNoted'
<1>1. /\ UNCHANGED <<is_precomputed, has_cycle, census>>
      /\ is_precomputed => external'.rules = external.rules
  <2>1. CASE SymbolNew
    BY <2>1 DEF SymbolNew, Construct, census_vars
  <2>2. CASE \E lhs \in LeftSides, rhs \in RightSides : RuleNew(lhs, rhs)
    BY <2>2 DEF RuleNew, Construct, GrammarError, census_vars
  <2>3. CASE \E lhs \in LeftSides, a \in SequenceArguments : SequenceNew(lhs, a[1], a[2], a[3], a[4])
    BY <2>3 DEF SequenceNew, Construct, GrammarError, census_vars
  <2>4. CASE \E x \in 0 .. MaxSymbols : StartSymbolSet(x)
    BY <2>4 DEF StartSymbolSet, Construct, GrammarError, census_vars
  <2>5. CASE \E x \in 0 .. MaxSymbols, value \in BOOLEAN : SymbolIsTerminalSet(x, value)
    BY <2>5 DEF SymbolIsTerminalSet, Construct, GrammarError, census_vars
  <2> QED
    BY <2>1, <2>2, <2>3, <2>4, <2>5 DEF ConstructionCalls
<1>2. is_precomputed => LoopRules(external', census') = LoopRules(external, census)
  BY <1>1, LoopsOfRules
<1> QED
  BY <1>1, <1>2 DEF CycleNoted

\* Precomputation notes whether it found loops.
LEMMA PrecomputeNotesCycle ==
    ASSUME CycleNoted, PrecomputeCalls
    PROVE  CycleNoted'
<1>1. CASE PrecomputeRefused
  BY <1>1 DEF PrecomputeRefused, CycleNoted, census_vars
<1>2. CASE PrecomputeFails
  BY <1>2 DEF PrecomputeFails, CycleNoted, census_vars
<1>3. CASE PrecomputeEnds
  BY <1>3 DEF PrecomputeEnds, CycleNoted
<1> QED
  BY <1>1, <1>2, <1>3 DEF PrecomputeCalls

\* has_cycle is true to the loops in every reachable state.
LEMMA CycleAlwaysNoted == GrammarSpec => []CycleNoted
<1>1. GrammarInit => CycleNoted
  BY CycleNotedInit
<1>2. CycleNoted /\ [GrammarNext]_g_vars => CycleNoted'
  <2>1. CASE GrammarNext
    BY <2>1, ConstructionKeepsCycle, PrecomputeNotesCycle DEF GrammarNext
  <2>2. CASE UNCHANGED g_vars
    BY <2>2 DEF CycleNoted, g_vars, census_vars
  <2> QED
    BY <2>1, <2>2
<1> QED
  BY <1>1, <1>2, PTL DEF GrammarSpec

\* What LoopsExact asks for.
LEMMA LoopsAreAsked ==
    ASSUME CensusInv, CycleNoted
    PROVE  LoopsExact
<1> SUFFICES ASSUME is_precomputed
             PROVE  LoopsExact
  BY DEF LoopsExact
<1>1. PICK g, c : g = Censused /\ c = census
  OBVIOUS
<1>2. IsCensused(g, c) /\ irls = Rewrite(g, c)
  BY <1>1 DEF CensusInv, CensusDone, IsCensused
<1>3. PICK n \in Nat : DOMAIN irls = 1 .. n /\ Len(irls) = n
  BY <1>2, RewriteParts
<1>4. PICK cyclic, loops :
         /\ cyclic = {i \in 1 .. Len(irls) : <<i - 1, i - 1>> \in UnitClosure(irls)}
         /\ loops = LoopRules(g, c)
  OBVIOUS
<1>5. \A i \in cyclic : irls[i].source \in loops
  BY <1>2, <1>4, CyclicIsLoop
<1>6. ASSUME SeparatorsProductive, NEW r \in loops, XRL_is_Used(c, g.rules[r])
      PROVE  \E i \in cyclic : irls[i].source = r
  <2>1. SeparatorsOK(g, c)
    BY <1>1, <1>6 DEF SeparatorsProductive, SeparatorsOK, RuleSet, RulesOf
  <2>2. PICK W : W = irls /\ W = Rewrite(g, c)
    BY <1>2
  <2>3. r \in LoopRules(g, c)
    BY <1>4
  <2>4. PICK i \in DOMAIN W : W[i].source = r /\ <<i - 1, i - 1>> \in UnitClosure(W)
    BY <1>2, <1>6, <2>1, <2>2, <2>3, LoopIsCyclic
  <2>5. i \in 1 .. Len(irls) /\ irls[i].source = r /\ <<i - 1, i - 1>> \in UnitClosure(irls)
    BY <1>3, <2>2, <2>4
  <2> QED
    BY <1>4, <2>5
<1>7. cyclic # {} => has_cycle
  <2>1. LoopRules(external, census) = loops
    <3>1. external \in [symbols : Nat, rules : Seq(Rules), start : Int, locked : SUBSET Nat,
                        terminals : SUBSET Nat]
      BY DEF CensusInv, GrammarOK
    <3>2. Censused.rules = external.rules
      BY <3>1 DEF Censused
    <3> QED
      BY <1>1, <1>4, <3>2, LoopsOfRules
  <2> QED
    BY <1>5, <2>1 DEF CycleNoted
<1>8. cyclic = {i \in 1 .. Len(irls) : <<i - 1, i - 1>> \in
                   closure_of({e \in (0 .. Len(irls) - 1) \X (0 .. Len(irls) - 1) :
                       DerivesAlone(irls[e[1] + 1], irls[e[2] + 1].lhs)}, Len(irls))}
  BY <1>4 DEF UnitClosure, UnitIRLs
<1> QED
  BY <1>1, <1>4, <1>5, <1>6, <1>7, <1>8, Zenon DEF LoopsExact

\* However a grammar was built, a rule loops if one of its internal rules derives
\* itself alone, and, where separators are productive, only if one does.
THEOREM LoopsAreExact == GrammarSpec => []LoopsExact
<1>1. CensusInv /\ CycleNoted => LoopsExact
  BY LoopsAreAsked
<1> QED
  BY <1>1, CensusAlways, CycleAlwaysNoted, PTL

-----------------------------------------------------------------------------
(* The place of an internal rule *)

\* No rule that is made of r is there twice.
OnceFrom(q, r) == \A i, j \in DOMAIN q : q[i].source = r /\ q[i] = q[j] => i = j
NoneFrom(q, r) == \A x \in ToSet(q) : x.source # r

\* It is not, where one of two sequences that are joined has none, and the other
\* has none twice.
LEMMA JoinedOnce ==
    ASSUME NEW X, NEW a \in Seq(X), NEW b \in Seq(X), NEW r,
           OnceFrom(a, r), OnceFrom(b, r), NoneFrom(a, r) \/ NoneFrom(b, r)
    PROVE  OnceFrom(a \o b, r)
<1>1. /\ a \o b \in Seq(X) /\ Joins(a, b, a \o b) /\ DOMAIN a = 1 .. Len(a) /\ DOMAIN b = 1 .. Len(b)
  BY JoinedParts
<1>2. PICK w, m, n : w = a \o b /\ m = Len(a) /\ n = Len(b)
  OBVIOUS
<1>3. /\ m \in Nat /\ n \in Nat /\ DOMAIN w = 1 .. m + n /\ DOMAIN a = 1 .. m /\ DOMAIN b = 1 .. n
      /\ \A i \in 1 .. m : w[i] = a[i]
      /\ \A i \in 1 .. n : w[m + i] = b[i]
  BY <1>1, <1>2 DEF Joins
<1>4. \A i \in 1 .. m + n : i \notin 1 .. m => i - m \in 1 .. n /\ w[i] = b[i - m]
  <2> SUFFICES ASSUME NEW i \in 1 .. m + n, i \notin 1 .. m
               PROVE  i - m \in 1 .. n /\ w[i] = b[i - m]
    OBVIOUS
  <2>1. i - m \in 1 .. n /\ m + (i - m) = i
    BY <1>3
  <2> QED
    BY <1>3, <2>1
<1>5. /\ \A i \in 1 .. m : a[i] \in ToSet(a)
      /\ \A i \in 1 .. n : b[i] \in ToSet(b)
  BY <1>3 DEF ToSet
<1>6. \A i \in 1 .. m, j \in 1 .. n : a[i].source = r /\ b[j].source = r => FALSE
  BY <1>5 DEF NoneFrom
<1>7. ASSUME NEW i \in 1 .. m + n, NEW j \in 1 .. m + n, w[i] = w[j], w[i].source = r
      PROVE  i = j
  <2>1. CASE i \in 1 .. m /\ j \in 1 .. m
    BY <1>3, <1>7, <2>1 DEF OnceFrom
  <2>2. CASE i \in 1 .. m /\ j \notin 1 .. m
    BY <1>3, <1>4, <1>6, <1>7, <2>2
  <2>3. CASE i \notin 1 .. m /\ j \in 1 .. m
    BY <1>3, <1>4, <1>6, <1>7, <2>3
  <2>4. CASE i \notin 1 .. m /\ j \notin 1 .. m
    <3>1. i - m \in 1 .. n /\ j - m \in 1 .. n /\ b[i - m] = b[j - m] /\ b[i - m].source = r
      BY <1>4, <1>7, <2>4
    <3>2. i - m = j - m
      BY <1>3, <3>1 DEF OnceFrom
    <3> QED
      BY <1>3, <3>2
  <2> QED
    BY <2>1, <2>2, <2>3, <2>4
<1>8. OnceFrom(w, r)
  BY <1>3, <1>7 DEF OnceFrom
<1> QED
  BY <1>2, <1>8

\* Nor where the sequences that are put one after the other are each of a rule.
LEMMA FlattenOnce ==
    ASSUME NEW X, NEW n \in Nat, NEW seqs \in [1 .. n -> Seq(X)], NEW r \in 1 .. n,
           \A i \in 1 .. n : \A x \in ToSet(seqs[i]) : x.source = i,
           NoneTwice(seqs[r])
    PROVE  OnceFrom(FlattenSeq(seqs), r)
<1>1. PICK flat : FlattensTo(seqs, n, flat)
  <2>1. n # 0
    OBVIOUS
  <2> QED
    BY <2>1, FlattenRows
<1> DEFINE Row(i) == /\ flat[i] \in Seq(X) /\ \A x \in ToSet(flat[i]) : x.source \in 1 .. i
                     /\ OnceFrom(flat[i], r)
           S == {i \in 0 .. n : i # 0 => Row(i)}
<1>2. ASSUME NEW i \in 1 .. n
      PROVE  /\ seqs[i] \in Seq(X) /\ OnceFrom(seqs[i], r)
             /\ i # r => NoneFrom(seqs[i], r)
  <2>1. seqs[i] \in Seq(X) /\ DOMAIN seqs[i] = 1 .. Len(seqs[i])
    OBVIOUS
  <2>2. \A j \in DOMAIN seqs[i] : seqs[i][j].source = i
    BY <2>1 DEF ToSet
  <2>3. i # r => NoneFrom(seqs[i], r)
    BY DEF NoneFrom
  <2>4. CASE i = r
    BY <2>1, <2>3, <2>4 DEF OnceFrom, NoneTwice
  <2>5. CASE i # r
    BY <2>1, <2>2, <2>3, <2>5 DEF OnceFrom
  <2> QED
    BY <2>4, <2>5, <2>1, <2>3
<1>3. ASSUME NEW i \in 0 .. n, i < n, i # 0 => Row(i)
      PROVE  Row(i + 1)
  <2>1. i + 1 \in 1 .. n
    BY <1>3
  <2>2. CASE i = 0
    <3>1. flat[1] = seqs[1] /\ i + 1 = 1
      BY <1>1, <2>2 DEF FlattensTo
    <3> QED
      BY <1>2, <2>1, <3>1
  <2>3. CASE i # 0
    <3>1. i + 1 # 1 /\ (i + 1) - 1 = i
      BY ONLY i \in 0 .. n, n \in Nat, <2>3
    <3>2. flat[i + 1] = flat[i] \o seqs[i + 1]
      BY <1>1, <2>1, <3>1 DEF FlattensTo
    <3>3. flat[i] \in Seq(X) /\ (\A x \in ToSet(flat[i]) : x.source \in 1 .. i) /\ OnceFrom(flat[i], r)
      BY <1>3, <2>3
    <3>4. seqs[i + 1] \in Seq(X) /\ OnceFrom(seqs[i + 1], r)
      BY <1>2, <2>1
    <3>5. NoneFrom(flat[i], r) \/ NoneFrom(seqs[i + 1], r)
      <4>1. CASE i + 1 # r
        BY <1>2, <2>1, <4>1
      <4>2. CASE i + 1 = r
        <5>1. r \notin 1 .. i
          BY <4>2
        <5> QED
          BY <3>3, <5>1 DEF NoneFrom
      <4> QED
        BY <4>1, <4>2
    <3>6. OnceFrom(flat[i] \o seqs[i + 1], r)
      BY <3>3, <3>4, <3>5, JoinedOnce
    <3>7. /\ flat[i] \o seqs[i + 1] \in Seq(X)
          /\ ToSet(flat[i] \o seqs[i + 1]) = ToSet(flat[i]) \cup ToSet(seqs[i + 1])
      BY <3>3, <3>4, ConcatParts
    <3>8. \A x \in ToSet(flat[i + 1]) : x.source \in 1 .. i + 1
      <4>1. \A x \in ToSet(seqs[i + 1]) : x.source = i + 1
        BY <2>1
      <4>2. 1 .. i \subseteq 1 .. i + 1 /\ i + 1 \in 1 .. i + 1
        OBVIOUS
      <4> QED
        BY <3>2, <3>3, <3>7, <4>1, <4>2
    <3> QED
      BY <3>2, <3>6, <3>7, <3>8
  <2> QED
    BY <2>2, <2>3
<1> HIDE DEF Row
<1>4. 0 \in S
  OBVIOUS
<1>5. \A i \in 0 .. n : i \in S /\ i < n => i + 1 \in S
  <2> SUFFICES ASSUME NEW i \in 0 .. n, i \in S, i < n PROVE i + 1 \in S
    OBVIOUS
  <2>1. i # 0 => Row(i)
    OBVIOUS
  <2>2. Row(i + 1)
    BY <1>3, <2>1
  <2>3. i + 1 \in 0 .. n
    OBVIOUS
  <2> QED
    BY <2>2, <2>3
<1> HIDE DEF S
<1>6. n \in S
  <2>1. \A i \in 0 .. n : i \in S
    BY <1>4, <1>5, UpTo
  <2> QED
    BY <2>1
<1>7. Row(n)
  BY <1>6 DEF S
<1> QED
  BY <1>1, <1>7 DEF Row, FlattensTo

\* What is made of a rule is made once, and of that rule.
LEMMA MadeOnce ==
    ASSUME NEW g, NEW c, IsCensused(g, c), NEW r \in XRLs_of(g), XRL_is_Used(c, g.rules[r])
    PROVE  /\ NoneTwice(IRLs_of_XRL(g, c, r))
           /\ \A irl \in RulesMade(g, c, r) : irl.source = r
<1>1. NoneTwice(IRLs_of_XRL(g, c, r))
  <2>1. CASE g.rules[r].sequence
    BY <2>1, SequenceParts DEF AreOfSequence
  <2>2. CASE ~ g.rules[r].sequence
    <3>1. GrammarOK(g)
      BY DEF IsCensused
    <3>2. RuleExact(g, c, r)
      BY <2>2, <3>1, RuleIsExact
    <3> QED
      BY <3>2 DEF RuleExact, PiecesExact
  <2> QED
    BY <2>1, <2>2
<1>2. \A irl \in RulesMade(g, c, r) : irl.source = r
  BY MadeFits DEF IRLFits
<1> QED
  BY <1>1, <1>2

\* Of the rules of the internal grammar, those made of a rule.
IsPlaced(g, c, r, W) ==
    /\ OnceFrom(W, r)
    /\ \A i \in DOMAIN W : W[i].source = r => W[i] \in RulesMade(g, c, r)
    /\ \A irl \in RulesMade(g, c, r) : irl.source = r /\ \E i \in DOMAIN W : W[i] = irl

\* Each is in one place.
LEMMA RulesArePlaced ==
    ASSUME NEW g, NEW c, IsCensused(g, c), NEW r \in XRLs_of(g), XRL_is_Used(c, g.rules[r])
    PROVE  IsPlaced(g, c, r, Rewrite(g, c))
<1>1. PICK n \in Nat : XRLs_of(g) = 1 .. n
  <2>1. g.rules \in Seq(Rules)
    BY DEF IsCensused, GrammarOK
  <2> QED
    BY <2>1 DEF XRLs_of
<1>2. PICK b, Y : /\ b = StartIRLs(g, c) /\ b \in Seq(Y)
                  /\ \A irl \in ToSet(b) : IsStart(g, c, irl)
  BY StartParts
<1>3. PICK X : X = (UNION {RulesMade(g, c, q) : q \in 1 .. n}) \cup Y
  OBVIOUS
<1>4. PICK seqs : seqs = [q \in 1 .. n |-> IRLs_of_XRL(g, c, q)]
  OBVIOUS
<1>5. seqs \in [1 .. n -> Seq(X)]
  <2>1. ASSUME NEW q \in 1 .. n
        PROVE  IRLs_of_XRL(g, c, q) \in Seq(X)
    <3>1. IRLs_of_XRL(g, c, q) \in Seq(RulesMade(g, c, q))
      BY <1>1, MadeInOrder
    <3>2. RulesMade(g, c, q) \subseteq X
      BY <1>3
    <3> QED
      BY <3>1, <3>2
  <2> QED
    BY <1>4, <2>1
<1>6. \A q \in 1 .. n : \A x \in ToSet(seqs[q]) : x.source = q
  <2> SUFFICES ASSUME NEW q \in 1 .. n, NEW x \in ToSet(seqs[q])
               PROVE  x.source = q
    OBVIOUS
  <2>1. x \in RulesMade(g, c, q)
    BY <1>4 DEF RulesMade
  <2>2. XRL_is_Used(c, g.rules[q])
    BY <1>1, <2>1, MadeInOrder
  <2> QED
    BY <1>1, <2>1, <2>2, MadeOnce
<1>7. NoneTwice(seqs[r])
  BY <1>1, <1>4, MadeOnce
<1>8. PICK a : a = FlattenSeq(seqs) /\ a \in Seq(X) /\ OnceFrom(a, r)
  <2>1. FlattenSeq(seqs) \in Seq(X)
    BY <1>5, FlattenParts
  <2>2. r \in 1 .. n
    BY <1>1
  <2>3. OnceFrom(FlattenSeq(seqs), r)
    BY <1>5, <1>6, <1>7, <2>2, FlattenOnce
  <2> QED
    BY <2>1, <2>3
<1>9. b \in Seq(X)
  BY <1>2, <1>3
<1>10. NoneFrom(b, r) /\ OnceFrom(b, r)
  <2>1. \A x \in ToSet(b) : x.source = 0
    BY <1>2 DEF IsStart
  <2>2. r # 0
    BY <1>1
  <2>3. \A i \in DOMAIN b : b[i] \in ToSet(b)
    BY <1>9 DEF ToSet
  <2> QED
    BY <2>1, <2>2, <2>3 DEF NoneFrom, OnceFrom
<1>11. PICK W : W = Rewrite(g, c)
  OBVIOUS
<1>12. OnceFrom(W, r)
  <2>1. seqs = [q \in XRLs_of(g) |-> IRLs_of_XRL(g, c, q)]
    BY <1>1, <1>4, Zenon
  <2>2. Rewrite(g, c) = FlattenSeq(seqs) \o StartIRLs(g, c)
    BY <2>1, Zenon DEF Rewrite
  <2>3. W = a \o b
    BY <1>2, <1>8, <1>11, <2>2
  <2>4. OnceFrom(a \o b, r)
    BY <1>8, <1>9, <1>10, JoinedOnce
  <2> QED
    BY <2>3, <2>4
<1>13. /\ \A irl \in ToSet(W) : IsMade(g, c, irl) \/ IsStart(g, c, irl)
       /\ \A irl : IsMade(g, c, irl) => irl \in ToSet(W)
  BY <1>11, RewriteParts
<1>14. ASSUME NEW i \in DOMAIN W, W[i].source = r
       PROVE  W[i] \in RulesMade(g, c, r)
  <2>1. W[i] \in ToSet(W)
    BY DEF ToSet
  <2>2. CASE IsMade(g, c, W[i])
    <3>1. MadeShown(g, c, W[i])
      BY <2>2, MadeShows
    <3> QED
      BY <1>14, <3>1 DEF MadeShown
  <2>3. CASE IsStart(g, c, W[i])
    BY <1>1, <1>14, <2>3 DEF IsStart
  <2> QED
    BY <1>13, <2>1, <2>2, <2>3
<1>15. ASSUME NEW irl \in RulesMade(g, c, r)
       PROVE  irl.source = r /\ \E i \in DOMAIN W : W[i] = irl
  <2>1. IsMade(g, c, irl)
    BY DEF IsMade
  <2>2. irl \in ToSet(W)
    BY <1>13, <2>1
  <2> QED
    BY <2>2, MadeOnce DEF ToSet
<1>16. IsPlaced(g, c, r, W)
  BY <1>12, <1>14, <1>15 DEF IsPlaced
<1> QED
  BY <1>11, <1>16

\* A right side is a sequence.
LEMMA VariantIsSeq ==
    ASSUME NEW c, NEW rule, NEW s \in Int, NEW e \in Int, NEW nulled
    PROVE  \E X : Variant(c, rule, s, e, nulled) \in Seq(X)
<1>1. PICK n \in Nat : 1 .. n = 1 .. e - s + 1
  <2>1. CASE e - s + 1 \in Nat
    BY <2>1
  <2>2. CASE e - s + 1 \notin Nat
    <3>1. 1 .. 0 = 1 .. e - s + 1
      BY <2>2
    <3> QED
      BY <3>1
  <2> QED
    BY <2>1, <2>2
<1>2. PICK v : v = Variant(c, rule, s, e, nulled)
  OBVIOUS
<1>3. v = [i \in 1 .. n |-> IF s + i - 1 \in nulled THEN Nulling_NSY(rule.rhs[s + i - 1])
                            ELSE NSY_of(c, rule.rhs[s + i - 1])]
  BY <1>1, <1>2 DEF Variant
<1>4. PICK X : X = {v[i] : i \in 1 .. n}
  OBVIOUS
<1>5. v \in [1 .. n -> X]
  BY <1>3, <1>4
<1>6. v \in Seq(X)
  BY <1>5
<1> QED
  BY <1>2, <1>6

\* Also where a symbol is appended to it.
LEMMA AppendedIsSeq ==
    ASSUME NEW X, NEW v \in Seq(X), NEW x
    PROVE  Append(v, x) \in Seq(X \cup {x})
<1>1. PICK Y : Y = X \cup {x}
  OBVIOUS
<1>2. v \in Seq(Y) /\ x \in Y
  BY <1>1
<1> QED
  BY <1>1, <1>2

\* The right side of every rule that is made of a rule that is no sequence.
LEMMA MadeOfSymbols ==
    ASSUME NEW g, NEW c, IsCensused(g, c), NEW r \in XRLs_of(g), XRL_is_Used(c, g.rules[r]),
           ~ g.rules[r].sequence, NEW irl \in RulesMade(g, c, r)
    PROVE  \E X : irl.rhs \in Seq(X)
<1>1. /\ g.rules[r].rhs \in Seq(Nat)
      /\ \E i \in DOMAIN g.rules[r].rhs : g.rules[r].rhs[i] \notin c.nulling
  BY UsedShows DEF IsCensused
<1>2. PICK L, m, f, suffix : IsFactored(g, c, r, L, m, f, suffix)
  BY <1>1, RuleIsFactored
<1>3. /\ L \in Nat /\ m \in Nat /\ Len(f) = m /\ f = FactorPositions(c, g.rules[r])
      /\ Len(g.rules[r].rhs) = L /\ DOMAIN g.rules[r].rhs = 1 .. L
  BY <1>2 DEF IsFactored
<1>4. CASE m # 0
  <2>1. f # <<>>
    BY <1>3, <1>4
  <2>2. IRLs_of_XRL(g, c, r) = PieceIRLs(g, c, r)
    BY <1>3, <2>1, Zenon DEF IRLs_of_XRL
  <2>3. PieceIRLs(g, c, r) \in Seq(PieceRules(g, c, r, L))
    BY <1>2, <1>4, PiecesAreOK
  <2>4. irl \in PieceRules(g, c, r, L)
    BY <2>2, <2>3 DEF RulesMade, ToSet
  <2>5. CASE irl \in FinalRules(g, c, r, L)
    <3>1. PICK s \in 1 .. L, nulled \in SUBSET (1 .. L), q \in 0 .. 3 :
            irl = FinalIRL(g, c, r, s, nulled, q)
      BY <2>5 DEF FinalRules
    <3>2. irl.rhs = Variant(c, g.rules[r], s, L, nulled)
      BY <1>3, <3>1 DEF FinalIRL, NewIRL
    <3> QED
      BY <1>3, <3>2, VariantIsSeq
  <2>6. CASE irl \in ContinuedRules(g, c, r, L)
    <3>1. PICK s \in 1 .. L, e \in 1 .. L, nulled \in SUBSET (1 .. L), q \in 0 .. 3 :
            irl = ContinuedIRL(g, c, r, s, e, nulled, q)
      BY <2>6 DEF ContinuedRules
    <3>2. irl.rhs = Append(Variant(c, g.rules[r], s, e, nulled), VirtualNSY(g, r, e + 1))
      BY <1>3, <3>1 DEF ContinuedIRL, NewIRL
    <3>3. PICK X : Variant(c, g.rules[r], s, e, nulled) \in Seq(X)
      BY <1>3, VariantIsSeq
    <3>4. \A v, x : v \in Seq(X) => Append(v, x) \in Seq(X \cup {x})
      BY AppendedIsSeq
    <3>5. irl.rhs \in Seq(X \cup {VirtualNSY(g, r, e + 1)})
      BY <3>2, <3>3, <3>4
    <3> QED
      BY <3>5
  <2> QED
    BY <2>4, <2>5, <2>6 DEF PieceRules
<1>5. CASE m = 0
  <2>1. f = <<>>
    <3>1. f \in [1 .. m -> FactorsOf(c, g.rules[r])]
      BY <1>2 DEF IsFactored
    <3> QED
      BY <1>5, <3>1
  <2>2. IRLs_of_XRL(g, c, r) = <<PlainIRL(g, c, r)>>
    BY <1>3, <2>1, Zenon DEF IRLs_of_XRL, PlainIRL
  <2>3. ToSet(<<PlainIRL(g, c, r)>>) = {PlainIRL(g, c, r)}
    BY SingleParts
  <2>4. irl.rhs = [i \in 1 .. L |-> NSY_of(c, g.rules[r].rhs[i])]
    <3>1. irl = PlainIRL(g, c, r)
      BY <2>2, <2>3 DEF RulesMade
    <3>2. irl.rhs = [i \in DOMAIN g.rules[r].rhs |-> NSY_of(c, g.rules[r].rhs[i])]
      BY <3>1 DEF PlainIRL, NewIRL
    <3> QED
      BY <1>3, <3>2, Zenon
  <2>5. PICK X : X = {NSY_of(c, g.rules[r].rhs[i]) : i \in 1 .. L}
    OBVIOUS
  <2>6. irl.rhs \in [1 .. L -> X]
    BY <2>4, <2>5
  <2>7. irl.rhs \in Seq(X)
    BY <1>3, <2>6
  <2> QED
    BY <2>7
<1> QED
  BY <1>4, <1>5

-----------------------------------------------------------------------------
(* What a piece expands to *)

\* The sequence w is the word N of a rule from its position s on.
Spells(c, rule, L, s, N, w) ==
    /\ \E X : w \in Seq(X)
    /\ Len(w) = L - s + 1 /\ DOMAIN w = 1 .. L - s + 1
    /\ \A p \in 1 .. L - s + 1 : w[p] = NSYAt(c, rule, N, s + p - 1)

\* One word is spelled in one way,
LEMMA SpelledAlike ==
    ASSUME NEW c, NEW rule, NEW L \in Nat, NEW s \in 1 .. L, NEW N, NEW v, NEW w,
           Spells(c, rule, L, s, N, v), Spells(c, rule, L, s, N, w)
    PROVE  v = w
<1>1. PICK n \in Nat : n = L - s + 1
  OBVIOUS
<1>2. PICK X, Y : v \in Seq(X) /\ w \in Seq(Y)
  BY DEF Spells
<1>3. /\ DOMAIN v = 1 .. n /\ DOMAIN w = 1 .. n /\ \A p \in 1 .. n : v[p] = w[p]
  BY <1>1 DEF Spells
<1>4. v = [p \in 1 .. n |-> v[p]] /\ w = [p \in 1 .. n |-> w[p]]
  BY <1>2, <1>3
<1>5. [p \in 1 .. n |-> v[p]] = [p \in 1 .. n |-> w[p]]
  BY <1>3
<1> QED
  BY <1>4, <1>5

\* and one spelling is of one word.
LEMMA SpelledApart ==
    ASSUME NEW c, NEW rule, NEW L \in Nat, NEW s \in 1 .. L, NEW M, NEW N, NEW w,
           AreFactors(c, rule, s, L, M), AreFactors(c, rule, s, L, N),
           Spells(c, rule, L, s, M, w), Spells(c, rule, L, s, N, w)
    PROVE  M = N
<1>1. ASSUME NEW i \in s .. L, IsFactor(c, rule, i)
      PROVE  i \in M <=> i \in N
  <2>1. PICK p \in 1 .. L - s + 1 : s + p - 1 = i
    <3>1. i - s + 1 \in 1 .. L - s + 1 /\ s + (i - s + 1) - 1 = i
      OBVIOUS
    <3> QED
      BY <3>1
  <2>2. w[p] = NSYAt(c, rule, M, s + p - 1) /\ w[p] = NSYAt(c, rule, N, s + p - 1)
    BY DEF Spells
  <2>3. NSYAt(c, rule, M, i) = NSYAt(c, rule, N, i)
    BY <2>1, <2>2
  <2> QED
    BY <1>1, <2>3, NulledDiffers
<1> QED
  BY <1>1 DEF AreFactors

\* All but the last element of a sequence.
LEMMA FrontParts ==
    ASSUME NEW X, NEW w \in Seq(X), NEW n \in Nat, Len(w) = n + 1
    PROVE  /\ Front(w) \in Seq(X) /\ Len(Front(w)) = n /\ \A i \in 1 .. n : Front(w)[i] = w[i]
           /\ Last(w) = w[n + 1]
<1>1. Len(w) - 1 = n
  OBVIOUS
<1>2. Front(w) = SubSeq(w, 1, n)
  BY <1>1 DEF Front
<1>3. \A i \in 1 .. n : w[i] \in X
  OBVIOUS
<1>4. SubSeq(w, 1, n) \in Seq(X) /\ Len(SubSeq(w, 1, n)) = n
      /\ \A i \in 1 .. n : SubSeq(w, 1, n)[i] = w[i]
  BY <1>3
<1>5. Last(w) = w[n + 1]
  BY DEF Last
<1> QED
  BY <1>2, <1>4, <1>5

\* A word of the rest of a rule after the symbols of a piece that goes on.
LEMMA SpelledOn ==
    ASSUME NEW g, NEW c, NEW r, NEW L \in Nat, NEW s \in 1 .. L, NEW s2 \in 1 .. L, s < s2,
           NEW M, NEW N, NEW irl, NEW w, IsContinued(g, c, r, s, s2 - 1, M, irl),
           \E X : irl.rhs \in Seq(X), AreFactors(c, g.rules[r], s, s2 - 1, M),
           AreFactors(c, g.rules[r], s2, L, N), Spells(c, g.rules[r], L, s2, N, w)
    PROVE  Spells(c, g.rules[r], L, s, M \cup N, Front(irl.rhs) \o w)
<1>1. PICK rule, m, n : /\ rule = g.rules[r] /\ m \in Nat /\ m = s2 - s /\ n \in Nat /\ n = L - s2 + 1
                        /\ m + n = L - s + 1
  OBVIOUS
<1>2. /\ Len(irl.rhs) = m + 1
      /\ \A p \in 1 .. m : irl.rhs[p] = NSYAt(c, rule, M, s + p - 1)
  <2>1. (s2 - 1) - s + 2 = m + 1 /\ (s2 - 1) - s + 1 = m
    BY <1>1
  <2> QED
    BY <1>1, <2>1 DEF IsContinued
<1>3. /\ Len(w) = n /\ DOMAIN w = 1 .. n
      /\ \A p \in 1 .. n : w[p] = NSYAt(c, rule, N, s2 + p - 1)
  BY <1>1 DEF Spells
<1>4. PICK X : irl.rhs \in Seq(X) /\ w \in Seq(X)
  <2>1. PICK Y, Z : irl.rhs \in Seq(Y) /\ w \in Seq(Z)
    BY DEF Spells
  <2>2. irl.rhs \in Seq(Y \cup Z) /\ w \in Seq(Y \cup Z)
    BY <2>1
  <2> QED
    BY <2>2
<1>5. PICK f, j : f = Front(irl.rhs) /\ j = f \o w
  OBVIOUS
<1>6. f \in Seq(X) /\ Len(f) = m /\ \A p \in 1 .. m : f[p] = irl.rhs[p]
  <2>1. PICK v : v = irl.rhs
    OBVIOUS
  <2>2. v \in Seq(X) /\ Len(v) = m + 1
    BY <1>2, <1>4, <2>1
  <2>3. Front(v) \in Seq(X) /\ Len(Front(v)) = m /\ \A p \in 1 .. m : Front(v)[p] = v[p]
    BY <1>1, <2>2, FrontParts
  <2> QED
    BY <1>5, <2>1, <2>3
<1>7. j \in Seq(X) /\ Joins(f, w, j)
  BY <1>4, <1>5, <1>6, JoinedParts
<1>8. Len(j) = m + n /\ DOMAIN j = 1 .. m + n
      /\ (\A p \in 1 .. m : j[p] = f[p]) /\ (\A p \in 1 .. n : j[m + p] = w[p])
  BY <1>3, <1>6, <1>7 DEF Joins
<1>9. \A i \in s .. s2 - 1 : i \in M <=> i \in M \cup N
  BY <1>1 DEF AreFactors
<1>10. \A i \in s2 .. L : i \in N <=> i \in M \cup N
  BY <1>1 DEF AreFactors
<1>11. ASSUME NEW p \in 1 .. m + n
       PROVE  j[p] = NSYAt(c, rule, M \cup N, s + p - 1)
  <2>1. CASE p \in 1 .. m
    <3>1. s + p - 1 \in s .. s2 - 1
      BY <1>1, <2>1
    <3>2. j[p] = NSYAt(c, rule, M, s + p - 1)
      BY <1>2, <1>6, <1>8, <2>1
    <3> QED
      BY <1>9, <3>1, <3>2 DEF NSYAt
  <2>2. CASE p \notin 1 .. m
    <3>1. p - m \in 1 .. n /\ m + (p - m) = p /\ s2 + (p - m) - 1 = s + p - 1 /\ s + p - 1 \in s2 .. L
      BY <1>1, <2>2
    <3>2. j[p] = NSYAt(c, rule, N, s + p - 1)
      <4>1. j[m + (p - m)] = w[p - m] /\ w[p - m] = NSYAt(c, rule, N, s2 + (p - m) - 1)
        BY <1>3, <1>8, <3>1
      <4> QED
        BY <3>1, <4>1
    <3> QED
      BY <1>10, <3>1, <3>2 DEF NSYAt
  <2> QED
    BY <2>1, <2>2
<1>12. Spells(c, rule, L, s, M \cup N, j)
  <2>1. \E Y : j \in Seq(Y)
    BY <1>7
  <2> QED
    BY <1>1, <1>8, <1>11, <2>1 DEF Spells
<1> QED
  BY <1>1, <1>5, <1>12

\* A word is of M before s2 and of N from there on.
InTwoParts(c, rule, L, s, s2, M, N) ==
    /\ IsWord(c, rule, L, s, M \cup N) /\ ~ Ends(c, rule, L, s2, M \cup N)
    /\ Before(M \cup N, s2) = M /\ From(M \cup N, s2) = N

\* A piece that goes on, and what follows it, are a word of the rule.
LEMMA WordGoesOn ==
    ASSUME NEW c, NEW rule, NEW L \in Nat, NEW s \in 1 .. L, NEW s2 \in 1 .. L, s < s2,
           NEW M, NEW N, AreFactors(c, rule, s, s2 - 1, M), IsWord(c, rule, L, s2, N)
    PROVE  InTwoParts(c, rule, L, s, s2, M, N)
<1>1. M \subseteq s .. s2 - 1 /\ N \subseteq s2 .. L
  BY DEF IsWord, AreFactors
<1>2. Before(M \cup N, s2) = M /\ From(M \cup N, s2) = N
  <2>1. \A i \in M : i < s2 /\ ~ (i >= s2)
    BY <1>1
  <2>2. \A i \in N : i >= s2 /\ ~ (i < s2)
    BY <1>1
  <2> QED
    BY <2>1, <2>2 DEF Before, From
<1>3. AreFactors(c, rule, s, L, M \cup N)
  <2>1. M \cup N \subseteq s .. L
    BY <1>1
  <2> QED
    BY <2>1 DEF IsWord, AreFactors
<1>4. PICK i \in s2 .. L : i \notin N /\ rule.rhs[i] \notin c.nulling
  BY DEF IsWord
<1>5. i \in s .. L /\ i \notin M \cup N
  BY <1>1, <1>4
<1> QED
  BY <1>2, <1>3, <1>4, <1>5 DEF IsWord, Ends, InTwoParts

\* A word that goes on where a piece ends is in two parts.
LEMMA WordParts ==
    ASSUME NEW c, NEW rule, NEW L \in Nat, NEW s \in 1 .. L, NEW s2 \in s + 1 .. L + 1, NEW N,
           IsWord(c, rule, L, s, N), ~ Ends(c, rule, L, s2, N)
    PROVE  /\ s2 \in 1 .. L /\ s < s2 /\ N = Before(N, s2) \cup From(N, s2)
           /\ AreFactors(c, rule, s, s2 - 1, Before(N, s2)) /\ IsWord(c, rule, L, s2, From(N, s2))
<1>1. IsWord(c, rule, L, s2, From(N, s2))
  BY DEF Ends
<1>2. s2 \in 1 .. L /\ s < s2
  <2>1. PICK i \in s2 .. L : TRUE
    BY <1>1 DEF IsWord
  <2> QED
    BY <2>1
<1>3. N \subseteq s .. L /\ \A i \in N : IsFactor(c, rule, i)
  BY DEF IsWord, AreFactors
<1>4. N = Before(N, s2) \cup From(N, s2)
  <2>1. \A i \in s .. L : i < s2 \/ i >= s2
    BY <1>2
  <2> QED
    BY <1>3, <2>1 DEF Before, From
<1>5. AreFactors(c, rule, s, s2 - 1, Before(N, s2))
  <2>1. \A i \in s .. L : i < s2 => i \in s .. s2 - 1
    BY <1>2
  <2> QED
    BY <1>3, <2>1 DEF Before, AreFactors
<1> QED
  BY <1>1, <1>2, <1>4, <1>5

\* The expansions E of a piece are its words, each in one way, and count the
\* symbols of the rule.
IsPieceOf(c, rule, L, s, E) ==
    /\ \A e \in E : \E N : IsWord(c, rule, L, s, N) /\ Spells(c, rule, L, s, N, e.rhs)
    /\ \A N : IsWord(c, rule, L, s, N) => \E e \in E : Spells(c, rule, L, s, N, e.rhs)
    /\ \A d, e \in E : d.rhs = e.rhs => d = e
    /\ \A e \in E : s > 1 \/ Len(e.path) > 1 => e.real = L - s + 1

\* The rules of the piece from s to s2 are O, and are at the places I.
IsPieceAtPlaces(g, c, r, L, s, s2, O, I) ==
    /\ L \in Nat /\ s \in 1 .. L /\ s2 \in s + 1 .. L + 1 /\ Table(g, c, r, L, s, s2, O)
    /\ \A i \in I : irls[i] \in O
    /\ \A irl \in O : (\E X : irl.rhs \in Seq(X)) /\ \E i \in I : irls[i] = irl
    /\ \A i, j \in I : irls[i] = irls[j] => i = j

\* A rule that ends the external rule, as an expansion,
Concludes(g, c, r, L, s, s2, i, N) ==
    /\ IsWord(c, g.rules[r], L, s, N) /\ Ends(c, g.rules[r], L, s2, N)
    /\ IsFinal(g, c, r, L, s, N, irls[i])
\* and one that goes on, as a part of one.
Precedes(g, c, r, L, s, s2, i, N) ==
    /\ AreFactors(c, g.rules[r], s, s2 - 1, N) /\ s2 \in 1 .. L
    /\ IsContinued(g, c, r, s, s2 - 1, N, irls[i])
WithRest(i, e) == Expanded(i, e, Front(irls[i].rhs) \o e.rhs)

\* What is made of the rules of a piece and of the expansions that follow.
ExpandedFrom(L, I, from) ==
    UNION {IF irls[i].virtual_rhs
           THEN {WithRest(i, e) : e \in from[L - Last(irls[i].rhs).position]}
           ELSE {ExpansionOf(i)} : i \in I}

\* The two kinds of expansions, where F is what follows.
IsExpansion(i, e, F) ==
    \/ irls[i].virtual_rhs = FALSE /\ e = ExpansionOf(i)
    \/ irls[i].virtual_rhs = TRUE /\ \E x \in F : e = WithRest(i, x)

\* Every rule concludes or precedes.
IsEither(g, c, r, L, s, s2, i) ==
    \/ irls[i].virtual_rhs = FALSE /\ \E N : Concludes(g, c, r, L, s, s2, i, N)
    \/ /\ irls[i].virtual_rhs = TRUE /\ s2 \in 1 .. L /\ Last(irls[i].rhs).position = s2
       /\ \E N : Precedes(g, c, r, L, s, s2, i, N)

\* By its definition.
LEMMA PlacesOfPiece ==
    ASSUME NEW g, NEW c, NEW r, NEW L, NEW s, NEW s2, NEW O, NEW I,
           IsPieceAtPlaces(g, c, r, L, s, s2, O, I), NEW i \in I
    PROVE  IsEither(g, c, r, L, s, s2, i)
<1>1. irls[i] \in O
  BY DEF IsPieceAtPlaces
<1>2. IsOwn(g, c, r, L, s, s2, irls[i])
  BY <1>1 DEF IsPieceAtPlaces, Table
<1>3. ASSUME NEW N, Concludes(g, c, r, L, s, s2, i, N)
      PROVE  irls[i].virtual_rhs = FALSE
  BY <1>3 DEF Concludes, IsFinal
<1>4. ASSUME NEW N, Precedes(g, c, r, L, s, s2, i, N)
      PROVE  irls[i].virtual_rhs = TRUE /\ s2 \in 1 .. L /\ Last(irls[i].rhs).position = s2
  <2>1. /\ irls[i].virtual_rhs = TRUE /\ s2 \in 1 .. L
        /\ Len(irls[i].rhs) = (s2 - 1) - s + 2
        /\ irls[i].rhs[(s2 - 1) - s + 2] = VirtualNSY(g, r, (s2 - 1) + 1)
    BY <1>4 DEF Precedes, IsContinued
  <2>2. (s2 - 1) + 1 = s2
    BY <2>1
  <2>3. Last(irls[i].rhs) = VirtualNSY(g, r, s2)
    BY <2>1, <2>2 DEF Last
  <2> QED
    BY <2>1, <2>3 DEF VirtualNSY, NSY
<1>5. (\E N : Concludes(g, c, r, L, s, s2, i, N)) \/ (\E N : Precedes(g, c, r, L, s, s2, i, N))
  BY <1>2 DEF IsOwn, Concludes, Precedes
<1> QED
  BY <1>3, <1>4, <1>5 DEF IsEither

\* The expansions of a piece are of the two kinds.
LEMMA ExpandedParts ==
    ASSUME NEW g, NEW c, NEW r, NEW L, NEW s, NEW s2, NEW O, NEW I,
           IsPieceAtPlaces(g, c, r, L, s, s2, O, I), NEW from
    PROVE  \A e : e \in ExpandedFrom(L, I, from) <=> \E i \in I : IsExpansion(i, e, from[L - s2])
<1> DEFINE Of(i) == IF irls[i].virtual_rhs
                    THEN {WithRest(i, e) : e \in from[L - Last(irls[i].rhs).position]}
                    ELSE {ExpansionOf(i)}
<1>1. ExpandedFrom(L, I, from) = UNION {Of(i) : i \in I}
  BY Zenon DEF ExpandedFrom
<1>2. ASSUME NEW i \in I
      PROVE  \A e : e \in Of(i) <=> IsExpansion(i, e, from[L - s2])
  <2>1. \/ irls[i].virtual_rhs = FALSE
        \/ irls[i].virtual_rhs = TRUE /\ Last(irls[i].rhs).position = s2
    <3>1. IsEither(g, c, r, L, s, s2, i)
      BY PlacesOfPiece
    <3> QED
      BY <3>1 DEF IsEither
  <2>2. CASE irls[i].virtual_rhs = FALSE
    <3>1. Of(i) = {ExpansionOf(i)}
      BY <2>2
    <3> HIDE DEF Of
    <3> QED
      BY <2>2, <3>1 DEF IsExpansion
  <2>3. CASE irls[i].virtual_rhs = TRUE /\ Last(irls[i].rhs).position = s2
    <3>1. Of(i) = {WithRest(i, e) : e \in from[L - Last(irls[i].rhs).position]}
      BY <2>3
    <3> HIDE DEF Of
    <3>2. Of(i) = {WithRest(i, e) : e \in from[L - s2]}
      BY <2>3, <3>1, Zenon
    <3> QED
      BY <2>3, <3>2 DEF IsExpansion
  <2> QED
    BY <2>1, <2>2, <2>3
<1> HIDE DEF Of
<1>3. \A e : e \in ExpandedFrom(L, I, from) <=> \E i \in I : e \in Of(i)
  BY <1>1
<1> QED
  BY <1>2, <1>3, Zenon

\* The expansion e, by one rule, is the word N,
SpellsInOne(c, rule, L, s, N, e) ==
    /\ Spells(c, rule, L, s, N, e.rhs) /\ Len(e.path) = 1
    /\ s > 1 => e.real = L - s + 1
\* and one in two parts that of M and N.
SpellsInTwo(c, rule, L, s, s2, M, N, e) ==
    /\ InTwoParts(c, rule, L, s, s2, M, N)
    /\ Spells(c, rule, L, s, M \cup N, e.rhs)
    /\ e.real = L - s + 1

\* An expansion by one rule is a word.
LEMMA ConcludedWord ==
    ASSUME NEW g, NEW c, NEW r, NEW L \in Nat, NEW s \in 1 .. L, NEW s2, NEW i, NEW N,
           Concludes(g, c, r, L, s, s2, i, N), \E X : irls[i].rhs \in Seq(X), NEW e, e = ExpansionOf(i)
    PROVE  SpellsInOne(c, g.rules[r], L, s, N, e)
<1>1. e.rhs = irls[i].rhs /\ e.path = <<i>> /\ e.real = irls[i].real
  BY DEF ExpansionOf
<1> QED
  BY <1>1 DEF Concludes, IsFinal, Spells, SpellsInOne

\* An expansion by more than one is a word in two parts.
LEMMA PrecededWord ==
    ASSUME NEW g, NEW c, NEW r, NEW L \in Nat, NEW s \in 1 .. L, NEW s2 \in s + 1 .. L + 1, NEW i,
           NEW M, Precedes(g, c, r, L, s, s2, i, M), \E X : irls[i].rhs \in Seq(X),
           NEW N, NEW x, IsWord(c, g.rules[r], L, s2, N), Spells(c, g.rules[r], L, s2, N, x.rhs),
           x.real = L - s2 + 1, NEW e, e = WithRest(i, x)
    PROVE  SpellsInTwo(c, g.rules[r], L, s, s2, M, N, e)
<1>1. s2 \in 1 .. L /\ s < s2 /\ AreFactors(c, g.rules[r], s, s2 - 1, M)
      /\ IsContinued(g, c, r, s, s2 - 1, M, irls[i])
  BY DEF Precedes
<1>2. e.rhs = Front(irls[i].rhs) \o x.rhs /\ e.real = irls[i].real + x.real
  BY DEF WithRest, Expanded
<1>3. PICK rule, irl, w : rule = g.rules[r] /\ irl = irls[i] /\ w = x.rhs
  OBVIOUS
<1>4. Spells(c, rule, L, s, M \cup N, Front(irl.rhs) \o w)
  <2>1. AreFactors(c, g.rules[r], s2, L, N)
    BY DEF IsWord
  <2>2. Spells(c, g.rules[r], L, s2, N, w) /\ \E X : irl.rhs \in Seq(X)
    BY <1>3
  <2> QED
    BY <1>1, <1>3, <2>1, <2>2, SpelledOn
<1>5. irl.real = (s2 - 1) - s + 1
  BY <1>1, <1>3 DEF IsContinued
<1>6. e.real = L - s + 1
  BY <1>1, <1>2, <1>3, <1>5
<1>7. InTwoParts(c, rule, L, s, s2, M, N)
  <2>1. AreFactors(c, rule, s, s2 - 1, M) /\ IsWord(c, rule, L, s2, N)
    BY <1>1, <1>3
  <2>2. L \in Nat /\ s \in 1 .. L /\ s2 \in 1 .. L /\ s < s2
    BY <1>1
  <2> QED
    BY <2>1, <2>2, WordGoesOn
<1> QED
  BY <1>2, <1>3, <1>4, <1>6, <1>7 DEF SpellsInTwo

\* An expansion by one rule, for the word N, and one in two parts, for a word of M and N.
InOne(g, c, r, L, s, s2, I, e, i, N) ==
    /\ i \in I /\ Concludes(g, c, r, L, s, s2, i, N) /\ e = ExpansionOf(i)
    /\ SpellsInOne(c, g.rules[r], L, s, N, e)
InTwo(g, c, r, L, s, s2, I, F, e, i, M, N, x) ==
    /\ i \in I /\ Precedes(g, c, r, L, s, s2, i, M) /\ x \in F /\ e = WithRest(i, x)
    /\ IsWord(c, g.rules[r], L, s2, N) /\ Spells(c, g.rules[r], L, s2, N, x.rhs)
    /\ SpellsInTwo(c, g.rules[r], L, s, s2, M, N, e)

\* Every expansion is either.
LEMMA ExpansionKinds ==
    ASSUME NEW g, NEW c, NEW r, NEW L, NEW s, NEW s2, NEW O, NEW I,
           IsPieceAtPlaces(g, c, r, L, s, s2, O, I), NEW from, NEW F, F = from[L - s2],
           s2 \in 1 .. L => IsPieceOf(c, g.rules[r], L, s2, F), NEW e \in ExpandedFrom(L, I, from)
    PROVE  \/ \E i, N : InOne(g, c, r, L, s, s2, I, e, i, N)
           \/ \E i, M, N, x : InTwo(g, c, r, L, s, s2, I, F, e, i, M, N, x)
<1>1. L \in Nat /\ s \in 1 .. L /\ s2 \in s + 1 .. L + 1
  BY DEF IsPieceAtPlaces
<1>2. PICK i \in I : IsExpansion(i, e, F)
  BY ExpandedParts
<1>3. IsEither(g, c, r, L, s, s2, i)
  BY PlacesOfPiece
<1>4. \E X : irls[i].rhs \in Seq(X)
  BY DEF IsPieceAtPlaces
<1>5. CASE irls[i].virtual_rhs = FALSE /\ e = ExpansionOf(i)
  <2>1. PICK N : Concludes(g, c, r, L, s, s2, i, N)
    BY <1>3, <1>5 DEF IsEither
  <2>2. SpellsInOne(c, g.rules[r], L, s, N, e)
    BY <1>1, <1>4, <1>5, <2>1, ConcludedWord
  <2>3. InOne(g, c, r, L, s, s2, I, e, i, N)
    BY <1>5, <2>1, <2>2 DEF InOne
  <2> QED
    BY <2>3
<1>6. CASE irls[i].virtual_rhs = TRUE /\ \E x \in F : e = WithRest(i, x)
  <2>1. PICK x \in F : e = WithRest(i, x)
    BY <1>6
  <2>2. PICK M : Precedes(g, c, r, L, s, s2, i, M)
    BY <1>3, <1>6 DEF IsEither
  <2>3. s2 \in 1 .. L /\ s2 > 1
    BY <1>1, <2>2 DEF Precedes
  <2>4. PICK N : IsWord(c, g.rules[r], L, s2, N) /\ Spells(c, g.rules[r], L, s2, N, x.rhs)
    BY <2>3 DEF IsPieceOf
  <2>5. x.real = L - s2 + 1
    BY <2>3 DEF IsPieceOf
  <2>6. SpellsInTwo(c, g.rules[r], L, s, s2, M, N, e)
    BY <1>1, <1>4, <2>1, <2>2, <2>4, <2>5, PrecededWord
  <2>7. InTwo(g, c, r, L, s, s2, I, F, e, i, M, N, x)
    BY <2>1, <2>2, <2>4, <2>6 DEF InTwo
  <2> QED
    BY <2>7
<1> QED
  BY <1>2, <1>5, <1>6 DEF IsExpansion

\* Every word has one.
LEMMA WordIsExpanded ==
    ASSUME NEW g, NEW c, NEW r, NEW L, NEW s, NEW s2, NEW O, NEW I,
           IsPieceAtPlaces(g, c, r, L, s, s2, O, I), NEW from, NEW F, F = from[L - s2],
           s2 \in 1 .. L => IsPieceOf(c, g.rules[r], L, s2, F),
           NEW N, IsWord(c, g.rules[r], L, s, N)
    PROVE  \E e \in ExpandedFrom(L, I, from) : Spells(c, g.rules[r], L, s, N, e.rhs)
<1>1. L \in Nat /\ s \in 1 .. L /\ s2 \in s + 1 .. L + 1
  BY DEF IsPieceAtPlaces
<1>2. HasOneFor(g, c, r, L, s, s2, N, O)
  BY DEF IsPieceAtPlaces, Table
<1>3. \A i \in I : \E X : irls[i].rhs \in Seq(X)
  BY DEF IsPieceAtPlaces
<1>4. \A i \in I : \A e : IsExpansion(i, e, F) => e \in ExpandedFrom(L, I, from)
  BY ExpandedParts
<1>5. CASE Ends(c, g.rules[r], L, s2, N)
  <2>1. PICK irl \in O : IsFinal(g, c, r, L, s, N, irl)
    BY <1>2, <1>5 DEF HasOneFor, OneFinal
  <2>2. PICK i \in I : irls[i] = irl
    BY DEF IsPieceAtPlaces
  <2>3. Concludes(g, c, r, L, s, s2, i, N) /\ irls[i].virtual_rhs = FALSE
    BY <1>5, <2>1, <2>2 DEF Concludes, IsFinal
  <2>4. PICK e : e = ExpansionOf(i)
    OBVIOUS
  <2>5. SpellsInOne(c, g.rules[r], L, s, N, e)
    BY <1>1, <1>3, <2>3, <2>4, ConcludedWord
  <2>6. e \in ExpandedFrom(L, I, from)
    BY <1>4, <2>3, <2>4 DEF IsExpansion
  <2> QED
    BY <2>5, <2>6 DEF SpellsInOne
<1>6. CASE ~ Ends(c, g.rules[r], L, s2, N)
  <2>1. PICK A, B : A = Before(N, s2) /\ B = From(N, s2)
    OBVIOUS
  <2>2. /\ s2 \in 1 .. L /\ s < s2 /\ N = A \cup B
        /\ AreFactors(c, g.rules[r], s, s2 - 1, A) /\ IsWord(c, g.rules[r], L, s2, B)
    BY <1>1, <1>6, <2>1, WordParts
  <2>3. PICK irl \in O : IsContinued(g, c, r, s, s2 - 1, A, irl)
    BY <1>2, <1>6, <2>1 DEF HasOneFor, OneContinued
  <2>4. PICK i \in I : irls[i] = irl
    BY DEF IsPieceAtPlaces
  <2>5. Precedes(g, c, r, L, s, s2, i, A) /\ irls[i].virtual_rhs = TRUE
    BY <2>2, <2>3, <2>4 DEF Precedes, IsContinued
  <2>6. PICK x \in F : Spells(c, g.rules[r], L, s2, B, x.rhs)
    BY <2>2 DEF IsPieceOf
  <2>7. x.real = L - s2 + 1
    BY <1>1, <2>2 DEF IsPieceOf
  <2>8. PICK e : e = WithRest(i, x)
    OBVIOUS
  <2>9. SpellsInTwo(c, g.rules[r], L, s, s2, A, B, e)
    BY <1>1, <1>3, <2>2, <2>5, <2>6, <2>7, <2>8, PrecededWord
  <2>10. e \in ExpandedFrom(L, I, from)
    BY <1>4, <2>5, <2>6, <2>8 DEF IsExpansion
  <2> QED
    BY <2>2, <2>9, <2>10 DEF SpellsInTwo
<1> QED
  BY <1>5, <1>6

\* Two expansions of one word are by the same rules.
LEMMA OneExpansion ==
    ASSUME NEW g, NEW c, NEW r, NEW L, NEW s, NEW s2, NEW O, NEW I,
           IsPieceAtPlaces(g, c, r, L, s, s2, O, I), NEW F, NEW d, NEW e, d.rhs = e.rhs,
           NEW i, NEW j, NEW A, NEW B, InOne(g, c, r, L, s, s2, I, d, i, A),
           InOne(g, c, r, L, s, s2, I, e, j, B)
    PROVE  d = e
<1>1. L \in Nat /\ s \in 1 .. L
  BY DEF IsPieceAtPlaces
<1>2. IsWord(c, g.rules[r], L, s, A) /\ IsWord(c, g.rules[r], L, s, B)
  BY DEF InOne, Concludes, SpellsInOne
<1>3. A = B
  <2>1. AreFactors(c, g.rules[r], s, L, A) /\ AreFactors(c, g.rules[r], s, L, B)
    BY <1>2 DEF IsWord
  <2>2. Spells(c, g.rules[r], L, s, A, d.rhs) /\ Spells(c, g.rules[r], L, s, B, d.rhs)
    BY DEF InOne, SpellsInOne
  <2> QED
    BY <1>1, <2>1, <2>2, SpelledApart
<1>4. OneFinal(g, c, r, L, s, A, O)
  <2>1. HasOneFor(g, c, r, L, s, s2, A, O) /\ Ends(c, g.rules[r], L, s2, A)
    BY <1>2 DEF IsPieceAtPlaces, Table, InOne, Concludes, SpellsInOne
  <2> QED
    BY <2>1 DEF HasOneFor
<1>5. i \in I /\ j \in I /\ irls[i] \in O /\ irls[j] \in O
      /\ IsFinal(g, c, r, L, s, A, irls[i]) /\ IsFinal(g, c, r, L, s, A, irls[j])
  BY <1>3 DEF IsPieceAtPlaces, InOne, Concludes, SpellsInOne
<1>6. irls[i] = irls[j]
  BY <1>4, <1>5 DEF OneFinal
<1>7. i = j
  BY <1>5, <1>6 DEF IsPieceAtPlaces
<1> QED
  BY <1>7 DEF InOne, SpellsInOne

\* The same of expansions in two parts,
LEMMA TwoExpansions ==
    ASSUME NEW g, NEW c, NEW r, NEW L, NEW s, NEW s2, NEW O, NEW I,
           IsPieceAtPlaces(g, c, r, L, s, s2, O, I), NEW F, NEW d, NEW e, d.rhs = e.rhs,
           s2 \in 1 .. L => IsPieceOf(c, g.rules[r], L, s2, F),
           NEW i, NEW A, NEW B, NEW x, InTwo(g, c, r, L, s, s2, I, F, d, i, A, B, x),
           NEW j, NEW M, NEW N, NEW y, InTwo(g, c, r, L, s, s2, I, F, e, j, M, N, y)
    PROVE  d = e
<1>1. L \in Nat /\ s \in 1 .. L /\ s2 \in 1 .. L
  BY DEF IsPieceAtPlaces, InTwo, Precedes, SpellsInTwo
<1>2. InTwoParts(c, g.rules[r], L, s, s2, A, B) /\ InTwoParts(c, g.rules[r], L, s, s2, M, N)
  BY DEF InTwo, SpellsInTwo
<1>3. A \cup B = M \cup N
  <2>1. AreFactors(c, g.rules[r], s, L, A \cup B) /\ AreFactors(c, g.rules[r], s, L, M \cup N)
    BY <1>2 DEF InTwoParts, IsWord
  <2>2. /\ Spells(c, g.rules[r], L, s, A \cup B, d.rhs)
        /\ Spells(c, g.rules[r], L, s, M \cup N, d.rhs)
    BY DEF InTwo, SpellsInTwo
  <2> QED
    BY <1>1, <2>1, <2>2, SpelledApart
<1>4. A = M /\ B = N
  BY <1>2, <1>3 DEF InTwoParts
<1>5. OneContinued(g, c, r, s, s2 - 1, A, O)
  <2>1. HasOneFor(g, c, r, L, s, s2, A \cup B, O) /\ ~ Ends(c, g.rules[r], L, s2, A \cup B)
        /\ Before(A \cup B, s2) = A
    BY <1>2 DEF IsPieceAtPlaces, Table, InTwoParts
  <2> QED
    BY <2>1 DEF HasOneFor
<1>6. /\ i \in I /\ j \in I /\ irls[i] \in O /\ irls[j] \in O
      /\ IsContinued(g, c, r, s, s2 - 1, A, irls[i]) /\ IsContinued(g, c, r, s, s2 - 1, A, irls[j])
  BY <1>4 DEF IsPieceAtPlaces, InTwo, Precedes, SpellsInTwo
<1>7. irls[i] = irls[j]
  BY <1>5, <1>6 DEF OneContinued
<1>8. i = j
  BY <1>6, <1>7 DEF IsPieceAtPlaces
<1>9. x = y
  <2>1. x \in F /\ y \in F /\ IsPieceOf(c, g.rules[r], L, s2, F)
    BY <1>1 DEF InTwo, SpellsInTwo
  <2>2. Spells(c, g.rules[r], L, s2, B, x.rhs) /\ Spells(c, g.rules[r], L, s2, B, y.rhs)
    BY <1>4 DEF InTwo, SpellsInTwo
  <2>3. x.rhs = y.rhs
    BY <1>1, <2>2, SpelledAlike
  <2> QED
    BY <2>1, <2>3 DEF IsPieceOf
<1> QED
  BY <1>8, <1>9 DEF InTwo, SpellsInTwo

\* and one by one rule is not of the same word as one in two parts.
LEMMA OneIsNotTwo ==
    ASSUME NEW g, NEW c, NEW r, NEW L, NEW s, NEW s2, NEW O, NEW I,
           IsPieceAtPlaces(g, c, r, L, s, s2, O, I), NEW F, NEW d, NEW e, d.rhs = e.rhs,
           NEW i, NEW A, InOne(g, c, r, L, s, s2, I, d, i, A),
           NEW j, NEW M, NEW N, NEW y, InTwo(g, c, r, L, s, s2, I, F, e, j, M, N, y)
    PROVE  FALSE
<1>1. L \in Nat /\ s \in 1 .. L
  BY DEF IsPieceAtPlaces
<1>2. IsWord(c, g.rules[r], L, s, A) /\ Ends(c, g.rules[r], L, s2, A)
      /\ InTwoParts(c, g.rules[r], L, s, s2, M, N)
  BY DEF InOne, Concludes, InTwo, SpellsInOne, SpellsInTwo
<1>3. A = M \cup N
  <2>1. AreFactors(c, g.rules[r], s, L, A) /\ AreFactors(c, g.rules[r], s, L, M \cup N)
    BY <1>2 DEF InTwoParts, IsWord
  <2>2. /\ Spells(c, g.rules[r], L, s, A, d.rhs)
        /\ Spells(c, g.rules[r], L, s, M \cup N, d.rhs)
    BY DEF InOne, InTwo, SpellsInOne, SpellsInTwo
  <2> QED
    BY <1>1, <2>1, <2>2, SpelledApart
<1> QED
  BY <1>2, <1>3 DEF InTwoParts

\* The expansions of a piece are its words, each in one way, if those of the piece that
\* follows it are.
LEMMA PieceIsExpanded ==
    ASSUME NEW g, NEW c, NEW r, NEW L, NEW s, NEW s2, NEW O, NEW I,
           IsPieceAtPlaces(g, c, r, L, s, s2, O, I), NEW from, NEW F, F = from[L - s2],
           s2 \in 1 .. L => IsPieceOf(c, g.rules[r], L, s2, F)
    PROVE  IsPieceOf(c, g.rules[r], L, s, ExpandedFrom(L, I, from))
<1>1. PICK E : E = ExpandedFrom(L, I, from)
  OBVIOUS
<1>2. \A e \in E : \/ \E i, N : InOne(g, c, r, L, s, s2, I, e, i, N)
                   \/ \E i, M, N, x : InTwo(g, c, r, L, s, s2, I, F, e, i, M, N, x)
  BY <1>1, ExpansionKinds
<1>3. ASSUME NEW e \in E
      PROVE  /\ \E N : IsWord(c, g.rules[r], L, s, N) /\ Spells(c, g.rules[r], L, s, N, e.rhs)
             /\ s > 1 \/ Len(e.path) > 1 => e.real = L - s + 1
  <2>1. CASE \E i, N : InOne(g, c, r, L, s, s2, I, e, i, N)
    BY <2>1 DEF InOne, Concludes, SpellsInOne
  <2>2. CASE \E i, M, N, x : InTwo(g, c, r, L, s, s2, I, F, e, i, M, N, x)
    BY <2>2 DEF InTwo, InTwoParts, SpellsInTwo
  <2> QED
    BY <1>2, <2>1, <2>2
<1>4. ASSUME NEW d \in E, NEW e \in E, d.rhs = e.rhs
      PROVE  d = e
  <2>1. CASE \E i, N : InOne(g, c, r, L, s, s2, I, d, i, N)
    <3>1. PICK i, A : InOne(g, c, r, L, s, s2, I, d, i, A)
      BY <2>1
    <3>2. ~ \E j, M, N, x : InTwo(g, c, r, L, s, s2, I, F, e, j, M, N, x)
      BY <1>4, <3>1, OneIsNotTwo
    <3>3. PICK j, B : InOne(g, c, r, L, s, s2, I, e, j, B)
      BY <1>2, <3>2
    <3> QED
      BY <1>4, <3>1, <3>3, OneExpansion
  <2>2. CASE \E i, M, N, x : InTwo(g, c, r, L, s, s2, I, F, d, i, M, N, x)
    <3>1. PICK i, A, B, x : InTwo(g, c, r, L, s, s2, I, F, d, i, A, B, x)
      BY <2>2
    <3>2. e.rhs = d.rhs
      BY <1>4
    <3>3. ~ \E j, N : InOne(g, c, r, L, s, s2, I, e, j, N)
      BY <3>1, <3>2, OneIsNotTwo
    <3>4. PICK j, M, N, y : InTwo(g, c, r, L, s, s2, I, F, e, j, M, N, y)
      BY <1>2, <3>3
    <3> QED
      BY <1>4, <3>1, <3>4, TwoExpansions
  <2> QED
    BY <1>2, <2>1, <2>2
<1>5. \A N : IsWord(c, g.rules[r], L, s, N) => \E e \in E : Spells(c, g.rules[r], L, s, N, e.rhs)
  BY <1>1, WordIsExpanded
<1>6. IsPieceOf(c, g.rules[r], L, s, E)
  BY <1>3, <1>4, <1>5, Zenon DEF IsPieceOf
<1> QED
  BY <1>1, <1>6

\* The places of the internal rules of r whose left side is that of its piece from p on.
PlacesOf(g, c, r, p) == IRLsFor(r, LHS_of_Piece(g, c, r, p))

\* The rules of a piece are at places of their own.
LEMMA PieceIsPlaced ==
    ASSUME NEW g, NEW c, IsCensused(g, c), irls = Rewrite(g, c), NEW r \in XRLs_of(g),
           XRL_is_Used(c, g.rules[r]), ~ g.rules[r].sequence, NEW L \in Nat,
           NEW P, Tables(g, c, r, L, RulesMade(g, c, r), P), NEW s \in P
    PROVE  \E s2 : /\ s2 \in s + 1 .. L + 1 /\ (s2 = L + 1 \/ s2 \in P)
                   /\ IsPieceAtPlaces(g, c, r, L, s, s2, OfPiece(g, c, r, s, RulesMade(g, c, r)),
                                      PlacesOf(g, c, r, s))
<1>1. PICK R, O, I : /\ R = RulesMade(g, c, r) /\ O = OfPiece(g, c, r, s, R)
                     /\ I = PlacesOf(g, c, r, s)
  OBVIOUS
<1>2. PICK s2 \in s + 1 .. L + 1 : (s2 = L + 1 \/ s2 \in P) /\ Table(g, c, r, L, s, s2, O)
  <2>1. HasTable(g, c, r, L, s, R, P)
    BY <1>1 DEF Tables
  <2> QED
    BY <1>1, <2>1 DEF HasTable
<1>3. s \in 1 .. L
  BY DEF Tables
<1>4. IsPlaced(g, c, r, irls)
  BY RulesArePlaced
<1>5. \A i : i \in I <=> /\ i \in DOMAIN irls /\ irls[i].source = r
                         /\ irls[i].lhs = LHS_of_Piece(g, c, r, s)
  BY <1>1 DEF PlacesOf, IRLsFor
<1>6. \A irl : irl \in O <=> irl \in R /\ irl.lhs = LHS_of_Piece(g, c, r, s)
  BY <1>1 DEF OfPiece
<1>7. \A i \in I : irls[i] \in O
  BY <1>1, <1>4, <1>5, <1>6 DEF IsPlaced
<1>8. \A irl \in O : \E X : irl.rhs \in Seq(X)
  <2>1. \A irl \in R : \E X : irl.rhs \in Seq(X)
    BY <1>1, MadeOfSymbols
  <2> QED
    BY <1>6, <2>1
<1>9. \A irl \in O : \E i \in I : irls[i] = irl
  BY <1>1, <1>4, <1>5, <1>6 DEF IsPlaced
<1>10. \A i, j \in I : irls[i] = irls[j] => i = j
  BY <1>4, <1>5 DEF IsPlaced, OnceFrom
<1>11. IsPieceAtPlaces(g, c, r, L, s, s2, O, I)
  BY <1>2, <1>3, <1>7, <1>8, <1>9, <1>10 DEF IsPieceAtPlaces
<1> QED
  BY <1>1, <1>2, <1>11

\* Where no piece starts there is no rule.
LEMMA OthersHaveNone ==
    ASSUME NEW g, NEW c, IsCensused(g, c), irls = Rewrite(g, c), NEW r \in XRLs_of(g),
           XRL_is_Used(c, g.rules[r]), NEW L \in Nat,
           NEW P, Tables(g, c, r, L, RulesMade(g, c, r), P), NEW s, s \notin P
    PROVE  PlacesOf(g, c, r, s) = {}
<1> SUFFICES ASSUME NEW i \in PlacesOf(g, c, r, s)
             PROVE  FALSE
  OBVIOUS
<1>1. i \in DOMAIN irls /\ irls[i].source = r /\ irls[i].lhs = LHS_of_Piece(g, c, r, s)
  BY DEF PlacesOf, IRLsFor
<1>2. irls[i] \in RulesMade(g, c, r)
  BY <1>1, RulesArePlaced DEF IsPlaced
<1>3. PICK t \in P : irls[i].lhs = LHS_of_Piece(g, c, r, t)
  BY <1>2 DEF Tables
<1>4. LHS_of_Piece(g, c, r, s) = LHS_of_Piece(g, c, r, t)
  BY <1>1, <1>3
<1>5. s = t
  BY <1>4, PieceSymbolsDiffer
<1> QED
  BY <1>3, <1>5

\* A rule that goes on does so after where its piece starts.
PlacesGoOn(g, c, r, L) ==
    \A s \in 1 .. L : \A i \in PlacesOf(g, c, r, s) :
       irls[i].virtual_rhs => Last(irls[i].rhs).position \in s + 1 .. L

\* As its table says.
LEMMA RulesGoOn ==
    ASSUME NEW g, NEW c, IsCensused(g, c), irls = Rewrite(g, c), NEW r \in XRLs_of(g),
           XRL_is_Used(c, g.rules[r]), ~ g.rules[r].sequence, NEW L \in Nat,
           NEW P, Tables(g, c, r, L, RulesMade(g, c, r), P)
    PROVE  PlacesGoOn(g, c, r, L)
<1> SUFFICES ASSUME NEW s \in 1 .. L, NEW i \in PlacesOf(g, c, r, s), irls[i].virtual_rhs
             PROVE  Last(irls[i].rhs).position \in s + 1 .. L
  BY DEF PlacesGoOn
<1>1. s \in P
  BY OthersHaveNone
<1>2. PICK s2, O, I : /\ s2 \in s + 1 .. L + 1 /\ I = PlacesOf(g, c, r, s)
                      /\ IsPieceAtPlaces(g, c, r, L, s, s2, O, I)
  BY <1>1, PieceIsPlaced
<1>3. IsEither(g, c, r, L, s, s2, i)
  BY <1>2, PlacesOfPiece
<1>4. s2 \in 1 .. L /\ Last(irls[i].rhs).position = s2
  BY <1>3 DEF IsEither
<1> QED
  BY <1>2, <1>4

-----------------------------------------------------------------------------
(* The recursion of the expansions *)

\* The expansions from position L - k on, in terms of later ones.
FromPosition(g, c, r, L, k, from) == ExpandedFrom(L, PlacesOf(g, c, r, L - k), from)

\* It does not look at others.
LEMMA FromLater ==
    ASSUME NEW g, NEW c, NEW r, NEW L \in Nat, PlacesGoOn(g, c, r, L), NEW k \in 0 .. L - 1,
           NEW t, NEW h, \A j \in 0 .. k - 1 : t[j] = h[j]
    PROVE  FromPosition(g, c, r, L, k, t) = FromPosition(g, c, r, L, k, h)
<1>1. PICK I : I = PlacesOf(g, c, r, L - k)
  OBVIOUS
<1> DEFINE Of(i, from) == IF irls[i].virtual_rhs
                          THEN {WithRest(i, e) : e \in from[L - Last(irls[i].rhs).position]}
                          ELSE {ExpansionOf(i)}
<1>2. \A i \in I : Of(i, t) = Of(i, h)
  <2> SUFFICES ASSUME NEW i \in I
               PROVE  Of(i, t) = Of(i, h)
    OBVIOUS
  <2>1. CASE irls[i].virtual_rhs
    <3>1. PICK q : q = Last(irls[i].rhs).position
      OBVIOUS
    <3>2. q \in (L - k) + 1 .. L
      <4>1. L - k \in 1 .. L
        OBVIOUS
      <4> QED
        BY <1>1, <2>1, <3>1, <4>1 DEF PlacesGoOn
    <3>3. L - q \in 0 .. k - 1
      BY <3>2
    <3>4. t[L - q] = h[L - q]
      BY <3>3
    <3> QED
      BY <2>1, <3>1, <3>4
  <2>2. CASE ~ irls[i].virtual_rhs
    BY <2>2
  <2> QED
    BY <2>1, <2>2
<1>3. \A from : ExpandedFrom(L, I, from) = UNION {Of(i, from) : i \in I}
  BY Zenon DEF ExpandedFrom
<1> HIDE DEF Of
<1>4. {Of(i, t) : i \in I} = {Of(i, h) : i \in I}
  BY <1>2
<1>5. ExpandedFrom(L, I, t) = ExpandedFrom(L, I, h)
  BY <1>3, <1>4
<1> QED
  BY <1>1, <1>5 DEF FromPosition

\* The function that Expansions is defined by.
IsRecursion(g, c, r, L, h) == h = [k \in 0 .. L - 1 |-> FromPosition(g, c, r, L, k, h)]

\* There is one.
LEMMA ExpansionsExist ==
    ASSUME NEW g, NEW c, NEW r, NEW L \in Nat, PlacesGoOn(g, c, r, L)
    PROVE  \E h : IsRecursion(g, c, r, L, h)
<1> DEFINE Solves(h, n) == /\ h = [k \in 0 .. L - 1 |-> h[k]]
                           /\ \A k \in 0 .. L - 1 : k < n => h[k] = FromPosition(g, c, r, L, k, h)
           Solved(n) == \E h : Solves(h, n)
           S == {n \in 0 .. L : Solved(n)}
<1>1. Solved(0)
  <2>1. PICK h : h = [k \in 0 .. L - 1 |-> {}]
    OBVIOUS
  <2>2. h = [k \in 0 .. L - 1 |-> h[k]]
    BY <2>1
  <2>3. Solves(h, 0)
    BY <2>2
  <2> HIDE DEF Solves
  <2> QED
    BY <2>3
<1>2. ASSUME NEW n \in 0 .. L, Solved(n), n < L
      PROVE  Solved(n + 1)
  <2>1. PICK h : Solves(h, n)
    BY <1>2
  <2>2. PICK t : t = [k \in 0 .. L - 1 |-> IF k = n THEN FromPosition(g, c, r, L, n, h) ELSE h[k]]
    OBVIOUS
  <2>3. /\ t = [k \in 0 .. L - 1 |-> t[k]]
        /\ \A k \in 0 .. L - 1 : t[k] = IF k = n THEN FromPosition(g, c, r, L, n, h) ELSE h[k]
    BY <2>2
  <2>4. \A j \in 0 .. n - 1 : t[j] = h[j]
    <3>1. \A j \in 0 .. n - 1 : j \in 0 .. L - 1 /\ j # n
      OBVIOUS
    <3> QED
      BY <2>3, <3>1
  <2>5. ASSUME NEW k \in 0 .. L - 1, k < n + 1
        PROVE  t[k] = FromPosition(g, c, r, L, k, t)
    <3>1. FromPosition(g, c, r, L, k, t) = FromPosition(g, c, r, L, k, h)
      <4>1. \A j \in 0 .. k - 1 : j \in 0 .. n - 1
        BY <2>5
      <4>2. \A j \in 0 .. k - 1 : t[j] = h[j]
        BY <2>4, <4>1
      <4> QED
        BY <4>2, FromLater
    <3>2. CASE k = n
      BY <2>3, <3>1, <3>2
    <3>3. CASE k # n
      <4>1. k < n
        BY <2>5, <3>3
      <4>2. h[k] = FromPosition(g, c, r, L, k, h)
        BY <2>1, <4>1
      <4> QED
        BY <2>3, <3>1, <3>3, <4>2
    <3> QED
      BY <3>2, <3>3
  <2>6. Solves(t, n + 1)
    BY <2>3, <2>5
  <2> HIDE DEF Solves
  <2> QED
    BY <2>6
<1> HIDE DEF Solved
<1>3. 0 \in S
  BY <1>1
<1>4. \A n \in 0 .. L : n \in S /\ n < L => n + 1 \in S
  BY <1>2
<1> HIDE DEF S
<1>5. L \in S
  <2>1. \A n \in 0 .. L : n \in S
    BY <1>3, <1>4, UpTo
  <2> QED
    BY <2>1
<1>6. PICK h : Solves(h, L)
  BY <1>5 DEF S, Solved
<1>7. \A k \in 0 .. L - 1 : h[k] = FromPosition(g, c, r, L, k, h)
  BY <1>6
<1>8. h = [k \in 0 .. L - 1 |-> FromPosition(g, c, r, L, k, h)]
  <2>1. h = [k \in 0 .. L - 1 |-> h[k]]
    BY <1>6
  <2> QED
    BY <1>7, <2>1
<1> QED
  BY <1>8 DEF IsRecursion

\* So what Expansions returns is its value at the end.
LEMMA ExpansionsBegin ==
    ASSUME NEW g, g = Censused, NEW c, c = census, NEW r, NEW L \in Nat, Len(g.rules[r].rhs) = L,
           PlacesGoOn(g, c, r, L)
    PROVE  \E h : IsRecursion(g, c, r, L, h) /\ Expansions(r) = h[L - 1]
<1> DEFINE Body(length, k, from) ==
             LET position == length - k
                 lhs == IF position = 1 THEN NSY_of(census, Censused.rules[r].lhs)
                        ELSE VirtualNSY(Censused, r, position)
                 Rest(i) == from[length - Last(irls[i].rhs).position]
             IN  UNION {IF irls[i].virtual_rhs
                        THEN {Expanded(i, e, Front(irls[i].rhs) \o e.rhs) : e \in Rest(i)}
                        ELSE {ExpansionOf(i)} : i \in IRLsFor(r, lhs)}
           from[k \in 0 .. Len(Censused.rules[r].rhs) - 1] ==
             Body(Len(Censused.rules[r].rhs), k, from)
<1>1. Expansions(r) = from[Len(Censused.rules[r].rhs) - 1]
  BY Zenon DEF Expansions
<1>2. ASSUME NEW h
      PROVE  \A k : Body(L, k, h) = FromPosition(Censused, census, r, L, k, h)
  BY Zenon DEF FromPosition, ExpandedFrom, PlacesOf, LHS_of_Piece, WithRest
<1> HIDE DEF Body
<1>3. Len(Censused.rules[r].rhs) = L
  OBVIOUS
<1>4. PICK h : h = [k \in 0 .. Len(Censused.rules[r].rhs) - 1 |->
                      Body(Len(Censused.rules[r].rhs), k, h)]
  <2>1. PICK h : IsRecursion(g, c, r, L, h)
    BY ExpansionsExist
  <2>2. h = [k \in 0 .. L - 1 |-> Body(L, k, h)]
    BY <1>2, <2>1 DEF IsRecursion
  <2> QED
    BY <1>3, <2>2
<1>5. from = [k \in 0 .. Len(Censused.rules[r].rhs) - 1 |->
                Body(Len(Censused.rules[r].rhs), k, from)]
  BY <1>4, Zenon
<1> HIDE DEF from
<1>6. from = [k \in 0 .. L - 1 |-> Body(L, k, from)]
  BY <1>3, <1>5
<1>7. from = [k \in 0 .. L - 1 |-> FromPosition(g, c, r, L, k, from)]
  BY <1>2, <1>6
<1> QED
  BY <1>1, <1>3, <1>7 DEF IsRecursion

\* From every position where a piece starts, the words of the rule.
LEMMA PiecesAreExpanded ==
    ASSUME NEW g, NEW c, IsCensused(g, c), irls = Rewrite(g, c), NEW r \in XRLs_of(g),
           XRL_is_Used(c, g.rules[r]), ~ g.rules[r].sequence, NEW L \in Nat,
           NEW P, Tables(g, c, r, L, RulesMade(g, c, r), P), NEW h, IsRecursion(g, c, r, L, h)
    PROVE  \A k \in 0 .. L - 1 : L - k \in P => IsPieceOf(c, g.rules[r], L, L - k, h[k])
<1> DEFINE Holds(k) == L - k \in P => IsPieceOf(c, g.rules[r], L, L - k, h[k])
           S == {n \in 0 .. L : \A k \in 0 .. n - 1 : Holds(k)}
<1>1. ASSUME NEW n \in 0 .. L, n < L, \A k \in 0 .. n - 1 : Holds(k), L - n \in P
      PROVE  IsPieceOf(c, g.rules[r], L, L - n, h[n])
  <2>1. PICK s \in P : s = L - n
    BY <1>1
  <2>2. PICK s2, O, I : /\ s2 \in s + 1 .. L + 1 /\ (s2 = L + 1 \/ s2 \in P)
                        /\ I = PlacesOf(g, c, r, s) /\ IsPieceAtPlaces(g, c, r, L, s, s2, O, I)
    BY PieceIsPlaced
  <2>3. PICK F : F = h[L - s2]
    OBVIOUS
  <2>4. s2 \in 1 .. L => IsPieceOf(c, g.rules[r], L, s2, F)
    <3> SUFFICES ASSUME s2 \in 1 .. L
                 PROVE  IsPieceOf(c, g.rules[r], L, s2, F)
      OBVIOUS
    <3>1. PICK k : k = L - s2
      OBVIOUS
    <3>2. k \in 0 .. n - 1 /\ L - k = s2 /\ s2 \in P
      BY <2>1, <2>2, <3>1
    <3>3. IsPieceOf(c, g.rules[r], L, L - k, h[k])
      BY <1>1, <3>2
    <3> QED
      BY <2>3, <3>1, <3>2, <3>3
  <2>5. IsPieceOf(c, g.rules[r], L, s, ExpandedFrom(L, I, h))
    BY <2>2, <2>3, <2>4, PieceIsExpanded
  <2>6. h[n] = ExpandedFrom(L, I, h)
    <3>1. n \in 0 .. L - 1
      BY <1>1
    <3>2. h[n] = FromPosition(g, c, r, L, n, h)
      BY <3>1 DEF IsRecursion
    <3> QED
      BY <2>1, <2>2, <3>2 DEF FromPosition
  <2> QED
    BY <2>1, <2>5, <2>6
<1> HIDE DEF Holds
<1>2. 0 \in S
  OBVIOUS
<1>3. \A n \in 0 .. L : n \in S /\ n < L => n + 1 \in S
  <2> SUFFICES ASSUME NEW n \in 0 .. L, n \in S, n < L
               PROVE  n + 1 \in S
    OBVIOUS
  <2>1. \A k \in 0 .. n - 1 : Holds(k)
    OBVIOUS
  <2>2. Holds(n)
    BY <1>1, <2>1 DEF Holds
  <2>3. \A k \in 0 .. (n + 1) - 1 : k \in 0 .. n - 1 \/ k = n
    OBVIOUS
  <2>4. n + 1 \in 0 .. L
    OBVIOUS
  <2> QED
    BY <2>1, <2>2, <2>3, <2>4
<1> HIDE DEF S
<1>4. L \in S
  <2>1. \A n \in 0 .. L : n \in S
    BY <1>2, <1>3, UpTo
  <2> QED
    BY <2>1
<1>5. \A k \in 0 .. L - 1 : Holds(k)
  BY <1>4 DEF S
<1> QED
  BY <1>5 DEF Holds

\* Of a rule that is no sequence, the words of all of it.
LEMMA RuleIsExpanded ==
    ASSUME NEW g, g = Censused, NEW c, c = census, IsCensused(g, c), irls = Rewrite(g, c),
           NEW r \in XRLs_of(g), XRL_is_Used(c, g.rules[r]), ~ g.rules[r].sequence
    PROVE  \E L \in Nat : /\ Len(g.rules[r].rhs) = L /\ DOMAIN g.rules[r].rhs = 1 .. L
                          /\ 1 \in 1 .. L /\ IsPieceOf(c, g.rules[r], L, 1, Expansions(r))
<1>1. RuleExact(g, c, r)
  BY RuleIsExact DEF IsCensused
<1>2. PICK L \in Nat : /\ Len(g.rules[r].rhs) = L /\ DOMAIN g.rules[r].rhs = 1 .. L /\ 1 \in 1 .. L
                       /\ PiecesExact(g, c, r, L, 1, IRLs_of_XRL(g, c, r))
  BY <1>1 DEF RuleExact
<1>3. PICK P : StartsAt(1, P) /\ Tables(g, c, r, L, RulesMade(g, c, r), P)
  BY <1>2 DEF PiecesExact, RulesMade
<1>4. PlacesGoOn(g, c, r, L)
  BY <1>3, RulesGoOn
<1>5. PICK h : IsRecursion(g, c, r, L, h) /\ Expansions(r) = h[L - 1]
  BY <1>2, <1>4, ExpansionsBegin
<1>6. L - 1 \in 0 .. L - 1 /\ L - (L - 1) = 1 /\ 1 \in P
  BY <1>2, <1>3 DEF StartsAt
<1>7. \A k \in 0 .. L - 1 : L - k \in P => IsPieceOf(c, g.rules[r], L, L - k, h[k])
  BY <1>3, <1>5, PiecesAreExpanded
<1>8. IsPieceOf(c, g.rules[r], L, 1, h[L - 1])
  BY <1>6, <1>7
<1> QED
  BY <1>2, <1>5, <1>8

-----------------------------------------------------------------------------
(* What a rule stands for *)

\* A sequence with what a rule stands for at its places.
IsInstance(c, rule, L, w) ==
    /\ w = [p \in 1 .. L |-> w[p]]
    /\ \A p \in 1 .. L : \/ w[p] = NSY_of(c, rule.rhs[p])
                         \/ w[p] = Nulling_NSY(rule.rhs[p]) /\ rule.rhs[p] \in c.nullable
    /\ \E p \in 1 .. L : w[p].kind # "nulled"

\* What Instances returns.
LEMMA InstanceParts ==
    ASSUME NEW c, c = census, NEW rule, NEW L \in Nat, DOMAIN rule.rhs = 1 .. L, NEW w
    PROVE  w \in Instances(rule) <=> IsInstance(c, rule, L, w)
<1> DEFINE Options(x) == {NSY_of(census, x)} \cup {Nulling_NSY(x) : y \in {x} \cap census.nullable}
           Z == UNION {Options(x) : x \in RHSOf(rule)}
<1>1. Instances(rule) = {s \in {s \in [DOMAIN rule.rhs -> Z] :
                                  \A i \in DOMAIN rule.rhs : s[i] \in Options(rule.rhs[i])} :
                           \E i \in DOMAIN s : s[i].kind # "nulled"}
  BY Zenon DEF Instances
<1>2. \A x, y : y \in Options(x) <=> y = NSY_of(c, x) \/ (y = Nulling_NSY(x) /\ x \in c.nullable)
  OBVIOUS
<1>3. \A i \in 1 .. L : Options(rule.rhs[i]) \subseteq Z
  <2>1. \A i \in 1 .. L : rule.rhs[i] \in RHSOf(rule)
    BY DEF RHSOf
  <2> HIDE DEF Options
  <2> QED
    BY <2>1
<1> HIDE DEF Options, Z
<1>4. w \in Instances(rule) <=> /\ w \in [1 .. L -> Z]
                                /\ \A i \in 1 .. L : w[i] \in Options(rule.rhs[i])
                                /\ \E i \in DOMAIN w : w[i].kind # "nulled"
  BY <1>1
<1>5. ASSUME w \in Instances(rule)
      PROVE  IsInstance(c, rule, L, w)
  <2>1. w \in [1 .. L -> Z] /\ (\A i \in 1 .. L : w[i] \in Options(rule.rhs[i]))
        /\ \E i \in 1 .. L : w[i].kind # "nulled"
    BY <1>4, <1>5
  <2>2. w = [p \in 1 .. L |-> w[p]]
    BY <2>1
  <2> QED
    BY <1>2, <2>1, <2>2 DEF IsInstance
<1>6. ASSUME IsInstance(c, rule, L, w)
      PROVE  w \in Instances(rule)
  <2>1. w = [p \in 1 .. L |-> w[p]] /\ DOMAIN w = 1 .. L
    BY <1>6 DEF IsInstance
  <2>2. \A i \in 1 .. L : w[i] \in Options(rule.rhs[i])
    BY <1>2, <1>6 DEF IsInstance
  <2>3. \A i \in 1 .. L : w[i] \in Z
    BY <1>3, <2>2
  <2>4. w \in [1 .. L -> Z]
    BY <2>1, <2>3
  <2>5. \E i \in DOMAIN w : w[i].kind # "nulled"
    BY <1>6, <2>1 DEF IsInstance
  <2> QED
    BY <1>4, <2>2, <2>4, <2>5
<1> QED
  BY <1>5, <1>6

\* A word is one.
LEMMA WordIsInstance ==
    ASSUME NEW c, NEW rule, NEW L \in Nat, NEW N, IsWord(c, rule, L, 1, N),
           NEW w, Spells(c, rule, L, 1, N, w)
    PROVE  IsInstance(c, rule, L, w)
<1>1. L - 1 + 1 = L /\ \A p \in 1 .. L : 1 + p - 1 = p
  OBVIOUS
<1>2. (\E X : w \in Seq(X)) /\ DOMAIN w = 1 .. L
  BY <1>1 DEF Spells
<1>3. \A p \in 1 .. L : w[p] = NSYAt(c, rule, N, p)
  <2>1. \A p \in 1 .. L : w[p] = NSYAt(c, rule, N, 1 + p - 1)
    BY <1>1 DEF Spells
  <2> QED
    BY <1>1, <2>1
<1>4. w = [p \in 1 .. L |-> w[p]]
  BY <1>2
<1>5. \A p \in N : rule.rhs[p] \in c.nullable
  BY DEF IsWord, AreFactors, IsFactor
<1>6. PICK i \in 1 .. L : i \notin N /\ rule.rhs[i] \notin c.nulling
  BY DEF IsWord
<1>7. w[i].kind = "proper"
  <2>1. w[i] = NSY_of(c, rule.rhs[i])
    BY <1>3, <1>6 DEF NSYAt
  <2>2. NSY_of(c, rule.rhs[i]) = NSY("proper", rule.rhs[i], 0, 0)
    BY <1>6 DEF NSY_of
  <2> QED
    BY <2>1, <2>2 DEF NSY
<1>8. w[i].kind # "nulled"
  BY <1>7
<1>9. \A p \in 1 .. L : \/ w[p] = NSY_of(c, rule.rhs[p])
                        \/ w[p] = Nulling_NSY(rule.rhs[p]) /\ rule.rhs[p] \in c.nullable
  <2> SUFFICES ASSUME NEW p \in 1 .. L
               PROVE  \/ w[p] = NSY_of(c, rule.rhs[p])
                      \/ w[p] = Nulling_NSY(rule.rhs[p]) /\ rule.rhs[p] \in c.nullable
    OBVIOUS
  <2>1. CASE p \in N
    BY <1>3, <1>5, <2>1 DEF NSYAt
  <2>2. CASE p \notin N
    BY <1>3, <2>2 DEF NSYAt
  <2> QED
    BY <2>1, <2>2
<1> QED
  BY <1>4, <1>8, <1>9 DEF IsInstance

\* And one is a word.
LEMMA InstanceIsWord ==
    ASSUME NEW c, NEW rule, NEW L \in Nat, NEW w, IsInstance(c, rule, L, w)
    PROVE  \E N : IsWord(c, rule, L, 1, N) /\ Spells(c, rule, L, 1, N, w)
<1>1. L - 1 + 1 = L /\ \A p \in 1 .. L : 1 + p - 1 = p
  OBVIOUS
<1>2. PICK N : N = {p \in 1 .. L : IsFactor(c, rule, p) /\ w[p] = Nulling_NSY(rule.rhs[p])}
  OBVIOUS
<1>3. \A p \in 1 .. L : \/ w[p] = NSY_of(c, rule.rhs[p])
                        \/ w[p] = Nulling_NSY(rule.rhs[p]) /\ rule.rhs[p] \in c.nullable
  BY DEF IsInstance
<1>4. ASSUME NEW p \in 1 .. L
      PROVE  w[p] = NSYAt(c, rule, N, p)
  <2>1. CASE p \in N
    BY <1>2, <2>1 DEF NSYAt
  <2>2. CASE p \notin N /\ w[p] = NSY_of(c, rule.rhs[p])
    BY <2>2 DEF NSYAt
  <2>3. CASE p \notin N /\ w[p] = Nulling_NSY(rule.rhs[p]) /\ rule.rhs[p] \in c.nullable
    <3>1. rule.rhs[p] \in c.nulling
      BY <1>2, <2>3 DEF IsFactor
    <3>2. NSY_of(c, rule.rhs[p]) = Nulling_NSY(rule.rhs[p])
      BY <3>1 DEF NSY_of
    <3> QED
      BY <2>3, <3>2 DEF NSYAt
  <2> QED
    BY <1>3, <2>1, <2>2, <2>3
<1>5. PICK i \in 1 .. L : w[i].kind # "nulled"
  BY DEF IsInstance
<1>6. i \notin N /\ rule.rhs[i] \notin c.nulling
  <2>1. \A x : Nulling_NSY(x).kind = "nulled"
    BY DEF Nulling_NSY, NSY
  <2>2. w[i] # Nulling_NSY(rule.rhs[i])
    BY <1>5, <2>1
  <2> QED
    BY <1>4, <2>2 DEF NSYAt, NSY_of
<1>7. IsWord(c, rule, L, 1, N)
  BY <1>2, <1>5, <1>6 DEF IsWord, AreFactors
<1>8. Spells(c, rule, L, 1, N, w)
  <2>1. PICK X : X = {w[p] : p \in 1 .. L}
    OBVIOUS
  <2>2. w = [p \in 1 .. L |-> w[p]]
    BY DEF IsInstance
  <2>3. w \in [1 .. L -> X]
    BY <2>1, <2>2
  <2>4. w \in Seq(X) /\ Len(w) = L /\ DOMAIN w = 1 .. L
    BY <2>3
  <2>5. \A p \in 1 .. L : w[p] = NSYAt(c, rule, N, 1 + p - 1)
    BY <1>1, <1>4
  <2>6. \E Y : w \in Seq(Y)
    BY <2>4
  <2> QED
    BY <1>1, <2>4, <2>5, <2>6 DEF Spells
<1> QED
  BY <1>7, <1>8

\* The expansions of a rule that is no sequence are what it stands for.
LEMMA ExpansionsStand ==
    ASSUME NEW g, g = Censused, NEW c, c = census, IsCensused(g, c), irls = Rewrite(g, c),
           NEW r \in XRLs_of(g), XRL_is_Used(c, g.rules[r]), ~ g.rules[r].sequence
    PROVE  /\ StandsFor(Expansions(r), Instances(g.rules[r]))
           /\ \A e \in Expansions(r) : Len(e.path) > 1 => e.real = Len(g.rules[r].rhs)
<1>1. PICK L \in Nat : /\ Len(g.rules[r].rhs) = L /\ DOMAIN g.rules[r].rhs = 1 .. L
                       /\ 1 \in 1 .. L /\ IsPieceOf(c, g.rules[r], L, 1, Expansions(r))
  BY RuleIsExpanded
<1>2. PICK E, rule, J : E = Expansions(r) /\ rule = g.rules[r] /\ J = Instances(rule)
  OBVIOUS
<1>3. IsPieceOf(c, rule, L, 1, E)
  BY <1>1, <1>2
<1>4. \A w : w \in J <=> IsInstance(c, rule, L, w)
  BY <1>1, <1>2, InstanceParts
<1>5. ASSUME NEW e \in E
      PROVE  e.rhs \in J
  <2>1. PICK N : IsWord(c, rule, L, 1, N) /\ Spells(c, rule, L, 1, N, e.rhs)
    BY <1>3 DEF IsPieceOf
  <2>2. IsInstance(c, rule, L, e.rhs)
    BY <2>1, WordIsInstance
  <2> QED
    BY <1>4, <2>2
<1>6. ASSUME NEW w \in J
      PROVE  \E e \in E : e.rhs = w
  <2>1. PICK N : IsWord(c, rule, L, 1, N) /\ Spells(c, rule, L, 1, N, w)
    BY <1>4, InstanceIsWord
  <2>2. PICK e \in E : Spells(c, rule, L, 1, N, e.rhs)
    BY <1>3, <2>1 DEF IsPieceOf
  <2>3. e.rhs = w
    BY <1>1, <2>1, <2>2, SpelledAlike
  <2> QED
    BY <2>3
<1>7. {e.rhs : e \in E} = J
  BY <1>5, <1>6
<1>8. \A d, e \in E : d.rhs = e.rhs => d = e
  BY <1>3 DEF IsPieceOf
<1>9. StandsFor(E, J)
  BY <1>7, <1>8 DEF StandsFor
<1>10. \A e \in E : Len(e.path) > 1 => e.real = L
  <2>1. L - 1 + 1 = L
    OBVIOUS
  <2>2. \A e \in E : Len(e.path) > 1 => e.real = L - 1 + 1
    BY <1>3 DEF IsPieceOf
  <2> QED
    BY <2>1, <2>2
<1> QED
  BY <1>1, <1>2, <1>9, <1>10

-----------------------------------------------------------------------------
(* What a sequence stands for *)

\* Of j items that are d apart, the last is there.
ItemsEnd(d, j) == (j - 1) * d + 1

\* It tells how many they are, and whether a separator follows.
LEMMA ItemsCount ==
    ASSUME NEW d \in {1, 2}, NEW j \in Nat, j >= 1
    PROVE  /\ ItemsEnd(d, j) \in Nat /\ ItemsEnd(d, j) >= 1 /\ ItemsEnd(d, 1) = 1
           /\ ItemsEnd(d, j + 1) = ItemsEnd(d, j) + d
           /\ \A i \in Nat : i >= 1 =>
                /\ ItemsEnd(d, i) = ItemsEnd(d, j) => i = j
                /\ d = 2 => ItemsEnd(d, i) + 1 # ItemsEnd(d, j)
<1>1. CASE d = 1
  <2>1. \A i \in Nat : ItemsEnd(1, i) = i
    BY DEF ItemsEnd
  <2>2. ItemsEnd(1, j + 1) = ItemsEnd(1, j) + 1 /\ ItemsEnd(1, 1) = 1
    BY <2>1
  <2> QED
    BY <1>1, <2>1, <2>2
<1>2. CASE d = 2
  <2>1. \A i \in Nat : ItemsEnd(2, i) = 2 * i - 1
    BY DEF ItemsEnd
  <2>2. ItemsEnd(2, j + 1) = ItemsEnd(2, j) + 2 /\ ItemsEnd(2, 1) = 1
    BY <2>1
  <2>3. ItemsEnd(2, j) \in Nat /\ ItemsEnd(2, j) >= 1
    BY <2>1
  <2>4. \A i \in Nat : /\ 2 * i - 1 = 2 * j - 1 => i = j
                       /\ (2 * i - 1) + 1 # 2 * j - 1
    OBVIOUS
  <2> QED
    BY <1>2, <2>1, <2>2, <2>3, <2>4
<1> QED
  BY <1>1, <1>2

\* An item is at every d-th place.
IsItemPlace(d, p) == p % d = 1 % d

\* After the end of j items comes a separator, if there are any, and an item.
LEMMA NextPlaces ==
    ASSUME NEW j \in Nat, j >= 1
    PROVE  /\ \A p \in Nat : IsItemPlace(1, p)
           /\ IsItemPlace(2, 1) /\ ~ IsItemPlace(2, ItemsEnd(2, j) + 1)
           /\ IsItemPlace(2, ItemsEnd(2, j) + 2)
<1>1. \A p \in Nat : p % 1 = 0
  OBVIOUS
<1>2. 1 % 2 = 1
  OBVIOUS
<1>3. ItemsEnd(2, j) + 1 = 2 * j /\ ItemsEnd(2, j) + 2 = 2 * j + 1
  BY DEF ItemsEnd
<1>4. (2 * j) % 2 = 0
  OBVIOUS
<1>5. (2 * j + 1) % 2 = 1
  OBVIOUS
<1> QED
  BY <1>1, <1>2, <1>3, <1>4, <1>5 DEF IsItemPlace

\* The sequence w is of j items with separators between them, if there are any.
IsListed(c, rule, d, j, w) ==
    /\ \E X : w \in Seq(X)
    /\ Len(w) = ItemsEnd(d, j) /\ DOMAIN w = 1 .. ItemsEnd(d, j)
    /\ \A p \in 1 .. ItemsEnd(d, j) :
          w[p] = IF IsItemPlace(d, p) THEN NSY_of(c, rule.rhs[1]) ELSE NSY_of(c, rule.separator)
IsTail(c, rule, d, t) ==
    t = IF d = 1 THEN <<NSY_of(c, rule.rhs[1])>>
        ELSE <<NSY_of(c, rule.separator), NSY_of(c, rule.rhs[1])>>

\* One item.
LEMMA FirstListed ==
    ASSUME NEW c, NEW rule, NEW d \in {1, 2}, NEW w, w = <<NSY_of(c, rule.rhs[1])>>
    PROVE  IsListed(c, rule, d, 1, w)
<1>1. PICK x : x = NSY_of(c, rule.rhs[1])
  OBVIOUS
<1>2. w \in Seq({x}) /\ Len(w) = 1 /\ DOMAIN w = 1 .. 1 /\ w[1] = x
  BY <1>1
<1>3. ItemsEnd(d, 1) = 1
  BY ItemsCount
<1>4. IsItemPlace(d, 1)
  BY DEF IsItemPlace
<1>5. \A p \in 1 .. 1 : p = 1
  OBVIOUS
<1>6. \E X : w \in Seq(X)
  BY <1>2
<1> QED
  BY <1>1, <1>2, <1>3, <1>4, <1>5, <1>6 DEF IsListed

\* One item more.
LEMMA NextListed ==
    ASSUME NEW c, NEW rule, NEW d \in {1, 2}, NEW j \in Nat, j >= 1, NEW w,
           IsListed(c, rule, d, j, w), NEW t, IsTail(c, rule, d, t)
    PROVE  IsListed(c, rule, d, j + 1, w \o t)
<1>1. PICK m : m = ItemsEnd(d, j)
  OBVIOUS
<1>2. m \in Nat /\ m >= 1 /\ ItemsEnd(d, j + 1) = m + d
  BY <1>1, ItemsCount
<1>3. PICK x, y : x = NSY_of(c, rule.rhs[1]) /\ y = NSY_of(c, rule.separator)
  OBVIOUS
<1>4. /\ Len(w) = m /\ DOMAIN w = 1 .. m
      /\ \A p \in 1 .. m : w[p] = IF IsItemPlace(d, p) THEN x ELSE y
  BY <1>1, <1>3 DEF IsListed
<1>5. PICK X : w \in Seq(X)
  BY DEF IsListed
<1>6. PICK Y : Y = X \cup {x, y}
  OBVIOUS
<1>7. w \in Seq(Y) /\ t \in Seq(Y) /\ Len(t) = d
  <2>1. w \in Seq(Y) /\ x \in Y /\ y \in Y
    BY <1>5, <1>6
  <2>2. t = IF d = 1 THEN <<x>> ELSE <<y, x>>
    BY <1>3 DEF IsTail
  <2>3. CASE d = 1
    BY <2>1, <2>2, <2>3
  <2>4. CASE d = 2
    BY <2>1, <2>2, <2>4
  <2> QED
    BY <2>1, <2>3, <2>4
<1>8. PICK v : v = w \o t
  OBVIOUS
<1>9. v \in Seq(Y) /\ Joins(w, t, v)
  BY <1>7, <1>8, JoinedParts
<1>10. /\ Len(v) = m + d /\ DOMAIN v = 1 .. m + d
       /\ (\A p \in 1 .. m : v[p] = w[p]) /\ \A p \in 1 .. d : v[m + p] = t[p]
  BY <1>4, <1>7, <1>9 DEF Joins
<1>11. \A p \in 1 .. m + d : v[p] = IF IsItemPlace(d, p) THEN x ELSE y
  <2>1. CASE d = 1
    <3>1. t[1] = x
      BY <1>3, <2>1 DEF IsTail
    <3>2. v[m + 1] = x
      BY <1>10, <2>1, <3>1
    <3>3. \A p \in 1 .. m + d : p \in 1 .. m \/ p = m + 1
      BY <1>2, <2>1
    <3>4. \A p \in 1 .. m + d : IsItemPlace(d, p)
      BY <1>2, <2>1, NextPlaces
    <3> QED
      BY <1>4, <1>10, <3>2, <3>3, <3>4
  <2>2. CASE d = 2
    <3>1. t[1] = y /\ t[2] = x
      BY <1>3, <2>2 DEF IsTail
    <3>2. v[m + 1] = y /\ v[m + 2] = x
      BY <1>10, <2>2, <3>1
    <3>3. \A p \in 1 .. m + d : p \in 1 .. m \/ p = m + 1 \/ p = m + 2
      BY <1>2, <2>2
    <3>4. ~ IsItemPlace(d, m + 1) /\ IsItemPlace(d, m + 2)
      BY <1>1, <2>2, NextPlaces
    <3> QED
      BY <1>4, <1>10, <3>2, <3>3, <3>4
  <2> QED
    BY <2>1, <2>2
<1>12. IsListed(c, rule, d, j + 1, v)
  <2>1. \E Z : v \in Seq(Z)
    BY <1>9
  <2> QED
    BY <1>2, <1>3, <1>10, <1>11, <2>1 DEF IsListed
<1> QED
  BY <1>8, <1>12

\* There is one sequence of j items.
LEMMA ListedAlike ==
    ASSUME NEW c, NEW rule, NEW d \in {1, 2}, NEW j \in Nat, j >= 1, NEW v, NEW w,
           IsListed(c, rule, d, j, v), IsListed(c, rule, d, j, w)
    PROVE  v = w
<1>1. PICK m \in Nat : m = ItemsEnd(d, j)
  BY ItemsCount
<1>2. PICK X, Y : v \in Seq(X) /\ w \in Seq(Y)
  BY DEF IsListed
<1>3. DOMAIN v = 1 .. m /\ DOMAIN w = 1 .. m /\ \A p \in 1 .. m : v[p] = w[p]
  BY <1>1 DEF IsListed
<1>4. v = [p \in 1 .. m |-> v[p]] /\ w = [p \in 1 .. m |-> w[p]]
  BY <1>2, <1>3
<1>5. [p \in 1 .. m |-> v[p]] = [p \in 1 .. m |-> w[p]]
  BY <1>3
<1> QED
  BY <1>4, <1>5

IsLonger(d, j, w, t) == Len(w \o t) = ItemsEnd(d, j) + Len(t)

\* The length of such a sequence and what is added to it.
LEMMA LengthsAdd ==
    ASSUME NEW c, NEW rule, NEW d \in {1, 2}, NEW j \in Nat, j >= 1, NEW w,
           IsListed(c, rule, d, j, w), NEW Y, NEW t \in Seq(Y)
    PROVE  IsLonger(d, j, w, t)
<1>1. PICK X : w \in Seq(X)
  BY DEF IsListed
<1>2. w \in Seq(X \cup Y) /\ t \in Seq(X \cup Y)
  BY <1>1
<1>3. Joins(w, t, w \o t)
  BY <1>2, JoinedParts
<1> QED
  BY <1>3 DEF Joins, IsListed, IsLonger

AreOne(i, v, j, w) == i = j /\ v = w

\* Where the same is added to two of them, they are one if the results are.
LEMMA ListedApart ==
    ASSUME NEW c, NEW rule, NEW d \in {1, 2}, NEW i \in Nat, i >= 1, NEW j \in Nat, j >= 1,
           NEW v, NEW w, IsListed(c, rule, d, i, v), IsListed(c, rule, d, j, w),
           NEW Y, NEW t \in Seq(Y), NEW u, u = v \o t, u = w \o t
    PROVE  AreOne(i, v, j, w)
<1>1. /\ Len(v \o t) = ItemsEnd(d, i) + Len(t) /\ Len(w \o t) = ItemsEnd(d, j) + Len(t)
      /\ Len(t) \in Nat /\ ItemsEnd(d, i) \in Nat /\ ItemsEnd(d, j) \in Nat
  <2>1. IsLonger(d, i, v, t)
    BY LengthsAdd
  <2>2. IsLonger(d, j, w, t)
    BY LengthsAdd
  <2>3. ItemsEnd(d, i) \in Nat /\ ItemsEnd(d, j) \in Nat
    BY ItemsCount
  <2>4. Len(t) \in Nat
    OBVIOUS
  <2> QED
    BY <2>1, <2>2, <2>3, <2>4 DEF IsLonger
<1>2. ItemsEnd(d, i) = ItemsEnd(d, j)
  BY <1>1
<1>3. i = j
  BY <1>2, ItemsCount
<1> QED
  BY <1>3, ListedAlike DEF AreOne

-----------------------------------------------------------------------------
(* The places of the rules of a sequence, and what they expand to *)

Spacing(rule) == IF rule.separator = NoXSY THEN 1 ELSE 2
IsTerminating(rule) == rule.separator # NoXSY /\ ~ rule.proper
Preceded(i, e) == Expanded(i, e, e.rhs \o Tail(irls[i].rhs))

\* The rule at i, without the virtual symbol that it begins with, is t.
Adds(i, t, real) == Tail(irls[i].rhs) = t /\ irls[i].real = real

\* Of the virtual symbol, i3 is the first item and i4 is one more; of the sequence,
\* i1 is all the items, and i2 these with a separator.
AreAtPlaces(g, c, r, i1, i2, i3, i4) ==
    LET rule == g.rules[r]
        d == Spacing(rule)
    IN  /\ IRLsFor(r, VirtualNSY(g, r, 1)) = {i3, i4}
        /\ IRLsFor(r, NSY_of(c, rule.lhs)) = {i1} \cup {i \in {i2} : IsTerminating(rule)}
        /\ irls[i3].virtual_rhs = FALSE /\ irls[i3].rhs = <<NSY_of(c, rule.rhs[1])>> /\ irls[i3].real = 1
        /\ irls[i4].virtual_rhs = TRUE
        /\ \E t : IsTail(c, rule, d, t) /\ Adds(i4, t, d)
        /\ Adds(i1, <<>>, 0)
        /\ IsTerminating(rule) => Adds(i2, <<NSY_of(c, rule.separator)>>, 1)

\* The tails of short sequences.
LEMMA TailsOfShort ==
    \A x, y, z : /\ Tail(<<x>>) = <<>> /\ Tail(<<x, y>>) = <<y>> /\ Tail(<<x, y, z>>) = <<y, z>>
<1> SUFFICES ASSUME NEW x, NEW y, NEW z
             PROVE  Tail(<<x>>) = <<>> /\ Tail(<<x, y>>) = <<y>> /\ Tail(<<x, y, z>>) = <<y, z>>
  OBVIOUS
<1>1. PICK X : X = {x, y, z}
  OBVIOUS
<1>2. x \in X /\ y \in X /\ z \in X
  BY <1>1
<1>3. Tail(<<x>>) = <<>>
  BY <1>2
<1>4. Tail(<<x, y>>) = <<y>>
  <2>1. PICK u, v : u = <<x, y>> /\ v = Tail(u)
    OBVIOUS
  <2>2. u \in Seq(X) /\ Len(u) = 2 /\ u[2] = y
    BY <1>2, <2>1
  <2>3. v \in Seq(X) /\ Len(v) = 1 /\ v[1] = y
    BY <2>1, <2>2
  <2> QED
    BY <2>1, <2>3
<1>5. Tail(<<x, y, z>>) = <<y, z>>
  <2>1. PICK u, v : u = <<x, y, z>> /\ v = Tail(u)
    OBVIOUS
  <2>2. u \in Seq(X) /\ Len(u) = 3 /\ u[2] = y /\ u[3] = z
    BY <1>2, <2>1
  <2>3. v \in Seq(X) /\ Len(v) = 2 /\ v[1] = y /\ v[2] = z
    BY <2>1, <2>2
  <2> QED
    BY <2>1, <2>3
<1> QED
  BY <1>3, <1>4, <1>5

\* A used sequence has its rules at four places, or three.
LEMMA SequenceIsPlaced ==
    ASSUME NEW g, NEW c, IsCensused(g, c), irls = Rewrite(g, c), NEW r \in XRLs_of(g),
           XRL_is_Used(c, g.rules[r]), g.rules[r].sequence
    PROVE  \E i1, i2, i3, i4 : AreAtPlaces(g, c, r, i1, i2, i3, i4)
<1>1. PICK n1, n2, n3, n4 : AreOfSequence(g, c, r, n1, n2, n3, n4)
  BY SequenceParts
<1>2. PICK rule, d, x, y, v, l :
         /\ rule = g.rules[r] /\ d = Spacing(rule)
         /\ x = NSY_of(c, rule.rhs[1]) /\ y = NSY_of(c, rule.separator)
         /\ v = VirtualNSY(g, r, 1) /\ l = NSY_of(c, rule.lhs)
  OBVIOUS
<1>3. \A irl : irl \in RulesMade(g, c, r) <=>
                  irl = n1 \/ (irl = n2 /\ IsTerminating(rule)) \/ irl = n3 \/ irl = n4
  BY <1>1, <1>2 DEF AreOfSequence, RulesMade, IsTerminating
<1>4. l # v
  <2>1. l.kind \in {"proper", "nulled"} /\ v.kind = "virtual"
    BY <1>2 DEF NSY_of, Nulling_NSY, NSY, VirtualNSY
  <2> QED
    BY <2>1
<1>5. n1.lhs = l /\ n1.rhs = <<v>> /\ n1.real = 0
  BY <1>1, <1>2 DEF AreOfSequence, IsTop, IsIRL
<1>6. IsTerminating(rule) => n2.lhs = l /\ n2.rhs = <<v, y>> /\ n2.real = 1
  BY <1>1, <1>2 DEF AreOfSequence, IsTerminating, IsTerminated, IsIRL
<1>7. n3.lhs = v /\ n3.rhs = <<x>> /\ n3.real = 1 /\ n3.virtual_rhs = FALSE
  BY <1>1, <1>2 DEF AreOfSequence, IsFirstItem, IsIRL
<1>8. /\ n4.lhs = v /\ n4.virtual_rhs = TRUE /\ n4.real = d
      /\ \E t : IsTail(c, rule, d, t) /\ Tail(n4.rhs) = t
  <2>1. CASE IsNextItem(g, c, r, n4)
    <3>1. d = 1 /\ n4.lhs = v /\ n4.virtual_rhs = TRUE /\ n4.real = 1 /\ n4.rhs = <<v, x>>
      BY <1>2, <2>1 DEF IsNextItem, IsIRL, Spacing
    <3>2. Tail(n4.rhs) = <<x>>
      BY <3>1, TailsOfShort
    <3>3. IsTail(c, rule, d, <<x>>)
      BY <1>2, <3>1 DEF IsTail
    <3> QED
      BY <3>1, <3>2, <3>3
  <2>2. CASE IsSeparatedItem(g, c, r, n4)
    <3>1. d = 2 /\ n4.lhs = v /\ n4.virtual_rhs = TRUE /\ n4.real = 2 /\ n4.rhs = <<v, y, x>>
      BY <1>2, <2>2 DEF IsSeparatedItem, IsIRL, Spacing
    <3>2. Tail(n4.rhs) = <<y, x>>
      BY <3>1, TailsOfShort
    <3>3. IsTail(c, rule, d, <<y, x>>)
      BY <1>2, <3>1 DEF IsTail
    <3> QED
      BY <3>1, <3>2, <3>3
  <2> QED
    BY <1>1, <2>1, <2>2 DEF AreOfSequence
<1>9. PICK W : W = irls /\ IsPlaced(g, c, r, W)
  BY RulesArePlaced
<1>10. PICK i1, i3, i4 : /\ i1 \in DOMAIN W /\ W[i1] = n1 /\ i3 \in DOMAIN W /\ W[i3] = n3
                         /\ i4 \in DOMAIN W /\ W[i4] = n4
  <2>1. n1 \in RulesMade(g, c, r) /\ n3 \in RulesMade(g, c, r) /\ n4 \in RulesMade(g, c, r)
    BY <1>3
  <2> QED
    BY <1>9, <2>1 DEF IsPlaced
<1>11. PICK i2 : IsTerminating(rule) => i2 \in DOMAIN W /\ W[i2] = n2
  <2>1. IsTerminating(rule) => n2 \in RulesMade(g, c, r)
    BY <1>3
  <2> QED
    BY <1>9, <2>1 DEF IsPlaced
<1>12. \A i : \A k \in DOMAIN W : i \in DOMAIN W /\ W[i] = W[k] /\ W[k].source = r => i = k
  BY <1>9 DEF IsPlaced, OnceFrom
<1>13. \A irl \in RulesMade(g, c, r) : irl.source = r
  BY <1>9 DEF IsPlaced
<1>14. \A lhs, i : i \in IRLsFor(r, lhs) <=>
                      i \in DOMAIN W /\ W[i] \in RulesMade(g, c, r) /\ W[i].lhs = lhs
  BY <1>9, <1>13 DEF IRLsFor, IsPlaced
<1>15. IRLsFor(r, v) = {i3, i4}
  <2>1. ASSUME NEW i \in IRLsFor(r, v)
        PROVE  i \in {i3, i4}
    <3>1. i \in DOMAIN W /\ W[i] \in RulesMade(g, c, r) /\ W[i].lhs = v
      BY <1>14
    <3>2. W[i] = n3 \/ W[i] = n4
      BY <1>3, <1>4, <1>5, <1>6, <3>1
    <3> QED
      BY <1>10, <1>12, <1>13, <3>1, <3>2
  <2>2. i3 \in IRLsFor(r, v) /\ i4 \in IRLsFor(r, v)
    BY <1>3, <1>7, <1>8, <1>10, <1>14
  <2> QED
    BY <2>1, <2>2
<1>16. IRLsFor(r, l) = {i1} \cup {i \in {i2} : IsTerminating(rule)}
  <2>1. ASSUME NEW i \in IRLsFor(r, l)
        PROVE  i = i1 \/ (i = i2 /\ IsTerminating(rule))
    <3>1. i \in DOMAIN W /\ W[i] \in RulesMade(g, c, r) /\ W[i].lhs = l
      BY <1>14
    <3>2. W[i] = n1 \/ (W[i] = n2 /\ IsTerminating(rule))
      BY <1>3, <1>4, <1>7, <1>8, <3>1
    <3> QED
      BY <1>10, <1>11, <1>12, <1>13, <3>1, <3>2
  <2>2. i1 \in IRLsFor(r, l)
    BY <1>3, <1>5, <1>10, <1>14
  <2>3. IsTerminating(rule) => i2 \in IRLsFor(r, l)
    BY <1>3, <1>6, <1>11, <1>14
  <2> QED
    BY <2>1, <2>2, <2>3
<1>17. Adds(i1, <<>>, 0)
  BY <1>5, <1>9, <1>10, TailsOfShort DEF Adds
<1>18. IsTerminating(rule) => Adds(i2, <<y>>, 1)
  BY <1>6, <1>9, <1>11, TailsOfShort DEF Adds
<1>19. \E t : IsTail(c, rule, d, t) /\ Adds(i4, t, d)
  BY <1>8, <1>9, <1>10 DEF Adds
<1>20. /\ irls[i3].virtual_rhs = FALSE /\ irls[i3].rhs = <<x>> /\ irls[i3].real = 1
       /\ irls[i4].virtual_rhs = TRUE
  BY <1>7, <1>8, <1>9, <1>10
<1>21. AreAtPlaces(g, c, r, i1, i2, i3, i4)
  BY <1>2, <1>15, <1>16, <1>17, <1>18, <1>19, <1>20, Zenon DEF AreAtPlaces
<1> QED
  BY <1>21

\* The expansions E of the virtual symbol of a sequence are those of 1 to k items,
\* each once, and count their symbols.
IsEntry(c, rule, d, k, e) ==
    \E j \in 1 .. k : IsListed(c, rule, d, j, e.rhs) /\ e.real = ItemsEnd(d, j)
AreEntries(c, rule, d, k, E) ==
    /\ \A e \in E : IsEntry(c, rule, d, k, e)
    /\ \A j \in 1 .. k : \E e \in E : IsListed(c, rule, d, j, e.rhs)
    /\ \A a, b \in E : a.rhs = b.rhs => a = b

\* Those to k items, in terms of those to k - 1.
ItemsFrom(I, k, from) ==
    IF k = 0 THEN {}
    ELSE UNION {IF irls[i].virtual_rhs THEN {Preceded(i, e) : e \in from[k - 1]}
                ELSE {ExpansionOf(i)} : i \in I}
AreItems(I, n, h) == h = [k \in 0 .. n |-> ItemsFrom(I, k, h)]

\* There are these.
LEMMA ItemsExist ==
    ASSUME NEW I, NEW n \in Nat
    PROVE  \E h : AreItems(I, n, h)
<1> DEFINE Solves(h, m) == /\ h = [k \in 0 .. n |-> h[k]]
                           /\ \A k \in 0 .. n : k <= m => h[k] = ItemsFrom(I, k, h)
           Solved(m) == \E h : Solves(h, m)
           S == {m \in 0 .. n : Solved(m)}
<1>1. Solved(0)
  <2>1. PICK h : h = [k \in 0 .. n |-> {}]
    OBVIOUS
  <2>2. h = [k \in 0 .. n |-> h[k]] /\ h[0] = {}
    BY <2>1
  <2>3. ItemsFrom(I, 0, h) = {}
    BY DEF ItemsFrom
  <2>4. \A k \in 0 .. n : k <= 0 => k = 0
    OBVIOUS
  <2>5. Solves(h, 0)
    BY <2>2, <2>3, <2>4
  <2> HIDE DEF Solves
  <2> QED
    BY <2>5
<1>2. ASSUME NEW m \in 0 .. n, Solved(m), m < n
      PROVE  Solved(m + 1)
  <2>1. PICK h : Solves(h, m)
    BY <1>2
  <2>2. PICK t : t = [k \in 0 .. n |-> IF k = m + 1 THEN ItemsFrom(I, k, h) ELSE h[k]]
    OBVIOUS
  <2>3. /\ t = [k \in 0 .. n |-> t[k]]
        /\ \A k \in 0 .. n : t[k] = IF k = m + 1 THEN ItemsFrom(I, k, h) ELSE h[k]
    BY <2>2
  <2>4. ASSUME NEW k \in 0 .. n, k <= m + 1
        PROVE  t[k] = ItemsFrom(I, k, t)
    <3>1. ItemsFrom(I, k, t) = ItemsFrom(I, k, h)
      <4>1. CASE k = 0
        BY <4>1 DEF ItemsFrom
      <4>2. CASE k # 0
        <5>1. k - 1 \in 0 .. n /\ k - 1 # m + 1
          BY <2>4, <4>2
        <5>2. t[k - 1] = h[k - 1]
          BY <2>3, <5>1
        <5> QED
          BY <5>2, Zenon DEF ItemsFrom
      <4> QED
        BY <4>1, <4>2
    <3>2. CASE k = m + 1
      BY <2>3, <3>1, <3>2
    <3>3. CASE k # m + 1
      <4>1. k <= m
        BY <2>4, <3>3
      <4>2. h[k] = ItemsFrom(I, k, h)
        BY <2>1, <4>1
      <4> QED
        BY <2>3, <3>1, <3>3, <4>2
    <3> QED
      BY <3>2, <3>3
  <2>5. Solves(t, m + 1)
    BY <2>3, <2>4
  <2> HIDE DEF Solves
  <2> QED
    BY <2>5
<1> HIDE DEF Solved
<1>3. 0 \in S
  BY <1>1
<1>4. \A m \in 0 .. n : m \in S /\ m < n => m + 1 \in S
  BY <1>2
<1> HIDE DEF S
<1>5. n \in S
  <2>1. \A m \in 0 .. n : m \in S
    BY <1>3, <1>4, UpTo
  <2> QED
    BY <2>1
<1>6. PICK h : Solves(h, n)
  BY <1>5 DEF S, Solved
<1>7. \A k \in 0 .. n : h[k] = ItemsFrom(I, k, h)
  BY <1>6
<1>8. h = [k \in 0 .. n |-> ItemsFrom(I, k, h)]
  <2>1. h = [k \in 0 .. n |-> h[k]]
    BY <1>6
  <2> QED
    BY <1>7, <2>1
<1> QED
  BY <1>8 DEF AreItems

\* And SequenceExpansions goes through them.
LEMMA SequenceExpansionsParts ==
    ASSUME NEW r, NEW n \in Nat
    PROVE  \E h : /\ AreItems(IRLsFor(r, VirtualNSY(Censused, r, 1)), n, h)
                  /\ SequenceExpansions(r, n) =
                       UNION {{Preceded(i, e) : e \in h[n]} :
                                i \in IRLsFor(r, NSY_of(census, Censused.rules[r].lhs))}
<1> DEFINE I == IRLsFor(r, VirtualNSY(Censused, r, 1))
           Body(k, from) ==
             IF k = 0 THEN {}
             ELSE UNION {IF irls[i].virtual_rhs
                         THEN {Expanded(i, e, e.rhs \o Tail(irls[i].rhs)) : e \in from[k - 1]}
                         ELSE {ExpansionOf(i)} : i \in I}
           items[k \in 0 .. n] == Body(k, items)
           All(F) == UNION {{Expanded(i, e, e.rhs \o Tail(irls[i].rhs)) : e \in F} :
                              i \in IRLsFor(r, NSY_of(census, Censused.rules[r].lhs))}
<1>1. SequenceExpansions(r, n) = All(items[n])
  BY Zenon DEF SequenceExpansions
<1>2. ASSUME NEW h
      PROVE  \A k : Body(k, h) = ItemsFrom(I, k, h)
  BY Zenon DEF ItemsFrom, Preceded
<1> HIDE DEF Body
<1>3. PICK h : h = [k \in 0 .. n |-> Body(k, h)]
  <2>1. PICK h : AreItems(I, n, h)
    BY ItemsExist
  <2>2. h = [k \in 0 .. n |-> Body(k, h)]
    BY <1>2, <2>1 DEF AreItems
  <2> QED
    BY <2>2
<1>4. items = [k \in 0 .. n |-> Body(k, items)]
  BY <1>3, Zenon
<1>5. PICK f : f = items
  OBVIOUS
<1> HIDE DEF items
<1>6. AreItems(I, n, f)
  BY <1>2, <1>4, <1>5 DEF AreItems
<1> HIDE DEF All
<1>7. SequenceExpansions(r, n) = All(f[n])
  BY <1>1, <1>5
<1>8. All(f[n]) = UNION {{Preceded(i, e) : e \in f[n]} :
                          i \in IRLsFor(r, NSY_of(census, Censused.rules[r].lhs))}
  BY Zenon DEF All, Preceded
<1> QED
  BY <1>6, <1>7, <1>8

\* The expansion e is x, of j items, with t added.
IsGrown(c, rule, d, k, j, x, t, e) ==
    /\ IsListed(c, rule, d, j, x.rhs) /\ e.rhs = x.rhs \o t /\ j + 1 \in 1 .. k + 1
    /\ IsListed(c, rule, d, j + 1, e.rhs) /\ e.real = ItemsEnd(d, j + 1)

\* An expansion with one item more.
LEMMA EntryGrows ==
    ASSUME NEW c, NEW rule, NEW d \in {1, 2}, NEW k \in Nat, NEW x,
           NEW j \in 1 .. k, IsListed(c, rule, d, j, x.rhs), x.real = ItemsEnd(d, j),
           NEW i, NEW t, IsTail(c, rule, d, t), Adds(i, t, d), NEW e, e = Preceded(i, x)
    PROVE  IsGrown(c, rule, d, k, j, x, t, e)
<1>1. e.rhs = x.rhs \o t /\ e.real = d + x.real
  BY DEF Preceded, Expanded, Adds
<1>2. j \in Nat /\ j >= 1
  OBVIOUS
<1>3. IsListed(c, rule, d, j + 1, x.rhs \o t)
  BY <1>2, NextListed
<1>4. ItemsEnd(d, j + 1) = ItemsEnd(d, j) + d /\ ItemsEnd(d, j) \in Nat
  BY <1>2, ItemsCount
<1>5. e.real = ItemsEnd(d, j + 1)
  BY <1>1, <1>4
<1> QED
  BY <1>1, <1>3, <1>5 DEF IsGrown

\* A sequence is of one number of items.
LEMMA ListedOnce ==
    ASSUME NEW c, NEW rule, NEW d \in {1, 2}, NEW i \in Nat, i >= 1, NEW j \in Nat, j >= 1,
           NEW w, IsListed(c, rule, d, i, w), IsListed(c, rule, d, j, w)
    PROVE  i = j
<1>1. ItemsEnd(d, i) = ItemsEnd(d, j)
  BY DEF IsListed
<1> QED
  BY <1>1, ItemsCount

\* The expansions of k + 1 items follow from those of k.
LEMMA EntriesGoOn ==
    ASSUME NEW g, NEW c, NEW r, NEW rule, rule = g.rules[r], NEW d \in {1, 2}, d = Spacing(rule),
           NEW i1, NEW i2, NEW i3, NEW i4, AreAtPlaces(g, c, r, i1, i2, i3, i4),
           NEW k \in Nat, NEW h, AreEntries(c, rule, d, k, h[k])
    PROVE  AreEntries(c, rule, d, k + 1, ItemsFrom(IRLsFor(r, VirtualNSY(g, r, 1)), k + 1, h))
<1>1. PICK I, F, E : /\ I = IRLsFor(r, VirtualNSY(g, r, 1)) /\ F = h[k]
                     /\ E = ItemsFrom(I, k + 1, h)
  OBVIOUS
<1>2. /\ I = {i3, i4} /\ irls[i3].virtual_rhs = FALSE /\ irls[i4].virtual_rhs = TRUE
      /\ irls[i3].rhs = <<NSY_of(c, rule.rhs[1])>> /\ irls[i3].real = 1
      /\ \E t : IsTail(c, rule, d, t) /\ Adds(i4, t, d)
  BY <1>1 DEF AreAtPlaces
<1>3. PICK t : IsTail(c, rule, d, t) /\ Adds(i4, t, d)
  BY <1>2
<1>4. \A e : e \in E <=> e = ExpansionOf(i3) \/ \E x \in F : e = Preceded(i4, x)
  <2> DEFINE Of(i) == IF irls[i].virtual_rhs THEN {Preceded(i, e) : e \in F} ELSE {ExpansionOf(i)}
  <2>1. E = UNION {Of(i) : i \in I}
    <3>1. k + 1 # 0 /\ (k + 1) - 1 = k
      OBVIOUS
    <3>2. h[(k + 1) - 1] = F
      BY <1>1, <3>1
    <3> QED
      BY <1>1, <3>1, <3>2, Zenon DEF ItemsFrom
  <2>2. Of(i3) = {ExpansionOf(i3)} /\ Of(i4) = {Preceded(i4, e) : e \in F}
    BY <1>2
  <2> HIDE DEF Of
  <2>3. \A e : e \in E <=> e \in Of(i3) \/ e \in Of(i4)
    BY <1>2, <2>1
  <2> QED
    BY <2>2, <2>3
<1>5. PICK e3 : e3 = ExpansionOf(i3)
  OBVIOUS
<1>6. IsListed(c, rule, d, 1, e3.rhs) /\ e3.real = ItemsEnd(d, 1)
  <2>1. e3.rhs = <<NSY_of(c, rule.rhs[1])>> /\ e3.real = 1
    BY <1>2, <1>5 DEF ExpansionOf
  <2>2. ItemsEnd(d, 1) = 1
    BY ItemsCount
  <2> QED
    BY <2>1, <2>2, FirstListed
<1>7. ASSUME NEW x \in F, NEW e, e = Preceded(i4, x)
      PROVE  \E j \in 1 .. k : IsGrown(c, rule, d, k, j, x, t, e)
  <2>1. PICK j \in 1 .. k : IsListed(c, rule, d, j, x.rhs) /\ x.real = ItemsEnd(d, j)
    BY <1>1 DEF AreEntries, IsEntry
  <2> QED
    BY <1>3, <1>7, <2>1, EntryGrows
<1>8. \A e \in E : IsEntry(c, rule, d, k + 1, e)
  <2> SUFFICES ASSUME NEW e \in E
               PROVE  IsEntry(c, rule, d, k + 1, e)
    OBVIOUS
  <2>1. CASE e = e3
    <3>1. 1 \in 1 .. k + 1
      OBVIOUS
    <3> QED
      BY <1>6, <2>1, <3>1 DEF IsEntry
  <2>2. CASE \E x \in F : e = Preceded(i4, x)
    BY <1>7, <2>2 DEF IsEntry, IsGrown
  <2> QED
    BY <1>4, <1>5, <2>1, <2>2
<1>9. ASSUME NEW j \in 1 .. k + 1
      PROVE  \E e \in E : IsListed(c, rule, d, j, e.rhs)
  <2>1. CASE j = 1
    BY <1>4, <1>5, <1>6, <2>1
  <2>2. CASE j # 1
    <3>1. PICK m \in 1 .. k : m + 1 = j
      <4>1. j - 1 \in 1 .. k /\ (j - 1) + 1 = j
        BY <2>2
      <4> QED
        BY <4>1
    <3>2. PICK x \in F : IsListed(c, rule, d, m, x.rhs)
      BY <1>1 DEF AreEntries
    <3>3. PICK e : e = Preceded(i4, x)
      OBVIOUS
    <3>4. PICK q \in 1 .. k : IsListed(c, rule, d, q, x.rhs) /\ IsListed(c, rule, d, q + 1, e.rhs)
      BY <1>7, <3>3 DEF IsGrown
    <3>5. q = m
      <4>1. q \in Nat /\ q >= 1 /\ m \in Nat /\ m >= 1
        OBVIOUS
      <4> QED
        BY <3>2, <3>4, <4>1, ListedOnce
    <3> QED
      BY <1>4, <3>1, <3>3, <3>4, <3>5
  <2> QED
    BY <2>1, <2>2
<1>10. ASSUME NEW x \in F, NEW e, e = Preceded(i4, x), e.rhs = e3.rhs
       PROVE  FALSE
  <2>1. PICK j \in 1 .. k : IsListed(c, rule, d, j + 1, e.rhs)
    BY <1>7, <1>10 DEF IsGrown
  <2>2. IsListed(c, rule, d, 1, e.rhs)
    BY <1>6, <1>10
  <2>3. j + 1 \in Nat /\ j + 1 >= 1 /\ 1 \in Nat /\ 1 >= 1
    OBVIOUS
  <2>4. j + 1 = 1
    BY <2>1, <2>2, <2>3, ListedOnce
  <2> QED
    BY <2>4
<1>11. ASSUME NEW x \in F, NEW y \in F, NEW a, NEW b, a = Preceded(i4, x), b = Preceded(i4, y),
              a.rhs = b.rhs
       PROVE  a = b
  <2>1. PICK i \in 1 .. k : IsListed(c, rule, d, i, x.rhs) /\ a.rhs = x.rhs \o t
    BY <1>7, <1>11 DEF IsGrown
  <2>2. PICK j \in 1 .. k : IsListed(c, rule, d, j, y.rhs) /\ b.rhs = y.rhs \o t
    BY <1>7, <1>11 DEF IsGrown
  <2>3. \E Y : t \in Seq(Y)
    <3>1. PICK u, v : u = NSY_of(c, rule.rhs[1]) /\ v = NSY_of(c, rule.separator)
      OBVIOUS
    <3>2. t = <<u>> \/ t = <<v, u>>
      BY <1>3, <3>1 DEF IsTail
    <3>3. <<u>> \in Seq({u, v}) /\ <<v, u>> \in Seq({u, v})
      OBVIOUS
    <3> QED
      BY <3>2, <3>3
  <2>4. PICK Y : t \in Seq(Y)
    BY <2>3
  <2>5. i \in Nat /\ i >= 1 /\ j \in Nat /\ j >= 1
    OBVIOUS
  <2>6. PICK v, w : v = x.rhs /\ w = y.rhs
    OBVIOUS
  <2>9. IsListed(c, rule, d, i, v) /\ IsListed(c, rule, d, j, w) /\ a.rhs = v \o t /\ a.rhs = w \o t
    BY <1>11, <2>1, <2>2, <2>6
  <2>10. AreOne(i, v, j, w)
    BY <2>4, <2>5, <2>9, ListedApart
  <2>7. x.rhs = y.rhs
    BY <2>6, <2>10 DEF AreOne
  <2>8. x = y
    BY <1>1, <2>7 DEF AreEntries
  <2> QED
    BY <1>11, <2>8
<1>12. \A a, b \in E : a.rhs = b.rhs => a = b
  <2> SUFFICES ASSUME NEW a \in E, NEW b \in E, a.rhs = b.rhs
               PROVE  a = b
    OBVIOUS
  <2>1. a = e3 \/ \E x \in F : a = Preceded(i4, x)
    BY <1>4, <1>5
  <2>2. b = e3 \/ \E x \in F : b = Preceded(i4, x)
    BY <1>4, <1>5
  <2> QED
    BY <1>10, <1>11, <2>1, <2>2
<1>13. AreEntries(c, rule, d, k + 1, E)
  BY <1>8, <1>9, <1>12 DEF AreEntries
<1> QED
  BY <1>1, <1>13

\* So they are those to n items.
LEMMA ItemsAreEntries ==
    ASSUME NEW g, NEW c, NEW r, NEW rule, rule = g.rules[r], NEW d \in {1, 2}, d = Spacing(rule),
           NEW i1, NEW i2, NEW i3, NEW i4, AreAtPlaces(g, c, r, i1, i2, i3, i4),
           NEW n \in Nat, NEW h, AreItems(IRLsFor(r, VirtualNSY(g, r, 1)), n, h)
    PROVE  AreEntries(c, rule, d, n, h[n])
<1> DEFINE S == {k \in 0 .. n : AreEntries(c, rule, d, k, h[k])}
<1>1. PICK I : I = IRLsFor(r, VirtualNSY(g, r, 1))
  OBVIOUS
<1>2. \A k \in 0 .. n : h[k] = ItemsFrom(I, k, h)
  BY <1>1 DEF AreItems
<1>3. 0 \in S
  <2>1. h[0] = {}
    <3>1. h[0] = ItemsFrom(I, 0, h)
      BY <1>2
    <3> QED
      BY <3>1 DEF ItemsFrom
  <2>2. AreEntries(c, rule, d, 0, {})
    BY DEF AreEntries
  <2> QED
    BY <2>1, <2>2
<1>4. \A k \in 0 .. n : k \in S /\ k < n => k + 1 \in S
  <2> SUFFICES ASSUME NEW k \in 0 .. n, k \in S, k < n
               PROVE  k + 1 \in S
    OBVIOUS
  <2>1. AreEntries(c, rule, d, k, h[k]) /\ k \in Nat /\ k + 1 \in 0 .. n
    OBVIOUS
  <2>2. AreEntries(c, rule, d, k + 1, ItemsFrom(I, k + 1, h))
    BY <1>1, <2>1, EntriesGoOn
  <2>3. h[k + 1] = ItemsFrom(I, k + 1, h)
    BY <1>2, <2>1
  <2> QED
    BY <2>1, <2>2, <2>3
<1> HIDE DEF S
<1>5. n \in S
  <2>1. \A k \in 0 .. n : k \in S
    BY <1>3, <1>4, UpTo
  <2> QED
    BY <2>1
<1> QED
  BY <1>5 DEF S

\* The sequence w is of items, or of items and a separator.
IsTerminatedList(c, rule, d, k, w) ==
    IsTerminating(rule) /\ \E v : IsListed(c, rule, d, k, v) /\ w = v \o <<NSY_of(c, rule.separator)>>

\* What the reference lists is one of items.
LEMMA ReferenceLists ==
    ASSUME NEW c, NEW rule, NEW d \in {1, 2}, NEW sep,
           d = 2 => sep[1] = NSY_of(c, rule.separator), NEW k \in Nat, k >= 1, NEW w,
           w = [p \in 1 .. (k - 1) * d + 1 |-> IF p % d = 1 % d THEN NSY_of(c, rule.rhs[1]) ELSE sep[1]]
    PROVE  IsListed(c, rule, d, k, w)
<1>1. PICK m, x, y, z : /\ m = ItemsEnd(d, k) /\ x = NSY_of(c, rule.rhs[1]) /\ z = sep[1]
                        /\ y = NSY_of(c, rule.separator)
  OBVIOUS
<1>2. m \in Nat /\ m >= 1
  BY <1>1, ItemsCount
<1>3. w = [p \in 1 .. m |-> IF IsItemPlace(d, p) THEN x ELSE z]
  BY <1>1, Zenon DEF ItemsEnd, IsItemPlace
<1>4. PICK X : X = {x, z}
  OBVIOUS
<1>5. w \in [1 .. m -> X]
  <2>1. \A p : (IF IsItemPlace(d, p) THEN x ELSE z) \in X
    BY <1>4
  <2> QED
    BY <1>3, <2>1
<1>6. w \in Seq(X) /\ Len(w) = m /\ DOMAIN w = 1 .. m
  BY ONLY <1>2, <1>5
<1>7. \A p \in 1 .. m : w[p] = IF IsItemPlace(d, p) THEN x ELSE y
  <2>1. CASE d = 2
    BY <1>1, <1>3, <2>1
  <2>2. CASE d = 1
    <3>1. \A p \in 1 .. m : IsItemPlace(d, p)
      <4>1. \A p \in Nat : IsItemPlace(1, p)
        <5>1. 1 \in Nat /\ 1 >= 1
          OBVIOUS
        <5> QED
          BY ONLY <5>1, NextPlaces
      <4> QED
        BY <1>2, <2>2, <4>1
    <3> QED
      BY <1>3, <3>1
  <2> QED
    BY <2>1, <2>2
<1>8. \E Y : w \in Seq(Y)
  BY <1>6
<1> QED
  BY <1>1, <1>6, <1>7, <1>8 DEF IsListed

\* A sequence of items with nothing added.
LEMMA ListedAlone ==
    ASSUME NEW c, NEW rule, NEW d, NEW k, NEW w, IsListed(c, rule, d, k, w)
    PROVE  w \o <<>> = w
<1>1. PICK X : w \in Seq(X)
  BY DEF IsListed
<1> QED
  BY <1>1

\* What a sequence stands for.
LEMMA SequenceInstanceParts ==
    ASSUME NEW c, c = census, NEW rule, NEW d \in {1, 2}, d = Spacing(rule), NEW n \in Nat, NEW w
    PROVE  w \in SequenceInstances(rule, n) <=>
             \E k \in 1 .. n : IsListed(c, rule, d, k, w) \/ IsTerminatedList(c, rule, d, k, w)
<1> DEFINE sep == IF rule.separator = NoXSY THEN <<>> ELSE <<NSY_of(census, rule.separator)>>
           Listed(s, k) == [p \in 1 .. (k - 1) * s + 1 |->
                              IF p % s = 1 % s THEN NSY_of(census, rule.rhs[1]) ELSE sep[1]]
<1>1. SequenceInstances(rule, n) =
        {Listed(Len(sep) + 1, k) : k \in 1 .. n}
        \cup IF rule.proper THEN {} ELSE {Listed(Len(sep) + 1, k) \o sep : k \in 1 .. n}
  BY Zenon DEF SequenceInstances
<1>2. Len(sep) + 1 = d
  <2>1. \A x : Len(<<>>) + 1 = 1 /\ Len(<<x>>) + 1 = 2
    BY TwoJoined
  <2>2. CASE rule.separator = NoXSY
    BY <2>1, <2>2 DEF Spacing
  <2>3. CASE rule.separator # NoXSY
    BY <2>1, <2>3 DEF Spacing
  <2> QED
    BY <2>2, <2>3
<1>3. \A k \in 1 .. n : IsListed(c, rule, d, k, Listed(d, k))
  <2> SUFFICES ASSUME NEW k \in 1 .. n
               PROVE  IsListed(c, rule, d, k, Listed(d, k))
    OBVIOUS
  <2>1. d = 2 => sep[1] = NSY_of(c, rule.separator)
    BY DEF Spacing
  <2>2. PICK t : t = sep
    OBVIOUS
  <2>3. PICK v : v = Listed(d, k)
    OBVIOUS
  <2>4. v = [p \in 1 .. (k - 1) * d + 1 |->
               IF p % d = 1 % d THEN NSY_of(c, rule.rhs[1]) ELSE t[1]]
    <3> HIDE DEF sep
    <3> QED
      BY <2>2, <2>3
  <2>5. k \in Nat /\ k >= 1
    OBVIOUS
  <2>6. d = 2 => t[1] = NSY_of(c, rule.separator)
    BY <2>1, <2>2
  <2> HIDE DEF Listed
  <2>7. IsListed(c, rule, d, k, v)
    BY <2>4, <2>5, <2>6, ReferenceLists
  <2> QED
    BY <2>3, <2>7
<1>4. IF rule.separator = NoXSY THEN sep = <<>> ELSE sep = <<NSY_of(c, rule.separator)>>
  OBVIOUS
<1> HIDE DEF Listed, sep
<1>5. SequenceInstances(rule, n) =
        {Listed(d, k) : k \in 1 .. n}
        \cup IF rule.proper THEN {} ELSE {Listed(d, k) \o sep : k \in 1 .. n}
  BY <1>1, <1>2
<1>6. w \in SequenceInstances(rule, n) <=>
        \E k \in 1 .. n : w = Listed(d, k) \/ (~ rule.proper /\ w = Listed(d, k) \o sep)
  <2>1. CASE rule.proper
    BY <1>5, <2>1
  <2>2. CASE ~ rule.proper
    BY <1>5, <2>2
  <2> QED
    BY <2>1, <2>2
<1>7. \A k \in 1 .. n : \A v : IsListed(c, rule, d, k, v) <=> v = Listed(d, k)
  <2>1. \A k \in 1 .. n : k \in Nat /\ k >= 1
    OBVIOUS
  <2> QED
    BY <1>3, <2>1, ListedAlike
<1>8. ASSUME NEW k \in 1 .. n
      PROVE  w = Listed(d, k) \/ (~ rule.proper /\ w = Listed(d, k) \o sep) <=>
             IsListed(c, rule, d, k, w) \/ IsTerminatedList(c, rule, d, k, w)
  <2>1. PICK v : v = Listed(d, k)
    OBVIOUS
  <2>2. CASE rule.separator = NoXSY
    <3>1. v \o <<>> = v
      BY <1>3, <2>1, ListedAlone
    <3>2. v \o sep = v
      BY <1>4, <2>2, <3>1
    <3> QED
      BY <1>7, <2>1, <2>2, <3>2 DEF IsTerminatedList, IsTerminating
  <2>3. CASE rule.separator # NoXSY
    BY <1>4, <1>7, <2>1, <2>3 DEF IsTerminatedList, IsTerminating
  <2> QED
    BY <2>2, <2>3
<1> QED
  BY <1>6, <1>8

\* All the items,
IsAllItems(c, rule, d, n, x, e) ==
    \E k \in 1 .. n : IsListed(c, rule, d, k, x.rhs) /\ e.rhs = x.rhs /\ e.real = Len(e.rhs)
\* and these with a separator.
IsEndedItems(c, rule, d, n, x, e) ==
    /\ IsTerminating(rule) /\ d = 2
    /\ \E k \in 1 .. n : /\ IsListed(c, rule, d, k, x.rhs) /\ e.real = Len(e.rhs)
                         /\ e.rhs = x.rhs \o <<NSY_of(c, rule.separator)>>
                         /\ Len(e.rhs) = ItemsEnd(d, k) + 1

\* An expansion of the sequence from one of its virtual symbol.
LEMMA TopEntry ==
    ASSUME NEW c, NEW rule, NEW d \in {1, 2}, NEW n, NEW x, IsEntry(c, rule, d, n, x),
           NEW i, Adds(i, <<>>, 0), NEW e, e = Preceded(i, x)
    PROVE  IsAllItems(c, rule, d, n, x, e)
<1>1. PICK k \in 1 .. n : IsListed(c, rule, d, k, x.rhs) /\ x.real = ItemsEnd(d, k)
  BY DEF IsEntry
<1>2. e.rhs = x.rhs \o <<>> /\ e.real = 0 + x.real
  BY DEF Preceded, Expanded, Adds
<1>3. e.rhs = x.rhs
  BY <1>1, <1>2, ListedAlone
<1>4. ItemsEnd(d, k) \in Nat
  <2>1. k \in Nat /\ k >= 1
    OBVIOUS
  <2> QED
    BY <2>1, ItemsCount
<1>5. e.real = Len(e.rhs)
  <2>1. Len(x.rhs) = ItemsEnd(d, k)
    BY <1>1 DEF IsListed
  <2> QED
    BY <1>1, <1>2, <1>3, <1>4, <2>1
<1> QED
  BY <1>1, <1>3, <1>5 DEF IsAllItems

\* The same, ended by a separator.
LEMMA EndedEntry ==
    ASSUME NEW c, NEW rule, NEW d \in {1, 2}, d = Spacing(rule), IsTerminating(rule), NEW n, NEW x,
           IsEntry(c, rule, d, n, x), NEW i, Adds(i, <<NSY_of(c, rule.separator)>>, 1),
           NEW e, e = Preceded(i, x)
    PROVE  IsEndedItems(c, rule, d, n, x, e)
<1>1. PICK k \in 1 .. n : IsListed(c, rule, d, k, x.rhs) /\ x.real = ItemsEnd(d, k)
  BY DEF IsEntry
<1>2. PICK y, t : y = NSY_of(c, rule.separator) /\ t = <<y>>
  OBVIOUS
<1>3. e.rhs = x.rhs \o t /\ e.real = 1 + x.real
  BY <1>2 DEF Preceded, Expanded, Adds
<1>4. k \in Nat /\ k >= 1
  OBVIOUS
<1>5. PICK w : w = x.rhs
  OBVIOUS
<1>6. t \in Seq({y}) /\ Len(t) = 1
  BY <1>2
<1>7. IsLonger(d, k, w, t)
  BY <1>1, <1>4, <1>5, <1>6, LengthsAdd
<1>8. Len(e.rhs) = ItemsEnd(d, k) + 1
  BY <1>3, <1>5, <1>6, <1>7 DEF IsLonger
<1>9. ItemsEnd(d, k) \in Nat
  BY <1>4, ItemsCount
<1>10. e.real = Len(e.rhs)
  BY <1>1, <1>3, <1>8, <1>9
<1>11. d = 2
  BY DEF IsTerminating, Spacing
<1> QED
  BY <1>1, <1>2, <1>3, <1>8, <1>10, <1>11 DEF IsEndedItems

\* The expansions of a used sequence are what it stands for.
LEMMA SequenceStands ==
    ASSUME NEW g, g = Censused, NEW c, c = census, IsCensused(g, c), irls = Rewrite(g, c),
           NEW r \in XRLs_of(g), XRL_is_Used(c, g.rules[r]), g.rules[r].sequence, NEW n \in Nat
    PROVE  /\ StandsFor(SequenceExpansions(r, n), SequenceInstances(g.rules[r], n))
           /\ \A e \in SequenceExpansions(r, n) : e.real = Len(e.rhs)
<1>1. PICK i1, i2, i3, i4 : AreAtPlaces(g, c, r, i1, i2, i3, i4)
  BY SequenceIsPlaced
<1>2. PICK rule, d : rule = g.rules[r] /\ d = Spacing(rule)
  OBVIOUS
<1>3. d \in {1, 2}
  BY <1>2 DEF Spacing
<1>4. PICK h : /\ AreItems(IRLsFor(r, VirtualNSY(g, r, 1)), n, h)
               /\ SequenceExpansions(r, n) =
                    UNION {{Preceded(i, e) : e \in h[n]} : i \in IRLsFor(r, NSY_of(c, rule.lhs))}
  BY <1>2, SequenceExpansionsParts
<1>5. PICK F, E, J : F = h[n] /\ E = SequenceExpansions(r, n) /\ J = SequenceInstances(rule, n)
  OBVIOUS
<1>6. AreEntries(c, rule, d, n, F)
  BY <1>1, <1>2, <1>3, <1>4, <1>5, ItemsAreEntries
<1>7. /\ IRLsFor(r, NSY_of(c, rule.lhs)) = {i1} \cup {i \in {i2} : IsTerminating(rule)}
      /\ Adds(i1, <<>>, 0)
      /\ IsTerminating(rule) => Adds(i2, <<NSY_of(c, rule.separator)>>, 1)
  BY <1>1, <1>2 DEF AreAtPlaces
<1>8. \A e : e \in E <=> \E x \in F : \/ e = Preceded(i1, x)
                                      \/ IsTerminating(rule) /\ e = Preceded(i2, x)
  <2> DEFINE Of(i) == {Preceded(i, e) : e \in F}
  <2>1. E = UNION {Of(i) : i \in IRLsFor(r, NSY_of(c, rule.lhs))}
    BY <1>4, <1>5
  <2>2. \A i, e : e \in Of(i) <=> \E x \in F : e = Preceded(i, x)
    OBVIOUS
  <2> HIDE DEF Of
  <2>3. \A e : e \in E <=> e \in Of(i1) \/ (IsTerminating(rule) /\ e \in Of(i2))
    BY <1>7, <2>1
  <2> QED
    BY <2>2, <2>3
<1>9. ASSUME NEW x \in F, NEW e, e = Preceded(i1, x)
      PROVE  IsAllItems(c, rule, d, n, x, e)
  <2>1. IsEntry(c, rule, d, n, x)
    BY <1>6 DEF AreEntries
  <2> QED
    BY <1>3, <1>7, <1>9, <2>1, TopEntry
<1>10. ASSUME NEW x \in F, NEW e, IsTerminating(rule), e = Preceded(i2, x)
       PROVE  IsEndedItems(c, rule, d, n, x, e)
  <2>1. IsEntry(c, rule, d, n, x)
    BY <1>6 DEF AreEntries
  <2> QED
    BY <1>2, <1>3, <1>7, <1>10, <2>1, EndedEntry
<1>11. \A w : w \in J <=>
          \E k \in 1 .. n : IsListed(c, rule, d, k, w) \/ IsTerminatedList(c, rule, d, k, w)
  BY <1>2, <1>3, <1>5, SequenceInstanceParts
<1>12. ASSUME NEW e \in E
       PROVE  e.rhs \in J /\ e.real = Len(e.rhs)
  <2>1. PICK x \in F : e = Preceded(i1, x) \/ (IsTerminating(rule) /\ e = Preceded(i2, x))
    BY <1>8
  <2>2. CASE e = Preceded(i1, x)
    <3>1. IsAllItems(c, rule, d, n, x, e)
      BY <1>9, <2>2
    <3> QED
      BY <1>11, <3>1 DEF IsAllItems
  <2>3. CASE IsTerminating(rule) /\ e = Preceded(i2, x)
    <3>1. IsEndedItems(c, rule, d, n, x, e)
      BY <1>10, <2>3
    <3>2. \E k \in 1 .. n : IsTerminatedList(c, rule, d, k, e.rhs)
      BY <3>1 DEF IsEndedItems, IsTerminatedList
    <3> QED
      BY <1>11, <3>1, <3>2 DEF IsEndedItems
  <2> QED
    BY <2>1, <2>2, <2>3
<1>13. ASSUME NEW k \in 1 .. n, NEW v, IsListed(c, rule, d, k, v)
       PROVE  \E x \in F : x.rhs = v
  <2>1. PICK x \in F : IsListed(c, rule, d, k, x.rhs)
    BY <1>6 DEF AreEntries
  <2>2. k \in Nat /\ k >= 1
    OBVIOUS
  <2>3. PICK u : u = x.rhs
    OBVIOUS
  <2>4. u = v
    BY <1>3, <1>13, <2>1, <2>2, <2>3, ListedAlike
  <2> QED
    BY <2>3, <2>4
<1>14. ASSUME NEW w \in J
       PROVE  \E e \in E : e.rhs = w
  <2>1. PICK k \in 1 .. n : IsListed(c, rule, d, k, w) \/ IsTerminatedList(c, rule, d, k, w)
    BY <1>11
  <2>2. CASE IsListed(c, rule, d, k, w)
    <3>1. PICK x \in F : x.rhs = w
      BY <1>13, <2>2
    <3>2. PICK e : e = Preceded(i1, x)
      OBVIOUS
    <3>3. e \in E /\ e.rhs = w
      BY <1>8, <1>9, <3>1, <3>2 DEF IsAllItems
    <3> QED
      BY <3>3
  <2>3. CASE IsTerminatedList(c, rule, d, k, w)
    <3>1. PICK v : /\ IsTerminating(rule) /\ IsListed(c, rule, d, k, v)
                   /\ w = v \o <<NSY_of(c, rule.separator)>>
      BY <2>3 DEF IsTerminatedList
    <3>2. PICK x \in F : x.rhs = v
      BY <1>13, <3>1
    <3>3. PICK e : e = Preceded(i2, x)
      OBVIOUS
    <3>4. IsEndedItems(c, rule, d, n, x, e)
      BY <1>10, <3>1, <3>3
    <3>5. e \in E /\ e.rhs = w
      BY <1>8, <3>1, <3>2, <3>3, <3>4 DEF IsEndedItems
    <3> QED
      BY <3>5
  <2> QED
    BY <2>1, <2>2, <2>3
<1>15. ASSUME NEW x \in F, NEW y \in F, x.rhs = y.rhs
       PROVE  x = y
  BY <1>6, <1>15 DEF AreEntries
<1>16. ASSUME NEW x \in F, NEW y \in F, NEW a, NEW b, a.rhs = b.rhs,
              IsAllItems(c, rule, d, n, x, a), IsEndedItems(c, rule, d, n, y, b)
       PROVE  FALSE
  <2>1. PICK i \in 1 .. n : IsListed(c, rule, d, i, x.rhs) /\ a.rhs = x.rhs
    BY <1>16 DEF IsAllItems
  <2>2. PICK j \in 1 .. n : Len(b.rhs) = ItemsEnd(d, j) + 1 /\ d = 2
    BY <1>16 DEF IsEndedItems
  <2>3. ItemsEnd(d, j) + 1 = ItemsEnd(d, i)
    BY <1>16, <2>1, <2>2 DEF IsListed
  <2>4. i \in Nat /\ i >= 1 /\ j \in Nat /\ j >= 1
    OBVIOUS
  <2> QED
    BY <1>3, <2>2, <2>3, <2>4, ItemsCount
<1>17. ASSUME NEW x \in F, NEW y \in F, NEW a, NEW b, a.rhs = b.rhs,
              IsEndedItems(c, rule, d, n, x, a), IsEndedItems(c, rule, d, n, y, b)
       PROVE  x = y
  <2>1. PICK v, w, z, t, u : /\ v = x.rhs /\ w = y.rhs /\ z = NSY_of(c, rule.separator) /\ t = <<z>>
                             /\ u = a.rhs
    OBVIOUS
  <2>2. PICK i \in 1 .. n : IsListed(c, rule, d, i, v) /\ u = v \o t
    BY <1>17, <2>1 DEF IsEndedItems
  <2>3. PICK j \in 1 .. n : IsListed(c, rule, d, j, w) /\ u = w \o t
    BY <1>17, <2>1 DEF IsEndedItems
  <2>4. i \in Nat /\ i >= 1 /\ j \in Nat /\ j >= 1 /\ t \in Seq({z})
    BY <2>1
  <2>5. AreOne(i, v, j, w)
    BY <1>3, <2>2, <2>3, <2>4, ListedApart
  <2> QED
    BY <1>15, <2>1, <2>5 DEF AreOne
<1>18. ASSUME NEW a \in E, NEW b \in E, a.rhs = b.rhs
       PROVE  a = b
  <2>1. PICK x \in F : a = Preceded(i1, x) \/ (IsTerminating(rule) /\ a = Preceded(i2, x))
    BY <1>8
  <2>2. PICK y \in F : b = Preceded(i1, y) \/ (IsTerminating(rule) /\ b = Preceded(i2, y))
    BY <1>8
  <2>3. CASE a = Preceded(i1, x) /\ b = Preceded(i1, y)
    <3>1. IsAllItems(c, rule, d, n, x, a) /\ IsAllItems(c, rule, d, n, y, b)
      BY <1>9, <2>3
    <3>2. x.rhs = y.rhs
      BY <1>18, <3>1 DEF IsAllItems
    <3> QED
      BY <1>15, <2>3, <3>2
  <2>4. CASE a = Preceded(i1, x) /\ IsTerminating(rule) /\ b = Preceded(i2, y)
    BY <1>9, <1>10, <1>16, <1>18, <2>4
  <2>5. CASE IsTerminating(rule) /\ a = Preceded(i2, x) /\ b = Preceded(i1, y)
    BY <1>9, <1>10, <1>16, <1>18, <2>5
  <2>6. CASE IsTerminating(rule) /\ a = Preceded(i2, x) /\ b = Preceded(i2, y)
    <3>1. IsEndedItems(c, rule, d, n, x, a) /\ IsEndedItems(c, rule, d, n, y, b)
      BY <1>10, <2>6
    <3>2. x = y
      BY <1>17, <1>18, <3>1
    <3> QED
      BY <2>6, <3>2
  <2> QED
    BY <2>1, <2>2, <2>3, <2>4, <2>5, <2>6
<1>19. {e.rhs : e \in E} = J
  BY <1>12, <1>14
<1>20. StandsFor(E, J)
  BY <1>18, <1>19 DEF StandsFor
<1> QED
  BY <1>2, <1>5, <1>12, <1>20

\* What RewriteExact asks for.
LEMMA RewriteIsAsked ==
    ASSUME CensusInv
    PROVE  RewriteExact
<1> SUFFICES ASSUME is_precomputed
             PROVE  RewriteExact
  BY DEF RewriteExact
<1>1. PICK g, c : g = Censused /\ c = census
  OBVIOUS
<1>2. IsCensused(g, c) /\ irls = Rewrite(g, c)
  BY <1>1 DEF CensusInv, CensusDone, IsCensused
<1>3. MaxItems \in Nat
  BY DEF MaxItems
<1>4. PICK n \in Nat : n = MaxItems
  BY <1>3
<1>5. ASSUME NEW r \in XRLs_of(g), XRL_is_Used(c, g.rules[r])
      PROVE  IF g.rules[r].sequence
             THEN /\ StandsFor(SequenceExpansions(r, n), SequenceInstances(g.rules[r], n))
                  /\ \A e \in SequenceExpansions(r, n) : e.real = Len(e.rhs)
             ELSE /\ StandsFor(Expansions(r), Instances(g.rules[r]))
                  /\ \A e \in Expansions(r) : Len(e.path) > 1 => e.real = Len(g.rules[r].rhs)
  <2>1. CASE g.rules[r].sequence
    BY <1>1, <1>2, <1>5, <2>1, SequenceStands
  <2>2. CASE ~ g.rules[r].sequence
    BY <1>1, <1>2, <1>5, <2>2, ExpansionsStand
  <2> QED
    BY <2>1, <2>2
<1> QED
  BY <1>1, <1>4, <1>5, Zenon DEF RewriteExact

\* However a grammar was built, the internal rules of a rule derive what it stands for,
\* in one way each, as RewriteExact says.
THEOREM RewriteIsExact == GrammarSpec => []RewriteExact
<1>1. CensusInv => RewriteExact
  BY RewriteIsAsked
<1> QED
  BY <1>1, CensusAlways, PTL
=============================================================================
