-------------------------- MODULE MarpaValue_proofs --------------------------
(***************************************************************************)
(* The valuator, for every grammar whose right recursive rules do not end  *)
(* with a nulled symbol: the virtual stack has a count for every piece of  *)
(* a rule that has been visited before the piece that goes on to it;       *)
(* token steps report tokens that were read; and, if all tokens have       *)
(* values, rules are given the values of their right sides, and the end    *)
(* of a valuation is the value of the input.                               *)
(***************************************************************************)
EXTENDS MarpaValue, MarpaForest_proofs

\* To the tree, a valuator is a pause.
LEMMA ValuatorPauses ==
    ASSUME ValuatorCalls \/ ValueSteps, UNCHANGED <<vars, bocage, order, t_returned>>
    PROVE  TreePauses
<1>1. CASE ValuatorCalls
  BY <1>1 DEF ValuatorCalls, ValueNew, ValueUnref, ValuedForce, StepBegins, SymbolIsValuedSet,
              StepInitial, StepGetData, StepRule, StepNulling, StepInactive, TreePauses, tree
<1>2. CASE ValueSteps
  BY <1>2 DEF ValueSteps, VisitNook, VisitEnds, ReportToken, ReportRule, TreePauses, tree
<1> QED
  BY <1>1, <1>2

LEMMA ValuationIsPaused == ValuationSpec => PausedSpec
<1>1. ValuationInit => ForestInit
  BY DEF ValuationInit
<1>2. [ValuationNext]_valuation => [PausedNext]_forest
  <2> SUFFICES ASSUME [ValuationNext]_valuation PROVE [PausedNext]_forest
    OBVIOUS
  <2>1. CASE ForestNext \/ UNCHANGED forest
    BY <2>1 DEF PausedNext
  <2>2. CASE /\ ValuatorCalls \/ ValueSteps
             /\ UNCHANGED <<vars, bocage, order, t_returned>>
    BY <2>2, ValuatorPauses DEF PausedNext
  <2> QED
    BY <2>1, <2>2 DEF ValuationNext, valuation
<1> QED
  BY <1>1, <1>2, PTL DEF ValuationSpec, PausedSpec

-----------------------------------------------------------------------------
(* The tokens that are read *)

\* Tokens are of terminals.
TokensInv ==
    /\ valued.valued_terminal \cup valued.unvalued_terminal \subseteq TerminalXSYs
    /\ \A t \in tokens : t.nsy \in TerminalNSYs

LEMMA TokensAlways == Spec => []TokensInv
<1>1. Init => TokensInv
  BY DEF Init, TokensInv
<1>2. TypeInv /\ TokensInv /\ [Next]_vars => TokensInv'
  <2> SUFFICES ASSUME TypeInv, TokensInv, [Next]_vars PROVE TokensInv'
    OBVIOUS
  <2>1. CASE UNCHANGED <<valued, tokens>>
    BY <2>1 DEF TokensInv
  <2>2. CASE StartInput \/ StartInputTrivial
    <3>1. valued' = InitialValued /\ tokens' = tokens
      BY <2>2 DEF StartInput, StartInputTrivial
    <3> QED
      BY <3>1, SymbolAssumption DEF TokensInv, InitialValued
  <2>3. ASSUME NEW x \in XSYs, NEW w \in TokenValues, NEW length \in TokenLengths,
               AlternativeRejected(x, w, length) \/ Alternative(x, w, length)
        PROVE  TokensInv'
    <3>1. /\ HasValuedStatus(x, w) \/ MayChangeStatus(x)
          /\ valued' = LockValued(x, w)
      BY <2>3 DEF AlternativeRejected, Alternative, PassesInitialChecks
    <3>2. x \in TerminalXSYs
      BY <3>1 DEF HasValuedStatus, MayChangeStatus, TokensInv
    <3>3. valued \in [{"valued", "valued_terminal", "unvalued", "unvalued_terminal", "locked"}
                        -> SUBSET XSYs]
      BY DEF TypeInv, TypeOK, InputTypeOK
    <3>4. valued'.valued_terminal \cup valued'.unvalued_terminal \subseteq TerminalXSYs
      <4>1. CASE HasValuedStatus(x, w)
        BY <3>1, <4>1 DEF LockValued, TokensInv
      <4>2. CASE ~ HasValuedStatus(x, w) /\ w # 0
        <5>1. valued' = [valued EXCEPT !.valued = @ \cup {x},
                            !.valued_terminal = @ \cup {x}, !.locked = @ \cup {x}]
          BY <3>1, <4>2 DEF LockValued
        <5>2. /\ valued'.valued_terminal = valued.valued_terminal \cup {x}
              /\ valued'.unvalued_terminal = valued.unvalued_terminal
          BY <3>3, <5>1
        <5> QED
          BY <3>2, <5>2 DEF TokensInv
      <4>3. CASE ~ HasValuedStatus(x, w) /\ w = 0
        <5>1. valued' = [valued EXCEPT !.unvalued = @ \cup {x},
                            !.unvalued_terminal = @ \cup {x}, !.locked = @ \cup {x}]
          BY <3>1, <4>3 DEF LockValued
        <5>2. /\ valued'.unvalued_terminal = valued.unvalued_terminal \cup {x}
              /\ valued'.valued_terminal = valued.valued_terminal
          BY <3>3, <5>1
        <5> QED
          BY <3>2, <5>2 DEF TokensInv
      <4> QED
        BY <4>1, <4>2, <4>3
    <3>5. \A t \in tokens' : t \in tokens \/ (t.nsy = NSY_of_XSY[x] /\ NSY_of_XSY[x] # NoNSY)
      BY <2>3 DEF AlternativeRejected, Alternative, IsExpected
    <3>6. NSY_of_XSY[x] # NoNSY => NSY_of_XSY[x] \in TerminalNSYs
      BY <3>2 DEF TerminalNSYs
    <3> QED
      BY <3>4, <3>5, <3>6 DEF TokensInv
  <2>4. CASE EarlemeCompleteSteps
    BY <2>1, <2>4 DEF EarlemeCompleteSteps, ScanAlternative, CompleteCause, AddPredictions,
         PrePopulateCompletions, StartLIMs, PopulateLIM, EarlemeCompleteEnds, input
  <2>5. CASE \E x \in XSYs, w \in TokenValues, length \in TokenLengths :
                AlternativeFails(x, w, length)
    BY <2>1, <2>5 DEF AlternativeFails, input
  <2>6. CASE \/ StartInputFails \/ EarlemeCompleteFails \/ EarlemeCompleteExhausts
             \/ EarlemeCompleteEmpty \/ EarlemeCompleteBegins \/ CleanFails \/ Clean
    BY <2>1, <2>6 DEF StartInputFails, EarlemeCompleteFails, EarlemeCompleteExhausts,
         EarlemeCompleteEmpty, EarlemeCompleteBegins, CleanFails, Clean, input
  <2>7. CASE Settings
    BY <2>1, <2>7 DEF Settings, SymbolActivate, SymbolDeactivate, ExpectedSymbolEventSet,
         ZWADefaultSet, IsUseLeoSet, WarningThresholdSet, input
  <2>8. CASE UNCHANGED vars
    BY <2>1, <2>8 DEF vars, input
  <2> QED
    BY <2>2, <2>3, <2>4, <2>5, <2>6, <2>7, <2>8 DEF Next, Reads
<1> QED
  BY <1>1, <1>2, TypeCorrect, PTL DEF Spec

-----------------------------------------------------------------------------
(* The and-nodes that are visited *)

\* The choice of a nook is an and-node of its or-node, as it was made.
LEMMA ChoiceIs ==
    ASSUME BocageInv, OrderInv, CausesAsRead, b_pc = "built", NEW o \in or_nodes,
           NEW choice \in Nat, choice < Len(and_order(o)), NEW a, a = and_order_get(o, choice)
    PROVE  /\ a \in DANDs /\ Meets(o, a) /\ CauseAsRead(o, a)
           /\ \E i \in DOMAIN dands[o] : a = dands[o][i]
<1> DEFINE T == {b \in DANDs : Meets(o, b)}
           R == {dands[o][i] : i \in DOMAIN dands[o]}
<1>1. and_order(o) \in Seq(T) /\ Len(and_order(o)) \in Nat
  BY OnOffer
<1>2. choice + 1 \in DOMAIN and_order(o)
  BY <1>1
<1>3. a = and_order(o)[choice + 1]
  BY DEF and_order_get
<1>4. a \in R
  <2>1. CASE o \in DOMAIN and_node_orderings
    <3>1. and_node_orderings[o] \in Seq(R)
      BY <2>1 DEF OrderInv
    <3>2. and_order(o) = and_node_orderings[o]
      BY <2>1 DEF and_order
    <3> HIDE DEF R
    <3> QED
      BY <1>2, <1>3, <3>1, <3>2
  <2>2. CASE o \notin DOMAIN and_node_orderings
    BY <1>2, <1>3, <2>2 DEF and_order
  <2> QED
    BY <2>1, <2>2
<1>5. CauseAsRead(o, a)
  BY <1>4 DEF CausesAsRead
<1>6. a \in T
  <2> HIDE DEF T
  <2> QED
    BY <1>1, <1>2, <1>3
<1> QED
  BY <1>4, <1>5, <1>6

-----------------------------------------------------------------------------
(* Two stacks grow and shrink as the nooks are visited, from the last to the
   first.  What is on them belongs to the nooks whose parents are yet to be
   visited: the first of them has the top. *)

\* The nooks that are visited, of parents that are not, when those after the
\* n-th are.
Frontier(n) == {k \in DOMAIN nook_stack : k > n /\ nook_stack[k].parent <= n}

Children(n) == {k \in DOMAIN nook_stack : nook_stack[k].parent = n}

\* The stretch B[k] + 1 .. E[k] of a stack of top locations is that of nook k:
\* the stretches follow each other, those of the first nooks on top.
Laid(F, B, E, top) ==
    /\ B \in [F -> Nat] /\ E \in [F -> Nat]
    /\ \A k \in F : B[k] <= E[k] /\ E[k] <= top
    /\ \A j, k \in F : j < k => E[k] <= B[j]
    /\ \A j, k \in F : j < k /\ (\A i \in F : ~ (j < i /\ i < k)) => E[k] = B[j]
    /\ \A k \in F : (\A i \in F : i <= k) => B[k] = 0
    /\ \A k \in F : (\A i \in F : k <= i) => E[k] = top
    /\ F = {} => top = 0

\* The stretches with that of nook n in addition.
Over(G, S, n, b) == [k \in G |-> IF k = n THEN b ELSE S[k]]

\* A nook that takes the place of the first ones gets a stretch from where
\* theirs began.
LEMMA LaidOver ==
    ASSUME NEW F \in SUBSET Nat, NEW B, NEW E, NEW top \in Nat, Laid(F, B, E, top),
           NEW C \in SUBSET F, \A c \in C, k \in F \ C : c < k,
           NEW n \in Nat, \A k \in F : n < k,
           NEW base \in Nat, NEW new \in Nat, base <= new, base <= top,
           \/ C = {} /\ base = top
           \/ \E m \in C : (\A c \in C : c <= m) /\ base = B[m],
           NEW G, G = (F \ C) \cup {n}
    PROVE  Laid(G, Over(G, B, n, base), Over(G, E, n, new), new)
<1> DEFINE b == Over(G, B, n, base)
           e == Over(G, E, n, new)
<1>1. /\ b \in [G -> Nat] /\ e \in [G -> Nat] /\ b[n] = base /\ e[n] = new
      /\ \A k \in F \ C : b[k] = B[k] /\ e[k] = E[k] /\ n < k
  BY DEF Over, Laid
<1>2. \A k \in F \ C : E[k] <= base
  BY DEF Laid
<1>3. \A k \in G : b[k] <= e[k] /\ e[k] <= new
  <2>1. \A k \in F \ C : B[k] <= E[k] /\ E[k] <= new
    BY <1>2 DEF Laid
  <2> QED
    BY <1>1, <2>1
<1>4. \A j, k \in G : j < k => e[k] <= b[j]
  <2> SUFFICES ASSUME NEW j \in G, NEW k \in G, j < k PROVE e[k] <= b[j]
    OBVIOUS
  <2>1. k \in F \ C
    BY <1>1
  <2>2. CASE j = n
    BY <1>1, <1>2, <2>1, <2>2
  <2>3. CASE j # n
    BY <1>1, <2>1, <2>3 DEF Laid
  <2> QED
    BY <2>2, <2>3
<1>5. \A j, k \in G : j < k /\ (\A i \in G : ~ (j < i /\ i < k)) => e[k] = b[j]
  <2> SUFFICES ASSUME NEW j \in G, NEW k \in G, j < k, \A i \in G : ~ (j < i /\ i < k)
               PROVE  e[k] = b[j]
    OBVIOUS
  <2>1. k \in F \ C
    BY <1>1
  <2>2. CASE j = n
    <3>1. \A i \in F \ C : k <= i
      BY <1>1, <2>1, <2>2
    <3>2. CASE C = {}
      BY <1>1, <2>1, <2>2, <3>1, <3>2 DEF Laid
    <3>3. ASSUME NEW m \in C, \A c \in C : c <= m, base = B[m]
          PROVE  e[k] = b[j]
      <4>1. \A i \in F : ~ (m < i /\ i < k)
        BY <2>1, <3>1, <3>3
      <4> QED
        BY <1>1, <2>1, <2>2, <3>3, <4>1 DEF Laid
    <3> QED
      BY <3>2, <3>3
  <2>3. CASE j # n
    <3>1. j \in F \ C
      BY <2>3
    <3>2. \A i \in F : ~ (j < i /\ i < k)
      BY <2>1, <3>1
    <3> QED
      BY <1>1, <2>1, <3>1, <3>2 DEF Laid
  <2> QED
    BY <2>2, <2>3
<1>6. \A k \in G : (\A i \in G : i <= k) => b[k] = 0
  <2> SUFFICES ASSUME NEW k \in G, \A i \in G : i <= k PROVE b[k] = 0
    OBVIOUS
  <2>1. CASE k = n
    <3>1. \A i \in F \ C : i <= n /\ n < i /\ i \in Nat
      BY <2>1
    <3>2. F \ C = {}
      BY <3>1
    <3>3. F = C
      BY <3>2
    <3> QED
      BY <1>1, <2>1, <3>3 DEF Laid
  <2>2. CASE k # n
    <3>1. k \in F \ C /\ \A i \in F : i <= k
      BY <2>2
    <3> QED
      BY <1>1, <3>1 DEF Laid
  <2> QED
    BY <2>1, <2>2
<1>7. \A k \in G : (\A i \in G : k <= i) => e[k] = new
  BY <1>1
<1> HIDE DEF b, e
<1>8. Laid(G, b, e, new)
  BY <1>1, <1>3, <1>4, <1>5, <1>6, <1>7 DEF Laid
<1> QED
  BY <1>8 DEF b, e

\* The children of nook n are c, of its cause, and j, of its predecessor; 0 is none.
ChildrenAre(n, c, j) ==
    LET a == AndOf(nook_stack, n)
    IN  /\ Children(n) = {c, j} \ {0}
        /\ IF OR_is_Token(a.cause) THEN c = 0
           ELSE c \in Frontier(n) /\ c = n + 1 /\ nook_stack[c].or = a.cause
        /\ IF a.predecessor = NoOR THEN j = 0
           ELSE j \in Frontier(n) /\ j > c /\ nook_stack[j].or = a.predecessor

\* Where the stretch of a nook begins, and where that of its cause does.
BaseOf(B, c, j, top) == IF j # 0 THEN B[j] ELSE IF c # 0 THEN B[c] ELSE top
MidOf(B, c, top) == IF c # 0 THEN B[c] ELSE top

\* A tree that is whole.
WholeTree == Shape(nook_stack) /\ \A i \in DOMAIN nook_stack : NookIsExpanded(nook_stack, i)

LEMMA FrontierMoves ==
    ASSUME StackInv, WholeTree, NEW n \in DOMAIN nook_stack
    PROVE  /\ Frontier(n) \in SUBSET Nat /\ Children(n) \subseteq Frontier(n)
           /\ \A k \in Frontier(n) : n < k
           /\ \A c \in Children(n), k \in Frontier(n) \ Children(n) : c < k
           /\ Frontier(n - 1) = (Frontier(n) \ Children(n)) \cup {n}
           /\ \E c, j \in Nat : ChildrenAre(n, c, j)
<1>1. nook_stack \in Seq(NookSet) /\ NooksLinked(nook_stack) /\ Preorder(nook_stack)
      /\ OneOfEach(nook_stack) /\ ChildrenThere(nook_stack) /\ CauseFirst(nook_stack)
  BY DEF StackInv, WholeTree, Shape
<1>2. PICK len \in Nat : DOMAIN nook_stack = 1 .. len
  BY <1>1
<1>3. \A i \in 1 .. len : nook_stack[i].parent \in 0 .. i - 1 /\ nook_stack[i].is_cause \in BOOLEAN
  <2>1. \A i \in 1 .. len : nook_stack[i] \in NookSet
    BY <1>1, <1>2
  <2> QED
    BY <1>1, <1>2, <2>1, ParentsBelow DEF NookSet
<1>4. Children(n) \subseteq Frontier(n)
  BY <1>2, <1>3 DEF Children, Frontier
<1>5. \A c \in Children(n), k \in Frontier(n) \ Children(n) : c < k
  <2> SUFFICES ASSUME NEW c \in Children(n), NEW k \in Frontier(n) \ Children(n), ~ (c < k) PROVE FALSE
    OBVIOUS
  <2>1. c \in 1 .. len /\ k \in 1 .. len /\ nook_stack[c].parent = n /\ k > n
        /\ nook_stack[k].parent <= n /\ nook_stack[k].parent # n /\ c # k
    BY <1>2 DEF Children, Frontier
  <2>2. nook_stack[k].parent \in Nat
    BY <1>3, <2>1
  <2>3. nook_stack[k].parent >= n
    BY <1>1, <1>2, <2>1 DEF Preorder
  <2> QED
    BY <1>2, <2>1, <2>2, <2>3
<1>6. Frontier(n - 1) = (Frontier(n) \ Children(n)) \cup {n}
  <2>1. \A k \in 1 .. len : k > n - 1 /\ nook_stack[k].parent <= n - 1
            <=> k = n \/ (k > n /\ nook_stack[k].parent <= n /\ nook_stack[k].parent # n)
    BY <1>2, <1>3
  <2> QED
    BY <1>2, <2>1 DEF Frontier, Children
<1>7. \E c, j \in Nat : ChildrenAre(n, c, j)
  <2> DEFINE a == AndOf(nook_stack, n)
             Causes == {k \in Children(n) : nook_stack[k].is_cause}
             Predecessors == {k \in Children(n) : ~ nook_stack[k].is_cause}
  <2>1. \A k \in Children(n) : k \in 1 .. len /\ k # 1 /\ nook_stack[k].parent = n
    BY <1>2, <1>3 DEF Children
  <2>2. \A i, k \in Causes : i = k
    BY <1>1, <1>2, <2>1 DEF OneOfEach
  <2>3. ASSUME NEW i \in Predecessors, NEW k \in Predecessors PROVE i = k
    <3>1. i \in Children(n) /\ k \in Children(n) /\ ~ nook_stack[i].is_cause /\ ~ nook_stack[k].is_cause
      OBVIOUS
    <3>2. i \in 1 .. len /\ k \in 1 .. len /\ nook_stack[i].parent = nook_stack[k].parent
      BY <2>1, <3>1
    <3>3. nook_stack[i].is_cause = FALSE /\ nook_stack[k].is_cause = FALSE
      BY <1>3, <3>1, <3>2
    <3> QED
      BY <1>1, <1>2, <3>2, <3>3 DEF OneOfEach
  <2>4. nook_stack[n].cause_expanded /\ nook_stack[n].predecessor_expanded
    BY DEF WholeTree, NookIsExpanded
  <2>5. \E c \in Nat : /\ Causes = {c} \ {0}
                       /\ IF OR_is_Token(a.cause) THEN c = 0
                          ELSE c \in Frontier(n) /\ c = n + 1 /\ nook_stack[c].or = a.cause
    <3>1. CASE OR_is_Token(a.cause)
      <4>1. Causes = {}
        BY <1>1, <1>2, <2>1, <3>1 DEF NooksLinked
      <4> QED
        BY <3>1, <4>1
    <3>2. CASE ~ OR_is_Token(a.cause)
      <4>1. PICK c \in 1 .. len : nook_stack[c].parent = n /\ nook_stack[c].is_cause
        BY <1>1, <1>2, <2>4, <3>2 DEF ChildrenThere
      <4>2. c \in Causes
        BY <1>2, <4>1 DEF Children
      <4>3. Causes = {c}
        BY <2>2, <4>2
      <4>4. nook_stack[c].or = a.cause /\ nook_stack[c].parent = c - 1
        BY <1>1, <1>2, <2>1, <4>1, <4>2 DEF NooksLinked, CauseFirst
      <4> QED
        BY <1>2, <1>4, <3>2, <4>1, <4>2, <4>3, <4>4
    <3> QED
      BY <3>1, <3>2
  <2>6. PICK c \in Nat : /\ Causes = {c} \ {0}
                         /\ IF OR_is_Token(a.cause) THEN c = 0
                            ELSE c \in Frontier(n) /\ c = n + 1 /\ nook_stack[c].or = a.cause
    BY <2>5
  <2>7. \E j \in Nat : /\ Predecessors = {j} \ {0}
                       /\ IF a.predecessor = NoOR THEN j = 0
                          ELSE j \in Frontier(n) /\ j > c /\ nook_stack[j].or = a.predecessor
    <3>1. CASE a.predecessor = NoOR
      <4>1. Predecessors = {}
        BY <1>1, <1>2, <2>1, <3>1 DEF NooksLinked
      <4> QED
        BY <3>1, <4>1
    <3>2. CASE a.predecessor # NoOR
      <4>1. PICK j \in 1 .. len : nook_stack[j].parent = n /\ ~ nook_stack[j].is_cause
        BY <1>1, <1>2, <2>4, <3>2 DEF ChildrenThere
      <4>2. j \in Predecessors
        BY <1>2, <4>1 DEF Children
      <4>3. Predecessors = {j}
        BY <2>3, <4>2
      <4>4. nook_stack[j].or = a.predecessor
        BY <1>1, <1>2, <2>1, <4>1, <4>2 DEF NooksLinked
      <4>5. j > c
        <5>1. OR_is_Token(a.cause) \/ n + 1 < j
          BY <1>1, <1>2, <2>1, <4>1, <4>2 DEF CauseFirst
        <5> QED
          BY <1>2, <2>6, <4>1, <5>1
      <4> QED
        BY <1>2, <1>4, <3>2, <4>1, <4>2, <4>3, <4>4, <4>5
    <3> QED
      BY <3>1, <3>2
  <2>8. Children(n) = Causes \cup Predecessors
    OBVIOUS
  <2> HIDE DEF Causes, Predecessors
  <2> QED
    BY <2>6, <2>7, <2>8 DEF ChildrenAre
<1>8. Frontier(n) \in SUBSET Nat /\ \A k \in Frontier(n) : n < k
  BY <1>2 DEF Frontier
<1> QED
  BY <1>4, <1>5, <1>6, <1>7, <1>8

\* Visiting a nook: what its children have is on top, that of the predecessor
\* below that of the cause, and the nook's stretch takes their place.
LEMMA LaidVisit ==
    ASSUME StackInv, WholeTree, NEW n \in DOMAIN nook_stack, NEW c \in Nat, NEW j \in Nat,
           ChildrenAre(n, c, j), NEW B, NEW E, NEW top \in Nat, Laid(Frontier(n), B, E, top),
           NEW base, base = BaseOf(B, c, j, top), NEW mid, mid = MidOf(B, c, top)
    PROVE  /\ base \in Nat /\ mid \in Nat /\ base <= mid /\ mid <= top
           /\ j # 0 => B[j] = base /\ E[j] = mid
           /\ j = 0 => base = mid
           /\ c # 0 => B[c] = mid /\ E[c] = top
           /\ c = 0 => mid = top
           /\ \A new \in Nat : base <= new =>
                 Laid(Frontier(n - 1), Over(Frontier(n - 1), B, n, base),
                      Over(Frontier(n - 1), E, n, new), new)
<1> DEFINE F == Frontier(n)
           C == Children(n)
<1>1. /\ F \in SUBSET Nat /\ C \in SUBSET F /\ \A k \in F : n < k
      /\ \A i \in C, k \in F \ C : i < k
      /\ Frontier(n - 1) = (F \ C) \cup {n} /\ n \in Nat
  <2>1. n \in Nat
    BY DEF StackInv
  <2> QED
    BY <2>1, FrontierMoves
<1>2. /\ C = {c, j} \ {0} /\ (c # 0 => c \in F) /\ (j # 0 => j \in F) /\ (c # 0 /\ j # 0 => c < j)
  BY DEF ChildrenAre
<1> HIDE DEF F, C
<1>3. /\ B \in [F -> Nat] /\ E \in [F -> Nat]
      /\ \A k \in F : B[k] <= E[k] /\ E[k] <= top
      /\ \A i, k \in F : i < k => E[k] <= B[i]
      /\ \A i, k \in F : i < k /\ (\A h \in F : ~ (i < h /\ h < k)) => E[k] = B[i]
      /\ \A k \in F : (\A i \in F : k <= i) => E[k] = top
  BY DEF Laid, F
<1>4. c # 0 => B[c] = mid /\ E[c] = top /\ mid \in Nat /\ mid <= top
  <2> SUFFICES ASSUME c # 0 PROVE B[c] = mid /\ E[c] = top /\ mid \in Nat /\ mid <= top
    OBVIOUS
  <2>1. \A i \in F : c <= i
    BY <1>1, <1>2
  <2> QED
    BY <1>2, <1>3, <2>1 DEF MidOf
<1>5. c = 0 => mid = top
  BY DEF MidOf
<1>6. j # 0 => B[j] = base /\ E[j] = mid /\ base \in Nat /\ base <= mid
  <2> SUFFICES ASSUME j # 0 PROVE B[j] = base /\ E[j] = mid /\ base \in Nat /\ base <= mid
    OBVIOUS
  <2>1. j \in F /\ B[j] = base /\ base \in Nat /\ B[j] <= E[j] /\ E[j] \in Nat
    BY <1>2, <1>3 DEF BaseOf
  <2>2. E[j] = mid
    <3>1. CASE c = 0
      <4>1. \A i \in F : j <= i
        BY <1>1, <1>2, <2>1, <3>1
      <4> QED
        BY <1>3, <1>5, <2>1, <3>1, <4>1
    <3>2. CASE c # 0
      <4>1. \A h \in F : ~ (c < h /\ h < j)
        BY <1>1, <1>2, <2>1, <3>2
      <4> QED
        BY <1>2, <1>3, <1>4, <2>1, <3>2, <4>1
    <3> QED
      BY <3>1, <3>2
  <2> QED
    BY <2>1, <2>2
<1>7. j = 0 => base = mid
  BY DEF BaseOf, MidOf
<1>8. base \in Nat /\ mid \in Nat /\ base <= mid /\ mid <= top
  BY <1>4, <1>5, <1>6, <1>7
<1>9. \/ C = {} /\ base = top
      \/ \E m \in C : (\A i \in C : i <= m) /\ base = B[m]
  <2>1. CASE j # 0
    <3>1. j \in C /\ \A i \in C : i <= j
      BY <1>2, <2>1
    <3> QED
      BY <1>6, <2>1, <3>1
  <2>2. CASE j = 0 /\ c # 0
    BY <1>2, <1>4, <1>7, <2>2
  <2>3. CASE j = 0 /\ c = 0
    BY <1>2, <1>5, <1>7, <2>3
  <2> QED
    BY <2>1, <2>2, <2>3
<1>10. ASSUME NEW new \in Nat, base <= new
       PROVE  Laid(Frontier(n - 1), Over(Frontier(n - 1), B, n, base),
                   Over(Frontier(n - 1), E, n, new), new)
  <2>1. Laid(F, B, E, top)
    BY DEF F
  <2>2. base <= top
    BY <1>8
  <2> QED
    BY <1>1, <1>8, <1>9, <1>10, <2>1, <2>2, LaidOver
<1> QED
  BY <1>4, <1>5, <1>6, <1>7, <1>8, <1>10

-----------------------------------------------------------------------------
(* The counts of the virtual stack *)

\* An or-node has a count: a piece of a rule that is complete has one, and
\* so has a part of what goes on in a piece, if that is in the part.
HasPiece(o) ==
    o.irl \in VirtualRHS /\ \E p \in PiecePositions(o.irl) : p <= o.position

Counted(o) == IF o.position = Length_of_IRL(o.irl) THEN o.irl \in VirtualLHS ELSE HasPiece(o)
Count(o) == IF Counted(o) THEN 1 ELSE 0

\* What is known of the and-node that a nook has chosen.
Visited(n, o, a) ==
    /\ n \in DOMAIN nook_stack /\ o = nook_stack[n].or /\ a = AndOf(nook_stack, n)
    /\ o \in or_nodes /\ o \in ORs /\ o.position \in 1 .. Length_of_IRL(o.irl)
    /\ a \in DANDs /\ Meets(o, a) /\ CauseAsRead(o, a)

LEMMA VisitedIs ==
    ASSUME BocageInv, TreeInv, CausesAsRead, b_pc = "built", NEW n \in DOMAIN nook_stack
    PROVE  Visited(n, nook_stack[n].or, AndOf(nook_stack, n))
<1>1. /\ nook_stack[n] \in NookSet
      /\ nook_stack[n].choice < Len(and_order(nook_stack[n].or))
  BY DEF TreeInv, StackInv
<1>2. PICK o \in or_nodes, choice \in Nat : nook_stack[n].or = o /\ nook_stack[n].choice = choice
  BY <1>1 DEF NookSet
<1>3. PICK a : a = and_order_get(o, choice)
  OBVIOUS
<1>4. a \in DANDs /\ Meets(o, a) /\ CauseAsRead(o, a)
  BY <1>1, <1>2, <1>3, ChoiceIs DEF TreeInv
<1>5. o \in ORs /\ o.position \in 1 .. Length_of_IRL(o.irl)
  BY DEF BocageInv, BuiltInv, NodeTypeOK
<1> QED
  BY <1>2, <1>3, <1>4, <1>5 DEF Visited, AndOf

\* The cause of an and-node is a piece of a rule where its symbol is one; the
\* predecessor is missing at the first symbol only.
LEMMA CountsOfChildren ==
    ASSUME BocageInv, b_pc = "built", TokensInv, NEW n, NEW o, NEW a, Visited(n, o, a)
    PROVE  /\ OR_is_Token(a.cause) => o.position \notin PiecePositions(o.irl)
           /\ ~ OR_is_Token(a.cause) =>
                 /\ a.cause \in ORs /\ a.cause.irl \in IRLs
                 /\ a.cause.position = Length_of_IRL(a.cause.irl)
                 /\ Counted(a.cause) <=> o.position \in PiecePositions(o.irl)
           /\ a.predecessor = NoOR <=> o.position = 1
           /\ a.predecessor # NoOR =>
                 /\ a.predecessor \in ORs /\ a.predecessor.irl = o.irl
                 /\ a.predecessor.position = o.position - 1
                 /\ Counted(a.predecessor) <=>
                       o.irl \in VirtualRHS /\ \E p \in PiecePositions(o.irl) : p < o.position
<1> DEFINE symbol == RHS_of_IRL[o.irl][o.position]
<1>1. /\ o \in ORs /\ o.irl \in IRLs /\ o.position \in 1 .. Length_of_IRL(o.irl)
      /\ Length_of_IRL(o.irl) \in Nat
  BY GrammarAssumption DEF Visited, ORs, Length_of_IRL
<1>2. \A b \in or_nodes : b \in ORs /\ b.irl \in IRLs
  BY DEF BocageInv, BuiltInv, NodeTypeOK, ORs
<1>3. o.position \in PiecePositions(o.irl) <=> symbol \in PieceNSYs
  BY <1>1 DEF PiecePositions
<1>4. OR_is_Token(a.cause) => o.position \notin PiecePositions(o.irl)
  <2> SUFFICES ASSUME OR_is_Token(a.cause) PROVE symbol \notin PieceNSYs
    BY <1>3
  <2>1. a.cause.nsy = symbol
    BY DEF Visited, Meets
  <2>2. CASE a.cause.type = "nulling"
    BY <2>2, PiecesAssumption DEF Visited, CauseAsRead, Symbol_of_OR
  <2>3. CASE a.cause.type # "nulling"
    <3>1. PICK t \in tokens : a.cause = StatusCause(t)
      BY <2>3 DEF Visited, CauseAsRead
    <3>2. a.cause.nsy = t.nsy
      BY <3>1 DEF StatusCause, TokenCause
    <3> QED
      BY <2>1, <3>2, PiecesAssumption DEF TokensInv
  <2> QED
    BY <2>2, <2>3
<1>5. ASSUME ~ OR_is_Token(a.cause)
      PROVE  /\ a.cause \in ORs /\ a.cause.irl \in IRLs
             /\ a.cause.position = Length_of_IRL(a.cause.irl)
             /\ Counted(a.cause) <=> o.position \in PiecePositions(o.irl)
  <2>1. /\ a.cause \in or_nodes /\ a.cause.position = Length_of_IRL(a.cause.irl)
        /\ LHSID_of_IRL[a.cause.irl] = symbol
    BY <1>5 DEF Visited, Meets
  <2>2. a.cause.irl \in VirtualLHS <=> symbol \in PieceNSYs
    BY <1>2, <2>1, PiecesAssumption DEF PieceNSYs
  <2> QED
    BY <1>2, <1>3, <2>1, <2>2 DEF Counted
<1>6. a.predecessor = NoOR <=> o.position = 1
  <2>1. o.position # 1 => a.predecessor \in ORs
    BY <1>2 DEF Visited, Meets
  <2> QED
    BY <2>1, KindsOfCause DEF Visited, Meets
<1>7. ASSUME a.predecessor # NoOR
      PROVE  /\ a.predecessor \in ORs /\ a.predecessor.irl = o.irl
             /\ a.predecessor.position = o.position - 1
             /\ Counted(a.predecessor) <=>
                   o.irl \in VirtualRHS /\ \E p \in PiecePositions(o.irl) : p < o.position
  <2>1. /\ a.predecessor \in ORs /\ a.predecessor.irl = o.irl
        /\ a.predecessor.position = o.position - 1
    BY <1>2, <1>6, <1>7 DEF Visited, Meets
  <2>2. o.position - 1 # Length_of_IRL(o.irl)
    BY <1>1
  <2>3. \A p \in PiecePositions(o.irl) : p <= o.position - 1 <=> p < o.position
    BY <1>1 DEF PiecePositions
  <2> QED
    BY <2>1, <2>2, <2>3 DEF Counted, HasPiece
<1> QED
  BY <1>4, <1>5, <1>6, <1>7

\* Each nook that is visited and counted has a location of the virtual stack.
VirtualLaid(n, B, E) ==
    /\ Laid(Frontier(n), B, E, Len(virtual_stack))
    /\ \A k \in Frontier(n) : E[k] = B[k] + Count(nook_stack[k].or)

\* One of the children of a nook has a count if and only if a piece is in
\* the nook's part of its rule, and this count is on top.
LEMMA CountOnTop ==
    ASSUME BocageInv, StackInv, b_pc = "built", TokensInv, WholeTree,
           NEW n, NEW o, NEW a, Visited(n, o, a),
           NEW c \in Nat, NEW j \in Nat, ChildrenAre(n, c, j),
           virtual_stack \in Seq(Nat), NEW B, NEW E, VirtualLaid(n, B, E),
           NEW base, base = BaseOf(B, c, j, Len(virtual_stack))
    PROVE  /\ base \in Nat
           /\ Len(virtual_stack) = IF HasPiece(o) THEN base + 1 ELSE base
<1>1. n \in DOMAIN nook_stack /\ a = AndOf(nook_stack, n) /\ Len(virtual_stack) \in Nat
  BY DEF Visited
<1>2. PICK mid : mid = MidOf(B, c, Len(virtual_stack))
  OBVIOUS
<1>3. /\ base \in Nat /\ mid \in Nat
      /\ j # 0 => B[j] = base /\ E[j] = mid
      /\ j = 0 => base = mid
      /\ c # 0 => B[c] = mid /\ E[c] = Len(virtual_stack)
      /\ c = 0 => mid = Len(virtual_stack)
  <2>1. Laid(Frontier(n), B, E, Len(virtual_stack))
    BY DEF VirtualLaid
  <2> QED
    BY <1>1, <1>2, <2>1, LaidVisit
<1>4. /\ c = 0 <=> OR_is_Token(a.cause)
      /\ c # 0 => c \in Frontier(n) /\ nook_stack[c].or = a.cause
      /\ j = 0 <=> a.predecessor = NoOR
      /\ j # 0 => j \in Frontier(n) /\ nook_stack[j].or = a.predecessor
  <2>1. 0 \notin Frontier(n)
    BY <1>1 DEF Frontier, StackInv
  <2> QED
    BY <1>1, <2>1 DEF ChildrenAre
<1>5. /\ j # 0 => mid = base + Count(a.predecessor)
      /\ c # 0 => Len(virtual_stack) = mid + Count(a.cause)
  BY <1>3, <1>4 DEF VirtualLaid
<1> DEFINE PP == PiecePositions(o.irl)
<1>6. /\ c = 0 => o.position \notin PP
      /\ c # 0 => (Counted(a.cause) <=> o.position \in PP)
      /\ j = 0 <=> o.position = 1
      /\ j # 0 => (Counted(a.predecessor) <=> o.irl \in VirtualRHS /\ \E p \in PP : p < o.position)
  BY <1>4, CountsOfChildren
<1>7. o.irl \in IRLs /\ o.position \in Nat /\ \A p \in PP : p \in Nat /\ p >= 1
  BY DEF Visited, ORs, PiecePositions
<1>8. CASE o.irl \in VirtualRHS
  <2>1. PICK p : PP = {p}
    BY <1>8, PiecesAssumption
  <2>2. HasPiece(o) <=> p <= o.position
    BY <1>8, <2>1 DEF HasPiece
  <2>3. p \in Nat /\ p >= 1
    BY <1>7, <2>1
  <2>4. /\ j # 0 => (Counted(a.predecessor) <=> p < o.position)
        /\ c # 0 => (Counted(a.cause) <=> o.position = p)
        /\ c = 0 => o.position # p
    BY <1>6, <1>8, <2>1
  <2> HIDE DEF PP
  <2> QED
    BY <1>3, <1>5, <1>6, <1>7, <2>2, <2>3, <2>4 DEF Count
<1>9. CASE o.irl \notin VirtualRHS
  <2>1. PP = {} /\ ~ HasPiece(o)
    BY <1>7, <1>9, PiecesAssumption DEF HasPiece
  <2> QED
    BY <1>3, <1>5, <1>6, <1>9, <2>1 DEF Count
<1> QED
  BY <1>8, <1>9

\* A piece is in the whole of a rule that goes on in it.
LEMMA PieceInWhole ==
    ASSUME NEW o \in ORs, o.position = Length_of_IRL(o.irl)
    PROVE  HasPiece(o) <=> o.irl \in VirtualRHS
<1>1. o.irl \in IRLs
  BY DEF ORs
<1>2. CASE o.irl \in VirtualRHS
  <2>1. PICK p \in 1 .. Length_of_IRL(o.irl) : PiecePositions(o.irl) = {p}
    BY <1>2, PiecesAssumption
  <2> QED
    BY <1>2, <2>1 DEF HasPiece
<1> QED
  BY <1>2 DEF HasPiece

\* What a visit does to the virtual stack.
LEMMA VisitVirtual ==
    ASSUME VisitNook, NEW o, o = nook_stack[v_nook].or, o \in ORs, virtual_stack \in Seq(Nat),
           NEW base \in Nat, Len(virtual_stack) = IF HasPiece(o) THEN base + 1 ELSE base
    PROVE  /\ virtual_stack' \in Seq(Nat) /\ Len(virtual_stack') = base + Count(o)
           /\ \A i \in 1 .. base : virtual_stack'[i] = virtual_stack[i]
           /\ Counted(o) =>
                 virtual_stack'[base + 1] =
                    (IF HasPiece(o) THEN virtual_stack[base + 1] ELSE 0)
                    + (IF o.position = Length_of_IRL(o.irl) THEN Real_SYM_Count_of_IRL[o.irl] ELSE 0)
<1> DEFINE whole == o.position = Length_of_IRL(o.irl)
           real == Real_SYM_Count_of_IRL[o.irl]
<1>1. virtual_stack' =
        CASE whole /\ ~ (whole /\ o.irl \notin VirtualLHS) -> VirtualPiece(o.irl)
          [] (whole /\ o.irl \notin VirtualLHS) /\ o.irl \in VirtualRHS ->
                SubSeq(virtual_stack, 1, Len(virtual_stack) - 1)
          [] OTHER -> virtual_stack
  BY DEF VisitNook
<1>2. real \in Nat
  BY ValueAssumption DEF ORs
<1> HIDE DEF real
<1>3. CASE ~ whole
  <2>1. virtual_stack' = virtual_stack /\ (Counted(o) <=> HasPiece(o))
    BY <1>1, <1>3 DEF Counted
  <2> QED
    BY <1>3, <2>1 DEF Count
<1>4. CASE whole /\ o.irl \notin VirtualLHS
  <2>1. ~ Counted(o) /\ (HasPiece(o) <=> o.irl \in VirtualRHS)
    BY <1>4, PieceInWhole DEF Counted
  <2>2. CASE o.irl \in VirtualRHS
    <3>1. virtual_stack' = SubSeq(virtual_stack, 1, base)
      BY <1>1, <1>4, <2>1, <2>2
    <3> QED
      BY <2>1, <2>2, <3>1 DEF Count
  <2>3. CASE o.irl \notin VirtualRHS
    <3>1. virtual_stack' = virtual_stack
      BY <1>1, <1>4, <2>3
    <3> QED
      BY <2>1, <2>3, <3>1 DEF Count
  <2> QED
    BY <2>2, <2>3
<1>5. CASE whole /\ o.irl \in VirtualLHS
  <2>1. Counted(o) /\ (HasPiece(o) <=> o.irl \in VirtualRHS) /\ virtual_stack' = VirtualPiece(o.irl)
    BY <1>1, <1>5, PieceInWhole DEF Counted
  <2>2. CASE o.irl \in VirtualRHS
    <3>1. Len(virtual_stack) = base + 1
      BY <2>1, <2>2
    <3>2. virtual_stack' = [virtual_stack EXCEPT ![base + 1] = virtual_stack[base + 1] + real]
      BY <2>1, <2>2, <3>1 DEF VirtualPiece, real
    <3> QED
      BY <1>2, <1>5, <2>1, <2>2, <3>1, <3>2 DEF Count, real
  <2>3. CASE o.irl \notin VirtualRHS
    <3>1. virtual_stack' = Append(virtual_stack, real) /\ Len(virtual_stack) = base
      BY <2>1, <2>3 DEF VirtualPiece, real
    <3> QED
      BY <1>2, <1>5, <2>1, <2>3, <3>1 DEF Count, real
  <2> QED
    BY <2>2, <2>3
<1> QED
  BY <1>3, <1>4, <1>5

\* A visit leaves a location to the nook that has a count.
LEMMA VisitKeepsVirtual ==
    ASSUME BocageInv, StackInv, b_pc = "built", TokensInv, WholeTree, VisitNook,
           NEW n, v_nook = n, NEW o, NEW a, Visited(n, o, a),
           NEW c \in Nat, NEW j \in Nat, ChildrenAre(n, c, j),
           virtual_stack \in Seq(Nat), NEW B, NEW E, VirtualLaid(n, B, E),
           NEW base, base = BaseOf(B, c, j, Len(virtual_stack)),
           NEW G, G = Frontier(n - 1)
    PROVE  /\ virtual_stack' \in Seq(Nat)
           /\ VirtualLaid(n - 1, Over(G, B, n, base), Over(G, E, n, base + Count(o)))'
<1> DEFINE b == Over(G, B, n, base)
           e == Over(G, E, n, base + Count(o))
<1>1. /\ base \in Nat /\ Len(virtual_stack) = IF HasPiece(o) THEN base + 1 ELSE base
      /\ n \in DOMAIN nook_stack /\ o = nook_stack[n].or /\ o \in ORs
  BY CountOnTop DEF Visited
<1>2. virtual_stack' \in Seq(Nat) /\ Len(virtual_stack') = base + Count(o)
  BY <1>1, VisitVirtual
<1>3. Count(o) \in Nat /\ base + Count(o) \in Nat /\ base <= base + Count(o)
  BY <1>1 DEF Count
<1>4. Laid(G, b, e, base + Count(o))
  <2>1. Laid(Frontier(n), B, E, Len(virtual_stack)) /\ Len(virtual_stack) \in Nat
    BY DEF VirtualLaid
  <2>2. PICK mid : mid = MidOf(B, c, Len(virtual_stack))
    OBVIOUS
  <2> QED
    BY <1>1, <1>3, <2>1, <2>2, LaidVisit
<1>5. nook_stack' = nook_stack
  BY DEF VisitNook, tree, iterator
<1>6. Frontier(n - 1)' = G
  BY <1>5 DEF Frontier
<1>7. \A k \in G : e[k] = b[k] + Count(nook_stack[k].or)
  <2> SUFFICES ASSUME NEW k \in G PROVE e[k] = b[k] + Count(nook_stack[k].or)
    OBVIOUS
  <2>1. b[k] = (IF k = n THEN base ELSE B[k])
        /\ e[k] = (IF k = n THEN base + Count(o) ELSE E[k])
    BY DEF Over
  <2>2. k # n => k \in Frontier(n)
    BY <1>1, FrontierMoves
  <2> QED
    BY <1>1, <2>1, <2>2 DEF VirtualLaid
<1> HIDE DEF b, e
<1>8. VirtualLaid(n - 1, b, e)'
  BY <1>2, <1>4, <1>5, <1>6, <1>7 DEF VirtualLaid
<1> QED
  BY <1>2, <1>8 DEF b, e

-----------------------------------------------------------------------------
(* The valuator *)

\* Between the first step and the end.
Valuing == v_pc \in {"visit", "token", "report"} \/ (v_pc = "idle" /\ v_next \in {"GET_DATA", "RULE"})

\* A tree is paused by its valuator, and the virtual stack has what the nooks
\* that are visited have put there.
ValuatorInv ==
    /\ v_pc \in {"none", "idle", "visit", "token", "report"}
    /\ v_next \in {"INITIAL", "GET_DATA", "RULE", "INACTIVE"}
    /\ pause_counter = IF v_pc = "none" THEN 0 ELSE 1
    /\ v_pc # "none" => t_pc = "ready" /\ parse_count >= 1 /\ ~ t_is_exhausted
    /\ virtual_stack \in Seq(Nat)
    /\ Valuing =>
          /\ b_pc = "built" /\ v_nook \in Nat /\ v_nook <= Len(nook_stack)
          /\ \E B, E : VirtualLaid(v_nook, B, E)
          /\ v_nook = 0 => virtual_stack = <<1>>
    /\ v_pc = "idle" /\ v_next = "INITIAL" => virtual_stack = <<>>
    /\ Ended => virtual_stack = <<1>>

\* While there is a valuator its tree stands still, and what the tree is of.
LEMMA TreeHeld ==
    ASSUME BocageInv, TreeInv, pause_counter = 1, t_pc = "ready", parse_count >= 1, ForestNext
    PROVE  /\ UNCHANGED <<t_pc, t_is_exhausted, parse_count, pause_counter, nook_stack>>
           /\ UNCHANGED <<b_pc, b_end, or_nodes, dands, and_node_orderings, b_valued>>
<1>1. HasBocage /\ o_is_frozen
  BY DEF TreeInv, OrderInv
<1>2. CASE RecceCalls
  BY <1>2 DEF RecceCalls, bocage, order, tree, iterator
<1>3. CASE BocageCalls \/ BocageSteps
  <2>1. ~ HasBocage
    BY <1>3 DEF BocageCalls, BocageNoParse, BocageNulling, BocageBegins, BocageSteps, CreateOrNodes,
         CreateLeoPathOrNodes, OrNodesEnd, BeginDrafts, CreateLeoDrafts, CreateTokenDraft,
         CreateCompletionDraft, NextLink, DraftsEnd, HasBocage
  <2> QED
    BY <1>1, <2>1
<1>4. CASE OrderCalls /\ UNCHANGED bocage
  <2>1. ~ OrderRank
    BY <1>1 DEF OrderRank
  <2>2. UNCHANGED <<and_node_orderings, tree>>
    BY <1>4, <2>1 DEF OrderCalls, OrderFrozen, AmbiguityMetric, HighRankOnlySet, order
  <2> QED
    BY <1>4, <2>2 DEF bocage, tree, iterator
<1>5. CASE (TreeCalls \/ TreeSteps) /\ UNCHANGED bocage
  <2>1. CASE NextAnswers
    BY <1>5, <2>1 DEF NextAnswers, bocage, order, iterator
  <2>2. CASE TreeCalls /\ ~ NextAnswers
    BY <2>2 DEF TreeCalls, TreeNew, NullingIsExhausted, InitializeIterator, NextIterates
  <2>3. CASE TreeSteps
    BY <2>3 DEF TreeSteps, NextChoice, PopNook, IterationEnds, FinishNook, NookIsFinished,
         TreeIsFinished
  <2> QED
    BY <1>5, <2>1, <2>2, <2>3
<1> QED
  BY <1>2, <1>3, <1>4, <1>5 DEF ForestNext

\* What the invariant says stays as it is where the tree does.
LEMMA LaidStays ==
    ASSUME UNCHANGED <<nook_stack, virtual_stack>>, NEW n, NEW m, m = n, NEW B, NEW E,
           VirtualLaid(n, B, E)
    PROVE  VirtualLaid(m, B, E)'
  BY DEF VirtualLaid, Frontier

LEMMA ValuatorStays ==
    ASSUME ValuatorInv, UNCHANGED valuator, UNCHANGED pause_counter,
           v_pc # "none" =>
              UNCHANGED <<t_pc, t_is_exhausted, parse_count, nook_stack, b_pc>>
    PROVE  ValuatorInv'
<1>1. UNCHANGED <<v_pc, v_next, v_nook, virtual_stack>>
  BY DEF valuator
<1>2. ASSUME Valuing PROVE \E B, E : VirtualLaid(v_nook, B, E)'
  <2>1. PICK B, E : VirtualLaid(v_nook, B, E)
    BY <1>2 DEF ValuatorInv
  <2>2. PICK n : n = v_nook
    OBVIOUS
  <2>3. UNCHANGED nook_stack /\ VirtualLaid(n, B, E)
    BY <1>2, <2>1, <2>2 DEF Valuing
  <2>4. VirtualLaid(n, B, E)'
    BY <1>1, <2>3, LaidStays
  <2> QED
    BY <1>1, <2>2, <2>4
<1>3. Valuing' => Valuing
  BY <1>1 DEF Valuing
<1>4. Ended' => Ended
  BY <1>1 DEF Ended, O_is_Nulling
<1>5. CASE v_pc = "none"
  BY <1>1, <1>5 DEF ValuatorInv, Valuing, Ended
<1>6. CASE v_pc # "none"
  <2>1. UNCHANGED <<t_pc, t_is_exhausted, parse_count, nook_stack, b_pc>>
    BY <1>6
  <2>2. Valuing' => \E B, E : VirtualLaid(v_nook, B, E)'
    BY <1>2, <1>3
  <2> QED
    BY <1>1, <1>3, <1>4, <2>1, <2>2 DEF ValuatorInv
<1> QED
  BY <1>5, <1>6

\* No call on the forest begins or ends a pause.
LEMMA ForestKeepsPause ==
    ASSUME ForestNext
    PROVE  UNCHANGED pause_counter
<1>1. CASE RecceCalls \/ ((BocageCalls \/ BocageSteps) /\ UNCHANGED <<vars, order, tree, t_returned>>)
  BY <1>1 DEF RecceCalls, tree
<1>2. CASE OrderCalls
  BY <1>2 DEF OrderCalls, OrderFrozen, OrderRank, AmbiguityMetric, HighRankOnlySet, tree
<1>3. CASE TreeCalls
  BY <1>3 DEF TreeCalls, TreeNew, NextAnswers, NullingIsExhausted, Exhaust, InitializeIterator,
       StartFinish, NextIterates
<1>4. CASE TreeSteps
  BY <1>4 DEF TreeSteps, NextChoice, StartFinish, PopNook, IterationEnds, Exhaust, FinishNook,
       FinishChild, NookIsFinished, TreeIsFinished
<1> QED
  BY <1>1, <1>2, <1>3, <1>4 DEF ForestNext

\* Between two visits the valuator is where it was.
LEMMA StillValuing ==
    ASSUME ValuatorInv, Valuing, v_pc' \in {"idle", "visit", "token", "report"},
           v_next' \in {"GET_DATA", "RULE"} \/ (v_pc' = "visit" /\ v_next' = v_next),
           UNCHANGED <<tree, b_pc, virtual_stack, v_nook>>
    PROVE  ValuatorInv'
<1>1. UNCHANGED <<t_pc, t_is_exhausted, parse_count, pause_counter, nook_stack>>
  BY DEF tree, iterator
<1>2. PICK B, E : VirtualLaid(v_nook, B, E)
  BY DEF ValuatorInv
<1>3. PICK n : n = v_nook
  OBVIOUS
<1>4. VirtualLaid(n, B, E)'
  BY <1>1, <1>2, <1>3, LaidStays
<1>5. VirtualLaid(v_nook, B, E)'
  BY <1>3, <1>4
<1>6. ~ Ended' /\ ~ (v_pc' = "idle" /\ v_next' = "INITIAL") /\ v_pc # "none"
  BY DEF Ended, Valuing
<1> QED
  BY <1>1, <1>5, <1>6 DEF ValuatorInv

LEMMA CallsKeepVirtual ==
    ASSUME BocageInv, TreeInv, ShapeInv, ValuatorInv, ValuatorCalls,
           UNCHANGED <<vars, bocage, order, t_returned>>
    PROVE  ValuatorInv'
<1>1. UNCHANGED <<b_pc, b_end, or_nodes, dands, and_node_orderings>>
  BY DEF bocage, order
<1>2. CASE ValueNew
  <2>1. /\ v_pc = "none" /\ v_pc' = "idle" /\ v_next' = "INITIAL" /\ virtual_stack' = <<>>
        /\ pause_counter' = pause_counter + 1 /\ t_pc = "ready" /\ parse_count > 0
        /\ ~ t_is_exhausted /\ UNCHANGED <<t_pc, t_is_exhausted, parse_count>>
    BY <1>2 DEF ValueNew
  <2>2. pause_counter' = 1 /\ parse_count \in Nat
    BY <2>1 DEF ValuatorInv, TreeInv
  <2> QED
    BY <2>1, <2>2 DEF ValuatorInv, Valuing, Ended
<1>3. CASE ValueUnref
  <2>1. /\ v_pc = "idle" /\ v_pc' = "none" /\ v_next' = "INACTIVE" /\ virtual_stack' = <<>>
        /\ pause_counter' = pause_counter - 1
    BY <1>3 DEF ValueUnref
  <2>2. pause_counter' = 0
    BY <2>1 DEF ValuatorInv
  <2> QED
    BY <2>1, <2>2 DEF ValuatorInv, Valuing, Ended
<1>4. CASE \/ ValuedForce \/ StepInactive
           \/ \E x \in XSYs, value \in BOOLEAN : SymbolIsValuedSet(x, value)
  <2>1. v_pc = "idle" /\ UNCHANGED <<tree, v_pc, v_next, v_nook, virtual_stack>>
    BY <1>4 DEF ValuedForce, StepInactive, StepReturns, SymbolIsValuedSet
  <2>2. CASE Valuing
    <3>1. v_next \in {"GET_DATA", "RULE"}
      BY <2>1, <2>2 DEF Valuing
    <3> QED
      BY <1>1, <2>1, <2>2, <3>1, StillValuing
  <2>3. CASE ~ Valuing
    <3>1. ~ Valuing' /\ (Ended' => Ended)
      BY <1>1, <2>1, <2>3 DEF Valuing, Ended, O_is_Nulling
    <3>2. UNCHANGED <<t_pc, t_is_exhausted, parse_count, pause_counter>>
      BY <2>1 DEF tree
    <3> QED
      BY <2>1, <3>1, <3>2 DEF ValuatorInv
  <2> QED
    BY <2>2, <2>3
<1>5. CASE StepInitial
  <2>1. /\ v_pc = "idle" /\ v_next = "INITIAL" /\ ~ O_is_Nulling /\ v_nook' = Len(nook_stack)
        /\ v_pc' = "visit" /\ UNCHANGED <<tree, v_next, virtual_stack>>
    BY <1>5 DEF StepInitial
  <2>2. UNCHANGED <<t_pc, t_is_exhausted, parse_count, pause_counter, nook_stack>>
    BY <2>1 DEF tree, iterator
  <2>3. virtual_stack = <<>> /\ t_pc = "ready" /\ parse_count >= 1 /\ ~ t_is_exhausted
    BY <2>1 DEF ValuatorInv
  <2>4. b_pc = "built"
    BY <2>1, <2>3 DEF TreeInv, HasBocage, O_is_Nulling
  <2>5. nook_stack # <<>> /\ nook_stack \in Seq(NookSet)
    BY <2>3, <2>4 DEF ShapeInv, TreeInv, StackInv
  <2>6. PICK n \in Nat : n = Len(nook_stack) /\ n # 0 /\ DOMAIN nook_stack = 1 .. n
    BY <2>5
  <2>7. Frontier(n) = {}
    BY <2>6 DEF Frontier
  <2> DEFINE none == [k \in {} |-> 0]
  <2>8. Laid({}, none, none, 0)
    BY DEF Laid
  <2> HIDE DEF none
  <2>9. VirtualLaid(n, none, none)
    BY <2>3, <2>7, <2>8 DEF VirtualLaid
  <2>10. VirtualLaid(n, none, none)'
    BY <2>1, <2>2, <2>9, LaidStays
  <2>11. ~ Ended'
    BY <2>1 DEF Ended
  <2>12. v_nook' = n
    BY <2>1, <2>6
  <2>13. \E B, E : VirtualLaid(v_nook, B, E)'
    BY <2>10, <2>12
  <2> QED
    BY <1>1, <2>1, <2>2, <2>4, <2>6, <2>11, <2>12, <2>13 DEF ValuatorInv
<1>6. CASE StepGetData
  <2>1. v_pc = "idle" /\ v_next = "GET_DATA" /\ v_pc' = "visit"
        /\ UNCHANGED <<tree, v_next, v_nook, virtual_stack>>
    BY <1>6 DEF StepGetData
  <2> QED
    BY <1>1, <2>1, StillValuing DEF Valuing
<1>7. CASE StepRule
  <2>1. v_pc = "idle" /\ v_next = "RULE" /\ v_pc' = "report"
        /\ UNCHANGED <<tree, v_next, v_nook, virtual_stack>>
    BY <1>7 DEF StepRule
  <2> QED
    BY <1>1, <2>1, StillValuing DEF Valuing
<1>8. CASE StepNulling
  <2>1. /\ v_pc = "idle" /\ O_is_Nulling /\ v_pc' = "idle" /\ v_next' = "INACTIVE"
        /\ UNCHANGED <<tree, v_nook, virtual_stack>>
    BY <1>8 DEF StepNulling, StepReturns
  <2>2. UNCHANGED <<t_pc, t_is_exhausted, parse_count, pause_counter>>
    BY <2>1 DEF tree
  <2>3. ~ Valuing' /\ ~ Ended'
    BY <1>1, <2>1 DEF Valuing, Ended, O_is_Nulling
  <2> QED
    BY <2>1, <2>2, <2>3 DEF ValuatorInv
<1> QED
  BY <1>2, <1>3, <1>4, <1>5, <1>6, <1>7, <1>8 DEF ValuatorCalls, StepBegins

\* The stretch of the first nook, whose rule is the start rule, is all there is.
LEMMA FirstNook ==
    ASSUME RecceInv, BocageInv, StackInv, WholeTree, b_pc = "built", 1 \in DOMAIN nook_stack
    PROVE  /\ StartIRL \in IRLs /\ nook_stack[1].or = NodeAt(StartDone, 1, b_end)
           /\ nook_stack[1].or.irl = StartIRL /\ nook_stack[1].or.position = 1
           /\ nook_stack[1].or.origin = 0 /\ nook_stack[1].or.set = b_end
           /\ Length_of_IRL(StartIRL) = 1 /\ Frontier(0) = {1}
<1>1. nook_stack[1].or = NodeAt(StartDone, 1, b_end) /\ NooksLinked(nook_stack)
  BY DEF WholeTree, Shape, NooksLinked
<1>2. StartIRL \in IRLs
  BY StartItem DEF BocageInv, BuiltInv
<1>3. Length_of_IRL(StartIRL) = 1
  BY <1>2, StartAssumption DEF Length_of_IRL
<1>4. Frontier(0) = {1}
  <2>1. PICK len \in Nat : DOMAIN nook_stack = 1 .. len
    BY DEF StackInv
  <2>2. \A i \in 1 .. len : nook_stack[i].parent \in 0 .. i - 1 /\ (i # 1 => nook_stack[i].parent \in 1 .. len)
    BY <1>1, <2>1, ParentsBelow
  <2>3. \A i \in 1 .. len : nook_stack[i].parent <= 0 <=> i = 1
    BY <2>2
  <2> QED
    BY <2>1, <2>3 DEF Frontier
<1> QED
  BY <1>1, <1>2, <1>3, <1>4 DEF NodeAt, StartDone

LEMMA VisitKeepsValuator ==
    ASSUME RecceInv, BocageInv, TreeInv, ShapeInv, CausesAsRead, TokensInv, ValuatorInv, VisitNook,
           UNCHANGED <<vars, bocage, order, t_returned>>
    PROVE  ValuatorInv'
<1>1. /\ v_pc = "visit" /\ v_nook > 0 /\ v_nook' = v_nook - 1 /\ v_pc' \in {"visit", "token"}
      /\ UNCHANGED <<tree, v_next>>
  BY DEF VisitNook
<1>2. UNCHANGED <<t_pc, t_is_exhausted, parse_count, pause_counter, nook_stack, b_pc>>
  BY <1>1 DEF tree, iterator, bocage
<1>3. /\ b_pc = "built" /\ v_nook \in Nat /\ v_nook <= Len(nook_stack) /\ virtual_stack \in Seq(Nat)
      /\ t_pc = "ready" /\ parse_count >= 1 /\ ~ t_is_exhausted
  BY <1>1 DEF ValuatorInv, Valuing
<1>4. StackInv /\ WholeTree
  BY <1>3 DEF TreeInv, ShapeInv, WholeTree
<1>5. PICK n \in Nat : n = v_nook /\ n \in DOMAIN nook_stack
  BY <1>1, <1>3, <1>4 DEF StackInv
<1>6. PICK o, a : Visited(n, o, a)
  BY <1>3, <1>5, VisitedIs
<1>7. PICK c \in Nat, j \in Nat : ChildrenAre(n, c, j)
  BY <1>4, <1>5, FrontierMoves
<1>8. PICK B, E : VirtualLaid(n, B, E)
  BY <1>1, <1>5 DEF ValuatorInv, Valuing
<1>9. PICK base, G : base = BaseOf(B, c, j, Len(virtual_stack)) /\ G = Frontier(n - 1)
  OBVIOUS
<1> DEFINE b == Over(G, B, n, base)
           e == Over(G, E, n, base + Count(o))
<1>10. virtual_stack' \in Seq(Nat) /\ VirtualLaid(n - 1, b, e)'
  BY <1>3, <1>4, <1>5, <1>6, <1>7, <1>8, <1>9, VisitKeepsVirtual
<1>11. v_nook' = 0 => virtual_stack' = <<1>>
  <2> SUFFICES ASSUME n = 1 PROVE virtual_stack' = <<1>>
    BY <1>1, <1>5
  <2>1. /\ StartIRL \in IRLs /\ o.irl = StartIRL /\ o.position = 1 /\ Length_of_IRL(StartIRL) = 1
        /\ Frontier(0) = {1}
    BY <1>3, <1>4, <1>5, <1>6, FirstNook DEF Visited
  <2>2. /\ StartIRL \in VirtualLHS \ VirtualRHS /\ Real_SYM_Count_of_IRL[StartIRL] = 1
    BY <2>1, PiecesAssumption
  <2>3. base \in Nat /\ Len(virtual_stack) = IF HasPiece(o) THEN base + 1 ELSE base
    BY <1>3, <1>4, <1>6, <1>7, <1>8, <1>9, CountOnTop
  <2>4. ~ HasPiece(o) /\ Counted(o) /\ o \in ORs /\ o = nook_stack[v_nook].or
    BY <1>5, <1>6, <2>1, <2>2 DEF HasPiece, Counted, Visited
  <2>5. /\ virtual_stack' \in Seq(Nat) /\ Len(virtual_stack') = base + Count(o)
        /\ virtual_stack'[base + 1] = 0 + 1
    BY <1>3, <2>1, <2>2, <2>3, <2>4, VisitVirtual
  <2>6. base = 0
    <3>1. G = {1} /\ b[1] = base
      BY <1>9, <2>1 DEF Over
    <3>2. Frontier(0)' = {1}
      BY <1>2, <2>1 DEF Frontier
    <3> HIDE DEF b, e
    <3>3. VirtualLaid(0, b, e)'
      BY <1>10
    <3> QED
      BY <3>1, <3>2, <3>3 DEF VirtualLaid, Laid
  <2> QED
    BY <2>4, <2>5, <2>6 DEF Count
<1> HIDE DEF b, e
<1>12. \E S, T : VirtualLaid(v_nook, S, T)'
  BY <1>1, <1>5, <1>10
<1>13. v_nook' \in Nat /\ v_nook' <= Len(nook_stack')
  <2>1. Len(nook_stack) \in Nat
    BY <1>4 DEF StackInv
  <2> QED
    BY <1>1, <1>2, <1>3, <2>1
<1>14. ~ Ended' /\ ~ (v_pc' = "idle" /\ v_next' = "INITIAL")
  BY <1>1 DEF Ended
<1> QED
  BY <1>1, <1>2, <1>3, <1>10, <1>11, <1>12, <1>13, <1>14 DEF ValuatorInv

LEMMA StepsKeepVirtual ==
    ASSUME RecceInv, BocageInv, TreeInv, ShapeInv, CausesAsRead, TokensInv, ValuatorInv, ValueSteps,
           UNCHANGED <<vars, bocage, order, t_returned>>
    PROVE  ValuatorInv'
<1>1. UNCHANGED b_pc
  BY DEF bocage
<1>2. CASE VisitNook
  BY <1>2, VisitKeepsValuator
<1>3. CASE VisitEnds
  <2>1. /\ v_pc = "visit" /\ v_nook = 0 /\ v_next' = "INACTIVE" /\ v_pc' = "idle"
        /\ UNCHANGED <<tree, virtual_stack>>
    BY <1>3 DEF VisitEnds, StepReturns
  <2>2. UNCHANGED <<t_pc, t_is_exhausted, parse_count, pause_counter>>
    BY <2>1 DEF tree
  <2>3. virtual_stack = <<1>> /\ ~ Valuing'
    BY <2>1 DEF ValuatorInv, Valuing
  <2> QED
    BY <2>1, <2>2, <2>3 DEF ValuatorInv
<1>4. CASE ReportToken
  <2>1. /\ v_pc = "token" /\ v_next' = "RULE" /\ v_pc' \in {"report", "idle"}
        /\ UNCHANGED <<tree, v_nook, virtual_stack>>
    BY <1>4 DEF ReportToken, StepReturns
  <2> QED
    BY <1>1, <2>1, StillValuing DEF Valuing
<1>5. CASE ReportRule
  <2>1. /\ v_pc = "report" /\ v_next' = "GET_DATA" /\ v_pc' \in {"visit", "idle"}
        /\ UNCHANGED <<tree, v_nook, virtual_stack>>
    BY <1>5 DEF ReportRule, StepReturns
  <2> QED
    BY <1>1, <2>1, StillValuing DEF Valuing
<1> QED
  BY <1>2, <1>3, <1>4, <1>5 DEF ValueSteps

LEMMA ValuatorAlways ==
    ASSUME LeoRulesEndProper
    PROVE  ValuationSpec => []ValuatorInv
<1>1. ValuationInit => ValuatorInv
  BY DEF ValuationInit, ForestInit, TreeInit, ValueInit, ValuatorInv, Valuing, Ended
<1>2. /\ RecceInv /\ BocageInv /\ TreeInv /\ ShapeInv /\ CausesAsRead /\ TokensInv
      /\ ValuatorInv /\ [ValuationNext]_valuation
      => ValuatorInv'
  <2> SUFFICES ASSUME RecceInv, BocageInv, TreeInv, ShapeInv, CausesAsRead, TokensInv,
                      ValuatorInv, [ValuationNext]_valuation
               PROVE  ValuatorInv'
    OBVIOUS
  <2>1. CASE v_pc \in {"none", "idle"} /\ ForestNext /\ UNCHANGED <<progress, valuator>>
    <3>1. UNCHANGED valuator
      BY <2>1
    <3>2. CASE v_pc = "none"
      <4>1. pause_counter = 0
        BY <3>2 DEF ValuatorInv
      <4>2. UNCHANGED pause_counter
        BY <2>1, ForestKeepsPause
      <4> QED
        BY <3>1, <3>2, <4>2, ValuatorStays
    <3>3. CASE v_pc # "none"
      <4>1. pause_counter = 1 /\ t_pc = "ready" /\ parse_count >= 1
        BY <3>3 DEF ValuatorInv
      <4> QED
        BY <2>1, <3>1, <4>1, TreeHeld, ValuatorStays
    <3> QED
      BY <3>2, <3>3
  <2>2. CASE UNCHANGED <<forest, valuator>>
    BY <2>2, ValuatorStays DEF forest, bocage, tree, iterator
  <2>3. CASE (ValuatorCalls \/ ValueSteps) /\ UNCHANGED <<vars, progress, bocage, order, t_returned>>
    BY <2>3, CallsKeepVirtual, StepsKeepVirtual
  <2> QED
    BY <2>1, <2>2, <2>3 DEF ValuationNext, valuation
<1> QED
  BY <1>1, <1>2, ValuationIsPaused, ForestIsRecce, RecceInvAlways, BocageAlways, CausesAlways,
     TreeAlways, ShapeAlways, TokensAlways, PTL DEF ValuationSpec

LEMMA VirtualIsBalanced ==
    RecceInv /\ BocageInv /\ TreeInv /\ ShapeInv /\ CausesAsRead /\ TokensInv /\ ValuatorInv
    => VirtualStackBalanced
<1> SUFFICES ASSUME RecceInv, BocageInv, TreeInv, ShapeInv, CausesAsRead, TokensInv, ValuatorInv,
                    v_pc = "visit", v_nook > 0,
                    NEW o, o = nook_stack[v_nook].or,
                    o.position = Length_of_IRL(o.irl), o.irl \in VirtualRHS
             PROVE  virtual_stack # <<>>
  BY DEF VirtualStackBalanced, ValuatorInv
<1>1. /\ b_pc = "built" /\ v_nook \in Nat /\ v_nook <= Len(nook_stack) /\ virtual_stack \in Seq(Nat)
      /\ t_pc = "ready" /\ parse_count >= 1 /\ ~ t_is_exhausted
  BY DEF ValuatorInv, Valuing
<1>2. StackInv /\ WholeTree
  BY <1>1 DEF TreeInv, ShapeInv, WholeTree
<1>3. PICK n \in Nat : n = v_nook /\ n \in DOMAIN nook_stack
  BY <1>1, <1>2 DEF StackInv
<1>4. PICK a : Visited(n, o, a)
  BY <1>1, <1>3, VisitedIs
<1>5. PICK c \in Nat, j \in Nat : ChildrenAre(n, c, j)
  BY <1>2, <1>3, FrontierMoves
<1>6. PICK B, E : VirtualLaid(n, B, E)
  BY <1>3 DEF ValuatorInv, Valuing
<1>7. PICK base : base = BaseOf(B, c, j, Len(virtual_stack))
  OBVIOUS
<1>8. base \in Nat /\ Len(virtual_stack) = IF HasPiece(o) THEN base + 1 ELSE base
  BY <1>1, <1>2, <1>4, <1>5, <1>6, <1>7, CountOnTop
<1>9. HasPiece(o)
  BY <1>4, PieceInWhole DEF Visited
<1> QED
  BY <1>8, <1>9

\* Whenever a piece of a rule follows another the virtual stack has a count to
\* add to, and whenever the first piece of one ends a count to take, the
\* dereferences of its top in marpa_v_step; at the end there is only the count
\* of the start rule.  It needs of the rewrite what PiecesAssumption says.
THEOREM VirtualStackIsBalanced ==
    ASSUME LeoRulesEndProper
    PROVE  ValuationSpec => []VirtualStackBalanced
  BY VirtualIsBalanced, ValuatorAlways, ValuationIsPaused, ForestIsRecce, RecceInvAlways,
     BocageAlways, CausesAlways, TreeAlways, ShapeAlways, TokensAlways, PTL

-----------------------------------------------------------------------------
(* What a visit finds out *)

\* The last argument before and after the token of a nook, and the value that the
\* token puts there.
ArgNBefore == IF v_pop THEN v.arg_0 ELSE v.arg_n
ArgNAfter(a) == IF Pushes(a.cause) THEN ArgNBefore + 1 ELSE ArgNBefore

\* The public data have their fields.
DataTyped ==
    DOMAIN v = DOMAIN NoData /\ v.token_type \in {"valued", "nulling", "dummy"}

\* The data before the token of a nook.
DataEntered(o) == [v EXCEPT !.token_value = -1, !.rule = -1, !.es = o.set]
DataPopped(o) == IF v_pop THEN [DataEntered(o) EXCEPT !.arg_n = v.arg_0] ELSE DataEntered(o)

LEMMA DataAfterToken ==
    ASSUME DataTyped, NEW o, NEW a, NEW data, data = TokenData(o, a, DataPopped(o))
    PROVE  /\ DOMAIN data = DOMAIN NoData /\ data.es = o.set /\ data.rule = -1
           /\ data.token_type \in {"valued", "nulling", "dummy"}
           /\ data.token_type # "dummy" => Pushes(a.cause)
           /\ data.arg_n = ArgNAfter(a)
           /\ data.arg_0 = IF Pushes(a.cause) THEN ArgNAfter(a) ELSE v.arg_0
           /\ data.token_type = "valued" =>
                 /\ OR_is_Token(a.cause) /\ a.cause.type = "valued"
                 /\ data.symbol = Source_XSY_of_NSY[a.cause.nsy]
                 /\ data.token_value = a.cause.value /\ data.token_start = TokenStart(o, a)
           /\ OR_is_Token(a.cause) /\ a.cause.type = "valued" =>
                 data.token_type = "valued" /\ data.token_start = TokenStart(o, a)
<1> DEFINE popped == DataPopped(o)
<1>1. /\ DOMAIN popped = DOMAIN NoData /\ popped.es = o.set /\ popped.rule = -1
      /\ popped.arg_n = ArgNBefore /\ popped.arg_0 = v.arg_0
  BY DEF DataTyped, NoData, ArgNBefore, DataPopped, DataEntered
<1> HIDE DEF popped
<1> DEFINE top == popped.arg_n + 1
           pushed == IF Pushes(a.cause) THEN [popped EXCEPT !.arg_0 = top, !.arg_n = top] ELSE popped
<1>2. /\ DOMAIN pushed = DOMAIN NoData /\ pushed.es = o.set /\ pushed.rule = -1
      /\ pushed.arg_n = ArgNAfter(a)
      /\ pushed.arg_0 = IF Pushes(a.cause) THEN ArgNAfter(a) ELSE v.arg_0
  BY <1>1 DEF NoData, ArgNAfter
<1> DEFINE symbol == Source_XSY_of_NSY[a.cause.nsy]
           is_valued == OR_is_Token(a.cause) /\ a.cause.type = "valued"
           is_nulled == OR_is_Token(a.cause) /\ a.cause.type = "nulling" /\ symbol \in v_valued
<1>3. data = CASE is_valued ->
                    [pushed EXCEPT !.token_type = "valued", !.symbol = symbol,
                       !.token_value = a.cause.value, !.token_start = TokenStart(o, a)]
               [] is_nulled ->
                    [pushed EXCEPT !.token_type = "nulling", !.symbol = symbol, !.token_start = o.set]
               [] OTHER -> [pushed EXCEPT !.token_type = "dummy"]
  BY DEF TokenData, popped
<1> HIDE DEF pushed, symbol
<1>4. CASE is_valued
  <2>1. data = [pushed EXCEPT !.token_type = "valued", !.symbol = symbol,
                  !.token_value = a.cause.value, !.token_start = TokenStart(o, a)]
    BY <1>3, <1>4
  <2> QED
    BY <1>2, <1>4, <2>1 DEF NoData, symbol, Pushes
<1>5. CASE ~ is_valued /\ is_nulled
  <2>1. data = [pushed EXCEPT !.token_type = "nulling", !.symbol = symbol, !.token_start = o.set]
    BY <1>3, <1>5
  <2>2. Pushes(a.cause)
    BY <1>5 DEF Pushes
  <2> QED
    BY <1>2, <1>5, <2>1, <2>2 DEF NoData
<1>6. CASE ~ is_valued /\ ~ is_nulled
  <2>1. data = [pushed EXCEPT !.token_type = "dummy"]
    BY <1>3, <1>6
  <2> QED
    BY <1>2, <1>6, <2>1 DEF NoData
<1> QED
  BY <1>4, <1>5, <1>6

\* What a visit does to the public data.
LEMMA DataAfterVisit ==
    ASSUME VisitNook, DataTyped, NEW o, o = nook_stack[v_nook].or,
           NEW a, a = AndOf(nook_stack, v_nook),
           NEW whole, whole = (o.position = Length_of_IRL(o.irl) /\ o.irl \notin VirtualLHS)
    PROVE  /\ DOMAIN v' = DOMAIN NoData /\ v'.es = o.set
           /\ v'.token_type \in {"valued", "nulling", "dummy"}
           /\ v'.token_type # "dummy" => Pushes(a.cause)
           /\ v'.arg_n = ArgNAfter(a)
           /\ v'.arg_0 = IF whole THEN ArgNAfter(a) - RuleLength(o.irl) + 1
                         ELSE IF Pushes(a.cause) THEN ArgNAfter(a) ELSE v.arg_0
           /\ v'.token_type = "valued" =>
                 /\ OR_is_Token(a.cause) /\ a.cause.type = "valued"
                 /\ v'.symbol = Source_XSY_of_NSY[a.cause.nsy]
                 /\ v'.token_value = a.cause.value /\ v'.token_start = TokenStart(o, a)
           /\ ~ whole => v'.rule = -1
<1>0. PICK data : data = TokenData(o, a, DataPopped(o))
  OBVIOUS
<1> DEFINE rule == Source_XRL_of_IRL[o.irl]
           arg_0 == data.arg_n - RuleLength(o.irl) + 1
<1>1. v' = IF ~ whole THEN data
           ELSE IF rule \notin v_rules THEN [data EXCEPT !.arg_0 = arg_0]
           ELSE [data EXCEPT !.arg_0 = arg_0, !.rule = rule, !.rule_start = o.origin]
  BY <1>0 DEF VisitNook, AndOf, DataPopped, DataEntered
<1>2. /\ DOMAIN data = DOMAIN NoData /\ data.es = o.set /\ data.rule = -1
      /\ data.token_type \in {"valued", "nulling", "dummy"}
      /\ data.token_type # "dummy" => Pushes(a.cause)
      /\ data.arg_n = ArgNAfter(a)
      /\ data.arg_0 = IF Pushes(a.cause) THEN ArgNAfter(a) ELSE v.arg_0
      /\ data.token_type = "valued" =>
            /\ OR_is_Token(a.cause) /\ a.cause.type = "valued"
            /\ data.symbol = Source_XSY_of_NSY[a.cause.nsy]
            /\ data.token_value = a.cause.value /\ data.token_start = TokenStart(o, a)
  BY <1>0, DataAfterToken
<1>3. CASE ~ whole
  <2>1. v' = data
    BY <1>1, <1>3
  <2> QED
    BY <1>2, <1>3, <2>1
<1>4. CASE whole /\ rule \notin v_rules
  <2>1. v' = [data EXCEPT !.arg_0 = arg_0]
    BY <1>1, <1>4
  <2> QED
    BY <1>2, <1>4, <2>1 DEF NoData
<1>5. CASE whole /\ rule \in v_rules
  <2>1. v' = [data EXCEPT !.arg_0 = arg_0, !.rule = rule, !.rule_start = o.origin]
    BY <1>1, <1>5
  <2> QED
    BY <1>2, <1>5, <2>1 DEF NoData
<1> QED
  BY <1>3, <1>4, <1>5

-----------------------------------------------------------------------------
(* The tokens that are reported *)

\* The data are those of a token that was read.
TokenIsRead ==
    \E t \in tokens : /\ Source_XSY_of_NSY[t.nsy] = v.symbol /\ t.value = v.token_value
                      /\ t.start = v.token_start /\ t.end = v.es

ReportInv ==
    /\ DataTyped
    /\ v_pc = "token" /\ v.token_type = "valued" => TokenIsRead
    /\ v_pc = "idle" /\ v_step = "TOKEN" => TokenIsRead

LEMMA VisitReads ==
    ASSUME BocageInv, TreeInv, CausesAsRead, ValuatorInv, ReportInv, VisitNook,
           UNCHANGED <<vars, bocage, order, t_returned>>
    PROVE  v'.token_type = "valued" => TokenIsRead'
<1> SUFFICES ASSUME v'.token_type = "valued" PROVE TokenIsRead'
  OBVIOUS
<1>1. tokens' = tokens
  BY DEF vars, input
<1>2. b_pc = "built" /\ v_pc = "visit" /\ v_nook \in 1 .. Len(nook_stack) /\ nook_stack \in Seq(NookSet)
      /\ t_pc = "ready" /\ parse_count >= 1
  BY DEF VisitNook, ValuatorInv, Valuing, TreeInv, StackInv
<1>3. PICK n \in DOMAIN nook_stack : n = v_nook
  BY <1>2
<1>4. PICK o, a : o = nook_stack[n].or /\ a = AndOf(nook_stack, n) /\ Visited(n, o, a)
  BY <1>2, <1>3, VisitedIs
<1>5. PICK whole : whole = (o.position = Length_of_IRL(o.irl) /\ o.irl \notin VirtualLHS)
  OBVIOUS
<1>6. /\ v'.es = o.set /\ OR_is_Token(a.cause) /\ a.cause.type = "valued"
      /\ v'.symbol = Source_XSY_of_NSY[a.cause.nsy]
      /\ v'.token_value = a.cause.value /\ v'.token_start = TokenStart(o, a)
  BY <1>3, <1>4, <1>5, DataAfterVisit DEF ReportInv
<1>7. PICK t \in tokens : a.cause = StatusCause(t) /\ t.start = Middle(o, a) /\ t.end = o.set
  BY <1>4, <1>6 DEF Visited, CauseAsRead
<1>8. a.cause.nsy = t.nsy /\ a.cause.value = t.value
  BY <1>6, <1>7 DEF StatusCause, TokenCause
<1>9. TokenStart(o, a) = Middle(o, a)
  BY DEF TokenStart, Middle
<1> QED
  BY <1>1, <1>6, <1>7, <1>8, <1>9 DEF TokenIsRead

\* What the application reads leaves the data as they were.
LEMMA ReportStays ==
    ASSUME ReportInv, tokens \subseteq tokens', v' = v,
           v_pc' = v_pc /\ v_step' = v_step
    PROVE  ReportInv'
<1>1. TokenIsRead => TokenIsRead'
  BY DEF TokenIsRead
<1> QED
  BY <1>1 DEF ReportInv, DataTyped

LEMMA CallsReport ==
    ASSUME ReportInv, ValuatorCalls, tokens' = tokens
    PROVE  ReportInv'
<1>1. TokenIsRead /\ v' = v => TokenIsRead'
  BY DEF TokenIsRead
<1>2. CASE ValueNew \/ ValueUnref
  <2>1. v' = NoData /\ v_step' = "none" /\ v_pc' # "token"
    BY <1>2 DEF ValueNew, ValueUnref
  <2>2. DataTyped'
    BY <2>1 DEF DataTyped, NoData
  <2> QED
    BY <2>1, <2>2 DEF ReportInv
<1>3. CASE \/ ValuedForce \/ \E x \in XSYs, value \in BOOLEAN : SymbolIsValuedSet(x, value)
  BY <1>1, <1>3 DEF ValuedForce, SymbolIsValuedSet, ReportInv, DataTyped
<1>4. CASE StepInitial \/ StepGetData \/ StepRule
  BY <1>4 DEF StepInitial, StepGetData, StepRule, ReportInv, DataTyped
<1>5. CASE StepInactive
  BY <1>5 DEF StepInactive, StepReturns, ReportInv, DataTyped
<1>6. CASE StepNulling
  BY <1>6 DEF StepNulling, StepReturns, ReportInv, DataTyped, NoData
<1> QED
  BY <1>2, <1>3, <1>4, <1>5, <1>6 DEF ValuatorCalls, StepBegins

LEMMA StepsReport ==
    ASSUME BocageInv, TreeInv, CausesAsRead, ValuatorInv, ReportInv, ValueSteps,
           UNCHANGED <<vars, bocage, order, t_returned>>
    PROVE  ReportInv'
<1>1. tokens' = tokens
  BY DEF vars, input
<1>2. CASE VisitNook
  <2>1. PICK o, a, whole : /\ o = nook_stack[v_nook].or /\ a = AndOf(nook_stack, v_nook)
                           /\ whole = (o.position = Length_of_IRL(o.irl) /\ o.irl \notin VirtualLHS)
    OBVIOUS
  <2>2. DataTyped'
    BY <1>2, <2>1, DataAfterVisit DEF ReportInv, DataTyped
  <2>3. v_pc' # "idle"
    BY <1>2 DEF VisitNook
  <2> QED
    BY <1>2, <2>2, <2>3, VisitReads DEF ReportInv
<1>3. CASE VisitEnds
  BY <1>3 DEF VisitEnds, StepReturns, ReportInv, DataTyped
<1>4. CASE ReportToken
  <2>1. CASE v.token_type = "dummy"
    BY <1>4, <2>1 DEF ReportToken, ReportInv, DataTyped
  <2>2. CASE v.token_type # "dummy"
    <3>1. /\ v_pc = "token" /\ v' = [v EXCEPT !.result = v.arg_n] /\ v_pc' = "idle"
          /\ v_step' = IF v.token_type = "nulling" THEN "NULLING_SYMBOL" ELSE "TOKEN"
      BY <1>4, <2>2 DEF ReportToken, StepReturns
    <3>2. /\ DataTyped' /\ v'.symbol = v.symbol /\ v'.token_value = v.token_value
          /\ v'.token_start = v.token_start /\ v'.es = v.es
      BY <3>1 DEF ReportInv, DataTyped, NoData
    <3>3. v.token_type \in {"valued", "nulling", "dummy"}
      BY DEF ReportInv, DataTyped
    <3>4. v_step' = "TOKEN" => TokenIsRead
      BY <3>1, <3>3, <2>2 DEF ReportInv
    <3>5. TokenIsRead => TokenIsRead'
      BY <1>1, <3>2 DEF TokenIsRead
    <3> QED
      BY <3>1, <3>2, <3>4, <3>5 DEF ReportInv
  <2> QED
    BY <2>1, <2>2
<1>5. CASE ReportRule
  <2>1. CASE v.rule < 0
    BY <1>5, <2>1 DEF ReportRule, ReportInv, DataTyped
  <2>2. CASE ~ (v.rule < 0)
    <3>1. v' = [v EXCEPT !.result = v.arg_0] /\ v_pc' = "idle" /\ v_step' = "RULE"
      BY <1>5, <2>2 DEF ReportRule, StepReturns
    <3>2. DataTyped'
      BY <3>1 DEF ReportInv, DataTyped, NoData
    <3> QED
      BY <3>1, <3>2 DEF ReportInv
  <2> QED
    BY <2>1, <2>2
<1> QED
  BY <1>2, <1>3, <1>4, <1>5 DEF ValueSteps

LEMMA ReportAlways ==
    ASSUME LeoRulesEndProper
    PROVE  ValuationSpec => []ReportInv
<1>1. ValuationInit => ReportInv
  BY DEF ValuationInit, ValueInit, ReportInv, DataTyped, NoData
<1>2. BocageInv /\ TreeInv /\ CausesAsRead /\ ValuatorInv /\ ReportInv /\ [ValuationNext]_valuation
      => ReportInv'
  <2> SUFFICES ASSUME BocageInv, TreeInv, CausesAsRead, ValuatorInv, ReportInv, [ValuationNext]_valuation
               PROVE  ReportInv'
    OBVIOUS
  <2>1. CASE ForestNext /\ UNCHANGED <<progress, valuator>>
    <3>1. [Next]_vars
      BY <2>1 DEF ForestNext, RecceCalls
    <3> QED
      BY <2>1, <3>1, TokensGrow, ReportStays DEF valuator
  <2>2. CASE UNCHANGED <<forest, valuator>>
    BY <2>2, ReportStays DEF forest, vars, input, valuator
  <2>3. CASE (ValuatorCalls \/ ValueSteps) /\ UNCHANGED <<vars, progress, bocage, order, t_returned>>
    <3>1. tokens' = tokens
      BY <2>3 DEF vars, input
    <3> QED
      BY <2>3, <3>1, CallsReport, StepsReport
  <2> QED
    BY <2>1, <2>2, <2>3 DEF ValuationNext, valuation
<1> QED
  BY <1>1, <1>2, ValuationIsPaused, ForestIsRecce, BocageAlways, CausesAlways, TreeAlways,
     ValuatorAlways, PTL DEF ValuationSpec

\* What a token step tells the application is a token that it has read: symbol,
\* value, and the stretch of the input that it gave with it, in whatever piece of
\* a rule it was found and with nulled symbols before it or not.
THEOREM TokenStepsAsRead ==
    ASSUME LeoRulesEndProper
    PROVE  ValuationSpec => []TokensAsRead
<1>1. ReportInv => TokensAsRead
  BY DEF ReportInv, TokensAsRead, TokenIsRead
<1> QED
  BY <1>1, ReportAlways, PTL

-----------------------------------------------------------------------------
(* Tokens that all have values *)

\* A symbol of which a token with a value has been read is a valued symbol.
TokensValued ==
    /\ valued.valued_terminal \subseteq valued.valued
    /\ \A t \in tokens : Source_XSY_of_NSY[t.nsy] \in valued.valued

LEMMA TokensValuedAlways ==
    ASSUME 0 \notin TokenValues
    PROVE  Spec => []TokensValued
<1>1. Init => TokensValued
  BY DEF Init, TokensValued
<1>2. TypeInv /\ InputInv /\ TokensValued /\ [Next]_vars => TokensValued'
  <2> SUFFICES ASSUME TypeInv, InputInv, TokensValued, [Next]_vars PROVE TokensValued'
    OBVIOUS
  <2>1. CASE UNCHANGED <<valued, tokens>>
    BY <2>1 DEF TokensValued
  <2>2. CASE StartInput \/ StartInputTrivial
    <3>1. valued' = InitialValued /\ tokens' = tokens /\ input_phase = "before"
      BY <2>2 DEF StartInput, StartInputTrivial
    <3>2. tokens = {}
      BY <3>1 DEF InputInv, TokensAgree
    <3> QED
      BY <3>1, <3>2 DEF TokensValued, InitialValued
  <2>3. ASSUME NEW x \in XSYs, NEW w \in TokenValues, NEW length \in TokenLengths,
               AlternativeRejected(x, w, length) \/ Alternative(x, w, length)
        PROVE  TokensValued'
    <3>1. /\ HasValuedStatus(x, w) \/ MayChangeStatus(x)
          /\ valued' = LockValued(x, w) /\ w # 0
      BY <2>3 DEF AlternativeRejected, Alternative, PassesInitialChecks
    <3>2. valued \in [{"valued", "valued_terminal", "unvalued", "unvalued_terminal", "locked"}
                        -> SUBSET XSYs]
      BY DEF TypeInv, TypeOK, InputTypeOK
    <3>3. /\ valued'.valued_terminal \subseteq valued'.valued /\ x \in valued'.valued
          /\ valued.valued \subseteq valued'.valued
      <4>1. CASE HasValuedStatus(x, w)
        BY <3>1, <4>1 DEF LockValued, TokensValued, HasValuedStatus
      <4>2. CASE ~ HasValuedStatus(x, w)
        <5>1. valued' = [valued EXCEPT !.valued = @ \cup {x},
                            !.valued_terminal = @ \cup {x}, !.locked = @ \cup {x}]
          BY <3>1, <4>2 DEF LockValued
        <5>2. /\ valued'.valued_terminal = valued.valued_terminal \cup {x}
              /\ valued'.valued = valued.valued \cup {x}
          BY <3>2, <5>1
        <5> QED
          BY <5>2 DEF TokensValued
      <4> QED
        BY <4>1, <4>2
    <3>4. \A t \in tokens' : t \in tokens \/ (t.nsy = NSY_of_XSY[x] /\ NSY_of_XSY[x] # NoNSY)
      BY <2>3 DEF AlternativeRejected, Alternative, IsExpected
    <3>5. NSY_of_XSY[x] # NoNSY => Source_XSY_of_NSY[NSY_of_XSY[x]] = x
      BY SourcesAssumption
    <3> QED
      BY <3>3, <3>4, <3>5 DEF TokensValued
  <2>4. CASE EarlemeCompleteSteps
    BY <2>1, <2>4 DEF EarlemeCompleteSteps, ScanAlternative, CompleteCause, AddPredictions,
         PrePopulateCompletions, StartLIMs, PopulateLIM, EarlemeCompleteEnds, input
  <2>5. CASE \E x \in XSYs, w \in TokenValues, length \in TokenLengths :
                AlternativeFails(x, w, length)
    BY <2>1, <2>5 DEF AlternativeFails, input
  <2>6. CASE \/ StartInputFails \/ EarlemeCompleteFails \/ EarlemeCompleteExhausts
             \/ EarlemeCompleteEmpty \/ EarlemeCompleteBegins \/ CleanFails \/ Clean
    BY <2>1, <2>6 DEF StartInputFails, EarlemeCompleteFails, EarlemeCompleteExhausts,
         EarlemeCompleteEmpty, EarlemeCompleteBegins, CleanFails, Clean, input
  <2>7. CASE Settings
    BY <2>1, <2>7 DEF Settings, SymbolActivate, SymbolDeactivate, ExpectedSymbolEventSet,
         ZWADefaultSet, IsUseLeoSet, WarningThresholdSet, input
  <2>8. CASE UNCHANGED vars
    BY <2>1, <2>8 DEF vars, input
  <2> QED
    BY <2>2, <2>3, <2>4, <2>5, <2>6, <2>7, <2>8 DEF Next, Reads
<1> QED
  BY <1>1, <1>2, TypeCorrect, InputCorrect, PTL DEF Spec

\* So no and-node has an unvalued token for its cause.
CausesValued ==
    /\ Building => \A t \in tokens : Source_XSY_of_NSY[t.nsy] \in b_valued
    /\ \A o \in or_nodes : \A i \in DOMAIN dands[o] :
          OR_is_Token(dands[o][i].cause) => dands[o][i].cause.type # "unvalued"

LEMMA CausesValuedAlways ==
    ASSUME LeoRulesEndProper, 0 \notin TokenValues
    PROVE  PausedSpec => []CausesValued
<1>1. ForestInit => CausesValued
  BY DEF ForestInit, BocageInit, CausesValued, Building
<1>2. BocageInv /\ CausesAsRead' /\ TokensValued /\ CausesValued /\ [PausedNext]_forest => CausesValued'
  <2> SUFFICES ASSUME BocageInv, CausesAsRead', TokensValued, CausesValued, [PausedNext]_forest
               PROVE  CausesValued'
    OBVIOUS
  <2>1. CASE RecceCalls \/ UNCHANGED <<vars, bocage>>
    <3>1. UNCHANGED bocage /\ (tokens' = tokens \/ ~ Building)
      BY <2>1 DEF RecceCalls, Building, vars, input
    <3> QED
      BY <3>1 DEF CausesValued, Building, bocage
  <2>2. CASE BocageCalls /\ UNCHANGED vars
    <3>1. or_nodes = {} /\ UNCHANGED or_nodes
      BY <2>2 DEF BocageCalls, BocageNoParse, BocageNulling, BocageBegins, BocageInv
    <3>2. Building' => b_valued' = valued.valued
      BY <2>2 DEF BocageCalls, BocageNoParse, BocageNulling, BocageBegins, Building
    <3>3. UNCHANGED <<tokens, valued>>
      BY <2>2 DEF vars, input
    <3> QED
      BY <3>1, <3>2, <3>3 DEF CausesValued, TokensValued
  <2>3. CASE BocageSteps /\ UNCHANGED vars
    <3>1. Building /\ b_valued' = b_valued
      BY <2>3 DEF BocageSteps, CreateOrNodes, CreateLeoPathOrNodes, OrNodesEnd, BeginDrafts,
           CreateLeoDrafts, CreateTokenDraft, CreateCompletionDraft, NextLink, DraftsEnd,
           Building
    <3>2. tokens' = tokens
      BY <2>3 DEF vars, input
    <3>3. \A t \in tokens' : Source_XSY_of_NSY[t.nsy] \in b_valued'
      BY <3>1, <3>2 DEF CausesValued
    <3>4. \A t \in tokens' : StatusCause(t)'.type = "valued"
      BY <3>3 DEF StatusCause, TokenCause
    <3>5. ASSUME NEW o \in or_nodes', NEW i \in DOMAIN dands'[o], OR_is_Token(dands'[o][i].cause)
          PROVE  dands'[o][i].cause.type # "unvalued"
      <4>1. PICK a : a = dands'[o][i]
        OBVIOUS
      <4>2. CauseAsRead(o, a)'
        BY <3>5, <4>1 DEF CausesAsRead
      <4>3. a.cause.type = "nulling" \/ \E t \in tokens' : a.cause = StatusCause(t)'
        BY <3>5, <4>1, <4>2 DEF CauseAsRead
      <4> QED
        BY <3>4, <4>1, <4>3
    <3> QED
      BY <3>3, <3>5 DEF CausesValued
  <2> QED
    BY <2>1, <2>2, <2>3 DEF PausedNext, TreePauses, ForestNext, forest
<1> QED
  BY <1>1, <1>2, ForestIsRecce, TokensValuedAlways, BocageAlways, CausesAlways, PTL DEF PausedSpec

LEMMA EveryTokenPushes ==
    ASSUME BocageInv, TreeInv, CausesAsRead, CausesValued, b_pc = "built",
           NEW n \in DOMAIN nook_stack, NEW a, a = AndOf(nook_stack, n)
    PROVE  Pushes(a.cause) <=> OR_is_Token(a.cause)
<1>1. /\ nook_stack[n] \in NookSet
      /\ nook_stack[n].choice < Len(and_order(nook_stack[n].or))
  BY DEF TreeInv, StackInv
<1>2. PICK o \in or_nodes, choice \in Nat : nook_stack[n].or = o /\ nook_stack[n].choice = choice
  BY <1>1 DEF NookSet
<1>3. a = and_order_get(o, choice)
  BY <1>2 DEF AndOf
<1>4. CauseAsRead(o, a) /\ \E i \in DOMAIN dands[o] : a = dands[o][i]
  BY <1>1, <1>2, <1>3, ChoiceIs DEF TreeInv
<1>5. OR_is_Token(a.cause) => a.cause.type # "unvalued"
  BY <1>4 DEF CausesValued
<1>6. OR_is_Token(a.cause) =>
         a.cause.type = "nulling" \/ \E t \in tokens : a.cause = StatusCause(t)
  BY <1>4 DEF CauseAsRead
<1>7. \A t : StatusCause(t).type \in {"valued", "unvalued"}
  BY DEF StatusCause, TokenCause
<1> QED
  BY <1>5, <1>6, <1>7 DEF Pushes

-----------------------------------------------------------------------------
(* The values of the nooks.  A nook that is visited has a stretch of the stack of
   values: a rule has one value, a piece or a part of a rule those of its
   external symbols. *)

IsRule(o) == o.position = Length_of_IRL(o.irl) /\ o.irl \notin VirtualLHS

\* The external symbol that the i-th value of a rule or of a piece is of.
SymbolAt(irl, i) == IF irl = StartIRL THEN StartXSY ELSE SymbolFor(irl, i)

\* The values after b and up to e are next to each other in the input.
Run(s, b, e, from, to) ==
    /\ b \in Nat /\ e \in Nat /\ b < e
    /\ s[b + 1].start = from /\ s[e].end = to
    /\ \A i \in b + 1 .. e - 1 : s[i].end = s[i + 1].start

Spells(s, irl, b, e) ==
    \A i \in 1 .. e - b : s[b + i] = ValueOf(SymbolAt(irl, i), s[b + i].start, s[b + i].end)

\* How many values there are: as many as symbols before a piece is in it, then
\* those up to the end of the rule, or any number of items of a sequence, with
\* what there is after the piece.
LengthFits(o, l) ==
    LET rule == XRL_of_IRL(o.irl)
    IN  IF ~ HasPiece(o) THEN l = o.position
        ELSE IF ~ rule.sequence THEN l = Len(rule.rhs) - PieceStart(o.irl)
        ELSE l >= 1 /\ l % ItemSpacing(rule) = o.position % ItemSpacing(rule)

Fits(s, o, b, e) ==
    /\ Run(s, b, e, o.origin, o.set)
    /\ IF IsRule(o)
       THEN e = b + 1 /\ s[e] = ValueOf(LHS_of_XRL(Source_XRL_of_IRL[o.irl]), o.origin, o.set)
       ELSE Spells(s, o.irl, b, e) /\ LengthFits(o, e - b)

\* The values of the symbol that ends what an and-node is of.
SymbolFits(s, o, a, b, e) ==
    IF o.position \in PiecePositions(o.irl) THEN Fits(s, a.cause, b, e)
    ELSE /\ b \in Nat /\ e = b + 1
         /\ s[e] = ValueOf(Source_XSY_of_NSY[Symbol_of_OR(o)], Middle(o, a), o.set)

PredecessorFits(s, a, b, e) ==
    IF a.predecessor = NoOR THEN b = e ELSE Fits(s, a.predecessor, b, e)

\* Only what is on the stretch counts.
LEMMA FitsElsewhere ==
    ASSUME NEW s, NEW t, NEW o, NEW b, NEW e, Fits(s, o, b, e),
           \A i \in b + 1 .. e : t[i] = s[i]
    PROVE  Fits(t, o, b, e)
<1>1. b \in Nat /\ e \in Nat /\ b < e
  BY DEF Fits, Run
<1>2. Run(t, b, e, o.origin, o.set)
  BY <1>1 DEF Fits, Run
<1>3. Spells(s, o.irl, b, e) => Spells(t, o.irl, b, e)
  <2> SUFFICES ASSUME Spells(s, o.irl, b, e), NEW i \in 1 .. e - b
               PROVE  t[b + i] = ValueOf(SymbolAt(o.irl, i), t[b + i].start, t[b + i].end)
    BY DEF Spells
  <2>1. b + i \in b + 1 .. e
    BY <1>1
  <2> QED
    BY <2>1 DEF Spells
<1>4. t[e] = s[e]
  BY <1>1
<1> QED
  BY <1>2, <1>3, <1>4 DEF Fits

LEMMA RunsJoin ==
    ASSUME NEW s, NEW b, NEW m, NEW e, NEW f, NEW x, NEW t, Run(s, b, m, f, x), Run(s, m, e, x, t)
    PROVE  Run(s, b, e, f, t)
<1>1. b \in Nat /\ m \in Nat /\ e \in Nat /\ b < m /\ m < e
  BY DEF Run
<1>2. ASSUME NEW i \in b + 1 .. e - 1 PROVE s[i].end = s[i + 1].start
  <2>1. CASE i \in b + 1 .. m - 1
    BY <2>1 DEF Run
  <2>2. CASE i = m
    BY <2>2 DEF Run
  <2>3. CASE i \in m + 1 .. e - 1
    BY <2>3 DEF Run
  <2> QED
    BY <1>1, <2>1, <2>2, <2>3
<1> QED
  BY <1>1, <1>2 DEF Run

\* Items and separators take turns.
LEMMA ItemsTakeTurns ==
    ASSUME NEW rule, NEW i \in Nat, NEW j \in Nat,
           i % ItemSpacing(rule) = j % ItemSpacing(rule)
    PROVE  /\ (i + 1) % ItemSpacing(rule) = (j + 1) % ItemSpacing(rule)
           /\ IsItem(rule, i) <=> IsItem(rule, j)
<1>1. CASE ItemSpacing(rule) = 1
  BY <1>1 DEF IsItem
<1>2. CASE ItemSpacing(rule) = 2
  BY <1>2 DEF IsItem
<1> QED
  BY <1>1, <1>2 DEF ItemSpacing

\* The symbol of a position of a rule that is no piece is the one that the
\* value after those of the positions before it is to be of.
LEMMA SymbolIsNext ==
    ASSUME NEW o \in ORs, o.position \in 1 .. Length_of_IRL(o.irl),
           o.position \notin PiecePositions(o.irl), NEW l \in Nat,
           \/ l = o.position - 1
           \/ /\ o.irl # StartIRL /\ XRL_of_IRL(o.irl).sequence
              /\ l % ItemSpacing(XRL_of_IRL(o.irl))
                    = (o.position - 1) % ItemSpacing(XRL_of_IRL(o.irl))
    PROVE  Source_XSY_of_NSY[Symbol_of_OR(o)] = SymbolAt(o.irl, l + 1)
<1>1. o.irl \in IRLs /\ o.position \in Nat /\ o.position >= 1
  BY GrammarAssumption DEF ORs
<1>2. CASE o.irl = StartIRL
  <2>1. o.position = 1
    <3>1. Length_of_IRL(o.irl) = 1
      BY <1>1, <1>2, StartAssumption DEF Length_of_IRL
    <3>2. o.position \in 1 .. 1
      BY <3>1
    <3> QED
      BY <3>2
  <2>2. Source_XSY_of_NSY[RHS_of_IRL[StartIRL][1]] = StartXSY
    BY <1>1, <1>2, SourcesAssumption
  <2> QED
    BY <1>2, <2>1, <2>2 DEF SymbolAt, Symbol_of_OR
<1>3. CASE o.irl # StartIRL
  <2>1. Source_XSY_of_NSY[Symbol_of_OR(o)] = SymbolFor(o.irl, o.position)
    BY <1>1, <1>3, SourcesAssumption DEF Symbol_of_OR
  <2>2. CASE l = o.position - 1
    BY <1>1, <1>3, <2>1, <2>2 DEF SymbolAt
  <2>3. CASE /\ XRL_of_IRL(o.irl).sequence
             /\ l % ItemSpacing(XRL_of_IRL(o.irl))
                   = (o.position - 1) % ItemSpacing(XRL_of_IRL(o.irl))
    <3>1. PICK rule : rule = XRL_of_IRL(o.irl)
      OBVIOUS
    <3>2. PICK j \in Nat : o.position = j + 1
      BY <1>1
    <3>3. (l + 1) % ItemSpacing(rule) = (j + 1) % ItemSpacing(rule)
      BY <2>3, <3>1, <3>2, ItemsTakeTurns
    <3>4. IsItem(rule, l + 1) <=> IsItem(rule, o.position)
      BY <3>2, <3>3, ItemsTakeTurns
    <3> QED
      BY <1>3, <2>1, <2>3, <3>1, <3>4 DEF SymbolAt, SymbolFor
  <2> QED
    BY <1>3, <2>2, <2>3
<1> QED
  BY <1>2, <1>3

\* What the rewrite guarantees of a rule that goes on in a piece.
LEMMA PieceFollows ==
    ASSUME NEW irl \in IRLs, NEW p \in PiecePositions(irl),
           NEW q \in IRLs, LHSID_of_IRL[q] = RHS_of_IRL[irl][p]
    PROVE  /\ irl \in VirtualRHS /\ irl # StartIRL /\ q # StartIRL /\ q \in VirtualLHS
           /\ PiecePositions(irl) = {p} /\ XRL_of_IRL(q) = XRL_of_IRL(irl)
           /\ IF XRL_of_IRL(irl).sequence
              THEN p = 1 /\ IsItem(XRL_of_IRL(irl), Length_of_IRL(q))
              ELSE /\ p = Length_of_IRL(irl) /\ PieceStart(q) = PieceStart(irl) + p - 1
                   /\ q \in VirtualRHS
                         \/ PieceStart(q) + Length_of_IRL(q) = Len(XRL_of_IRL(irl).rhs)
<1>1. irl \in VirtualRHS
  BY PiecesAssumption
<1>2. irl # StartIRL
  BY <1>1, PiecesAssumption
<1>3. PiecePositions(irl) = {p}
  BY <1>1, PiecesAssumption
<1>4. RHS_of_IRL[irl][p] \in PieceNSYs
  BY DEF PiecePositions
<1>5. q \in VirtualLHS
  BY <1>4, PiecesAssumption
<1>6. Source_XRL_of_IRL[q] = Source_XRL_of_IRL[irl]
  BY <1>2, SourcesAssumption
<1>7. q # StartIRL
  BY <1>2, <1>6, SourcesAssumption
<1>8. XRL_of_IRL(q) = XRL_of_IRL(irl)
  BY <1>6 DEF XRL_of_IRL
<1>9. CASE XRL_of_IRL(irl).sequence
  <2>1. PiecePositions(irl) \subseteq {1}
    BY <1>2, <1>9, SourcesAssumption
  <2>2. IsItem(XRL_of_IRL(q), Length_of_IRL(q))
    BY <1>5, <1>7, <1>8, <1>9, SourcesAssumption
  <2> QED
    BY <1>1, <1>2, <1>3, <1>5, <1>7, <1>8, <1>9, <2>1, <2>2
<1>10. CASE ~ XRL_of_IRL(irl).sequence
  <2>1. PiecePositions(irl) \subseteq {Length_of_IRL(irl)} /\ PieceStart(q) = PieceStart(irl) + p - 1
    BY <1>2, <1>10, SourcesAssumption
  <2>2. q \in VirtualRHS \/ PieceStart(q) + Length_of_IRL(q) = Len(XRL_of_IRL(q).rhs)
    BY <1>7, <1>8, <1>10, SourcesAssumption
  <2> QED
    BY <1>1, <1>2, <1>3, <1>5, <1>7, <1>8, <1>10, <2>1, <2>2
<1> QED
  BY <1>9, <1>10

\* What precedes the last symbol of a part of a rule has as many values as
\* symbols, or is the piece of a sequence and some symbols.
LEMMA PartBefore ==
    ASSUME BocageInv, b_pc = "built", TokensInv, NEW n, NEW o, NEW a, Visited(n, o, a),
           NEW s, NEW base \in Nat, NEW mid \in Nat,
           PredecessorFits(s, a, base, mid)
    PROVE  /\ base <= mid
           /\ a.predecessor = NoOR => o.position = 1 /\ Middle(o, a) = o.origin
           /\ a.predecessor # NoOR =>
                 Run(s, base, mid, o.origin, Middle(o, a)) /\ Spells(s, o.irl, base, mid)
           /\ IF \E p \in PiecePositions(o.irl) : p < o.position
              THEN /\ o.irl \in VirtualRHS /\ o.irl # StartIRL /\ XRL_of_IRL(o.irl).sequence
                   /\ mid - base >= 1
                   /\ (mid - base) % ItemSpacing(XRL_of_IRL(o.irl))
                         = (o.position - 1) % ItemSpacing(XRL_of_IRL(o.irl))
              ELSE mid - base = o.position - 1
<1> DEFINE d == a.predecessor
           Before == \E p \in PiecePositions(o.irl) : p < o.position
<1>1. /\ d = NoOR <=> o.position = 1
      /\ d # NoOR => d \in ORs /\ d.irl = o.irl /\ d.position = o.position - 1
      /\ d # NoOR => d.origin = o.origin
  BY CountsOfChildren DEF Visited, Meets
<1>2. /\ o \in ORs /\ o.irl \in IRLs /\ o.position \in 1 .. Length_of_IRL(o.irl)
      /\ Length_of_IRL(o.irl) \in Nat
  BY GrammarAssumption DEF Visited, ORs, Length_of_IRL
<1>3. \A p \in PiecePositions(o.irl) : p \in Nat /\ p >= 1 /\ o.irl \in VirtualRHS
  BY <1>2, PiecesAssumption DEF PiecePositions
<1>4. CASE d = NoOR
  <2>1. o.position = 1 /\ base = mid
    BY <1>1, <1>4 DEF PredecessorFits
  <2>2. ~ Before
    BY <1>3, <2>1
  <2> QED
    BY <1>4, <2>1, <2>2 DEF Middle
<1>5. CASE d # NoOR
  <2>1. /\ Fits(s, d, base, mid) /\ d.position = o.position - 1 /\ d.irl = o.irl
        /\ d.origin = o.origin /\ d.set = Middle(o, a)
    BY <1>1, <1>5 DEF Middle, PredecessorFits
  <2>2. ~ IsRule(d)
    BY <1>2, <2>1 DEF IsRule
  <2>3. /\ Run(s, base, mid, o.origin, Middle(o, a)) /\ Spells(s, o.irl, base, mid)
        /\ LengthFits(d, mid - base)
    BY <2>1, <2>2 DEF Fits
  <2>4. base < mid
    BY <2>3 DEF Run
  <2>5. HasPiece(d) <=> Before
    <3>1. \A p \in PiecePositions(o.irl) : p <= o.position - 1 <=> p < o.position
      BY <1>2, <1>3
    <3> QED
      BY <1>3, <2>1, <3>1 DEF HasPiece
  <2>6. CASE ~ Before
    <3>1. mid - base = d.position
      BY <2>3, <2>5, <2>6 DEF LengthFits
    <3> QED
      BY <1>5, <2>1, <2>3, <2>4, <2>6, <3>1
  <2>7. CASE Before
    <3>1. PICK p \in PiecePositions(o.irl) : p < o.position
      BY <2>7
    <3>2. o.irl \in VirtualRHS /\ o.irl # StartIRL
      BY <1>2, <1>3, <3>1, PiecesAssumption
    <3>3. XRL_of_IRL(o.irl).sequence
      <4>1. ~ XRL_of_IRL(o.irl).sequence => p = Length_of_IRL(o.irl)
        BY <1>2, <3>1, <3>2, SourcesAssumption
      <4> QED
        BY <1>2, <3>1, <4>1
    <3>4. /\ mid - base >= 1
          /\ (mid - base) % ItemSpacing(XRL_of_IRL(o.irl))
                = (o.position - 1) % ItemSpacing(XRL_of_IRL(o.irl))
      <4>1. PICK rule : rule = XRL_of_IRL(o.irl) /\ rule = XRL_of_IRL(d.irl)
        BY <2>1
      <4> QED
        BY <2>1, <2>3, <2>5, <2>7, <3>3, <4>1 DEF LengthFits
    <3> QED
      BY <1>5, <2>3, <2>4, <2>7, <3>2, <3>3, <3>4
  <2> QED
    BY <2>6, <2>7
<1> QED
  BY <1>4, <1>5

LEMMA PieceStartIs == \A irl \in IRLs : PieceStart(irl) \in Nat
  BY ProgressAssumption DEF PieceStart

\* The values of an and-node are those of the part of the rule that its
\* or-node is of.
LEMMA PartFits ==
    ASSUME BocageInv, b_pc = "built", TokensInv, NEW n, NEW o, NEW a, Visited(n, o, a),
           NEW s, NEW base \in Nat, NEW mid \in Nat, NEW top \in Nat,
           PredecessorFits(s, a, base, mid),
           SymbolFits(s, o, a, mid, top)
    PROVE  /\ Run(s, base, top, o.origin, o.set) /\ Spells(s, o.irl, base, top)
           /\ LengthFits(o, top - base)
           /\ IF o.position \in PiecePositions(o.irl) THEN mid - base = o.position - 1
              ELSE top = mid + 1
<1> DEFINE Piece == o.position \in PiecePositions(o.irl)
           Before == \E p \in PiecePositions(o.irl) : p < o.position
           q == a.cause.irl
           rule == XRL_of_IRL(o.irl)
<1>1. /\ o \in ORs /\ o.irl \in IRLs /\ o.position \in 1 .. Length_of_IRL(o.irl)
      /\ Length_of_IRL(o.irl) \in Nat /\ o.position \in Nat
  BY GrammarAssumption DEF Visited, ORs, Length_of_IRL
<1>2. /\ base <= mid
      /\ a.predecessor = NoOR => base = mid /\ o.position = 1 /\ Middle(o, a) = o.origin
      /\ a.predecessor # NoOR =>
            Run(s, base, mid, o.origin, Middle(o, a)) /\ Spells(s, o.irl, base, mid)
      /\ IF Before
         THEN /\ o.irl \in VirtualRHS /\ o.irl # StartIRL /\ rule.sequence
              /\ mid - base >= 1
              /\ (mid - base) % ItemSpacing(rule) = (o.position - 1) % ItemSpacing(rule)
         ELSE mid - base = o.position - 1
  BY PartBefore DEF PredecessorFits
<1>3. Piece => /\ q \in IRLs /\ a.cause \in ORs /\ LHSID_of_IRL[q] = RHS_of_IRL[o.irl][o.position]
               /\ a.cause.position = Length_of_IRL(q)
               /\ a.cause.origin = Middle(o, a) /\ a.cause.set = o.set
  <2>1. Piece => ~ OR_is_Token(a.cause)
    BY CountsOfChildren
  <2> QED
    BY <2>1, CountsOfChildren DEF Visited, Meets, Middle
<1>4. Piece => /\ o.irl \in VirtualRHS /\ o.irl # StartIRL /\ q # StartIRL /\ q \in VirtualLHS
               /\ PiecePositions(o.irl) = {o.position} /\ XRL_of_IRL(q) = rule
               /\ IF rule.sequence THEN o.position = 1 /\ IsItem(rule, Length_of_IRL(q))
                  ELSE /\ o.position = Length_of_IRL(o.irl)
                       /\ PieceStart(q) = PieceStart(o.irl) + o.position - 1
                       /\ q \in VirtualRHS \/ PieceStart(q) + Length_of_IRL(q) = Len(rule.rhs)
  <2> SUFFICES ASSUME Piece
               PROVE  /\ o.irl \in VirtualRHS /\ o.irl # StartIRL /\ q # StartIRL
                      /\ q \in VirtualLHS
                      /\ PiecePositions(o.irl) = {o.position} /\ XRL_of_IRL(q) = rule
                      /\ IF rule.sequence THEN o.position = 1 /\ IsItem(rule, Length_of_IRL(q))
                         ELSE /\ o.position = Length_of_IRL(o.irl)
                              /\ PieceStart(q) = PieceStart(o.irl) + o.position - 1
                              /\ q \in VirtualRHS
                                    \/ PieceStart(q) + Length_of_IRL(q) = Len(rule.rhs)
    OBVIOUS
  <2> QED
    BY <1>1, <1>3, PieceFollows
<1>5. Piece => ~ Before /\ ~ IsRule(a.cause) /\ HasPiece(o)
  BY <1>1, <1>3, <1>4 DEF IsRule, HasPiece
<1>6. Piece => Fits(s, a.cause, mid, top)
  BY DEF SymbolFits
<1>7. ~ Piece => /\ top = mid + 1
                 /\ s[top] = ValueOf(Source_XSY_of_NSY[Symbol_of_OR(o)], Middle(o, a), o.set)
  BY DEF SymbolFits
<1>8. Run(s, mid, top, Middle(o, a), o.set)
  <2>1. CASE Piece
    BY <1>3, <1>6, <2>1 DEF Fits
  <2>2. CASE ~ Piece
    <3>1. s[mid + 1].start = Middle(o, a) /\ s[top].end = o.set
      BY <1>7, <2>2 DEF ValueOf
    <3> QED
      BY <1>7, <2>2, <3>1 DEF Run
  <2> QED
    BY <2>1, <2>2
<1>9. Run(s, base, top, o.origin, o.set)
  <2>1. CASE a.predecessor = NoOR
    BY <1>2, <1>8, <2>1
  <2>2. CASE a.predecessor # NoOR
    BY <1>2, <1>8, <2>2, RunsJoin
  <2> QED
    BY <2>1, <2>2
<1>10. mid < top
  BY <1>8 DEF Run
<1>11. Spells(s, o.irl, base, top)
  <2> SUFFICES ASSUME NEW i \in 1 .. top - base
               PROVE  s[base + i] = ValueOf(SymbolAt(o.irl, i), s[base + i].start, s[base + i].end)
    BY DEF Spells
  <2>1. CASE i <= mid - base
    <3>1. a.predecessor # NoOR /\ i \in 1 .. mid - base
      BY <1>2, <2>1
    <3> QED
      BY <1>2, <3>1 DEF Spells
  <2>2. CASE i > mid - base /\ Piece
    <3>1. PICK j \in 1 .. top - mid : base + i = mid + j
      <4>1. i - (mid - base) \in 1 .. top - mid /\ base + i = mid + (i - (mid - base))
        BY <1>2, <1>10, <2>2
      <4> QED
        BY <4>1
    <3>2. Spells(s, q, mid, top)
      BY <1>5, <1>6, <2>2 DEF Fits
    <3>3. s[mid + j] = ValueOf(SymbolAt(q, j), s[mid + j].start, s[mid + j].end)
      BY <3>1, <3>2 DEF Spells
    <3>4. i = j + o.position - 1
      BY <1>1, <1>2, <1>5, <2>2, <3>1
    <3>5. SymbolAt(q, j) = SymbolAt(o.irl, i)
      <4>1. CASE rule.sequence
        BY <1>4, <2>2, <3>1, <3>4, <4>1 DEF SymbolAt, SymbolFor
      <4>2. CASE ~ rule.sequence
        <5>1. SymbolAt(q, j) = rule.rhs[PieceStart(q) + j]
              /\ SymbolAt(o.irl, i) = rule.rhs[PieceStart(o.irl) + i]
          BY <1>4, <2>2, <4>2 DEF SymbolAt, SymbolFor
        <5>2. PieceStart(q) + j = PieceStart(o.irl) + i
          <6>1. PieceStart(o.irl) \in Nat /\ PieceStart(q) = PieceStart(o.irl) + o.position - 1
            BY <1>1, <1>4, <2>2, <4>2, PieceStartIs
          <6> QED
            BY <1>1, <3>4, <6>1
        <5> QED
          BY <5>1, <5>2
      <4> QED
        BY <4>1, <4>2
    <3> QED
      BY <3>1, <3>3, <3>5
  <2>3. CASE i > mid - base /\ ~ Piece
    <3>1. i = mid - base + 1 /\ base + i = top
      BY <1>2, <1>7, <2>3
    <3>2. PICK l \in Nat : l = mid - base
      BY <1>2
    <3>3. Source_XSY_of_NSY[Symbol_of_OR(o)] = SymbolAt(o.irl, l + 1)
      BY <1>1, <1>2, <2>3, <3>2, SymbolIsNext
    <3>4. s[top] = ValueOf(SymbolAt(o.irl, i), Middle(o, a), o.set)
      BY <1>7, <2>3, <3>1, <3>2, <3>3
    <3> QED
      BY <3>1, <3>4 DEF ValueOf
  <2> QED
    BY <1>2, <2>1, <2>2, <2>3
<1>12. LengthFits(o, top - base)
  <2>1. top - base = (mid - base) + (top - mid)
    BY <1>2, <1>10
  <2>2. CASE Piece
    <3>1. LengthFits(a.cause, top - mid) /\ (HasPiece(a.cause) <=> q \in VirtualRHS)
      BY <1>3, <1>5, <1>6, <2>2, PieceInWhole DEF Fits
    <3>2. CASE ~ rule.sequence
      <4>1. top - mid = Len(rule.rhs) - PieceStart(q)
        <5>1. CASE HasPiece(a.cause)
          BY <1>4, <2>2, <3>1, <3>2, <5>1 DEF LengthFits
        <5>2. CASE ~ HasPiece(a.cause)
          <6>1. top - mid = Length_of_IRL(q)
            BY <1>3, <2>2, <3>1, <5>2 DEF LengthFits
          <6>2. PieceStart(q) + Length_of_IRL(q) = Len(rule.rhs)
            BY <1>4, <2>2, <3>1, <3>2, <5>2
          <6> QED
            BY <1>2, <1>10, <6>1, <6>2, <1>3, <2>2, PieceStartIs
        <5> QED
          BY <5>1, <5>2
      <4>2. mid - base = o.position - 1 /\ PieceStart(q) = PieceStart(o.irl) + o.position - 1
        BY <1>2, <1>4, <1>5, <2>2, <3>2
      <4>3. Len(rule.rhs) \in Nat
        BY <1>1, <1>4, <2>2, <3>2, SourcesAssumption
      <4>4. top - base = Len(rule.rhs) - PieceStart(o.irl)
        <5>1. PICK ps \in Nat, len \in Nat, at \in Nat :
                    ps = PieceStart(o.irl) /\ len = Len(rule.rhs) /\ at = o.position
          BY <1>1, <4>3, PieceStartIs
        <5>2. mid - base = at - 1 /\ top - mid = len - (ps + at - 1)
          BY <4>1, <4>2, <5>1
        <5>3. top - base = len - ps
          BY <5>2
        <5> QED
          BY <5>1, <5>3
      <4> QED
        BY <1>5, <2>2, <3>2, <4>4 DEF LengthFits
    <3>3. CASE rule.sequence
      <4>1. o.position = 1 /\ mid = base /\ IsItem(rule, Length_of_IRL(q))
        BY <1>2, <1>4, <1>5, <2>2, <3>3
      <4>2. top - mid >= 1 /\ (top - mid) % ItemSpacing(rule) = 1 % ItemSpacing(rule)
        <5>1. CASE HasPiece(a.cause)
          <6>1. /\ top - mid >= 1
                /\ (top - mid) % ItemSpacing(rule) = Length_of_IRL(q) % ItemSpacing(rule)
            BY <1>3, <1>4, <2>2, <3>1, <3>3, <5>1 DEF LengthFits
          <6> QED
            BY <4>1, <6>1 DEF IsItem
        <5>2. CASE ~ HasPiece(a.cause)
          <6>1. top - mid = Length_of_IRL(q) /\ top - mid >= 1
            BY <1>3, <1>10, <2>2, <3>1, <5>2 DEF LengthFits
          <6> QED
            BY <4>1, <6>1 DEF IsItem
        <5> QED
          BY <5>1, <5>2
      <4> QED
        BY <1>5, <2>2, <3>3, <4>1, <4>2 DEF LengthFits
    <3> QED
      BY <3>2, <3>3
  <2>3. CASE ~ Piece
    <3>1. HasPiece(o) <=> Before
      <4>1. \A p \in PiecePositions(o.irl) : p <= o.position <=> p < o.position
        BY <1>1, <2>3 DEF PiecePositions
      <4> QED
        BY <1>2, <4>1 DEF HasPiece
    <3>2. top - base = (mid - base) + 1
      BY <1>2, <1>7, <2>3
    <3>3. CASE ~ Before
      <4>1. top - base = o.position
        BY <1>1, <1>2, <3>2, <3>3
      <4> QED
        BY <3>1, <3>3, <4>1 DEF LengthFits
    <3>4. CASE Before
      <4>1. PICK l \in Nat, j \in Nat : l = mid - base /\ j = o.position - 1
        <5>1. mid - base \in Nat /\ o.position - 1 \in Nat
          BY <1>1, <1>2
        <5> QED
          BY <5>1
      <4>2. (l + 1) % ItemSpacing(rule) = (j + 1) % ItemSpacing(rule)
        BY <1>2, <3>4, <4>1, ItemsTakeTurns
      <4>3. l + 1 = top - base /\ j + 1 = o.position
        BY <1>1, <3>2, <4>1
      <4>4. (top - base) % ItemSpacing(rule) = o.position % ItemSpacing(rule)
        BY <4>2, <4>3
      <4> QED
        BY <1>2, <3>1, <3>4, <4>1, <4>3, <4>4 DEF LengthFits
    <3> QED
      BY <3>3, <3>4
  <2> QED
    BY <2>2, <2>3
<1>13. IF o.position \in PiecePositions(o.irl) THEN mid - base = o.position - 1 ELSE top = mid + 1
  BY <1>2, <1>5, <1>7
<1> QED
  BY <1>9, <1>11, <1>12, <1>13

\* The values after the token of a nook, and what a visit does to the values.
PushedBy(o, a) ==
    IF Pushes(a.cause)
    THEN Put(values, ArgNAfter(a),
             ValueOf(Source_XSY_of_NSY[a.cause.nsy],
                     IF a.cause.type = "nulling" THEN o.set ELSE TokenStart(o, a), o.set))
    ELSE values

LEMMA ValuesAfterVisit ==
    ASSUME VisitNook, DataTyped, NEW o, o = nook_stack[v_nook].or,
           NEW a, a = AndOf(nook_stack, v_nook),
           NEW first, first = ArgNAfter(a) - RuleLength(o.irl) + 1
    PROVE  IF IsRule(o)
           THEN /\ values' = Put(PushedBy(o, a), first,
                                 ValueOf(LHS_of_XRL(Source_XRL_of_IRL[o.irl]), o.origin, o.set))
                /\ completed' = [rule |-> Source_XRL_of_IRL[o.irl], start |-> o.origin, end |-> o.set,
                                 arguments |-> Arguments(PushedBy(o, a), first, ArgNAfter(a))]
           ELSE values' = PushedBy(o, a) /\ completed' = completed
<1>1. PICK data : data = TokenData(o, a, DataPopped(o))
  OBVIOUS
<1>2. PICK pushed : pushed = TokenValues_of(o, a, data)
  OBVIOUS
<1>3. /\ values' = IF IsRule(o)
                   THEN Put(pushed, data.arg_n - RuleLength(o.irl) + 1,
                            ValueOf(LHS_of_XRL(Source_XRL_of_IRL[o.irl]), o.origin, o.set))
                   ELSE pushed
      /\ completed' = IF IsRule(o)
                      THEN [rule |-> Source_XRL_of_IRL[o.irl], start |-> o.origin, end |-> o.set,
                            arguments |-> Arguments(pushed, data.arg_n - RuleLength(o.irl) + 1,
                                                    data.arg_n)]
                      ELSE completed
  BY <1>1, <1>2 DEF VisitNook, AndOf, DataPopped, DataEntered, IsRule
<1>4. /\ data.arg_n = ArgNAfter(a)
      /\ OR_is_Token(a.cause) /\ a.cause.type = "valued" => data.token_start = TokenStart(o, a)
  BY <1>1, DataAfterToken
<1>5. Pushes(a.cause) => OR_is_Token(a.cause) /\ a.cause.type \in {"valued", "nulling"}
  BY DEF Pushes
<1>6. pushed = PushedBy(o, a)
  BY <1>2, <1>4, <1>5 DEF TokenValues_of, PushedBy
<1> QED
  BY <1>3, <1>4, <1>6

\* The count of an or-node that has one, when it is of so many values.
CountOf(o, l) == IF o.position = Length_of_IRL(o.irl) THEN l ELSE l - (o.position - 1)

\* Each nook that is visited has its stretch of the values, and its count on
\* the virtual stack is right.
ValuesLaid(n, B, E, C, D, top) ==
    /\ VirtualLaid(n, B, E) /\ Laid(Frontier(n), C, D, top)
    /\ \A k \in Frontier(n) :
          LET o == nook_stack[k].or
          IN  /\ Fits(values, o, C[k], D[k])
              /\ Counted(o) => virtual_stack[E[k]] = CountOf(o, D[k] - C[k])

\* The valuator is at nook n of a whole tree, whose children have what is on top
\* of the two stacks.
WholeForest ==
    /\ b_pc = "built" /\ BocageInv /\ TreeInv /\ CausesAsRead /\ CausesValued /\ TokensInv
    /\ StackInv /\ WholeTree

Visiting(n, o, a, c, j, B, E, C, D, top) ==
    /\ Visited(n, o, a) /\ c \in Nat /\ j \in Nat /\ ChildrenAre(n, c, j)
    /\ virtual_stack \in Seq(Nat) /\ ArgNBefore \in Int /\ top \in Nat /\ top = ArgNBefore + 1
    /\ ValuesLaid(n, B, E, C, D, top)
    /\ \E len \in Nat : DOMAIN values = 1 .. len /\ top <= len

\* The symbol that a nook adds has its value, or the values of its piece, on top
\* of the stack.
LEMMA SymbolOnTop ==
    ASSUME WholeForest, NEW n, NEW o, NEW a, NEW c, NEW j, NEW B, NEW E, NEW C, NEW D, NEW top,
           Visiting(n, o, a, c, j, B, E, C, D, top),
           NEW mid, mid = MidOf(C, c, top), NEW after, after = ArgNAfter(a) + 1,
           NEW pushed, pushed = PushedBy(o, a)
    PROVE  /\ after = IF c = 0 THEN top + 1 ELSE top
           /\ SymbolFits(pushed, o, a, mid, after)
           /\ \A i \in 1 .. top : pushed[i] = values[i]
           /\ \E len \in Nat : DOMAIN pushed = 1 .. len /\ after <= len
<1>0. /\ BocageInv /\ TreeInv /\ CausesAsRead /\ CausesValued /\ TokensInv /\ b_pc = "built"
      /\ StackInv /\ WholeTree
      /\ Visited(n, o, a) /\ c \in Nat /\ j \in Nat /\ ChildrenAre(n, c, j)
      /\ ArgNBefore \in Int /\ top \in Nat /\ top = ArgNBefore + 1 /\ ValuesLaid(n, B, E, C, D, top)
      /\ \E len \in Nat : DOMAIN values = 1 .. len /\ top <= len
  BY DEF WholeForest, Visiting
<1>1. n \in DOMAIN nook_stack /\ a = AndOf(nook_stack, n)
  BY <1>0 DEF Visited
<1>2. Pushes(a.cause) <=> OR_is_Token(a.cause)
  BY <1>0, <1>1, EveryTokenPushes
<1>3. PICK base : base = BaseOf(C, c, j, top)
  OBVIOUS
<1>4. /\ mid \in Nat /\ mid <= top /\ (c = 0 => mid = top)
      /\ c # 0 => C[c] = mid /\ D[c] = top
  <2>1. Laid(Frontier(n), C, D, top)
    BY <1>0 DEF ValuesLaid
  <2> QED
    BY <1>0, <1>1, <1>3, <2>1, LaidVisit
<1>5. /\ c = 0 <=> OR_is_Token(a.cause)
      /\ c # 0 => c \in Frontier(n) /\ nook_stack[c].or = a.cause
  <2>1. 0 \notin Frontier(n)
    BY <1>0, <1>1 DEF Frontier, StackInv
  <2> QED
    BY <1>0, <1>1, <2>1 DEF ChildrenAre
<1>6. CASE c = 0
  <2>1. OR_is_Token(a.cause) /\ Pushes(a.cause) /\ after = top + 1 /\ ArgNAfter(a) = top /\ mid = top
    BY <1>0, <1>2, <1>4, <1>5, <1>6 DEF ArgNAfter
  <2>2. /\ o.position \notin PiecePositions(o.irl) /\ a.cause.nsy = Symbol_of_OR(o)
        /\ a.cause.type = "nulling" => o.set = Middle(o, a)
        /\ TokenStart(o, a) = Middle(o, a)
    BY <1>0, <2>1, CountsOfChildren DEF Visited, Meets, Symbol_of_OR, Middle, TokenStart
  <2>3. PICK y : y = ValueOf(Source_XSY_of_NSY[Symbol_of_OR(o)], Middle(o, a), o.set)
    OBVIOUS
  <2>4. pushed = Put(values, top, y)
    BY <2>1, <2>2, <2>3 DEF PushedBy
  <2>5. /\ pushed[top + 1] = y /\ DOMAIN pushed = 1 .. top + 1
        /\ \A i \in 1 .. top : pushed[i] = values[i]
    BY <1>0, <2>4 DEF Put
  <2> QED
    BY <1>0, <1>4, <1>6, <2>1, <2>2, <2>3, <2>5 DEF SymbolFits
<1>7. CASE c # 0
  <2>1. ~ OR_is_Token(a.cause) /\ after = top /\ pushed = values
    BY <1>0, <1>2, <1>5, <1>7 DEF ArgNAfter, PushedBy
  <2>2. Fits(values, a.cause, mid, top)
    BY <1>0, <1>4, <1>5, <1>7 DEF ValuesLaid
  <2>3. CASE o.position \in PiecePositions(o.irl)
    BY <1>0, <1>7, <2>1, <2>2, <2>3 DEF SymbolFits
  <2>4. CASE o.position \notin PiecePositions(o.irl)
    <3>1. /\ a.cause.irl \in IRLs /\ a.cause.position = Length_of_IRL(a.cause.irl)
          /\ a.cause.irl \notin VirtualLHS
      BY <1>0, <2>1, <2>4, CountsOfChildren DEF Counted
    <3>2. /\ LHSID_of_IRL[a.cause.irl] = Symbol_of_OR(o)
          /\ a.cause.origin = Middle(o, a) /\ a.cause.set = o.set
      BY <1>0, <2>1 DEF Visited, Meets, Symbol_of_OR, Middle
    <3>3. /\ top = mid + 1
          /\ values[top] = ValueOf(LHS_of_XRL(Source_XRL_of_IRL[a.cause.irl]), Middle(o, a), o.set)
      BY <2>2, <3>1, <3>2 DEF Fits, IsRule
    <3>4. a.cause.irl # StartIRL
      BY <3>1, PiecesAssumption
    <3>5. Source_XSY_of_NSY[LHSID_of_IRL[a.cause.irl]] = XRL_of_IRL(a.cause.irl).lhs
      BY <3>1, <3>4, SourcesAssumption
    <3>6. LHS_of_XRL(Source_XRL_of_IRL[a.cause.irl]) = Source_XSY_of_NSY[Symbol_of_OR(o)]
      BY <3>2, <3>5 DEF LHS_of_XRL, XRL_of_IRL
    <3> QED
      BY <1>0, <1>4, <1>7, <2>1, <2>4, <3>3, <3>6 DEF SymbolFits
  <2> QED
    BY <2>3, <2>4
<1> QED
  BY <1>6, <1>7

\* With that the nook has the values of its part of a rule, and the count of the
\* piece in it is on top of the virtual stack.
LEMMA NookGets ==
    ASSUME WholeForest, NEW n, NEW o, NEW a, NEW c, NEW j, NEW B, NEW E, NEW C, NEW D, NEW top,
           Visiting(n, o, a, c, j, B, E, C, D, top),
           NEW base, base = BaseOf(C, c, j, top), NEW after, after = ArgNAfter(a) + 1,
           NEW pushed, pushed = PushedBy(o, a)
    PROVE  /\ base \in Nat /\ base <= top /\ after \in Nat /\ base < after
           /\ Run(pushed, base, after, o.origin, o.set) /\ Spells(pushed, o.irl, base, after)
           /\ LengthFits(o, after - base)
           /\ HasPiece(o) =>
                 virtual_stack[Len(virtual_stack)] = (after - base) - (o.position - 1)
<1>1. /\ BocageInv /\ TokensInv /\ b_pc = "built" /\ StackInv /\ WholeTree
      /\ Visited(n, o, a) /\ c \in Nat /\ j \in Nat /\ ChildrenAre(n, c, j)
      /\ top \in Nat /\ virtual_stack \in Seq(Nat) /\ ValuesLaid(n, B, E, C, D, top)
      /\ n \in DOMAIN nook_stack /\ o \in ORs /\ o.position \in 1 .. Length_of_IRL(o.irl)
      /\ o.irl \in IRLs
  BY DEF WholeForest, Visiting, Visited, ORs
<1>2. PICK mid : mid = MidOf(C, c, top)
  OBVIOUS
<1>3. /\ base \in Nat /\ mid \in Nat /\ base <= mid /\ mid <= top
      /\ j # 0 => C[j] = base /\ D[j] = mid
      /\ j = 0 => base = mid
      /\ c # 0 => C[c] = mid /\ D[c] = top
  <2>1. Laid(Frontier(n), C, D, top)
    BY <1>1 DEF ValuesLaid
  <2> QED
    BY <1>1, <1>2, <2>1, LaidVisit
<1>4. /\ c = 0 <=> OR_is_Token(a.cause)
      /\ c # 0 => c \in Frontier(n) /\ nook_stack[c].or = a.cause
      /\ j = 0 <=> a.predecessor = NoOR
      /\ j # 0 => j \in Frontier(n) /\ nook_stack[j].or = a.predecessor
  <2>1. 0 \notin Frontier(n) /\ a = AndOf(nook_stack, n)
    BY <1>1 DEF Frontier, StackInv, Visited
  <2> QED
    BY <1>1, <2>1 DEF ChildrenAre
<1>5. /\ after = IF c = 0 THEN top + 1 ELSE top
      /\ SymbolFits(pushed, o, a, mid, after)
      /\ \A i \in 1 .. top : pushed[i] = values[i]
  BY <1>2, SymbolOnTop
<1>6. after \in Nat
  BY <1>1, <1>5
<1>7. PredecessorFits(pushed, a, base, mid)
  <2>1. CASE a.predecessor = NoOR
    BY <1>3, <1>4, <2>1 DEF PredecessorFits
  <2>2. CASE a.predecessor # NoOR
    <3>1. Fits(values, a.predecessor, base, mid)
      BY <1>1, <1>3, <1>4, <2>2 DEF ValuesLaid
    <3>2. \A i \in base + 1 .. mid : pushed[i] = values[i]
      BY <1>1, <1>3, <1>5
    <3> QED
      BY <2>2, <3>1, <3>2, FitsElsewhere DEF PredecessorFits
  <2> QED
    BY <2>1, <2>2
<1>8. /\ Run(pushed, base, after, o.origin, o.set) /\ Spells(pushed, o.irl, base, after)
      /\ LengthFits(o, after - base)
      /\ IF o.position \in PiecePositions(o.irl) THEN mid - base = o.position - 1
         ELSE after = mid + 1
  BY <1>1, <1>3, <1>5, <1>6, <1>7, PartFits
<1>9. base < after
  BY <1>8 DEF Run
<1>10. ASSUME HasPiece(o)
       PROVE  virtual_stack[Len(virtual_stack)] = (after - base) - (o.position - 1)
  <2>1. PICK b, m : b = BaseOf(B, c, j, Len(virtual_stack)) /\ m = MidOf(B, c, Len(virtual_stack))
    OBVIOUS
  <2>2. /\ b \in Nat /\ m \in Nat
        /\ j # 0 => B[j] = b /\ E[j] = m
        /\ c # 0 => B[c] = m /\ E[c] = Len(virtual_stack)
        /\ c = 0 => m = Len(virtual_stack)
    <3>1. Laid(Frontier(n), B, E, Len(virtual_stack)) /\ Len(virtual_stack) \in Nat
      BY <1>1 DEF ValuesLaid, VirtualLaid
    <3> QED
      BY <1>1, <2>1, <3>1, LaidVisit
  <2>3. \A k \in Frontier(n) :
           /\ E[k] = B[k] + Count(nook_stack[k].or)
           /\ Counted(nook_stack[k].or) =>
                 virtual_stack[E[k]] = CountOf(nook_stack[k].or, D[k] - C[k])
    BY <1>1 DEF ValuesLaid, VirtualLaid
  <2>4. CASE o.position \in PiecePositions(o.irl)
    <3>1. c # 0 /\ Counted(a.cause) /\ a.cause.position = Length_of_IRL(a.cause.irl)
      BY <1>1, <1>4, <2>4, CountsOfChildren
    <3>2. virtual_stack[Len(virtual_stack)] = top - mid
      BY <1>3, <1>4, <2>2, <2>3, <3>1 DEF CountOf
    <3>3. after = top /\ mid - base = o.position - 1
      BY <1>5, <1>8, <2>4, <3>1
    <3>4. (after - base) - (mid - base) = top - mid
      <4>1. \A x, y, z \in Nat : (x - y) - (z - y) = x - z
        OBVIOUS
      <4>2. after = top
        BY <3>3
      <4> QED
        BY <1>1, <1>3, <4>1, <4>2
    <3> QED
      BY <3>2, <3>3, <3>4
  <2>5. CASE o.position \notin PiecePositions(o.irl)
    <3>1. PICK p \in PiecePositions(o.irl) : p <= o.position
      BY <1>10 DEF HasPiece
    <3>2. p < o.position /\ p >= 1 /\ p \in Nat /\ o.position \in Nat
      BY <1>1, <2>5, <3>1 DEF PiecePositions
    <3>3. /\ j # 0 /\ Counted(a.predecessor) /\ a.predecessor.irl = o.irl
          /\ a.predecessor.position = o.position - 1
      <4>1. o.irl \in VirtualRHS /\ \E q \in PiecePositions(o.irl) : q < o.position
        BY <1>10, <3>2 DEF HasPiece
      <4>2. o.position # 1
        BY <3>2
      <4> QED
        BY <1>1, <1>4, <4>1, <4>2, CountsOfChildren
    <3>4. c # 0 => ~ Counted(a.cause)
      BY <1>1, <1>4, <2>5, CountsOfChildren
    <3>5. m = Len(virtual_stack)
      BY <1>4, <2>2, <2>3, <3>4 DEF Count
    <3>6. o.position - 1 # Length_of_IRL(o.irl)
      BY <1>1, <3>2
    <3>7. virtual_stack[Len(virtual_stack)] = (mid - base) - (o.position - 1 - 1)
      BY <1>3, <1>4, <2>2, <2>3, <3>3, <3>5, <3>6 DEF CountOf
    <3>8. after = mid + 1
      BY <1>8, <2>5
    <3>9. (mid - base) - (o.position - 1 - 1) = (after - base) - (o.position - 1)
      BY <1>3, <3>2, <3>8
    <3> QED
      BY <3>7, <3>9
  <2> QED
    BY <2>4, <2>5
<1> QED
  BY <1>1, <1>3, <1>6, <1>8, <1>9, <1>10

\* So a rule takes just what is on its stretch.
LEMMA RuleTakes ==
    ASSUME WholeForest, NEW n, NEW o, NEW a, NEW c, NEW j, NEW B, NEW E, NEW C, NEW D, NEW top,
           Visiting(n, o, a, c, j, B, E, C, D, top), IsRule(o),
           NEW base, base = BaseOf(C, c, j, top), NEW after, after = ArgNAfter(a) + 1
    PROVE  RuleLength(o.irl) = after - base
<1>1. /\ o \in ORs /\ o.irl \in IRLs /\ o.position = Length_of_IRL(o.irl)
      /\ Length_of_IRL(o.irl) \in Nat /\ o.irl \notin VirtualLHS
  BY GrammarAssumption DEF Visiting, Visited, ORs, IsRule, Length_of_IRL
<1>2. PICK pushed : pushed = PushedBy(o, a)
  OBVIOUS
<1>3. /\ base \in Nat /\ after \in Nat /\ LengthFits(o, after - base)
      /\ HasPiece(o) => virtual_stack[Len(virtual_stack)] = (after - base) - (o.position - 1)
  BY <1>2, NookGets
<1>4. HasPiece(o) <=> o.irl \in VirtualRHS
  BY <1>1, PieceInWhole
<1>5. CASE o.irl \in VirtualRHS
  <2>1. o.irl # StartIRL
    BY <1>1, PiecesAssumption
  <2>2. Real_SYM_Count_of_IRL[o.irl] = Length_of_IRL(o.irl) - 1
    BY <1>1, <1>5, <2>1, SourcesAssumption
  <2>3. RuleLength(o.irl) =
           (Length_of_IRL(o.irl) - 1) + ((after - base) - (Length_of_IRL(o.irl) - 1))
    BY <1>1, <1>3, <1>4, <1>5, <2>2 DEF RuleLength
  <2> QED
    BY <1>1, <1>3, <2>3
<1>6. CASE o.irl \notin VirtualRHS
  <2>1. after - base = Length_of_IRL(o.irl)
    BY <1>1, <1>3, <1>4, <1>6 DEF LengthFits
  <2> QED
    BY <1>6, <2>1 DEF RuleLength
<1> QED
  BY <1>5, <1>6

AllThere(s, b, e) == \A i \in b + 1 .. e : i \in DOMAIN s

\* The children of the rule that an or-node completes, from its origin to its set.
ChildrenOf(o, args, len) ==
    /\ SymbolsMatch(External.rules[Source_XRL_of_IRL[o.irl]], SymbolsOf(args))
    /\ args[1].start = o.origin /\ args[len].end = o.set
    /\ \A i \in 1 .. len - 1 : args[i].end = args[i + 1].start

\* What a rule is given matches its right side.
LEMMA ArgumentsMatch ==
    ASSUME NEW o \in ORs, IsRule(o), o.position \in 1 .. Length_of_IRL(o.irl),
           NEW s, NEW b, NEW e, Run(s, b, e, o.origin, o.set), Spells(s, o.irl, b, e),
           LengthFits(o, e - b), AllThere(s, b, e),
           NEW args, args = Arguments(s, b, e - 1), NEW len, len = Len(args)
    PROVE  ChildrenOf(o, args, len)
<1>1. /\ b \in Nat /\ e \in Nat /\ b < e
      /\ s[b + 1].start = o.origin /\ s[e].end = o.set
      /\ \A i \in b + 1 .. e - 1 : s[i].end = s[i + 1].start
  BY DEF Run
<1>2. PICK l \in Nat : l = e - b /\ l >= 1
  <2>1. e - b \in Nat /\ e - b >= 1
    BY <1>1
  <2> QED
    BY <2>1
<1>3. args = [i \in 1 .. l |-> s[b + i]]
  <2>1. (e - 1) - b + 1 = l
    BY <1>1, <1>2
  <2>2. \A i \in 1 .. l : b + i \in DOMAIN s
    <3> SUFFICES ASSUME NEW i \in 1 .. l PROVE b + i \in DOMAIN s
      OBVIOUS
    <3>1. b + i \in b + 1 .. e
      BY <1>1, <1>2
    <3> QED
      BY <3>1 DEF AllThere
  <2> QED
    BY <2>1, <2>2 DEF Arguments
<1>4. DOMAIN args = 1 .. l /\ args \in Seq({s[b + i] : i \in 1 .. l}) /\ len = l
  BY <1>2, <1>3
<1>5. /\ o.irl \in IRLs /\ o.irl \notin VirtualLHS /\ o.irl # StartIRL
      /\ o.position = Length_of_IRL(o.irl) /\ Length_of_IRL(o.irl) \in Nat
  <2>1. o.irl \in IRLs /\ o.irl \notin VirtualLHS /\ o.position = Length_of_IRL(o.irl)
        /\ Length_of_IRL(o.irl) \in Nat
    BY GrammarAssumption DEF ORs, IsRule, Length_of_IRL
  <2> QED
    BY <2>1, PiecesAssumption
<1>6. PICK rule : rule = XRL_of_IRL(o.irl) /\ rule = External.rules[Source_XRL_of_IRL[o.irl]]
  BY DEF XRL_of_IRL
<1>7. PICK symbols : symbols = SymbolsOf(args)
  OBVIOUS
<1>8. symbols = [i \in 1 .. l |-> SymbolFor(o.irl, i)]
  <2>1. \A i \in 1 .. l : args[i].symbol = SymbolFor(o.irl, i)
    <3> SUFFICES ASSUME NEW i \in 1 .. l PROVE args[i].symbol = SymbolFor(o.irl, i)
      OBVIOUS
    <3>1. s[b + i] = ValueOf(SymbolAt(o.irl, i), s[b + i].start, s[b + i].end)
      BY <1>2 DEF Spells
    <3>2. s[b + i].symbol = SymbolAt(o.irl, i)
      BY <3>1 DEF ValueOf
    <3> QED
      BY <1>3, <1>5, <3>2 DEF SymbolAt
  <2> QED
    BY <1>4, <1>7, <2>1 DEF SymbolsOf
<1>9. DOMAIN symbols = 1 .. l /\ symbols \in Seq({SymbolFor(o.irl, i) : i \in 1 .. l})
      /\ Len(symbols) = l
  BY <1>2, <1>8
<1>10. HasPiece(o) <=> o.irl \in VirtualRHS
  BY <1>5, PieceInWhole
<1>11. SymbolsMatch(rule, symbols)
  <2>1. CASE ~ rule.sequence
    <3>1. /\ rule.rhs \in Seq(XSYs) /\ PieceStart(o.irl) = 0
          /\ o.irl \in VirtualRHS \/ PieceStart(o.irl) + Length_of_IRL(o.irl) = Len(rule.rhs)
      BY <1>5, <1>6, <2>1, SourcesAssumption
    <3>2. l = Len(rule.rhs)
      <4>1. CASE HasPiece(o)
        <5>1. l = Len(rule.rhs) - PieceStart(o.irl)
          BY <1>2, <1>6, <2>1, <4>1 DEF LengthFits
        <5> QED
          BY <3>1, <5>1
      <4>2. CASE ~ HasPiece(o)
        BY <1>2, <1>5, <1>10, <3>1, <4>2 DEF LengthFits
      <4> QED
        BY <4>1, <4>2
    <3>3. \A i \in 1 .. l : symbols[i] = rule.rhs[i]
      <4>1. \A i \in 1 .. l : SymbolFor(o.irl, i) = rule.rhs[0 + i]
        BY <1>6, <2>1, <3>1 DEF SymbolFor
      <4> QED
        BY <1>8, <4>1
    <3>4. symbols = rule.rhs
      <4>1. PICK rhs \in Seq(XSYs) : rhs = rule.rhs
        BY <3>1
      <4>2. rhs = [i \in 1 .. l |-> rhs[i]]
        BY <3>2, <4>1
      <4>3. \A i \in 1 .. l : rhs[i] = SymbolFor(o.irl, i)
        BY <1>8, <3>3, <4>1
      <4> QED
        BY <1>8, <4>1, <4>2, <4>3
    <3> QED
      BY <2>1, <3>4 DEF SymbolsMatch
  <2>2. CASE rule.sequence
    <3>1. \A i \in 1 .. l : symbols[i] = IF IsItem(rule, i) THEN rule.rhs[1] ELSE rule.separator
      BY <1>6, <1>8, <2>2 DEF SymbolFor
    <3>2. rule.proper => IsItem(rule, l)
      <4>1. rule.proper => IsItem(rule, Length_of_IRL(o.irl))
        <5>1. \A irl \in IRLs \ {StartIRL} :
                 XRL_of_IRL(irl).sequence /\ (irl \in VirtualLHS \/ XRL_of_IRL(irl).proper)
                 => IsItem(XRL_of_IRL(irl), Length_of_IRL(irl))
          BY SourcesAssumption
        <5> QED
          BY <1>5, <1>6, <2>2, <5>1
      <4>2. IsItem(rule, l) <=> IsItem(rule, Length_of_IRL(o.irl))
        <5>1. CASE HasPiece(o)
          BY <1>2, <1>5, <1>6, <2>2, <5>1 DEF LengthFits, IsItem
        <5>2. CASE ~ HasPiece(o)
          BY <1>2, <1>5, <5>2 DEF LengthFits
        <5> QED
          BY <5>1, <5>2
      <4> QED
        BY <4>1, <4>2
    <3> QED
      BY <1>2, <1>9, <2>2, <3>1, <3>2 DEF SymbolsMatch
  <2> QED
    BY <2>1, <2>2
<1>12. args[1].start = o.origin /\ args[len].end = o.set
  <2>1. b + l = e
    BY <1>1, <1>2
  <2> QED
    BY <1>1, <1>2, <1>3, <1>4, <2>1
<1>13. \A i \in 1 .. len - 1 : args[i].end = args[i + 1].start
  <2> SUFFICES ASSUME NEW i \in 1 .. l - 1 PROVE args[i].end = args[i + 1].start
    BY <1>4
  <2>1. b + i \in b + 1 .. e - 1 /\ b + (i + 1) = (b + i) + 1
    BY <1>1, <1>2
  <2>2. args[i] = s[b + i] /\ args[i + 1] = s[(b + i) + 1]
    BY <1>2, <1>3, <2>1
  <2> QED
    BY <1>1, <2>1, <2>2
<1> QED
  BY <1>6, <1>7, <1>11, <1>12, <1>13 DEF ChildrenOf

\* What a visit leaves on the stack of values is what the nook is to have there.
LEMMA VisitFits ==
    ASSUME WholeForest, NEW n, NEW o, NEW a, NEW c, NEW j, NEW B, NEW E, NEW C, NEW D, NEW top,
           Visiting(n, o, a, c, j, B, E, C, D, top), VisitNook, v_nook = n, DataTyped,
           NEW base, base = BaseOf(C, c, j, top), NEW after, after = ArgNAfter(a) + 1,
           NEW next, next = IF IsRule(o) THEN base + 1 ELSE after
    PROVE  /\ next \in Nat /\ base < next /\ Fits(values', o, base, next)
           /\ \A i \in 1 .. base : values'[i] = values[i]
           /\ \E len \in Nat : DOMAIN values' = 1 .. len /\ next <= len
           /\ DOMAIN v' = DOMAIN NoData
           /\ v'.arg_n = after - 1
           /\ v'.arg_0 = IF IsRule(o) THEN base
                         ELSE IF Pushes(a.cause) THEN after - 1 ELSE v.arg_0
<1>1. /\ o = nook_stack[v_nook].or /\ a = AndOf(nook_stack, v_nook) /\ o \in ORs
      /\ top \in Nat /\ ArgNBefore \in Int
  BY DEF Visiting, Visited
<1>2. PICK pushed : pushed = PushedBy(o, a)
  OBVIOUS
<1>3. PICK mid : mid = MidOf(C, c, top)
  OBVIOUS
<1>4. /\ base \in Nat /\ base <= top /\ after \in Nat /\ base < after
      /\ Run(pushed, base, after, o.origin, o.set) /\ Spells(pushed, o.irl, base, after)
      /\ LengthFits(o, after - base)
  BY <1>2, NookGets
<1>5. /\ \A i \in 1 .. top : pushed[i] = values[i]
      /\ \E len \in Nat : DOMAIN pushed = 1 .. len /\ after <= len
  BY <1>2, <1>3, SymbolOnTop
<1>6. ArgNAfter(a) = after - 1
  BY <1>1 DEF ArgNAfter
<1>7. \A i \in 1 .. base : pushed[i] = values[i]
  BY <1>1, <1>4, <1>5
<1>8. PICK whole : whole = (o.position = Length_of_IRL(o.irl) /\ o.irl \notin VirtualLHS)
  OBVIOUS
<1>9. /\ DOMAIN v' = DOMAIN NoData /\ v'.arg_n = ArgNAfter(a)
      /\ v'.arg_0 = IF whole THEN ArgNAfter(a) - RuleLength(o.irl) + 1
                    ELSE IF Pushes(a.cause) THEN ArgNAfter(a) ELSE v.arg_0
  BY <1>1, <1>8, DataAfterVisit
<1>10. CASE IsRule(o)
  <2>1. RuleLength(o.irl) = after - base
    BY <1>10, RuleTakes
  <2>2. PICK first : first = ArgNAfter(a) - RuleLength(o.irl) + 1
    OBVIOUS
  <2>3. first = base
    <3>1. \A x, y \in Nat : (x - 1) - (x - y) + 1 = y
      OBVIOUS
    <3>2. first = (after - 1) - (after - base) + 1
      BY <1>6, <2>1, <2>2
    <3> QED
      BY <1>4, <3>1, <3>2
  <2>4. PICK y : y = ValueOf(LHS_of_XRL(Source_XRL_of_IRL[o.irl]), o.origin, o.set)
    OBVIOUS
  <2>5. values' = Put(pushed, base, y)
    BY <1>1, <1>2, <1>10, <2>2, <2>3, <2>4, ValuesAfterVisit
  <2>6. /\ DOMAIN values' = 1 .. base + 1 /\ values'[base + 1] = y
        /\ \A i \in 1 .. base : values'[i] = pushed[i]
    BY <1>4, <2>5 DEF Put
  <2>7. next = base + 1 /\ next \in Nat
    BY <1>4, <1>10
  <2>8. y.start = o.origin /\ y.end = o.set
    BY <2>4 DEF ValueOf
  <2>9. Run(values', base, next, o.origin, o.set)
    BY <1>4, <2>6, <2>7, <2>8 DEF Run
  <2>10. Fits(values', o, base, next)
    BY <1>10, <2>4, <2>6, <2>7, <2>9 DEF Fits
  <2>11. v'.arg_0 = base
    BY <1>8, <1>9, <1>10, <2>2, <2>3 DEF IsRule
  <2> QED
    BY <1>4, <1>6, <1>7, <1>9, <1>10, <2>6, <2>7, <2>10, <2>11
<1>11. CASE ~ IsRule(o)
  <2>1. values' = pushed /\ next = after
    <3>1. PICK first : first = ArgNAfter(a) - RuleLength(o.irl) + 1
      OBVIOUS
    <3> QED
      BY <1>1, <1>2, <1>11, <3>1, ValuesAfterVisit
  <2>2. Fits(values', o, base, next)
    BY <1>4, <1>11, <2>1 DEF Fits
  <2>3. v'.arg_0 = IF Pushes(a.cause) THEN after - 1 ELSE v.arg_0
    BY <1>6, <1>8, <1>9, <1>11 DEF IsRule
  <2> QED
    BY <1>4, <1>5, <1>6, <1>7, <1>9, <1>11, <2>1, <2>2, <2>3
<1> QED
  BY <1>10, <1>11

LEMMA VisitKeepsValues ==
    ASSUME WholeForest, NEW n, NEW o, NEW a, NEW c, NEW j, NEW B, NEW E, NEW C, NEW D, NEW top,
           Visiting(n, o, a, c, j, B, E, C, D, top), VisitNook, v_nook = n, DataTyped,
           NEW base, base = BaseOf(C, c, j, top), NEW after, after = ArgNAfter(a) + 1,
           NEW next, next = IF IsRule(o) THEN base + 1 ELSE after,
           NEW low, low = BaseOf(B, c, j, Len(virtual_stack)), NEW G, G = Frontier(n - 1)
    PROVE  ValuesLaid(n - 1, Over(G, B, n, low), Over(G, E, n, low + Count(o)),
                      Over(G, C, n, base), Over(G, D, n, next), next)'
<1> DEFINE b == Over(G, B, n, low)
           e == Over(G, E, n, low + Count(o))
           p == Over(G, C, n, base)
           q == Over(G, D, n, next)
<1>1. /\ BocageInv /\ TokensInv /\ b_pc = "built" /\ StackInv /\ WholeTree
      /\ Visited(n, o, a) /\ c \in Nat /\ j \in Nat /\ ChildrenAre(n, c, j)
      /\ top \in Nat /\ virtual_stack \in Seq(Nat) /\ ValuesLaid(n, B, E, C, D, top)
      /\ VirtualLaid(n, B, E)
      /\ n \in DOMAIN nook_stack /\ o = nook_stack[n].or /\ o \in ORs
      /\ o.position \in 1 .. Length_of_IRL(o.irl) /\ o.irl \in IRLs
  BY DEF WholeForest, Visiting, Visited, ORs, ValuesLaid
<1>2. /\ next \in Nat /\ base < next /\ Fits(values', o, base, next)
      /\ \A i \in 1 .. base : values'[i] = values[i]
  BY VisitFits
<1>3. PICK pushed : pushed = PushedBy(o, a)
  OBVIOUS
<1>4. /\ base \in Nat /\ base <= top /\ after \in Nat /\ base < after /\ LengthFits(o, after - base)
      /\ HasPiece(o) => virtual_stack[Len(virtual_stack)] = (after - base) - (o.position - 1)
  BY <1>3, NookGets
<1>5. Laid(G, p, q, next)
  <2>1. Laid(Frontier(n), C, D, top)
    BY <1>1 DEF ValuesLaid
  <2>2. PICK mid : mid = MidOf(C, c, top)
    OBVIOUS
  <2>3. base <= next
    BY <1>2, <1>4
  <2> QED
    BY <1>1, <1>2, <2>1, <2>2, <2>3, LaidVisit
<1>6. VirtualLaid(n - 1, b, e)'
  BY <1>1, VisitKeepsVirtual
<1>7. nook_stack' = nook_stack
  BY DEF VisitNook, tree, iterator
<1>8. Frontier(n - 1)' = G
  BY <1>7 DEF Frontier
<1>9. /\ low \in Nat /\ Len(virtual_stack) = IF HasPiece(o) THEN low + 1 ELSE low
  BY <1>1, CountOnTop
<1>10. /\ \A i \in 1 .. low : virtual_stack'[i] = virtual_stack[i]
       /\ Counted(o) =>
             virtual_stack'[low + 1] =
                (IF HasPiece(o) THEN virtual_stack[low + 1] ELSE 0)
                + (IF o.position = Length_of_IRL(o.irl) THEN Real_SYM_Count_of_IRL[o.irl] ELSE 0)
  BY <1>1, <1>9, VisitVirtual
<1>11. ASSUME Counted(o)
       PROVE  virtual_stack'[low + Count(o)] = CountOf(o, next - base)
  <2>1. next = after /\ Count(o) = 1 /\ o.position \in Nat
    BY <1>1, <1>11 DEF Counted, IsRule, Count
  <2>2. HasPiece(o) => virtual_stack[low + 1] = (after - base) - (o.position - 1)
    BY <1>4, <1>9
  <2>3. CASE o.position # Length_of_IRL(o.irl)
    <3>1. HasPiece(o)
      BY <1>11, <2>3 DEF Counted
    <3>2. virtual_stack'[low + 1] = ((after - base) - (o.position - 1)) + 0
      BY <1>10, <1>11, <2>2, <2>3, <3>1
    <3> QED
      BY <1>4, <2>1, <2>3, <3>2 DEF CountOf
  <2>4. CASE o.position = Length_of_IRL(o.irl)
    <3>1. o.irl \in VirtualLHS /\ (HasPiece(o) <=> o.irl \in VirtualRHS)
      BY <1>1, <1>11, <2>4, PieceInWhole DEF Counted
    <3>2. Real_SYM_Count_of_IRL[o.irl] = IF HasPiece(o) THEN o.position - 1 ELSE o.position
      <4>1. CASE o.irl = StartIRL
        <5>1. Real_SYM_Count_of_IRL[o.irl] = 1 /\ ~ HasPiece(o)
          BY <1>1, <3>1, <4>1, PiecesAssumption
        <5>2. Length_of_IRL(o.irl) = 1
          BY <1>1, <4>1, StartAssumption DEF Length_of_IRL
        <5> QED
          BY <2>4, <5>1, <5>2
      <4>2. CASE o.irl # StartIRL
        <5>1. Real_SYM_Count_of_IRL[o.irl] =
                 IF o.irl \in VirtualRHS THEN Length_of_IRL(o.irl) - 1 ELSE Length_of_IRL(o.irl)
          BY <1>1, <3>1, <4>2, SourcesAssumption
        <5> QED
          BY <2>4, <3>1, <5>1
      <4> QED
        BY <4>1, <4>2
    <3>3. virtual_stack'[low + 1] = after - base
      <4>1. CASE HasPiece(o)
        <5>1. virtual_stack'[low + 1] = ((after - base) - (o.position - 1)) + (o.position - 1)
          BY <1>10, <1>11, <2>2, <2>4, <3>2, <4>1
        <5> QED
          BY <1>4, <2>1, <5>1
      <4>2. CASE ~ HasPiece(o)
        <5>1. virtual_stack'[low + 1] = 0 + o.position
          BY <1>10, <1>11, <2>4, <3>2, <4>2
        <5>2. after - base = o.position
          BY <1>4, <4>2 DEF LengthFits
        <5> QED
          BY <2>1, <5>1, <5>2
      <4> QED
        BY <4>1, <4>2
    <3> QED
      BY <2>1, <2>4, <3>3 DEF CountOf
  <2> QED
    BY <2>3, <2>4
<1>12. ASSUME NEW k \in G
       PROVE  /\ Fits(values', nook_stack[k].or, p[k], q[k])
              /\ Counted(nook_stack[k].or) =>
                    virtual_stack'[e[k]] = CountOf(nook_stack[k].or, q[k] - p[k])
  <2>1. /\ p[k] = (IF k = n THEN base ELSE C[k]) /\ q[k] = (IF k = n THEN next ELSE D[k])
        /\ b[k] = (IF k = n THEN low ELSE B[k])
        /\ e[k] = (IF k = n THEN low + Count(o) ELSE E[k])
    BY DEF Over
  <2>2. CASE k = n
    BY <1>1, <1>2, <1>11, <2>1, <2>2
  <2>3. CASE k # n
    <3>1. k \in Frontier(n) /\ n \in G /\ n < k /\ k \in Nat
      BY <1>1, <2>3, FrontierMoves
    <3>2. p[n] = base /\ b[n] = low
      BY <3>1 DEF Over
    <3>3. D[k] <= base /\ C[k] \in Nat /\ D[k] \in Nat
      <4> HIDE DEF p, q
      <4>1. /\ p \in [G -> Nat] /\ q \in [G -> Nat] /\ \A i, h \in G : i < h => q[h] <= p[i]
        BY <1>5 DEF Laid
      <4> QED
        BY <2>1, <2>3, <3>1, <3>2, <4>1
    <3>4. E[k] <= low /\ E[k] \in Nat /\ B[k] \in Nat
      <4> HIDE DEF b, e
      <4>1. /\ b \in [G -> Nat] /\ e \in [G -> Nat] /\ \A i, h \in G : i < h => e[h] <= b[i]
        BY <1>6, <1>8 DEF VirtualLaid, Laid
      <4> QED
        BY <2>1, <2>3, <3>1, <3>2, <4>1
    <3>5. /\ Fits(values, nook_stack[k].or, C[k], D[k])
          /\ E[k] = B[k] + Count(nook_stack[k].or)
          /\ Counted(nook_stack[k].or) =>
                virtual_stack[E[k]] = CountOf(nook_stack[k].or, D[k] - C[k])
      BY <1>1, <3>1 DEF ValuesLaid, VirtualLaid
    <3>6. \A i \in C[k] + 1 .. D[k] : values'[i] = values[i]
      BY <1>2, <1>4, <3>3
    <3>7. PICK s, t, x, from, to : /\ s = values /\ t = values' /\ x = nook_stack[k].or
                                   /\ from = C[k] /\ to = D[k]
      OBVIOUS
    <3>8. Fits(t, x, from, to)
      BY <3>5, <3>6, <3>7, FitsElsewhere
    <3>9. Counted(nook_stack[k].or) => E[k] \in 1 .. low
      BY <3>4, <3>5 DEF Count
    <3> QED
      BY <1>10, <2>1, <2>3, <3>5, <3>7, <3>8, <3>9
  <2> QED
    BY <2>2, <2>3
<1> HIDE DEF b, e, p, q
<1>13. ValuesLaid(n - 1, b, e, p, q, next)'
  BY <1>5, <1>6, <1>7, <1>8, <1>12 DEF ValuesLaid
<1> QED
  BY <1>13 DEF b, e, p, q

\* The top of the stack of values, which is where the next one is put.
ValuesTop == IF v_pc = "visit" /\ ~ v_pop THEN v.arg_n + 1 ELSE v.arg_0 + 1

\* While it steps, the stack of values has what the nooks that are visited have
\* put there; in the end it is the value of the start symbol.
ValuesInv ==
    /\ v.arg_0 \in Int /\ v.arg_n \in Int
    /\ v_pc = "idle" /\ v_next = "INITIAL" => v.arg_0 = -1 /\ values = <<>>
    /\ Valuing =>
          /\ ValuesTop \in Nat
          /\ \E len \in Nat : DOMAIN values = 1 .. len /\ ValuesTop <= len
          /\ \E B, E, C, D : ValuesLaid(v_nook, B, E, C, D, ValuesTop)
          /\ v_nook = 0 => v.arg_0 = 0 /\ values[1] = ValueOf(StartXSY, 0, b_end)
    /\ v_pc = "visit" /\ v_nook + 1 \in DOMAIN nook_stack /\ IsRule(nook_stack[v_nook + 1].or)
          => v_pop = TRUE
    /\ WholeParseValued
    /\ ArgumentsAreChildren

LEMMA ValuesLaidStays ==
    ASSUME UNCHANGED <<nook_stack, virtual_stack, values>>,
           NEW n, NEW B, NEW E, NEW C, NEW D, NEW top, ValuesLaid(n, B, E, C, D, top)
    PROVE  ValuesLaid(n, B, E, C, D, top)'
<1>1. VirtualLaid(n, B, E)'
  <2>1. VirtualLaid(n, B, E)
    BY DEF ValuesLaid
  <2>2. PICK m : m = n
    OBVIOUS
  <2> QED
    BY <2>1, <2>2, LaidStays
<1> QED
  BY <1>1 DEF ValuesLaid, Frontier

\* Between two visits the values are as they were.
LEMMA ValuesStay ==
    ASSUME ValuesInv, UNCHANGED <<values, completed, virtual_stack>>,
           v'.arg_0 = v.arg_0, v'.arg_n = v.arg_n,
           Valuing' => /\ Valuing /\ ValuesTop' = ValuesTop
                       /\ UNCHANGED <<v_nook, nook_stack, b_end>>,
           v_pc' = "visit" => v_pop' = TRUE \/ (v_pc = "visit" /\ v_pop' = v_pop),
           v_pc' = "idle" /\ v_next' = "INITIAL" => v_pc = "idle" /\ v_next = "INITIAL",
           Ended' => Ended /\ b_end' = b_end
    PROVE  ValuesInv'
<1>1. Valuing' =>
          /\ ValuesTop' \in Nat
          /\ \E len \in Nat : DOMAIN values' = 1 .. len /\ ValuesTop' <= len
          /\ \E B, E, C, D : ValuesLaid(v_nook, B, E, C, D, ValuesTop)'
          /\ v_nook' = 0 => v'.arg_0 = 0 /\ values'[1] = ValueOf(StartXSY, 0, b_end')
  <2> SUFFICES ASSUME Valuing'
               PROVE  /\ ValuesTop' \in Nat
                      /\ \E len \in Nat : DOMAIN values' = 1 .. len /\ ValuesTop' <= len
                      /\ \E B, E, C, D : ValuesLaid(v_nook, B, E, C, D, ValuesTop)'
                      /\ v_nook' = 0 => v'.arg_0 = 0 /\ values'[1] = ValueOf(StartXSY, 0, b_end')
    OBVIOUS
  <2>1. Valuing /\ ValuesTop' = ValuesTop /\ UNCHANGED <<v_nook, nook_stack, b_end>>
    OBVIOUS
  <2>2. PICK B, E, C, D : ValuesLaid(v_nook, B, E, C, D, ValuesTop)
    BY <2>1 DEF ValuesInv
  <2>3. PICK n, top : n = v_nook /\ top = ValuesTop
    OBVIOUS
  <2>4. ValuesLaid(n, B, E, C, D, top)
    BY <2>2, <2>3
  <2>5. ValuesLaid(n, B, E, C, D, top)'
    BY <2>1, <2>4, ValuesLaidStays
  <2>6. n = v_nook' /\ top = ValuesTop'
    BY <2>1, <2>3
  <2>7. ValuesLaid(v_nook, B, E, C, D, ValuesTop)'
    BY <2>5, <2>6
  <2>8. /\ ValuesTop \in Nat
        /\ \E len \in Nat : DOMAIN values = 1 .. len /\ ValuesTop <= len
        /\ v_nook = 0 => v.arg_0 = 0 /\ values[1] = ValueOf(StartXSY, 0, b_end)
    BY <2>1 DEF ValuesInv
  <2> QED
    BY <2>1, <2>7, <2>8
<1>2. v_pc' = "visit" /\ v_nook' + 1 \in DOMAIN nook_stack' /\ IsRule(nook_stack'[v_nook' + 1].or)
      => v_pop' = TRUE
  <2> SUFFICES ASSUME v_pc' = "visit", v_nook' + 1 \in DOMAIN nook_stack',
                      IsRule(nook_stack'[v_nook' + 1].or)
               PROVE  v_pop' = TRUE
    OBVIOUS
  <2>1. Valuing'
    BY DEF Valuing
  <2> QED
    BY <2>1 DEF ValuesInv
<1>3. WholeParseValued'
  <2> SUFFICES ASSUME Ended' PROVE v'.arg_0 = 0 /\ values'[1] = ValueOf(StartXSY, 0, b_end')
    BY DEF WholeParseValued
  <2> QED
    BY DEF ValuesInv, WholeParseValued
<1>4. ArgumentsAreChildren'
  BY DEF ValuesInv, ArgumentsAreChildren
<1>5. /\ v'.arg_0 \in Int /\ v'.arg_n \in Int
      /\ v_pc' = "idle" /\ v_next' = "INITIAL" => v'.arg_0 = -1 /\ values' = <<>>
  BY DEF ValuesInv
<1> QED
  BY <1>1, <1>2, <1>3, <1>4, <1>5 DEF ValuesInv, IsRule

\* What a nook that is no rule leaves to be reported is its token.
LEMMA TokenVisitPushes ==
    ASSUME VisitNook, DataTyped, NEW o, o = nook_stack[v_nook].or,
           NEW a, a = AndOf(nook_stack, v_nook), ~ IsRule(o), v_pc' = "token"
    PROVE  Pushes(a.cause)
<1>1. PICK data : data = TokenData(o, a, DataPopped(o))
  OBVIOUS
<1>2. v' = data /\ v_pc' = IF v'.rule >= 0 \/ data.token_type # "dummy" THEN "token" ELSE "visit"
  BY <1>1 DEF VisitNook, AndOf, DataPopped, DataEntered, IsRule
<1>3. data.rule = -1 /\ (data.token_type # "dummy" => Pushes(a.cause))
  BY <1>1, DataAfterToken
<1> QED
  BY <1>2, <1>3

\* The arguments of a rule that a visit completes are its children.
LEMMA VisitCompletes ==
    ASSUME WholeForest, NEW n, NEW o, NEW a, NEW c, NEW j, NEW B, NEW E, NEW C, NEW D, NEW top,
           Visiting(n, o, a, c, j, B, E, C, D, top), VisitNook, v_nook = n, DataTyped,
           ArgumentsAreChildren
    PROVE  ArgumentsAreChildren'
<1>1. /\ o = nook_stack[v_nook].or /\ a = AndOf(nook_stack, v_nook) /\ o \in ORs
      /\ o.position \in 1 .. Length_of_IRL(o.irl) /\ top \in Nat /\ ArgNBefore \in Int
  BY DEF Visiting, Visited
<1>2. PICK pushed, base, mid, after, first :
         /\ pushed = PushedBy(o, a) /\ base = BaseOf(C, c, j, top) /\ mid = MidOf(C, c, top)
         /\ after = ArgNAfter(a) + 1 /\ first = ArgNAfter(a) - RuleLength(o.irl) + 1
  OBVIOUS
<1>3. CASE ~ IsRule(o)
  <2>1. completed' = completed
    BY <1>1, <1>2, <1>3, ValuesAfterVisit
  <2> QED
    BY <2>1 DEF ArgumentsAreChildren
<1>4. CASE IsRule(o)
  <2>1. /\ base \in Nat /\ after \in Nat /\ base < after
        /\ Run(pushed, base, after, o.origin, o.set) /\ Spells(pushed, o.irl, base, after)
        /\ LengthFits(o, after - base)
    BY <1>2, NookGets
  <2>2. \E len \in Nat : DOMAIN pushed = 1 .. len /\ after <= len
    BY <1>2, SymbolOnTop
  <2>3. AllThere(pushed, base, after)
    BY <2>1, <2>2 DEF AllThere
  <2>4. first = base
    <3>1. RuleLength(o.irl) = after - base /\ ArgNAfter(a) = after - 1
      BY <1>1, <1>2, <1>4, RuleTakes DEF ArgNAfter
    <3>2. \A x, y \in Nat : (x - 1) - (x - y) + 1 = y
      OBVIOUS
    <3>3. first = (after - 1) - (after - base) + 1
      BY <1>2, <3>1
    <3> QED
      BY <2>1, <3>2, <3>3
  <2>5. ArgNAfter(a) = after - 1
    BY <1>1, <1>2 DEF ArgNAfter
  <2>6. PICK args, len : args = Arguments(pushed, base, after - 1) /\ len = Len(args)
    OBVIOUS
  <2>7. completed' = [rule |-> Source_XRL_of_IRL[o.irl], start |-> o.origin, end |-> o.set,
                      arguments |-> args]
    BY <1>1, <1>2, <1>4, <2>4, <2>5, <2>6, ValuesAfterVisit
  <2>8. ChildrenOf(o, args, len)
    BY <1>1, <1>4, <2>1, <2>3, <2>6, ArgumentsMatch
  <2>9. /\ completed'.rule = Source_XRL_of_IRL[o.irl] /\ completed'.start = o.origin
        /\ completed'.end = o.set /\ completed'.arguments = args
    BY <2>7
  <2> QED
    BY <2>6, <2>8, <2>9 DEF ArgumentsAreChildren, ChildrenOf
<1> QED
  BY <1>3, <1>4

\* The first nook leaves the value of the start symbol, at the first location.
LEMMA FirstNookEnds ==
    ASSUME RecceInv, WholeForest, NEW n, NEW o, NEW a, NEW c, NEW j, NEW B, NEW E, NEW C, NEW D,
           NEW top, Visiting(n, o, a, c, j, B, E, C, D, top), VisitNook, v_nook = n, DataTyped,
           n = 1, v.arg_0 \in Int,
           n + 1 \in DOMAIN nook_stack /\ IsRule(nook_stack[n + 1].or) => v_pop = TRUE,
           NEW base, base = BaseOf(C, c, j, top), NEW after, after = ArgNAfter(a) + 1
    PROVE  v'.arg_0 = 0 /\ values'[1] = ValueOf(StartXSY, 0, b_end)
<1>1. /\ BocageInv /\ TokensInv /\ b_pc = "built" /\ StackInv /\ WholeTree /\ CausesAsRead
      /\ CausesValued /\ TreeInv
      /\ Visited(n, o, a) /\ c \in Nat /\ j \in Nat /\ ChildrenAre(n, c, j)
      /\ ValuesLaid(n, B, E, C, D, top) /\ top \in Nat /\ top = ArgNBefore + 1 /\ ArgNBefore \in Int
      /\ n \in DOMAIN nook_stack /\ o = nook_stack[n].or /\ a = AndOf(nook_stack, n)
  BY DEF WholeForest, Visiting, Visited
<1>2. /\ StartIRL \in IRLs /\ o.irl = StartIRL /\ o.position = 1 /\ Length_of_IRL(StartIRL) = 1
      /\ o.origin = 0 /\ o.set = b_end /\ Frontier(0) = {1}
  BY <1>1, FirstNook
<1>3. StartIRL \in VirtualLHS /\ StartIRL \notin VirtualRHS /\ PiecePositions(StartIRL) = {}
  BY <1>2, PiecesAssumption
<1>4. ~ IsRule(o) /\ ~ HasPiece(o)
  BY <1>2, <1>3 DEF IsRule, HasPiece
<1>5. PICK next : next = IF IsRule(o) THEN base + 1 ELSE after
  OBVIOUS
<1>6. /\ next = after /\ next \in Nat /\ Fits(values', o, base, next)
      /\ v'.arg_0 = IF Pushes(a.cause) THEN after - 1 ELSE v.arg_0
  BY <1>4, <1>5, VisitFits
<1>7. base = 0
  <2>1. PICK low, G : low = BaseOf(B, c, j, Len(virtual_stack)) /\ G = Frontier(n - 1)
    OBVIOUS
  <2>2. Laid(Frontier(n), C, D, top)
    BY <1>1 DEF ValuesLaid
  <2>3. PICK mid : mid = MidOf(C, c, top)
    OBVIOUS
  <2>4. base \in Nat /\ Laid(Frontier(n - 1), Over(Frontier(n - 1), C, n, base),
                             Over(Frontier(n - 1), D, n, base), base)
    BY <1>1, <2>2, <2>3, LaidVisit
  <2>5. Frontier(n - 1) = {1}
    BY <1>2
  <2>6. Over({1}, C, 1, base)[1] = 0
    BY <2>4, <2>5 DEF Laid
  <2> QED
    BY <2>6 DEF Over
<1>8. next = 1
  <2>1. LengthFits(o, next - base)
    BY <1>4, <1>6 DEF Fits
  <2>2. next - base = 1
    BY <1>2, <1>4, <2>1 DEF LengthFits
  <2> QED
    BY <1>6, <1>7, <2>2
<1>9. values'[1] = ValueOf(StartXSY, 0, b_end)
  <2>1. Run(values', 0, 1, o.origin, o.set) /\ Spells(values', o.irl, 0, 1)
    BY <1>4, <1>6, <1>7, <1>8 DEF Fits
  <2>2. values'[0 + 1].start = 0 /\ values'[1].end = b_end
    BY <1>2, <2>1 DEF Run
  <2>3. values'[0 + 1] = ValueOf(SymbolAt(o.irl, 1), values'[0 + 1].start, values'[0 + 1].end)
    BY <2>1 DEF Spells
  <2> QED
    BY <1>2, <2>2, <2>3 DEF SymbolAt
<1>10. v'.arg_0 = 0
  <2>1. CASE Pushes(a.cause)
    BY <1>6, <1>8, <2>1
  <2>2. CASE ~ Pushes(a.cause)
    <3>1. ~ OR_is_Token(a.cause)
      BY <1>1, <2>2, EveryTokenPushes
    <3>2. /\ c = 2 /\ c \in DOMAIN nook_stack /\ nook_stack[c].or = a.cause
      BY <1>1, <3>1 DEF ChildrenAre, Frontier
    <3>3. IsRule(a.cause)
      <4>1. ~ Counted(a.cause) /\ a.cause.position = Length_of_IRL(a.cause.irl)
        BY <1>1, <1>2, <1>3, <3>1, CountsOfChildren
      <4> QED
        BY <4>1 DEF Counted, IsRule
    <3>4. v_pop = TRUE
      BY <3>2, <3>3
    <3>5. ArgNBefore = v.arg_0 /\ ArgNAfter(a) = ArgNBefore
      BY <2>2, <3>4 DEF ArgNBefore, ArgNAfter
    <3> QED
      BY <1>6, <1>8, <2>2, <3>5
  <2> QED
    BY <2>1, <2>2
<1> QED
  BY <1>9, <1>10

LEMMA VisitKeepsValuesInv ==
    ASSUME RecceInv, BocageInv, TreeInv, ShapeInv, CausesAsRead, CausesValued, TokensInv,
           ValuatorInv, DataTyped, ValuesInv, VisitNook,
           UNCHANGED <<vars, bocage, order, t_returned>>
    PROVE  ValuesInv'
<1>1. /\ v_pc = "visit" /\ v_nook > 0 /\ v_nook' = v_nook - 1 /\ v_pc' \in {"visit", "token"}
      /\ UNCHANGED <<tree, v_next>>
  BY DEF VisitNook
<1>2. UNCHANGED <<nook_stack, b_pc, b_end>>
  BY <1>1 DEF tree, iterator, bocage
<1>3. /\ b_pc = "built" /\ v_nook \in Nat /\ v_nook <= Len(nook_stack) /\ virtual_stack \in Seq(Nat)
      /\ t_pc = "ready" /\ parse_count >= 1 /\ ~ t_is_exhausted
  BY <1>1 DEF ValuatorInv, Valuing
<1>4. StackInv /\ WholeTree
  BY <1>3 DEF TreeInv, ShapeInv, WholeTree
<1>5. PICK n \in Nat : n = v_nook /\ n \in DOMAIN nook_stack
  BY <1>1, <1>3, <1>4 DEF StackInv
<1>6. PICK o, a : Visited(n, o, a)
  BY <1>3, <1>5, VisitedIs
<1>7. PICK c \in Nat, j \in Nat : ChildrenAre(n, c, j)
  BY <1>4, <1>5, FrontierMoves
<1>8. Valuing /\ v.arg_0 \in Int /\ v.arg_n \in Int
  BY <1>1 DEF Valuing, ValuesInv
<1>9. PICK top \in Nat : top = ValuesTop
  BY <1>8 DEF ValuesInv
<1>10. PICK B, E, C, D : ValuesLaid(n, B, E, C, D, top)
  BY <1>5, <1>8, <1>9 DEF ValuesInv
<1>11. ArgNBefore \in Int /\ top = ArgNBefore + 1
  BY <1>1, <1>8, <1>9 DEF ValuesTop, ArgNBefore
<1>12. WholeForest
  BY <1>3, <1>4 DEF WholeForest
<1>13. \E len \in Nat : DOMAIN values = 1 .. len /\ top <= len
  BY <1>8, <1>9 DEF ValuesInv
<1>14. Visiting(n, o, a, c, j, B, E, C, D, top)
  BY <1>3, <1>6, <1>7, <1>9, <1>10, <1>11, <1>13 DEF Visiting
<1>15. PICK base, after : base = BaseOf(C, c, j, top) /\ after = ArgNAfter(a) + 1
  OBVIOUS
<1>16. PICK next : next = IF IsRule(o) THEN base + 1 ELSE after
  OBVIOUS
<1>17. /\ next \in Nat /\ base < next
       /\ \E len \in Nat : DOMAIN values' = 1 .. len /\ next <= len
       /\ v'.arg_n = after - 1
       /\ v'.arg_0 = IF IsRule(o) THEN base ELSE IF Pushes(a.cause) THEN after - 1 ELSE v.arg_0
  BY <1>5, <1>12, <1>14, <1>15, <1>16, VisitFits
<1>18. base \in Nat /\ after \in Nat
  <2>1. PICK pushed : pushed = PushedBy(o, a)
    OBVIOUS
  <2> QED
    BY <1>12, <1>14, <1>15, <2>1, NookGets
<1>19. v_pop' = IsRule(o)
  BY <1>5, <1>6 DEF VisitNook, Visited, IsRule
<1>20. ValuesTop' = next
  <2>1. CASE IsRule(o)
    <3>1. v'.arg_0 = base /\ next = base + 1
      BY <1>16, <1>17, <2>1
    <3>2. ValuesTop' = v'.arg_0 + 1
      BY <1>19, <2>1 DEF ValuesTop
    <3> QED
      BY <3>1, <3>2
  <2>2. CASE ~ IsRule(o) /\ v_pc' = "visit"
    <3>1. v'.arg_n = after - 1 /\ next = after
      BY <1>16, <1>17, <2>2
    <3>2. ValuesTop' = v'.arg_n + 1
      BY <1>19, <2>2 DEF ValuesTop
    <3> QED
      BY <1>18, <3>1, <3>2
  <2>3. CASE ~ IsRule(o) /\ v_pc' = "token"
    <3>1. Pushes(a.cause)
      BY <1>5, <1>6, <2>3, TokenVisitPushes DEF Visited
    <3>2. v'.arg_0 = after - 1 /\ next = after
      BY <1>16, <1>17, <2>3, <3>1
    <3>3. ValuesTop' = v'.arg_0 + 1
      BY <2>3 DEF ValuesTop
    <3> QED
      BY <1>18, <3>2, <3>3
  <2> QED
    BY <1>1, <2>1, <2>2, <2>3
<1>21. \E F, H, I, K : ValuesLaid(v_nook, F, H, I, K, ValuesTop)'
  <2>1. PICK low, G : low = BaseOf(B, c, j, Len(virtual_stack)) /\ G = Frontier(n - 1)
    OBVIOUS
  <2>2. ValuesLaid(n - 1, Over(G, B, n, low), Over(G, E, n, low + Count(o)),
                   Over(G, C, n, base), Over(G, D, n, next), next)'
    BY <1>5, <1>12, <1>14, <1>15, <1>16, <2>1, VisitKeepsValues
  <2>3. PICK F, H, I, K : /\ F = Over(G, B, n, low) /\ H = Over(G, E, n, low + Count(o))
                          /\ I = Over(G, C, n, base) /\ K = Over(G, D, n, next)
    OBVIOUS
  <2>4. ValuesLaid(n - 1, F, H, I, K, next)'
    BY <2>2, <2>3
  <2> QED
    BY <1>1, <1>5, <1>20, <2>4
<1>22. v_nook' = 0 => v'.arg_0 = 0 /\ values'[1] = ValueOf(StartXSY, 0, b_end')
  <2> SUFFICES ASSUME n = 1 PROVE v'.arg_0 = 0 /\ values'[1] = ValueOf(StartXSY, 0, b_end')
    BY <1>1, <1>5
  <2>1. n + 1 \in DOMAIN nook_stack /\ IsRule(nook_stack[n + 1].or) => v_pop = TRUE
    BY <1>1, <1>5 DEF ValuesInv
  <2> QED
    BY <1>2, <1>5, <1>8, <1>12, <1>14, <1>15, <2>1, FirstNookEnds
<1>23. v_nook' + 1 \in DOMAIN nook_stack' /\ IsRule(nook_stack'[v_nook' + 1].or) => v_pop' = TRUE
  <2>1. v_nook' + 1 = n /\ nook_stack'[n].or = o
    BY <1>1, <1>2, <1>5, <1>6 DEF Visited
  <2> QED
    BY <1>19, <2>1
<1>24. ArgumentsAreChildren'
  <2>1. ArgumentsAreChildren
    BY DEF ValuesInv
  <2> QED
    BY <1>5, <1>12, <1>14, <2>1, VisitCompletes
<1>25. v'.arg_0 \in Int /\ v'.arg_n \in Int
  BY <1>8, <1>17, <1>18
<1>26. WholeParseValued' /\ ~ (v_pc' = "idle" /\ v_next' = "INITIAL")
  BY <1>1 DEF WholeParseValued, Ended
<1>27. (\A o1 : IsRule(o1)' = IsRule(o1))
  BY DEF IsRule
<1> QED
  BY <1>17, <1>20, <1>21, <1>22, <1>23, <1>24, <1>25, <1>26, <1>27 DEF ValuesInv

LEMMA CallsKeepValues ==
    ASSUME BocageInv, TreeInv, ShapeInv, ValuatorInv, DataTyped, ValuesInv, ValuatorCalls,
           UNCHANGED <<vars, bocage, order, t_returned>>
    PROVE  ValuesInv'
<1>1. UNCHANGED <<b_pc, b_end>>
  BY DEF bocage
<1>2. v.arg_0 \in Int /\ v.arg_n \in Int
  BY DEF ValuesInv
<1>3. CASE ValueNew \/ ValueUnref
  <2>1. /\ v_pc' = "none" \/ (v_pc' = "idle" /\ v_next' = "INITIAL")
        /\ v' = NoData /\ values' = <<>> /\ completed' = NoRule
    BY <1>3 DEF ValueNew, ValueUnref
  <2>2. ~ Valuing' /\ ~ Ended' /\ v_pc' # "visit"
    BY <2>1 DEF Valuing, Ended
  <2>3. v'.arg_0 = -1 /\ v'.arg_n = -1
    BY <2>1 DEF NoData
  <2>4. ArgumentsAreChildren' /\ WholeParseValued'
    BY <2>1, <2>2 DEF ArgumentsAreChildren, WholeParseValued, NoRule
  <2> QED
    BY <2>1, <2>2, <2>3, <2>4 DEF ValuesInv
<1>4. CASE \/ ValuedForce \/ StepInactive
           \/ \E x \in XSYs, value \in BOOLEAN : SymbolIsValuedSet(x, value)
  <2>1. /\ v_pc = "idle"
        /\ UNCHANGED <<tree, v_pc, v_next, v, v_nook, virtual_stack, values, completed>>
    BY <1>4 DEF ValuedForce, StepInactive, StepReturns, SymbolIsValuedSet, history
  <2>2. UNCHANGED nook_stack
    BY <2>1 DEF tree, iterator
  <2>3. (Valuing' => Valuing /\ ValuesTop' = ValuesTop) /\ (Ended' => Ended)
    BY <1>1, <2>1 DEF Valuing, ValuesTop, Ended, O_is_Nulling
  <2> QED
    BY <1>1, <2>1, <2>2, <2>3, ValuesStay
<1>5. CASE StepInitial
  <2>1. /\ v_pc = "idle" /\ v_next = "INITIAL" /\ ~ O_is_Nulling /\ v_nook' = Len(nook_stack)
        /\ v_pc' = "visit" /\ v_pop' = TRUE
        /\ UNCHANGED <<tree, v_next, v, virtual_stack, values, completed>>
    BY <1>5 DEF StepInitial, history
  <2>2. UNCHANGED nook_stack
    BY <2>1 DEF tree, iterator
  <2>3. virtual_stack = <<>> /\ t_pc = "ready" /\ parse_count >= 1 /\ ~ t_is_exhausted
    BY <2>1 DEF ValuatorInv
  <2>4. b_pc = "built"
    BY <2>1, <2>3 DEF TreeInv, HasBocage, O_is_Nulling
  <2>5. nook_stack # <<>> /\ nook_stack \in Seq(NookSet)
    BY <2>3, <2>4 DEF ShapeInv, TreeInv, StackInv
  <2>6. PICK n \in Nat : n = Len(nook_stack) /\ n # 0 /\ DOMAIN nook_stack = 1 .. n
    BY <2>5
  <2>7. Frontier(n) = {}
    BY <2>6 DEF Frontier
  <2>8. PICK none : none = [k \in {} |-> 0]
    OBVIOUS
  <2>9. Laid({}, none, none, 0)
    BY <2>8 DEF Laid
  <2>10. ValuesLaid(n, none, none, none, none, 0)
    BY <2>3, <2>7, <2>9 DEF VirtualLaid, ValuesLaid
  <2>11. ValuesLaid(n, none, none, none, none, 0)'
    BY <2>1, <2>2, <2>10, ValuesLaidStays
  <2>12. v.arg_0 = -1 /\ values = <<>>
    BY <2>1 DEF ValuesInv
  <2>13. ValuesTop' = 0
    BY <2>1, <2>12 DEF ValuesTop
  <2>14. v_nook' = n
    BY <2>1, <2>6
  <2>15. \E B, E, C, D : ValuesLaid(v_nook, B, E, C, D, ValuesTop)'
    BY <2>11, <2>13, <2>14
  <2>16. \E len \in Nat : DOMAIN values' = 1 .. len /\ ValuesTop' <= len
    <3>1. DOMAIN values' = 1 .. 0
      BY <2>1, <2>12
    <3> QED
      BY <2>13, <3>1
  <2>17. ~ Ended' /\ ArgumentsAreChildren'
    BY <2>1 DEF Ended, ValuesInv, ArgumentsAreChildren
  <2> QED
    BY <1>2, <2>1, <2>6, <2>13, <2>14, <2>15, <2>16, <2>17 DEF ValuesInv, WholeParseValued
<1>6. CASE StepGetData \/ StepRule
  <2>1. /\ v_pc = "idle" /\ v_next \in {"GET_DATA", "RULE"} /\ v_pc' \in {"visit", "report"}
        /\ v_pc' = "visit" => v_pop' = TRUE
        /\ UNCHANGED <<tree, v_next, v, v_nook, virtual_stack, values, completed>>
    BY <1>6 DEF StepGetData, StepRule, history
  <2>2. UNCHANGED nook_stack
    BY <2>1 DEF tree, iterator
  <2>3. Valuing /\ ValuesTop' = ValuesTop /\ ~ Ended'
    BY <2>1 DEF Valuing, ValuesTop, Ended
  <2> QED
    BY <1>1, <2>1, <2>2, <2>3, ValuesStay
<1>7. CASE StepNulling
  <2>1. /\ v_pc = "idle" /\ O_is_Nulling /\ v_pc' = "idle" /\ v_next' = "INACTIVE"
        /\ v' = [v EXCEPT !.symbol = StartXSY, !.token_start = 0, !.es = 0,
                          !.result = 0, !.arg_0 = 0, !.arg_n = 0]
        /\ UNCHANGED <<values, completed>>
    BY <1>7 DEF StepNulling, StepReturns, history
  <2>2. v'.arg_0 = 0 /\ v'.arg_n = 0
    BY <2>1 DEF DataTyped, NoData
  <2>3. ~ Valuing' /\ ~ Ended'
    BY <1>1, <2>1 DEF Valuing, Ended, O_is_Nulling
  <2>4. ArgumentsAreChildren'
    BY <2>1 DEF ValuesInv, ArgumentsAreChildren
  <2> QED
    BY <2>1, <2>2, <2>3, <2>4 DEF ValuesInv, WholeParseValued
<1> QED
  BY <1>3, <1>4, <1>5, <1>6, <1>7 DEF ValuatorCalls, StepBegins

LEMMA StepsKeepValues ==
    ASSUME RecceInv, BocageInv, TreeInv, ShapeInv, CausesAsRead, CausesValued, TokensInv,
           ValuatorInv, DataTyped, ValuesInv, ValueSteps,
           UNCHANGED <<vars, bocage, order, t_returned>>
    PROVE  ValuesInv'
<1>1. UNCHANGED <<b_pc, b_end>>
  BY DEF bocage
<1>2. CASE VisitNook
  BY <1>2, VisitKeepsValuesInv
<1>3. CASE VisitEnds
  <2>1. /\ v_pc = "visit" /\ v_nook = 0 /\ v_pc' = "idle" /\ v_next' = "INACTIVE"
        /\ v' = [v EXCEPT !.token_value = -1, !.rule = -1]
        /\ UNCHANGED <<values, completed>>
    BY <1>3 DEF VisitEnds, StepReturns, history
  <2>2. v'.arg_0 = v.arg_0 /\ v'.arg_n = v.arg_n
    BY <2>1 DEF DataTyped, NoData
  <2>3. Valuing /\ ~ Valuing'
    BY <2>1 DEF Valuing
  <2>4. v.arg_0 = 0 /\ values[1] = ValueOf(StartXSY, 0, b_end)
    BY <2>1, <2>3 DEF ValuesInv
  <2>5. ArgumentsAreChildren'
    BY <2>1 DEF ValuesInv, ArgumentsAreChildren
  <2>6. WholeParseValued'
    BY <1>1, <2>1, <2>2, <2>4 DEF WholeParseValued
  <2>7. v.arg_0 \in Int /\ v.arg_n \in Int
    BY DEF ValuesInv
  <2> QED
    BY <2>1, <2>2, <2>3, <2>5, <2>6, <2>7 DEF ValuesInv
<1>4. CASE ReportToken \/ ReportRule
  <2>1. /\ v_pc \in {"token", "report"} /\ v_pc' \in {"report", "visit", "idle"}
        /\ v_next' \in {"GET_DATA", "RULE"} /\ (v_pc' = "visit" => v_pop' = TRUE)
    BY <1>4 DEF ReportToken, ReportRule, StepReturns
  <2>2. UNCHANGED <<tree, v_nook, virtual_stack, values, completed>>
    BY <1>4 DEF ReportToken, ReportRule, history
  <2>3. v' = v \/ v' = [v EXCEPT !.result = v.arg_n] \/ v' = [v EXCEPT !.result = v.arg_0]
    BY <1>4 DEF ReportToken, ReportRule
  <2>4. v'.arg_0 = v.arg_0 /\ v'.arg_n = v.arg_n
    BY <2>3 DEF DataTyped, NoData
  <2>5. UNCHANGED nook_stack
    BY <2>2 DEF tree, iterator
  <2>6. Valuing /\ ValuesTop' = ValuesTop /\ ~ Ended'
    BY <2>1, <2>4 DEF Valuing, ValuesTop, Ended
  <2> QED
    BY <1>1, <2>1, <2>2, <2>4, <2>5, <2>6, ValuesStay
<1> QED
  BY <1>2, <1>3, <1>4 DEF ValueSteps

LEMMA ValuesAlways ==
    ASSUME LeoRulesEndProper, 0 \notin TokenValues
    PROVE  ValuationSpec => []ValuesInv
<1>1. ValuationInit => ValuesInv
  BY DEF ValuationInit, ValueInit, ValuesInv, Valuing, Ended, NoData, NoRule, WholeParseValued,
         ArgumentsAreChildren
<1>2. /\ RecceInv /\ BocageInv /\ TreeInv /\ ShapeInv /\ CausesAsRead /\ CausesValued /\ TokensInv
      /\ ValuatorInv /\ ReportInv /\ ValuesInv /\ [ValuationNext]_valuation
      => ValuesInv'
  <2> SUFFICES ASSUME RecceInv, BocageInv, TreeInv, ShapeInv, CausesAsRead, CausesValued,
                      TokensInv, ValuatorInv, ReportInv, ValuesInv, [ValuationNext]_valuation
               PROVE  ValuesInv'
    OBVIOUS
  <2>0. DataTyped
    BY DEF ReportInv
  <2>1. CASE v_pc \in {"none", "idle"} /\ ForestNext /\ UNCHANGED <<progress, valuator>>
    <3>1. UNCHANGED <<v_pc, v_next, v, v_nook, virtual_stack, v_pop, values, completed>>
      BY <2>1 DEF valuator, history
    <3>2. Valuing' => Valuing /\ ValuesTop' = ValuesTop
      BY <3>1 DEF Valuing, ValuesTop
    <3>3. CASE v_pc = "none"
      <4>1. ~ Valuing' /\ ~ Ended'
        BY <3>1, <3>3 DEF Valuing, Ended
      <4> QED
        BY <3>1, <3>3, <4>1, ValuesStay
    <3>4. CASE v_pc # "none"
      <4>1. pause_counter = 1 /\ t_pc = "ready" /\ parse_count >= 1
        BY <3>4 DEF ValuatorInv
      <4>2. UNCHANGED <<nook_stack, b_pc, b_end>>
        BY <2>1, <4>1, TreeHeld
      <4>3. Ended' => Ended
        BY <3>1, <4>2 DEF Ended, O_is_Nulling
      <4> QED
        BY <2>1, <3>1, <3>2, <4>2, <4>3, ValuesStay
    <3> QED
      BY <3>3, <3>4
  <2>2. CASE UNCHANGED <<forest, valuator>>
    <3>1. UNCHANGED <<v_pc, v_next, v, v_nook, virtual_stack, v_pop, values, completed>>
      BY <2>2 DEF valuator, history
    <3>2. UNCHANGED <<nook_stack, b_pc, b_end>>
      BY <2>2 DEF forest, bocage, tree, iterator
    <3>3. (Valuing' => Valuing /\ ValuesTop' = ValuesTop) /\ (Ended' => Ended)
      BY <3>1, <3>2 DEF Valuing, ValuesTop, Ended, O_is_Nulling
    <3> QED
      BY <3>1, <3>2, <3>3, ValuesStay
  <2>3. CASE (ValuatorCalls \/ ValueSteps) /\ UNCHANGED <<vars, progress, bocage, order, t_returned>>
    BY <2>0, <2>3, CallsKeepValues, StepsKeepValues
  <2> QED
    BY <2>1, <2>2, <2>3 DEF ValuationNext, valuation
<1> QED
  BY <1>1, <1>2, ValuationIsPaused, ForestIsRecce, RecceInvAlways, BocageAlways, CausesAlways,
     CausesValuedAlways, TreeAlways, ShapeAlways, TokensAlways, ValuatorAlways, ReportAlways, PTL
     DEF ValuationSpec

\* The values that a rule is given are those of the symbols of its right side,
\* in the order of the rule, next to each other in the input, and they span what
\* the rule does: however the rewrite has split it into pieces, whichever of its
\* symbols were nulled, and however often the items of a sequence were repeated.
\* Each of them was put where the arguments are, from arg_0 to arg_n, by the step
\* of the child, and no step between them has written over it.  It needs tokens
\* that all have values: one without a value takes no place on the stack, and the
\* rules that are around it are given what is below.
THEOREM RulesTakeTheirChildren ==
    ASSUME LeoRulesEndProper, 0 \notin TokenValues
    PROVE  ValuationSpec => []ArgumentsAreChildren
<1>1. ValuesInv => ArgumentsAreChildren
  BY DEF ValuesInv
<1> QED
  BY <1>1, ValuesAlways, PTL

\* When marpa_v_step has no more to say, the one location of the stack that it
\* leaves is the first, and the value of the start symbol is there, from the
\* first earleme to the Earley set that the bocage was made for.
THEOREM ParsesAreValuedWhole ==
    ASSUME LeoRulesEndProper, 0 \notin TokenValues
    PROVE  ValuationSpec => []WholeParseValued
<1>1. ValuesInv => WholeParseValued
  BY DEF ValuesInv
<1> QED
  BY <1>1, ValuesAlways, PTL
=============================================================================
