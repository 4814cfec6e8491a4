------------------------------ MODULE MarpaTree ------------------------------
(***************************************************************************)
(* The order of a bocage (struct marpa_order) and the tree iterator that   *)
(* runs over it (struct marpa_tree).  A tree is a stack of nooks, each an  *)
(* or-node and the choice of one of its and-nodes; marpa_t_next changes    *)
(* the choice of the topmost nook that has another one, and then finishes  *)
(* the tree with first choices.  The call is one step per nook it looks    *)
(* at.  There is one order and one tree of the bocage.                     *)
(***************************************************************************)
EXTENDS MarpaBocage

CONSTANTS Rank_of_IRL, Rank_of_NSY

ASSUME RankAssumption ==
    Rank_of_IRL \in [IRLs -> Int] /\ Rank_of_NSY \in [NSYs -> Int]

VARIABLES
    o_is_frozen,          \* t_is_frozen
    high_rank_count,      \* t_high_rank_count
    and_node_orderings,   \* t_and_node_orderings, for the or-nodes that have one
    o_metric,             \* t_ambiguity_metric, -1 while it is not known
    t_pc,                 \* "none", "ready", or the part of marpa_t_next that runs
    t_is_exhausted, parse_count, pause_counter,
    nook_stack, nook_worklist, or_node_in_use,
    t_returned,           \* what the last call returned, and the error it set
    parses                \* history: the trees that marpa_t_next has returned

order == <<o_is_frozen, high_rank_count, and_node_orderings, o_metric>>
iterator == <<nook_stack, nook_worklist, or_node_in_use>>
tree == <<t_pc, t_is_exhausted, parse_count, pause_counter, iterator, parses>>

TreeInit ==
    /\ o_is_frozen = FALSE /\ high_rank_count = 1 /\ o_metric = -1
    /\ and_node_orderings = [o \in {} |-> <<>>]
    /\ t_pc = "none" /\ t_is_exhausted = FALSE /\ parse_count = 0 /\ pause_counter = 0
    /\ nook_stack = <<>> /\ nook_worklist = <<>> /\ or_node_in_use = {}
    /\ t_returned = [value |-> 0, error |-> "NONE"]
    /\ parses = {}

HasBocage == b_pc \in {"built", "nulling"}
O_is_Nulling == b_pc = "nulling"
T_Returns(value) == t_returned' = [value |-> value, error |-> "NONE"]
T_Fails(error) == t_returned' = [value |-> -2, error |-> error]

\* No call on the tree is running.
T_Idle == HasBocage /\ t_pc \in {"none", "ready"}

-----------------------------------------------------------------------------
(* Order *)

Rank_of_AND(and) ==
    IF OR_is_Token(and.cause) THEN Rank_of_NSY[and.cause.nsy] ELSE Rank_of_IRL[and.cause.irl]

\* The and-nodes at the places S of a list, the one at place i in front of the
\* one at place j where <<i, j>> is in Before.
Arranged(ands, S, Before) ==
    [n \in 1 .. Cardinality(S) |->
        ands[CHOOSE i \in S : Cardinality({j \in S : <<j, i>> \in Before}) = n - 1]]

\* "Sort work_or_node for high rank only": what is left keeps its order.
HighRankOnly(ands) ==
    LET kept == {i \in DOMAIN ands :
                   \A j \in DOMAIN ands : Rank_of_AND(ands[j]) <= Rank_of_AND(ands[i])}
    IN  Arranged(ands, kept, {p \in kept \X kept : p[1] < p[2]})

\* "Sort work_or_node for rank by rule": an insertion sort, and stable.
RanksBefore(ands) ==
    {p \in (DOMAIN ands) \X (DOMAIN ands) :
        \/ Rank_of_AND(ands[p[1]]) > Rank_of_AND(ands[p[2]])
        \/ Rank_of_AND(ands[p[1]]) = Rank_of_AND(ands[p[2]]) /\ p[1] < p[2]}
RankByRule(ands) == Arranged(ands, DOMAIN ands, RanksBefore(ands))

OrderFrozen ==
    /\ T_Idle /\ o_is_frozen
    /\ T_Fails("ORDER_FROZEN")
    /\ UNCHANGED <<order, tree>>

HighRankOnlySet(count) ==
    /\ T_Idle /\ ~ o_is_frozen
    /\ high_rank_count' = count
    /\ T_Returns(count)
    /\ UNCHANGED <<o_is_frozen, and_node_orderings, o_metric, tree>>

\* marpa_o_rank; a bocage without choices keeps the default order.
OrderRank ==
    /\ T_Idle /\ ~ o_is_frozen
    /\ o_is_frozen' = TRUE
    /\ and_node_orderings' =
          [o \in {p \in or_nodes : Len(dands[p]) > 1} |->
              IF high_rank_count > 0 THEN HighRankOnly(dands[o]) ELSE RankByRule(dands[o])]
    /\ T_Returns(1)
    /\ UNCHANGED <<high_rank_count, o_metric, tree>>

O_is_Default == DOMAIN and_node_orderings = {}

and_order(o) == IF o \in DOMAIN and_node_orderings THEN and_node_orderings[o] ELSE dands[o]
and_order_ix_is_valid(o, ix) == ix < Len(and_order(o))
and_order_get(o, ix) == and_order(o)[ix + 1]

\* The or-nodes that the first choices lead to from the top.
FirstChoices ==
    LET Children(o) == LET and == and_order_get(o, 0) IN {and.predecessor, and.cause} \cap or_nodes
        walked[n \in 0 .. Cardinality(or_nodes)] ==
          IF n = 0 THEN {Top_OR_of_B}
          ELSE LET prior == walked[n - 1]
               IN  prior \cup UNION {Children(o) : o \in prior}
    IN  walked[Cardinality(or_nodes)]

\* Mutant: the bocage's metric is copied in every case.
HighRankMetric_of_B == Ambiguity_Metric_of_B

\* "Compute ambiguity metric of ordering by high rank"
HighRankMetric == IF \E o \in FirstChoices : Len(and_order(o)) > 1 THEN 2 ELSE 1

AmbiguityMetric ==
    /\ T_Idle
    /\ o_is_frozen' = TRUE
    /\ o_metric' =
          IF o_metric >= 0 THEN o_metric
          ELSE IF Ambiguity_Metric_of_B < 2 \/ O_is_Default \/ high_rank_count <= 0
               THEN Ambiguity_Metric_of_B ELSE HighRankMetric
    /\ T_Returns(o_metric')
    /\ UNCHANGED <<high_rank_count, and_node_orderings, tree>>

-----------------------------------------------------------------------------
(* The tree iterator *)

TreeNew ==
    /\ HasBocage /\ t_pc = "none"
    /\ o_is_frozen' = TRUE /\ t_pc' = "ready"
    /\ T_Returns(1)
    /\ UNCHANGED <<high_rank_count, and_node_orderings, o_metric, t_is_exhausted, parse_count,
                   pause_counter, iterator, parses>>

Length_of_OR(o) == o.set - o.origin

\* tree_or_node_try, which or-nodes of length zero are not put through.
Claimable(o) == Length_of_OR(o) # 0 => o \notin or_node_in_use
Claim(o) == IF Length_of_OR(o) # 0 THEN or_node_in_use \cup {o} ELSE or_node_in_use

NewNook(o, parent, is_cause, is_predecessor) ==
    [or |-> o, choice |-> 0, parent |-> parent, is_cause |-> is_cause,
     is_predecessor |-> is_predecessor,
     cause_expanded |-> FALSE, predecessor_expanded |-> FALSE]

\* tree_exhaust
Exhaust ==
    /\ t_is_exhausted' = TRUE /\ t_pc' = "ready"
    /\ nook_stack' = <<>> /\ nook_worklist' = <<>> /\ or_node_in_use' = {}
    /\ t_returned' = [value |-> -1, error |-> "TREE_EXHAUSTED"]
    /\ UNCHANGED <<order, parse_count, pause_counter, parses>>

\* Mutant: only the nook whose choice has changed is looked at.
WorklistOf_top(stack) == <<Len(stack)>>

\* "Finish tree if possible" starts with every nook of the stack to look at.
WorklistOf(stack) == [i \in DOMAIN stack |-> i]

StartFinish(stack) ==
    /\ t_pc' = "finish"
    /\ nook_stack' = stack
    /\ nook_worklist' = WorklistOf(stack)

\* A tree, as the or-nodes in it and what each is split into.
SplitOf(o, and) ==
    [irl |-> o.irl, position |-> o.position, origin |-> o.origin, set |-> o.set,
     middle |-> IF and.predecessor = NoOR THEN o.origin ELSE and.predecessor.set,
     cause |-> IF OR_is_Token(and.cause) THEN <<"token", and.cause.nsy>>
               ELSE <<"rule", and.cause.irl>>]

CurrentTree ==
    {SplitOf(nook_stack[i].or, and_order_get(nook_stack[i].or, nook_stack[i].choice)) :
        i \in DOMAIN nook_stack}

\* What marpa_t_next answers before it looks at the stack.
NextAnswers ==
    /\ t_pc = "ready" /\ UNCHANGED <<order, t_is_exhausted, pause_counter, iterator, t_pc>>
    /\ \/ /\ pause_counter > 0
          /\ T_Fails("TREE_PAUSED") /\ UNCHANGED <<parse_count, parses>>
       \/ /\ pause_counter = 0 /\ t_is_exhausted
          /\ t_returned' = [value |-> -1, error |-> "TREE_EXHAUSTED"]
          /\ UNCHANGED <<parse_count, parses>>
       \/ /\ pause_counter = 0 /\ ~ t_is_exhausted /\ O_is_Nulling /\ parse_count < 1
          /\ parse_count' = parse_count + 1 /\ parses' = parses \cup {{}}
          /\ T_Returns(0)

NullingIsExhausted ==
    /\ t_pc = "ready" /\ pause_counter = 0 /\ ~ t_is_exhausted /\ O_is_Nulling
    /\ parse_count >= 1
    /\ Exhaust

\* "Initialize the tree iterator".  The exit for a top or-node without a choice
\* is left out: every or-node has an and-node, and ranking leaves it one.
InitializeIterator ==
    /\ t_pc = "ready" /\ pause_counter = 0 /\ ~ t_is_exhausted /\ ~ O_is_Nulling
    /\ parse_count < 1 /\ and_order_ix_is_valid(Top_OR_of_B, 0)
    /\ StartFinish(<<NewNook(Top_OR_of_B, 0, FALSE, FALSE)>>)
    /\ or_node_in_use' = or_node_in_use \cup {Top_OR_of_B}
    /\ UNCHANGED <<order, t_is_exhausted, parse_count, pause_counter, t_returned, parses>>

NextIterates ==
    /\ t_pc = "ready" /\ pause_counter = 0 /\ ~ t_is_exhausted /\ ~ O_is_Nulling
    /\ parse_count >= 1
    /\ t_pc' = "iterate"
    /\ UNCHANGED <<order, t_is_exhausted, parse_count, pause_counter, iterator, t_returned,
                   parses>>

\* "Start a new iteration of the tree": the top nook takes its next choice,
\* or is popped and its parent's bit made dirty.
Top == nook_stack[Len(nook_stack)]

NextChoice ==
    /\ t_pc = "iterate" /\ nook_stack # <<>>
    /\ and_order_ix_is_valid(Top.or, Top.choice + 1)
    /\ StartFinish([nook_stack EXCEPT ![Len(nook_stack)] =
          [Top EXCEPT !.choice = @ + 1, !.cause_expanded = FALSE, !.predecessor_expanded = FALSE]])
    /\ UNCHANGED <<order, t_is_exhausted, parse_count, pause_counter, or_node_in_use,
                   t_returned, parses>>

\* Mutant: the or-node of a popped nook stays claimed.
Release_never(o) == or_node_in_use

\* Mutant: a nook without another choice stays on the stack.
WithoutTop_kept(stack) == stack

WithoutTop(stack) == SubSeq(stack, 1, Len(stack) - 1)

\* tree_or_node_release
Release(o) == or_node_in_use \ {o}

PopNook ==
    /\ t_pc = "iterate" /\ nook_stack # <<>>
    /\ ~ and_order_ix_is_valid(Top.or, Top.choice + 1)
    /\ LET rest == WithoutTop(nook_stack)
       IN  nook_stack' =
             [i \in DOMAIN rest |->
                IF i # Top.parent THEN rest[i]
                ELSE [rest[i] EXCEPT
                        !.cause_expanded = @ /\ ~ Top.is_cause,
                        !.predecessor_expanded = @ /\ ~ Top.is_predecessor]]
    /\ or_node_in_use' = Release(Top.or)
    /\ UNCHANGED <<order, t_pc, t_is_exhausted, parse_count, pause_counter, nook_worklist,
                   t_returned, parses>>

IterationEnds == t_pc = "iterate" /\ nook_stack = <<>> /\ Exhaust

\* "Finish tree if possible": the top nook of the worklist needs its cause,
\* then its predecessor, and then nothing more.
Work == nook_worklist[Len(nook_worklist)]
WorkNook == nook_stack[Work]
WorkAND == and_order_get(WorkNook.or, WorkNook.choice)
NeedsCause == ~ WorkNook.cause_expanded /\ ~ OR_is_Token(WorkAND.cause)
NeedsPredecessor ==
    ~ NeedsCause /\ ~ WorkNook.predecessor_expanded /\ WorkAND.predecessor # NoOR

\* A child is claimed even if it then has no choice; a child that cannot be
\* claimed is part of a cycle, and the tree is given up.
FinishChild(child, is_cause) ==
    LET added == Claimable(child) /\ and_order_ix_is_valid(child, 0)
        work_nook == [WorkNook EXCEPT !.cause_expanded = ~ is_cause \/ added,
                                      !.predecessor_expanded = @ \/ (added /\ ~ is_cause)]
    IN  /\ nook_stack' = [nook_stack EXCEPT ![Work] = work_nook] \o
              (IF added THEN <<NewNook(child, Work, is_cause, ~ is_cause)>> ELSE <<>>)
        /\ nook_worklist' = IF added THEN Append(nook_worklist, Len(nook_stack) + 1)
                            ELSE nook_worklist
        /\ or_node_in_use' = Claim(child)
        /\ t_pc' = IF added THEN "finish" ELSE "iterate"
        /\ UNCHANGED <<order, t_is_exhausted, parse_count, pause_counter, t_returned, parses>>

FinishNook ==
    /\ t_pc = "finish" /\ nook_worklist # <<>>
    /\ \/ NeedsCause /\ FinishChild(WorkAND.cause, TRUE)
       \/ NeedsPredecessor /\ FinishChild(WorkAND.predecessor, FALSE)

NookIsFinished ==
    /\ t_pc = "finish" /\ nook_worklist # <<>> /\ ~ NeedsCause /\ ~ NeedsPredecessor
    /\ nook_stack' = [nook_stack EXCEPT ![Work] =
          [@ EXCEPT !.cause_expanded = TRUE, !.predecessor_expanded = TRUE]]
    /\ nook_worklist' = WithoutTop(nook_worklist)
    /\ UNCHANGED <<order, t_pc, t_is_exhausted, parse_count, pause_counter, or_node_in_use,
                   t_returned, parses>>

TreeIsFinished ==
    /\ t_pc = "finish" /\ nook_worklist = <<>>
    /\ t_pc' = "ready" /\ parse_count' = parse_count + 1
    /\ parses' = parses \cup {CurrentTree}
    /\ T_Returns(Len(nook_stack))
    /\ UNCHANGED <<order, t_is_exhausted, pause_counter, iterator>>

-----------------------------------------------------------------------------
OrderCalls ==
    \/ OrderFrozen \/ OrderRank \/ AmbiguityMetric
    \/ \E count \in {0, 1} : HighRankOnlySet(count)

TreeCalls == TreeNew \/ NextAnswers \/ NullingIsExhausted \/ InitializeIterator \/ NextIterates

TreeSteps ==
    \/ NextChoice \/ PopNook \/ IterationEnds
    \/ FinishNook \/ NookIsFinished \/ TreeIsFinished

-----------------------------------------------------------------------------
(* The recognizer, one bocage of it, its order and its tree.  A call that has
   begun ends before another one begins. *)

forest == <<vars, bocage, order, tree, t_returned>>

ForestInit == Init /\ BocageInit /\ TreeInit

RecceCalls ==
    /\ b_pc \notin {"or-nodes", "drafts"} /\ t_pc \in {"none", "ready"}
    /\ Next
    /\ UNCHANGED <<bocage, order, tree, t_returned>>

ForestNext ==
    \/ RecceCalls
    \/ (BocageCalls \/ BocageSteps) /\ UNCHANGED <<vars, order, tree, t_returned>>
    \/ pc = "idle" /\ (OrderCalls \/ TreeCalls \/ TreeSteps) /\ UNCHANGED <<vars, bocage>>

ForestSpec == ForestInit /\ [][ForestNext]_forest

-----------------------------------------------------------------------------
(* Properties *)

\* marpa_t_next returns: iterating, pruning cycles and finishing end, for all
\* the work that each tree begun and given up costs.
TreeNextReturns == t_pc \in {"iterate", "finish"} ~> t_pc = "ready"

\* An or-node of some length is in use if and only if one nook of the stack
\* has it, the only one; a popped nook never takes the or-node of another
\* out of use, and a tree that was given up leaves none in use.
Nooks(o) == {i \in DOMAIN nook_stack : nook_stack[i].or = o}

InUseExact ==
    t_pc # "none" =>
        \A o \in or_nodes : Length_of_OR(o) # 0 =>
            Cardinality(Nooks(o)) = (IF o \in or_node_in_use THEN 1 ELSE 0)
=============================================================================
