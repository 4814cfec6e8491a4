----------------------------- MODULE MarpaBocage -----------------------------
(***************************************************************************)
(* The bocage of libmarpa (struct marpa_bocage): the parse forest that     *)
(* marpa_b_new builds from the links of a recognizer's Earley items.  Its  *)
(* or-nodes stand for dotted rules over a stretch of the input, its        *)
(* and-nodes for the ways to split one into a predecessor and a cause.     *)
(*                                                                         *)
(* The call is one step per Earley item or Leo path it works on, in the    *)
(* order of the code: the Earley sets one after the other, in each set     *)
(* first the or-nodes and then the draft and-nodes.  The order of the      *)
(* items of a set and of the links of an item is left open.  Earley sets   *)
(* are named by their earlemes.                                            *)
(***************************************************************************)
EXTENDS MarpaRecce

CONSTANTS
    NullableStart,        \* XSY_is_Nullable of the start symbol
    AnyItemOrder          \* whether the items of a set come in any order, or in one

ASSUME BocageAssumption == NullableStart \in BOOLEAN /\ AnyItemOrder \in BOOLEAN

\* The rule that augments the grammar has one symbol.
ASSUME StartAssumption == StartIRL \in IRLs => Len(RHS_of_IRL[StartIRL]) = 1

VARIABLES
    b_pc,                 \* the phase of marpa_b_new, "none" before it is called
    b_end,                \* end_of_parse_earley_set
    b_set,                \* work_earley_set_ordinal
    b_todo,               \* the items of the set that the phase has not reached
    b_path,               \* the LIMs whose Leo path or-nodes are still to be made
    b_item, b_links,      \* the item whose links are read, and those not read yet
    psi,                  \* OR_by_PSI, for the items that are marked
    or_nodes,             \* t_or_nodes
    dands,                \* or-node -> its draft and-nodes; in the end its and-nodes
    b_valued,             \* t_valued_bv
    b_locked              \* t_valued_locked_bv

bocage == <<b_pc, b_end, b_set, b_todo, b_path, b_item, b_links, psi, or_nodes, dands, b_valued,
            b_locked>>

-----------------------------------------------------------------------------
(* Or-nodes.  An or-node is found through the PSL of an Earley set, at its
   symbol instance, that is at its IRL and position; in the code and here it
   is the origin's PSL for all but some nulling or-nodes of Leo paths. *)

Length_of_IRL(irl) == Len(RHS_of_IRL[irl])
NoOR == [irl |-> NoIRL, position |-> 0, origin |-> NoEarleme, set |-> NoEarleme,
         psl |-> NoEarleme]
NoYIM == [ahm |-> [irl |-> NoIRL, dot |-> 0], origin |-> NoEarleme]

\* A token in the role of a cause; nulling tokens have no value.
TokenCause(type, nsy, value) == [type |-> type, nsy |-> nsy, value |-> value]
NullingToken(nsy) == TokenCause("nulling", nsy, 0)
OR_is_Token(cause) == "type" \in DOMAIN cause

\* Null_Count_of_AHM, and the position of the AHM's symbol instance, which is
\* 0 where SYMI_of_AHM is -1.
Null_Count_of_AHM(ahm) == Cardinality(NulledBeforeDot(ahm))
ProperPosition(ahm) == ahm.dot - Null_Count_of_AHM(ahm)
Last_Proper_Position(irl) ==
    ProperPosition([irl |-> irl, dot |-> Length_of_IRL(irl)])

YIM_was_Predicted(yim) ==
    /\ yim.ahm = First_AHM_of_IRL(yim.ahm.irl)
    /\ yim.ahm.irl # StartIRL

-----------------------------------------------------------------------------
(* The source links of an item of an Earley set. *)

TokenLinksOf(e, y) == {l \in token_links : l.at = e /\ l.yim = y}
CompletionLinksOf(e, y) == {l \in completion_links : l.at = e /\ l.yim = y}
LeoLinksOf(e, y) == {l \in leo_links : l.at = e /\ l.yim = y}

\* The LIMs on the Leo paths that end in the item.
LeoPathsOf(e, y) == LeoPathsFrom({l.predecessor : l \in LeoLinksOf(e, y)})

-----------------------------------------------------------------------------
(* "Populate the PSI data": the ur-nodes, which are the items that the start
   item derives.  Predictions are marked only if nulling symbols precede
   their dot, and then for the sake of those symbols. *)

UrChildren(u) ==
    LET completions_of == CompletionLinksOf(u[1], u[2])
        leos_of == LeoLinksOf(u[1], u[2])
        children ==
          {<<l.token.start, l.predecessor>> : l \in TokenLinksOf(u[1], u[2])}
          \cup {<<u[1], l.cause>> : l \in completions_of} \cup {<<u[1], l.cause>> : l \in leos_of}
          \cup {<<l.cause.origin, l.predecessor>> : l \in completions_of}
          \cup {<<k[1], lims[k].trailhead>> : k \in LeoPathsOf(u[1], u[2])}
    IN  {c \in children : YIM_was_Predicted(c[2]) => Null_Count_of_AHM(c[2].ahm) > 0}

UrNodes(start) ==
    LET U == Earlemes \X YIMs
    IN  Fixpoint(U, [S \in SUBSET U |-> UNION {UrChildren(u) : u \in S}], {start})

-----------------------------------------------------------------------------
BocageInit ==
    /\ b_pc = "none" /\ b_end = NoEarleme /\ b_set = NoEarleme
    /\ b_todo = {} /\ b_path = {} /\ b_item = NoYIM /\ b_links = {}
    /\ psi = [u \in {} |-> NoOR] /\ or_nodes = {} /\ dands = [o \in {} |-> <<>>]
    /\ b_valued = {} /\ b_locked = {}

\* "Find start_yim": the search stops at a completed start rule, for the
\* start rule has one symbol; only set 0 has its initial item as well.
StartYIMs(e) ==
    {y \in yims[e] : y.origin = 0 /\ ~ YIM_was_Predicted(y) /\ y.ahm.irl = StartIRL}

\* marpa_b_new returns NULL: there is no set at the end of the parse, or
\* nothing of the start symbol ends there.
BocageNoParse(e) ==
    /\ pc = "idle" /\ input_phase # "before" /\ b_pc = "none"
    /\ \/ e \notin earley_sets
       \/ ~ G_is_Trivial /\ e = 0 /\ ~ NullableStart
       \/ ~ G_is_Trivial /\ e # 0 /\ StartYIMs(e) = {}
    /\ b_pc' = "no parse"
    /\ UNCHANGED <<b_end, b_set, b_todo, b_path, b_item, b_links, psi, or_nodes, dands, b_valued,
                   b_locked>>

BocageNulling(e) ==
    /\ pc = "idle" /\ input_phase # "before" /\ b_pc = "none"
    /\ e \in earley_sets /\ e = 0 /\ (G_is_Trivial \/ NullableStart)
    /\ b_pc' = "nulling" /\ b_end' = 0 /\ b_valued' = valued.valued /\ b_locked' = valued.locked
    /\ UNCHANGED <<b_set, b_todo, b_path, b_item, b_links, psi, or_nodes, dands>>

BocageBegins(e) ==
    /\ pc = "idle" /\ input_phase # "before" /\ b_pc = "none"
    /\ e \in earley_sets \ {0} /\ ~ G_is_Trivial
    /\ \E start \in StartYIMs(e) : psi' = [u \in UrNodes(<<e, start>>) |-> NoOR]
    /\ b_pc' = "or-nodes" /\ b_end' = e /\ b_valued' = valued.valued /\ b_locked' = valued.locked
    /\ b_set' = 0 /\ b_todo' = {u[2] : u \in {v \in DOMAIN psi' : v[1] = 0}}
    /\ UNCHANGED <<b_path, b_item, b_links, or_nodes, dands>>

-----------------------------------------------------------------------------
(* Or-nodes of the work Earley set *)

\* What may come next of what is left, a bound on the orders that TLC looks at.
NextOf(left) == IF AnyItemOrder \/ left = {} THEN left ELSE {CHOOSE x \in left : TRUE}

\* PSL_Datum, as far as it is of the work set.  A datum left from another set
\* is not told from none: nothing is to read one.
or_by_origin_and_symi(origin, irl, position) ==
    LET found == {o \in or_nodes : /\ o.set = b_set /\ o.psl = origin
                                   /\ o.irl = irl /\ o.position = position}
    IN  IF found = {} THEN NoOR ELSE CHOOSE o \in found : TRUE

\* The main or-node at position p, unless p is 0, and one for each of the n
\* nulling symbols that follow it, with its one draft and-node.  Those that
\* exist are left as they are, and so is last_or_node.
AddNodes(irl, p, n, origin, null_psl) ==
    LET PSL_at(q) == IF q = p THEN origin ELSE null_psl
        Node(q) == [irl |-> irl, position |-> q, origin |-> origin, set |-> b_set,
                    psl |-> PSL_at(q)]
        new == {q \in p .. p + n : q > 0 /\ or_by_origin_and_symi(PSL_at(q), irl, q) = NoOR}
        last_or_node(q) ==
            IF \E r \in new : r < q
            THEN Node(CHOOSE r \in new : r < q /\ \A s \in new : s < q => s <= r)
            ELSE NoOR
        DANDs_at(q) ==
            IF q = p THEN <<>>
            ELSE <<[predecessor |-> last_or_node(q), cause |-> NullingToken(RHS_of_IRL[irl][q])]>>
    IN  /\ or_nodes' = or_nodes \cup {Node(q) : q \in new}
        /\ dands' = [o \in or_nodes' |-> IF o \in or_nodes THEN dands[o]
                                         ELSE DANDs_at(o.position)]

\* "Create the or-nodes for work_earley_item": its own, and then those of the
\* Leo paths that end in it, without the one of the path's top, which is its own.
CreateOrNodes ==
    /\ b_pc = "or-nodes" /\ b_path = {}
    /\ \E y \in NextOf(b_todo) :
          LET p == ProperPosition(y.ahm)
              n == Null_Count_of_AHM(y.ahm)
          IN  /\ b_todo' = b_todo \ {y}
              /\ AddNodes(y.ahm.irl, p, n, y.origin, y.origin)
              /\ psi' = [psi EXCEPT ![<<b_set, y>>] =
                    IF p + n = 0 THEN NoOR
                    ELSE [irl |-> y.ahm.irl, position |-> p + n, origin |-> y.origin,
                          set |-> b_set, psl |-> y.origin]]
              /\ b_path' = {k \in LeoPathsOf(b_set, y) : lims[k].predecessor # NoLIM}
    /\ UNCHANGED <<b_pc, b_end, b_set, b_item, b_links, b_valued, b_locked>>

\* "Add Leo path nulling token or-nodes" looks in the PSL of the work set and
\* stores there, not in the one of the path item's origin.
Leo_null_psl(origin) == b_set

CreateLeoPathOrNodes ==
    /\ b_pc = "or-nodes"
    /\ \E k \in NextOf(b_path) :
          LET path_ahm == Trailhead_AHM_of_LIM(k)
              origin == lims[k].predecessor[1]
          IN  /\ AddNodes(path_ahm.irl, ProperPosition(path_ahm), Null_Count_of_AHM(path_ahm),
                          origin, Leo_null_psl(origin))
              /\ b_path' = b_path \ {k}
    /\ UNCHANGED <<b_pc, b_end, b_set, b_todo, b_item, b_links, psi, b_valued, b_locked>>

OrNodesEnd ==
    /\ b_pc = "or-nodes" /\ b_path = {} /\ b_todo = {}
    /\ b_pc' = "drafts"
    /\ b_todo' = {u[2] : u \in {v \in DOMAIN psi : v[1] = b_set}}
    /\ UNCHANGED <<b_end, b_set, b_path, b_item, b_links, psi, or_nodes, dands, b_valued, b_locked>>

-----------------------------------------------------------------------------
(* Draft and-nodes of the work Earley set *)

set_or_from_yim(e, yim) == IF <<e, yim>> \in DOMAIN psi THEN psi[<<e, yim>>] ELSE NoOR

\* An item before whose dot there is nothing has no or-node.
safe_or_from_yim(e, yim) == IF yim.ahm.dot < 1 THEN NoOR ELSE set_or_from_yim(e, yim)

\* "Reset or_node to proper predecessor": from a nulling or-node back to the
\* one that has its draft and-nodes still to come, if there is one.
ResetOR(or) ==
    IF or = NoOR \/ dands[or] = <<>> THEN or
    ELSE LET predecessor == dands[or][1].predecessor
         IN  IF predecessor # NoOR /\ predecessor.set # b_set THEN or ELSE predecessor

ProperPredecessor(or_node) ==
    LET reset[n \in 0 .. or_node.position] == IF n = 0 THEN or_node ELSE ResetOR(reset[n - 1])
    IN  reset[or_node.position]

DANDs_are_equal(a, b) ==
    /\ OR_is_Token(a.cause) <=> OR_is_Token(b.cause)
    /\ a.predecessor.set = b.predecessor.set
    /\ IF OR_is_Token(a.cause) THEN a.cause.nsy = b.cause.nsy ELSE a.cause.irl = b.cause.irl

\* Mutant: the paths of two Leo links are entered twice where they overlap.
dand_is_duplicate_never(or_node, dand) == FALSE

dand_is_duplicate(or_node, dand) ==
    \E i \in DOMAIN dands[or_node] : DANDs_are_equal(dand, dands[or_node][i])

\* draft_and_node_add puts a new draft and-node in front of the others.
draft_and_node_add(or_node, dand) ==
    dands' = [dands EXCEPT ![or_node] = <<dand>> \o @]

\* The links of an item, by the kinds in the order they are read.
SourceLinks(e, y) ==
    {<<"leo", l>> : l \in LeoLinksOf(e, y)}
    \cup {<<"token", l>> : l \in TokenLinksOf(e, y)}
    \cup {<<"completion", l>> : l \in CompletionLinksOf(e, y)}

NextLink(kind, l) ==
    /\ b_pc = "drafts" /\ <<kind, l>> \in b_links
    /\ kind # "leo" => \A k \in b_links : k[1] # "leo"
    /\ kind = "completion" => \A k \in b_links : k[1] # "token"
    /\ b_links' = b_links \ {<<kind, l>>}
    /\ UNCHANGED <<b_pc, b_end, b_set, b_todo, b_path, b_item, psi, or_nodes, b_valued, b_locked>>

work_proper_or_node ==
    or_by_origin_and_symi(b_item.origin, b_item.ahm.irl, ProperPosition(b_item.ahm))

BeginDrafts ==
    /\ b_pc = "drafts" /\ b_links = {}
    /\ \E y \in NextOf(b_todo) :
          /\ b_todo' = b_todo \ {y}
          /\ b_item' = y
          /\ b_links' = IF ProperPredecessor(psi[<<b_set, y>>]) = NoOR THEN {}
                        ELSE SourceLinks(b_set, y)
    /\ UNCHANGED <<b_pc, b_end, b_set, b_path, psi, or_nodes, dands, b_valued, b_locked>>

\* "Add draft and-nodes for chain starting with leo_predecessor": the
\* or-nodes of the path, the top one that of the item itself, each with its
\* draft and-node, whose cause is the or-node below it.
LeoPathOr(k) ==
    LET base == lims[k].trailhead
    IN  IF lims[k].predecessor = NoLIM THEN work_proper_or_node
        ELSE or_by_origin_and_symi(base.origin, base.ahm.irl, Last_Proper_Position(base.ahm.irl))

\* Mutant: all the and-nodes of the path have the cause of the bottom one.
LeoPathDAND_of_bottom(k, l) ==
    [predecessor |-> set_or_from_yim(k[1], lims[k].trailhead),
     cause |-> set_or_from_yim(b_set, l.cause)]

LeoPathDAND(k, l) ==
    [predecessor |-> set_or_from_yim(k[1], lims[k].trailhead),
     cause |-> IF k = l.predecessor THEN set_or_from_yim(b_set, l.cause)
               ELSE LET previous == CHOOSE j \in LeoPathsFrom({l.predecessor}) :
                                        lims[j].predecessor = k
                        previous_path_irl == lims[previous].trailhead.ahm.irl
                    IN  or_by_origin_and_symi(k[1], previous_path_irl,
                                              Length_of_IRL(previous_path_irl))]

CreateLeoDrafts ==
    \E l \in leo_links :
        /\ NextLink("leo", l)
        /\ LET New(o) == {k \in LeoPathsFrom({l.predecessor}) :
                            LeoPathOr(k) = o /\ ~ dand_is_duplicate(o, LeoPathDAND(k, l))}
           IN dands' = [o \in or_nodes |->
                  IF New(o) = {} THEN dands[o]
                  ELSE <<LeoPathDAND(CHOOSE k \in New(o) : TRUE, l)>> \o dands[o]]

CreateTokenDraft ==
    \E l \in token_links :
        /\ NextLink("token", l)
        /\ draft_and_node_add(work_proper_or_node,
              [predecessor |-> safe_or_from_yim(l.token.start, l.predecessor),
               cause |-> IF Source_XSY_of_NSY[l.token.nsy] \in b_valued
                         THEN TokenCause("valued", l.token.nsy, l.token.value)
                         ELSE TokenCause("unvalued", l.token.nsy, 0)])

CreateCompletionDraft ==
    \E l \in completion_links :
        LET cause_irl == l.cause.ahm.irl
        IN  /\ NextLink("completion", l)
            /\ draft_and_node_add(work_proper_or_node,
                  [predecessor |-> safe_or_from_yim(l.cause.origin, l.predecessor),
                   cause |-> or_by_origin_and_symi(l.cause.origin, cause_irl,
                                                   Length_of_IRL(cause_irl))])

\* The next Earley set, or the end: the draft and-nodes become the and-nodes.
DraftsEnd ==
    /\ b_pc = "drafts" /\ b_links = {} /\ b_todo = {}
    /\ LET later == {e \in earley_sets : e > b_set}
       IN  \/ /\ later # {}
              /\ b_set' = Least(later) /\ b_pc' = "or-nodes"
              /\ b_todo' = {u[2] : u \in {v \in DOMAIN psi : v[1] = Least(later)}}
           \/ /\ later = {}
              /\ b_pc' = "built" /\ UNCHANGED <<b_set, b_todo>>
    /\ UNCHANGED <<b_end, b_path, b_item, b_links, psi, or_nodes, dands, b_valued, b_locked>>

\* "Set top or node id in b"
Top_OR_of_B ==
    IF b_pc # "built" THEN NoOR
    ELSE psi[<<b_end, CHOOSE y \in StartYIMs(b_end) : TRUE>>]

\* Ambiguity_Metric_of_B
Ambiguity_Metric_of_B == IF \E o \in or_nodes : Len(dands[o]) > 1 THEN 2 ELSE 1

-----------------------------------------------------------------------------
BocageCalls ==
    \E e \in earley_sets \cup {current_earleme} :
        BocageNoParse(e) \/ BocageNulling(e) \/ BocageBegins(e)

BocageSteps ==
    \/ CreateOrNodes \/ CreateLeoPathOrNodes \/ OrNodesEnd
    \/ BeginDrafts \/ CreateLeoDrafts \/ CreateTokenDraft \/ CreateCompletionDraft \/ DraftsEnd

-----------------------------------------------------------------------------
(* Properties *)

\* The or-nodes of a finished bocage have and-nodes: each has a cause, its
\* predecessor is the or-node of the same rule one position before and is
\* missing only at the first, and the two meet inside the stretch of their
\* or-node.
Meets(o, a) ==
    LET middle == IF a.predecessor = NoOR THEN o.origin ELSE a.predecessor.set
        symbol == RHS_of_IRL[o.irl][o.position]
    IN  /\ a.cause # NoOR
        /\ IF o.position = 1 THEN a.predecessor = NoOR
           ELSE /\ a.predecessor \in or_nodes
                /\ a.predecessor.irl = o.irl /\ a.predecessor.position = o.position - 1
                /\ a.predecessor.origin = o.origin
        /\ IF OR_is_Token(a.cause)
           THEN a.cause.nsy = symbol /\ (a.cause.type = "nulling" => middle = o.set)
           ELSE /\ a.cause \in or_nodes
                /\ a.cause.position = Length_of_IRL(a.cause.irl)
                /\ LHSID_of_IRL[a.cause.irl] = symbol
                /\ a.cause.origin = middle /\ a.cause.set = o.set

AndNodesMeet ==
    b_pc = "built" =>
        \A o \in or_nodes : dands[o] # <<>> /\ \A i \in DOMAIN dands[o] : Meets(o, dands[o][i])

\* draft_and_node_new asserts that a draft and-node has a cause.
AndNodesHaveCause ==
    \A o \in or_nodes : \A i \in DOMAIN dands[o] : dands[o][i].cause # NoOR

\* The grammars for which marpa_b_new keeps both: the last symbol of a rule
\* that Leo items are made of is not nulled.
LeoRulesEndProper ==
    \A irl \in LeoIRLs : RHS_of_IRL[irl][Len(RHS_of_IRL[irl])] \notin NullingNSYs
=============================================================================
