------------------------- MODULE MarpaForest_proofs -------------------------
(***************************************************************************)
(* The bocage, for every grammar whose right recursive rules do not end    *)
(* with a nulled symbol: the and-nodes meet, every or-node has one, and    *)
(* the tokens in them are tokens that were read.  (Where such a rule ends  *)
(* with a nulled symbol, marpa_b_new makes and-nodes without a cause.)     *)
(* Then the order and the tree iterator: the or-nodes in use are those of  *)
(* the stack, and every nook of the stack has the or-node that the choice  *)
(* of its parent leads to.                                                 *)
(***************************************************************************)
EXTENDS MarpaTree, MarpaEarley_proofs

-----------------------------------------------------------------------------
(* What the recognizer leaves to the bocage. *)

HasSource(e, y) ==
    TokenLinksOf(e, y) # {} \/ CompletionLinksOf(e, y) # {} \/ LeoLinksOf(e, y) # {}

\* Items are in Earley sets, and are predicted where they start, or have a
\* source.
SourcesInv ==
    /\ \A e \in Earlemes : yims[e] # {} => e \in earley_sets
    /\ \A e \in Earlemes : \A y \in yims[e] :
          IF y.ahm = First_AHM_of_IRL(y.ahm.irl) THEN y.origin = e ELSE HasSource(e, y)

\* Leo paths end: every set of populated Leo items has one with a predecessor
\* that is not in it.
PathsEnd ==
    \A C \in SUBSET DOMAIN lims :
        C # {} /\ (\A k \in C : LIM_is_Populated(k)) => \E k \in C : lims[k].predecessor \notin C

-----------------------------------------------------------------------------
(* The inductive invariant of marpa_b_new. *)

ORs == [irl : IRLs, position : Nat, origin : Earlemes, set : Earlemes, psl : Earlemes]

TokenCauses ==
    [type : {"valued", "unvalued", "nulling"}, nsy : NSYs, value : Int]

DANDs == [predecessor : ORs \cup {NoOR}, cause : ORs \cup TokenCauses]

Symbol_of_OR(o) == RHS_of_IRL[o.irl][o.position]

\* The or-node of an item of Earley set e at position q of its rule.
NodeAt(y, q, e) ==
    [irl |-> y.ahm.irl, position |-> q, origin |-> y.origin, set |-> e, psl |-> y.origin]

\* The or-node of the completion of a Leo item's trailhead.
PathNode(k, e) == NodeAt(TrailheadCompletion(k), Length_of_IRL(lims[k].trailhead.ahm.irl), e)

ItemOR(y, e) == IF y.ahm.dot = 0 THEN NoOR ELSE NodeAt(y, y.ahm.dot, e)

\* The Leo items for which an item of Earley set e needs path or-nodes.
UpperLIMs(e, y) == {k \in LeoPathsOf(e, y) : lims[k].predecessor # NoLIM}

Building == b_pc \in {"or-nodes", "drafts"}

\* The completion of the start rule, the one item that a parse ends with.
StartDone == [ahm |-> [irl |-> StartIRL, dot |-> 1], origin |-> 0]

\* The or-nodes of an ur-node have been made, those of its Leo paths maybe not.
IsReached(u) ==
    u[1] < b_set \/ (u[1] = b_set /\ (b_pc = "drafts" \/ u[2] \notin b_todo))

\* The ur-nodes are items, and closed under what the or-nodes of an item need.
PsiAgrees ==
    /\ b_set \in Earlemes /\ b_end \in Earlemes \ {0}
    /\ \A u \in DOMAIN psi :
          /\ u = <<u[1], u[2]>> /\ u[1] \in Earlemes /\ u[2] \in yims[u[1]]
          /\ UrChildren(u) \subseteq DOMAIN psi
    /\ <<b_end, StartDone>> \in DOMAIN psi /\ StartDone \in StartYIMs(b_end)

\* What is left to do in the work set.
WorkAgrees ==
    /\ \A y \in b_todo : <<b_set, y>> \in DOMAIN psi
    /\ \A k \in b_path :
          /\ b_pc = "or-nodes"
          /\ \E u \in DOMAIN psi : IsReached(u) /\ u[1] = b_set /\ k \in UpperLIMs(b_set, u[2])
    /\ b_links # {} => /\ b_pc = "drafts" /\ b_item \notin b_todo
                       /\ <<b_set, b_item>> \in DOMAIN psi
                       /\ b_links \subseteq SourceLinks(b_set, b_item)

NodesMade ==
    \A u \in DOMAIN psi : IsReached(u) =>
        /\ psi[u] = ItemOR(u[2], u[1])
        /\ \A q \in ProperPosition(u[2].ahm) .. u[2].ahm.dot :
              q > 0 => NodeAt(u[2], q, u[1]) \in or_nodes
        /\ \A k \in UpperLIMs(u[1], u[2]) :
              PathNode(k, u[1]) \in or_nodes \/ (u[1] = b_set /\ k \in b_path)

\* An or-node that gets its draft and-nodes when those of the item y are made.
Serves(e, y, o) ==
    \/ o = NodeAt(y, ProperPosition(y.ahm), e)
    \/ \E k \in UpperLIMs(e, y) : o = PathNode(k, e)

\* A proper and-node's predecessor ends before it does.
MeetsProper(o, a) ==
    /\ Meets(o, a)
    /\ Symbol_of_OR(o) \notin NullingNSYs /\ a.predecessor # NoOR => a.predecessor.set < o.set

NodeTypeOK(o) ==
    /\ o \in ORs /\ o.psl = o.origin /\ o.position \in 1 .. Length_of_IRL(o.irl)
    /\ dands[o] \in Seq({a \in DANDs : MeetsProper(o, a)})

NullingDAND(o) ==
    [predecessor |-> IF o.position = 1 THEN NoOR ELSE [o EXCEPT !.position = @ - 1],
     cause |-> NullingToken(Symbol_of_OR(o))]

\* An or-node is there for the sake of an ur-node.
NodeNeeded(o) ==
    \E u \in DOMAIN psi :
        /\ IsReached(u) /\ u[1] = o.set
        /\ IF Symbol_of_OR(o) \notin NullingNSYs THEN Serves(o.set, u[2], o)
           ELSE /\ o.position \in ProperPosition(u[2].ahm) + 1 .. u[2].ahm.dot
                /\ o = NodeAt(u[2], o.position, o.set)

NodesAgree ==
    /\ DOMAIN dands = or_nodes
    /\ \A o \in or_nodes :
          /\ NodeTypeOK(o) /\ o.set <= b_set /\ NodeNeeded(o)
          /\ Symbol_of_OR(o) \in NullingNSYs => dands[o] = <<NullingDAND(o)>>

\* A link that will give an or-node a draft and-node.
LinkServes(l, o) ==
    IF l[1] = "leo" THEN \E k \in LeoPathsFrom({l[2].predecessor}) : o = PathNode(k, b_set)
    ELSE o = NodeAt(b_item, ProperPosition(b_item.ahm), b_set)

\* The or-nodes that have no draft and-node yet will get one.  An item whose
\* rule starts at its proper position is not found to have been worked on
\* before its Leo links are.
DraftsPending ==
    /\ \A o \in or_nodes : dands[o] = <<>> =>
          /\ o.set = b_set
          /\ b_pc = "drafts" =>
                (\E y \in b_todo : Serves(b_set, y, o)) \/ \E l \in b_links : LinkServes(l, o)
    /\ b_pc = "or-nodes" =>
          \A o \in or_nodes :
              o.set = b_set /\ Symbol_of_OR(o) \notin NullingNSYs => dands[o] = <<>>
    /\ b_pc = "drafts" =>
          \A y \in b_todo : ProperPosition(y.ahm) = 1 /\ LeoLinksOf(b_set, y) # {}
              => dands[NodeAt(y, 1, b_set)] = <<>>

BuildingInv == PsiAgrees /\ WorkAgrees /\ NodesMade /\ NodesAgree /\ DraftsPending

BuiltInv ==
    /\ DOMAIN dands = or_nodes
    /\ \A o \in or_nodes : NodeTypeOK(o) /\ dands[o] # <<>>
    /\ b_end \in Earlemes \ {0} /\ StartDone \in StartYIMs(b_end)
    /\ <<b_end, StartDone>> \in DOMAIN psi
    /\ psi[<<b_end, StartDone>>] = NodeAt(StartDone, 1, b_end)
    /\ NodeAt(StartDone, 1, b_end) \in or_nodes

BocageInv ==
    /\ b_pc \in {"none", "no parse", "nulling", "or-nodes", "drafts", "built"}
    /\ b_pc \in {"none", "no parse", "nulling"} =>
          or_nodes = {} /\ b_path = {} /\ b_links = {} /\ DOMAIN dands = {}
    /\ Building => pc = "idle" /\ BuildingInv
    /\ b_pc = "built" => BuiltInv

-----------------------------------------------------------------------------
(* Proper positions *)

\* The nulled symbols before the dot of an AHM are those after its proper
\* position, and the symbol at that position is not nulled.
LEMMA ProperPositionIs ==
    ASSUME NEW a \in AHMs
    PROVE  /\ a.irl \in IRLs /\ a.dot \in Nat /\ a.dot <= Length_of_IRL(a.irl)
           /\ ProperPosition(a) \in 0 .. a.dot
           /\ Null_Count_of_AHM(a) = a.dot - ProperPosition(a)
           /\ ProperPosition(a) > 0 => RHS_of_IRL[a.irl][ProperPosition(a)] \notin NullingNSYs
           /\ \A q \in ProperPosition(a) + 1 .. a.dot : RHS_of_IRL[a.irl][q] \in NullingNSYs
<1>1. a.irl \in IRLs /\ a.dot \in Nat /\ a.dot <= Length_of_IRL(a.irl)
  BY AHMParts, PositionsRange DEF Length_of_IRL
<1> DEFINE proper == {k \in 0 .. a.dot : k = 0 \/ RHS_of_IRL[a.irl][k] \notin NullingNSYs}
<1>2. PICK p \in proper : \A m \in proper : m <= p
  <2>1. proper \subseteq Nat /\ 0 \in proper /\ \A m \in proper : m <= a.dot
    BY <1>1
  <2> HIDE DEF proper
  <2> QED
    BY <1>1, <2>1, GreatestExists
<1>3. \A q \in p + 1 .. a.dot : RHS_of_IRL[a.irl][q] \in NullingNSYs
  BY <1>1, <1>2
<1>4. NulledBeforeDot(a) = p + 1 .. a.dot
  <2>1. ASSUME NEW k \in NulledBeforeDot(a)
        PROVE  k \in p + 1 .. a.dot
    BY <1>1, <1>2, <2>1 DEF NulledBeforeDot
  <2>2. ASSUME NEW k \in p + 1 .. a.dot
        PROVE  k \in NulledBeforeDot(a)
    BY <1>1, <1>2, <1>3 DEF NulledBeforeDot
  <2> QED
    BY <2>1, <2>2
<1>5. Cardinality(p + 1 .. a.dot) = a.dot - p
  <2>1. p + 1 \in Int /\ a.dot \in Int /\ p + 1 <= a.dot + 1
    BY <1>1, <1>2
  <2>2. Cardinality(p + 1 .. a.dot) = IF p + 1 > a.dot THEN 0 ELSE a.dot - (p + 1) + 1
    BY <2>1, FS_Interval
  <2> QED
    BY <1>1, <1>2, <2>2
<1>6. ProperPosition(a) = p /\ Null_Count_of_AHM(a) = a.dot - p
  BY <1>1, <1>2, <1>4, <1>5 DEF ProperPosition, Null_Count_of_AHM
<1> QED
  BY <1>1, <1>2, <1>3, <1>6

\* Between a proper position and the dot there is one AHM of a rule.
LEMMA PositionsApart ==
    ASSUME NEW a \in AHMs, NEW b \in AHMs, a.irl = b.irl, NEW q \in Nat,
           q \in ProperPosition(a) .. a.dot, q \in ProperPosition(b) .. b.dot
    PROVE  a = b
<1>1. ASSUME NEW c \in AHMs, NEW d \in AHMs, c.irl = d.irl, c.dot < d.dot,
             ProperPosition(d) <= c.dot
      PROVE  FALSE
  <2>1. /\ c.dot \in Positions(c.irl) /\ d.dot <= Length_of_IRL(d.irl)
        /\ c.dot \in Nat /\ d.dot \in Nat /\ ProperPosition(d) \in Nat
        /\ \A n \in ProperPosition(d) + 1 .. d.dot : RHS_of_IRL[d.irl][n] \in NullingNSYs
    BY AHMParts, ProperPositionIs
  <2>2. RHS_of_IRL[c.irl][c.dot + 1] \notin NullingNSYs
    BY <1>1, <2>1, AHMParts, PositionsRange DEF Positions, Length_of_IRL
  <2> QED
    BY <1>1, <2>1, <2>2
<1>2. a.dot \in Nat /\ b.dot \in Nat /\ ProperPosition(a) \in Nat /\ ProperPosition(b) \in Nat
  BY ProperPositionIs
<1>3. a.dot = b.dot
  BY <1>1, <1>2
<1> QED
  BY <1>3, AHMParts

\* Advancing an item takes its proper position to the symbol it waited for.
LEMMA ProperPositionOfNext ==
    ASSUME NEW a \in AHMs, ~ AHM_is_Completion(a)
    PROVE  /\ ProperPosition(Next_AHM_of_AHM(a)) = a.dot + 1
           /\ RHS_of_IRL[a.irl][a.dot + 1] = Postdot_NSYID_of_AHM(a)
<1> DEFINE next == Next_AHM_of_AHM(a)
<1>1. /\ next \in AHMs /\ next.irl = a.irl /\ next.dot > a.dot
      /\ Postdot_NSYID_of_AHM(a) \notin NullingNSYs
  BY NextAHM
<1>2. /\ a.dot \in Nat /\ next.dot \in Nat /\ ProperPosition(next) \in 0 .. next.dot
      /\ \A n \in ProperPosition(next) + 1 .. next.dot : RHS_of_IRL[a.irl][n] \in NullingNSYs
      /\ ProperPosition(next) > 0 => RHS_of_IRL[a.irl][ProperPosition(next)] \notin NullingNSYs
  BY <1>1, ProperPositionIs
<1>3. RHS_of_IRL[a.irl][a.dot + 1] = Postdot_NSYID_of_AHM(a)
  BY DEF Postdot_NSYID_of_AHM
<1>4. \A k \in a.dot + 2 .. next.dot : RHS_of_IRL[a.irl][k] \in NullingNSYs
  BY NulledToNext
<1> HIDE DEF next
<1>5. ProperPosition(next) = a.dot + 1
  BY <1>1, <1>2, <1>3, <1>4
<1> QED
  BY <1>3, <1>5 DEF next

\* Only the first AHM of a rule has nothing proper before its dot.
LEMMA ProperPositionOfFirst ==
    ASSUME NEW a \in AHMs
    PROVE  ProperPosition(a) = 0 <=> a = First_AHM_of_IRL(a.irl)
<1> DEFINE first == First_AHM_of_IRL(a.irl)
<1>1. /\ a.irl \in IRLs /\ first \in AHMs /\ first.irl = a.irl /\ a.dot \in Nat
      /\ first.dot \in Nat
  BY AHMParts, FirstAHM, ProperPositionIs DEF First_AHM_of_IRL
<1>2. ProperPosition(first) = 0
  <2>1. \A k \in 1 .. first.dot : RHS_of_IRL[a.irl][k] \in NullingNSYs
    BY <1>1, NulledToFirst
  <2> QED
    BY <1>1, <2>1, ProperPositionIs
<1>3. ASSUME ProperPosition(a) = 0
      PROVE  a = first
  <2>1. 0 \in ProperPosition(a) .. a.dot /\ 0 \in ProperPosition(first) .. first.dot
    BY <1>1, <1>2, <1>3
  <2> QED
    BY <1>1, <2>1, PositionsApart
<1> QED
  BY <1>2, <1>3

-----------------------------------------------------------------------------
(* Items have sources *)

\* Items keep their sources, and new ones come with theirs.
LEMMA SourcesGrow ==
    ASSUME TypeInv, SourcesInv, NEW now \in Earlemes, now \in earley_sets,
           earley_sets \subseteq earley_sets',
           token_links \subseteq token_links', completion_links \subseteq completion_links',
           leo_links \subseteq leo_links',
           NEW new, yims' = [yims EXCEPT ![now] = @ \cup new],
           \A y \in new : IF y.ahm = First_AHM_of_IRL(y.ahm.irl) THEN y.origin = now
                          ELSE HasSource(now, y)'
    PROVE  SourcesInv'
<1>1. \A e \in Earlemes : \A y \in yims'[e] :
         y \in yims[e] \/ (e = now /\ y \in new)
  BY DEF TypeInv, TypeOK, ChartTypeOK
<1>2. \A e, y : HasSource(e, y) => HasSource(e, y)'
  BY DEF HasSource, TokenLinksOf, CompletionLinksOf, LeoLinksOf
<1>3. ASSUME NEW e \in Earlemes, NEW y \in yims'[e]
      PROVE  IF y.ahm = First_AHM_of_IRL(y.ahm.irl) THEN y.origin = e ELSE HasSource(e, y)'
  <2>1. CASE y \in yims[e]
    BY <1>2, <2>1 DEF SourcesInv
  <2>2. CASE e = now /\ y \in new
    BY <2>2
  <2> QED
    BY <1>1, <1>3, <2>1, <2>2
<1>4. \A e \in Earlemes : yims'[e] # {} => e \in earley_sets'
  BY <1>1 DEF SourcesInv
<1> QED
  BY <1>3, <1>4 DEF SourcesInv

\* An advanced item is not at the first AHM of its rule.
LEMMA AdvancedIsNotFirst ==
    ASSUME NEW p \in YIMs, Postdot_NSYID_of_AHM(p.ahm) \in NSYs
    PROVE  Advance(p).ahm # First_AHM_of_IRL(Advance(p).ahm.irl)
<1>1. p.ahm \in AHMs /\ ~ AHM_is_Completion(p.ahm)
  BY PostdotMeansNext DEF YIMs
<1>2. /\ Advance(p).ahm = Next_AHM_of_AHM(p.ahm) /\ Advance(p).ahm \in AHMs
      /\ ProperPosition(Advance(p).ahm) = p.ahm.dot + 1 /\ p.ahm.dot \in Nat
  BY <1>1, NextAHM, ProperPositionOfNext, ProperPositionIs DEF Advance
<1> QED
  BY <1>2, ProperPositionOfFirst

LEMMA ScanSources ==
    ASSUME TypeInv, ChartInv, InputInv, SourcesInv, ScanAlternative
    PROVE  SourcesInv'
<1>0. PICK now : now = current_earleme
  OBVIOUS
<1> DEFINE a == TopAlternative
           new == {Advance(p) : p \in PIMs(a.start, a.nsy)}
           linked == {[at |-> current_earleme, yim |-> Advance(p), predecessor |-> p, token |-> a] :
                         p \in PIMs(a.start, a.nsy)}
<1>1. alternatives # <<>> /\ current_earleme \in Earlemes /\ current_earleme \in earley_sets
  BY ScanPopsEnd DEF TypeInv, TypeOK, ChartTypeOK, PhasesAgree, ScanAlternative
<1>2. a \in Alternatives
  BY <1>1, PopType DEF TypeInv, TypeOK, TopAlternative
<1>3. a.start \in Earlemes /\ a.nsy \in NSYs
  BY <1>2 DEF Alternatives
<1>4. /\ UNCHANGED <<earley_sets, completion_links, leo_links>>
      /\ yims' = [yims EXCEPT ![current_earleme] = @ \cup new]
      /\ token_links' = token_links \cup linked
  BY DEF ScanAlternative
<1> HIDE DEF a
<1>5. ASSUME NEW p \in PIMs(a.start, a.nsy)
      PROVE  /\ Advance(p).ahm # First_AHM_of_IRL(Advance(p).ahm.irl)
             /\ HasSource(now, Advance(p))'
  <2>1. p \in YIMs /\ Postdot_NSYID_of_AHM(p.ahm) = a.nsy
    BY <1>3, PIMsType DEF PIMs, TypeInv
  <2>2. [at |-> current_earleme, yim |-> Advance(p), predecessor |-> p, token |-> a] \in token_links'
    BY <1>4
  <2>4. \E l \in token_links' : l.at = now /\ l.yim = Advance(p)
    BY <1>0, <2>2
  <2>5. \A y : (\E l \in token_links' : l.at = now /\ l.yim = y)
               => HasSource(now, y)'
    BY DEF HasSource, TokenLinksOf
  <2>6. HasSource(now, Advance(p))'
    BY <2>4, <2>5 DEF Advance
  <2> QED
    BY <1>3, <2>1, <2>6, AdvancedIsNotFirst
<1>6. \A y \in new : IF y.ahm = First_AHM_of_IRL(y.ahm.irl) THEN y.origin = now
                     ELSE HasSource(now, y)'
  BY <1>5
<1> HIDE DEF new, linked
<1> QED
  BY <1>0, <1>1, <1>4, <1>6, SourcesGrow

LEMMA CompleteSources ==
    ASSUME TypeInv, ChartInv, SourcesInv, CompleteCause
    PROVE  SourcesInv'
<1>0. PICK now : now = current_earleme
  OBVIOUS
<1>1. PICK cause \in completion_stack :
         CompleteWithLeo(cause) \/ CompleteWithPredecessors(cause)
  BY DEF CompleteCause
<1>2. /\ cause.origin \in Earlemes /\ LHS_NSYID_of_YIM(cause) \in NSYs /\ pc = "complete"
      /\ current_earleme \in Earlemes
  BY CauseFits DEF CompleteCause
<1>3. /\ UNCHANGED <<earley_sets, token_links>> /\ current_earleme \in earley_sets
  BY <1>2 DEF CompleteCause, TypeInv, PhasesAgree
<1>4. CASE CompleteWithLeo(cause)
  <2> DEFINE lim == <<cause.origin, LHS_NSYID_of_YIM(cause)>>
  <2>1. PICK effect : effect = [ahm |-> lims[lim].top, origin |-> lims[lim].origin]
    OBVIOUS
  <2> DEFINE link == [at |-> now, yim |-> effect, predecessor |-> lim, cause |-> cause]
  <2>2. /\ lim \in DOMAIN lims /\ UNCHANGED completion_links
        /\ yims' = [yims EXCEPT ![current_earleme] = @ \cup {effect}]
        /\ leo_links' = leo_links \cup {link}
    BY <1>0, <1>4, <2>1 DEF CompleteWithLeo
  <2>3. effect \in YIMs /\ AHM_is_Completion(effect.ahm)
    BY <1>2, <2>1, <2>2, EffectType DEF ChartInv, LimsAgree, LimAgrees
  <2>4. effect.ahm # First_AHM_of_IRL(effect.ahm.irl)
    BY <2>3, FirstAHM, AHMParts DEF YIMs
  <2>5. HasSource(now, effect)'
    <3>1. link \in leo_links' /\ link.at = now /\ link.yim = effect
      BY <2>2
    <3> QED
      BY <3>1 DEF HasSource, LeoLinksOf
  <2>6. PICK new : new = {effect}
    OBVIOUS
  <2>7. \A y \in new : IF y.ahm = First_AHM_of_IRL(y.ahm.irl) THEN y.origin = now
                            ELSE HasSource(now, y)'
    BY <2>4, <2>5, <2>6
  <2>8. /\ token_links \subseteq token_links' /\ completion_links \subseteq completion_links'
        /\ leo_links \subseteq leo_links' /\ earley_sets \subseteq earley_sets'
    BY <1>3, <2>2
  <2>9. /\ now \in Earlemes /\ now \in earley_sets
        /\ yims' = [yims EXCEPT ![now] = @ \cup new]
    BY <1>0, <1>2, <1>3, <2>2, <2>6
  <2> HIDE DEF link, lim
  <2> QED
    BY <2>7, <2>8, <2>9, SourcesGrow
<1>5. CASE CompleteWithPredecessors(cause)
  <2> DEFINE K == PIMs(cause.origin, LHS_NSYID_of_YIM(cause))
             effects == {Advance(p) : p \in K}
             Link(p) == [at |-> current_earleme, yim |-> Advance(p), predecessor |-> p,
                         cause |-> cause]
  <2>1. /\ UNCHANGED leo_links
        /\ yims' = [yims EXCEPT ![current_earleme] = @ \cup effects]
        /\ completion_links' = completion_links \cup {Link(p) : p \in K}
    BY <1>5 DEF CompleteWithPredecessors
  <2>2. ASSUME NEW p \in K
        PROVE  /\ Advance(p).ahm # First_AHM_of_IRL(Advance(p).ahm.irl)
               /\ HasSource(now, Advance(p))'
    <3>1. p \in YIMs /\ Postdot_NSYID_of_AHM(p.ahm) = LHS_NSYID_of_YIM(cause)
      BY <1>2, PIMsType DEF PIMs, TypeInv
    <3>2. \E l \in completion_links' : l.at = now /\ l.yim = Advance(p)
      <4>1. Link(p) \in completion_links' /\ Link(p).at = now /\ Link(p).yim = Advance(p)
        BY <1>0, <2>1
      <4> QED
        BY <4>1
    <3>3. \A y : (\E l \in completion_links' : l.at = now /\ l.yim = y)
                 => HasSource(now, y)'
      BY DEF HasSource, CompletionLinksOf
    <3>4. HasSource(now, Advance(p))'
      BY <3>2, <3>3 DEF Advance
    <3> QED
      BY <1>2, <3>1, <3>4, AdvancedIsNotFirst
  <2>3. \A y \in effects : IF y.ahm = First_AHM_of_IRL(y.ahm.irl) THEN y.origin = now
                           ELSE HasSource(now, y)'
    BY <2>2
  <2> HIDE DEF effects, Link, K
  <2> QED
    BY <1>0, <1>2, <1>3, <2>1, <2>3, SourcesGrow
<1> QED
  BY <1>1, <1>4, <1>5

\* Predictions start where they are.
LEMMA PredictSources ==
    ASSUME TypeInv, ChartInv, SourcesInv, AddPredictions
    PROVE  SourcesInv'
<1>1. PICK now : now = current_earleme
  OBVIOUS
<1>2. PICK new : new = {[ahm |-> First_AHM_of_IRL(i), origin |-> now] :
                          i \in UNION {Predicted_IRLs_of_AHM(y.ahm) : y \in yims[now]}}
  OBVIOUS
<1>3. /\ now \in Earlemes /\ now \in earley_sets /\ yims' = [yims EXCEPT ![now] = @ \cup new]
      /\ UNCHANGED <<earley_sets, links>>
  BY <1>1, <1>2 DEF AddPredictions, TypeInv, TypeOK, ChartTypeOK, PhasesAgree
<1>4. \A y \in new : IF y.ahm = First_AHM_of_IRL(y.ahm.irl) THEN y.origin = now
                     ELSE HasSource(now, y)'
  BY <1>2 DEF First_AHM_of_IRL
<1>5. /\ token_links \subseteq token_links' /\ completion_links \subseteq completion_links'
      /\ leo_links \subseteq leo_links' /\ earley_sets \subseteq earley_sets'
  BY <1>3 DEF links
<1> QED
  BY <1>1, <1>3, <1>4, <1>5, SourcesGrow

LEMMA StartInputSources ==
    ASSUME TypeInv, ChartInv, SourcesInv, StartInput
    PROVE  SourcesInv'
<1>1. 0 \in Earlemes
  BY RecceAssumption DEF Earlemes
<1>2. PICK set0 : set0 = {[ahm |-> First_AHM_of_IRL(i), origin |-> 0] : i \in IRLsSeenAtStart}
  OBVIOUS
<1>3. /\ yims' = [yims EXCEPT ![0] = set0] /\ earley_sets' = {0}
      /\ \A e \in Earlemes : yims[e] = {}
  BY <1>2, BeforeInput DEF StartInput
<1>4. \A e \in Earlemes : \A y \in yims'[e] : e = 0 /\ y \in set0
  BY <1>1, <1>3 DEF TypeInv, TypeOK, ChartTypeOK
<1>5. \A y \in set0 : y.ahm = First_AHM_of_IRL(y.ahm.irl) /\ y.origin = 0
  BY <1>2 DEF First_AHM_of_IRL
<1> QED
  BY <1>3, <1>4, <1>5 DEF SourcesInv

\* The other steps add no items.
LEMMA OtherCallsKeepItems ==
    ASSUME [Next]_vars, ~ StartInput, ~ StartInputTrivial,
           ~ ScanAlternative, ~ CompleteCause, ~ AddPredictions
    PROVE  UNCHANGED <<yims, links>> /\ earley_sets \subseteq earley_sets'
<1>1. CASE EarlemeCompleteSteps
  BY <1>1 DEF EarlemeCompleteSteps, PrePopulateCompletions, StartLIMs, PopulateLIM,
              EarlemeCompleteEnds, chart
<1>2. CASE Reads
  <2>1. ASSUME NEW x \in XSYs, NEW v \in TokenValues, NEW length \in TokenLengths,
               \/ AlternativeFails(x, v, length) \/ AlternativeRejected(x, v, length)
               \/ Alternative(x, v, length)
        PROVE  UNCHANGED <<yims, links, earley_sets>>
    BY <2>1 DEF AlternativeFails, AlternativeRejected, Alternative, chart
  <2>2. CASE \/ StartInputFails \/ EarlemeCompleteFails \/ EarlemeCompleteExhausts
             \/ EarlemeCompleteEmpty \/ EarlemeCompleteBegins \/ CleanFails \/ Clean
    BY <2>2 DEF StartInputFails, EarlemeCompleteFails, EarlemeCompleteExhausts,
                EarlemeCompleteEmpty, EarlemeCompleteBegins, CleanFails, Clean, chart
  <2> QED
    BY <1>2, <2>1, <2>2 DEF Reads
<1>3. CASE Settings
  BY <1>3 DEF Settings, SymbolActivate, SymbolDeactivate, ExpectedSymbolEventSet,
              ZWADefaultSet, IsUseLeoSet, WarningThresholdSet, chart
<1>4. CASE UNCHANGED vars
  BY <1>4 DEF vars, chart
<1> QED
  BY <1>1, <1>2, <1>3, <1>4 DEF Next

\* In every state, items have sources.
LEMMA NextSources == TypeInv /\ InputInv /\ ChartInv /\ SourcesInv /\ [Next]_vars => SourcesInv'
<1> SUFFICES ASSUME TypeInv, InputInv, ChartInv, SourcesInv, [Next]_vars PROVE SourcesInv'
  OBVIOUS
<1>1. CASE UNCHANGED <<yims, links>> /\ earley_sets \subseteq earley_sets'
  <2>1. \A e, y : HasSource(e, y) => HasSource(e, y)'
    BY <1>1 DEF HasSource, TokenLinksOf, CompletionLinksOf, LeoLinksOf, links
  <2> QED
    BY <1>1, <2>1 DEF SourcesInv
<1>2. CASE StartInputTrivial
  <2>1. \A e \in Earlemes : yims'[e] = {}
    BY <1>2, BeforeInput DEF StartInputTrivial
  <2> QED
    BY <2>1 DEF SourcesInv
<1> QED
  BY <1>1, <1>2, StartInputSources, ScanSources, CompleteSources, PredictSources,
     OtherCallsKeepItems

LEMMA SourcesAlways == Spec => []SourcesInv
<1>1. Init => SourcesInv
  BY DEF Init, SourcesInv
<1> QED
  BY <1>1, NextSources, TypeCorrect, InputCorrect, ChartSound, PTL DEF Spec

-----------------------------------------------------------------------------
(* Leo paths end *)

LEMMA StartLIMsPathsEnd ==
    ASSUME TypeInv, ChartInv, PathsEnd, StartLIMs
    PROVE  PathsEnd'
<1> SUFFICES ASSUME NEW C \in SUBSET DOMAIN lims', C # {},
                    \A k \in C : LIM_is_Populated(k)'
             PROVE  \E k \in C : lims'[k].predecessor \notin C
  BY DEF PathsEnd
<1>1. PICK new :
         lims' = [k \in DOMAIN lims \cup new |-> IF k \in new THEN NewLIM(k[2]) ELSE lims[k]]
  BY DEF StartLIMs
<1>2. \A k \in new : lims'[k].origin = NoEarleme
  BY <1>1 DEF NewLIM
<1>3. C \subseteq DOMAIN lims /\ \A k \in C : lims'[k] = lims[k]
  BY <1>1, <1>2 DEF LIM_is_Populated
<1>4. \A k \in C : LIM_is_Populated(k)
  BY <1>3 DEF LIM_is_Populated
<1> QED
  BY <1>3, <1>4 DEF PathsEnd

\* A Leo item that is populated from a predecessor is put in front of the
\* predecessor's path.
LEMMA PopulatePathsEnd ==
    ASSUME TypeInv, ChartInv, PathsEnd, PopulateLIM
    PROVE  PathsEnd'
<1> SUFFICES ASSUME NEW C \in SUBSET DOMAIN lims', C # {},
                    \A k \in C : LIM_is_Populated(k)'
             PROVE  \E k \in C : lims'[k].predecessor \notin C
  BY DEF PathsEnd
<1>1. PICK k \in DOMAIN lims : /\ ~ LIM_is_Populated(k)
                               /\ PopulateFromBase(k) \/ PopulateFromPredecessor(k)
  BY DEF PopulateLIM
<1>2. lims \in [DOMAIN lims -> LIMs]
  BY DEF TypeInv, TypeOK, ChartTypeOK
<1>3. /\ DOMAIN lims' = DOMAIN lims
      /\ \A j \in DOMAIN lims : j # k => lims'[j] = lims[j]
  BY <1>1, <1>2 DEF PopulateFromBase, PopulateFromPredecessor
<1> DEFINE rest == C \ {k}
<1>4. \A j \in rest : j \in DOMAIN lims /\ LIM_is_Populated(j)
  BY <1>3 DEF LIM_is_Populated
<1>5. \A j \in rest : lims[j].predecessor # k
  <2> SUFFICES ASSUME NEW j \in rest PROVE lims[j].predecessor # k
    OBVIOUS
  <2>1. LimJustified(j) /\ LIM_is_Populated(j)
    BY <1>4 DEF ChartInv, LimsJustified
  <2>2. lims[j].predecessor = NoLIM \/ LIM_is_Populated(lims[j].predecessor)
    BY <2>1 DEF LimJustified
  <2>3. k # NoLIM
    BY <1>1, LimsBehind DEF NoLIM, NoEarleme, Earlemes
  <2> QED
    BY <1>1, <2>2, <2>3
<1>6. CASE rest # {}
  <2>1. PICK j \in rest : lims[j].predecessor \notin rest
    BY <1>4, <1>6 DEF PathsEnd
  <2> QED
    BY <1>3, <1>4, <1>5, <2>1
<1>7. CASE rest = {}
  <2>1. C = {k}
    BY <1>7
  <2>2. lims'[k].predecessor # k
    <3>1. CASE PopulateFromBase(k)
      <4>1. lims[k].predecessor = NoLIM
        BY <1>1 DEF ChartInv, LimsAgree, LimAgrees
      <4>2. k # NoLIM
        BY <1>1, LimsBehind DEF NoLIM, NoEarleme, Earlemes
      <4> QED
        BY <1>2, <3>1, <4>1, <4>2 DEF PopulateFromBase, LIMs
    <3>2. CASE PopulateFromPredecessor(k)
      BY <1>1, <1>2, <3>2 DEF PopulateFromPredecessor, LIMs
    <3> QED
      BY <1>1, <3>1, <3>2
  <2> QED
    BY <2>1, <2>2
<1> QED
  BY <1>6, <1>7

LEMMA PathsEndAlways == Spec => []PathsEnd
<1>1. Init => PathsEnd
  BY DEF Init, PathsEnd
<1>2. TypeInv /\ ChartInv /\ PathsEnd /\ [Next]_vars => PathsEnd'
  <2> SUFFICES ASSUME TypeInv, ChartInv, PathsEnd, [Next]_vars PROVE PathsEnd'
    OBVIOUS
  <2>1. CASE UNCHANGED lims
    BY <2>1 DEF PathsEnd, LIM_is_Populated
  <2> QED
    BY <2>1, StartLIMsPathsEnd, PopulatePathsEnd, OtherCallsKeepLims
<1> QED
  BY <1>1, <1>2, TypeCorrect, ChartSound, PTL DEF Spec

RecceInv == TypeInv /\ ChartInv /\ CilsAgree /\ SourcesInv /\ PathsEnd

LEMMA RecceInvAlways == Spec => []RecceInv
  BY TypeCorrect, ChartSound, CilsAlways, SourcesAlways, PathsEndAlways, PTL DEF RecceInv

-----------------------------------------------------------------------------
(* Leo paths, as the bocage follows them *)

\* What the calls on a bocage and its tree read of the recognizer stays as it
\* is while they run.
LEMMA RecceStays ==
    ASSUME UNCHANGED vars
    PROVE  /\ UNCHANGED <<yims, lims, links, earley_sets, current_earleme, pc, input_phase>>
           /\ \A K : LeoPathsFrom(K)' = LeoPathsFrom(K)
           /\ \A e, y : /\ TokenLinksOf(e, y)' = TokenLinksOf(e, y)
                        /\ CompletionLinksOf(e, y)' = CompletionLinksOf(e, y)
                        /\ LeoLinksOf(e, y)' = LeoLinksOf(e, y)
                        /\ SourceLinks(e, y)' = SourceLinks(e, y)
                        /\ LeoPathsOf(e, y)' = LeoPathsOf(e, y)
                        /\ UpperLIMs(e, y)' = UpperLIMs(e, y)
           /\ \A k, e : PathNode(k, e)' = PathNode(k, e)
           /\ \A u : UrChildren(u)' = UrChildren(u)
           /\ \A e : StartYIMs(e)' = StartYIMs(e)
<1>1. /\ UNCHANGED <<yims, lims, token_links, completion_links, leo_links, earley_sets>>
      /\ UNCHANGED <<current_earleme, pc, input_phase>>
  BY DEF vars, chart, links, clock
<1>2. \A K : LeoPathsFrom(K)' = LeoPathsFrom(K)
  BY <1>1 DEF LeoPathsFrom
<1>3. \A e, y : /\ TokenLinksOf(e, y)' = TokenLinksOf(e, y)
                /\ CompletionLinksOf(e, y)' = CompletionLinksOf(e, y)
                /\ LeoLinksOf(e, y)' = LeoLinksOf(e, y)
  BY <1>1 DEF TokenLinksOf, CompletionLinksOf, LeoLinksOf
<1>4. \A e, y : SourceLinks(e, y)' = SourceLinks(e, y)
  BY <1>3 DEF SourceLinks
<1>5. \A e, y : LeoPathsOf(e, y)' = LeoPathsOf(e, y) /\ UpperLIMs(e, y)' = UpperLIMs(e, y)
  <2> SUFFICES ASSUME NEW e, NEW y
               PROVE  LeoPathsOf(e, y)' = LeoPathsOf(e, y) /\ UpperLIMs(e, y)' = UpperLIMs(e, y)
    OBVIOUS
  <2>1. PICK K : K = {l.predecessor : l \in LeoLinksOf(e, y)}
    OBVIOUS
  <2>2. {l.predecessor : l \in LeoLinksOf(e, y)'} = K
    BY <1>3, <2>1
  <2>3. LeoPathsFrom(K)' = LeoPathsFrom(K)
    BY <1>2
  <2>4. LeoPathsOf(e, y)' = LeoPathsOf(e, y)
    BY <2>1, <2>2, <2>3 DEF LeoPathsOf
  <2> QED
    BY <1>1, <2>4 DEF UpperLIMs
<1>6. \A k, e : PathNode(k, e)' = PathNode(k, e)
  BY <1>1 DEF PathNode, TrailheadCompletion, Trailhead_AHM_of_LIM
<1>7. \A u : UrChildren(u)' = UrChildren(u)
  BY <1>1, <1>3, <1>5 DEF UrChildren
<1>8. \A e : StartYIMs(e)' = StartYIMs(e)
  BY <1>1 DEF StartYIMs
<1> QED
  BY <1>1, <1>2, <1>3, <1>4, <1>5, <1>6, <1>7, <1>8 DEF links

\* The trailhead of a Leo item waits for the last symbol of its rule, which is
\* not nulled: the completion has no nulled symbols before its dot.
LEMMA TrailheadEnds ==
    ASSUME LeoRulesEndProper, RecceInv, NEW k \in DOMAIN lims,
           NEW t, t = lims[k].trailhead, NEW n, n = Length_of_IRL(t.ahm.irl)
    PROVE  /\ k = <<k[1], k[2]>> /\ k[1] \in Earlemes /\ k[2] \in NSYs \ NullingNSYs
           /\ t \in YIMs /\ t \in yims[k[1]] /\ t.origin <= k[1] /\ k[1] <= current_earleme
           /\ n \in Nat /\ n > 0 /\ t.ahm.dot = n - 1 /\ RHS_of_IRL[t.ahm.irl][n] = k[2]
           /\ TrailheadCompletion(k) \in YIMs
           /\ TrailheadCompletion(k).ahm.irl = t.ahm.irl /\ TrailheadCompletion(k).ahm.dot = n
           /\ TrailheadCompletion(k).origin = t.origin
           /\ TrailheadCompletion(k).ahm = Trailhead_AHM_of_LIM(k)
           /\ ProperPosition(Trailhead_AHM_of_LIM(k)) = n
           /\ Null_Count_of_AHM(Trailhead_AHM_of_LIM(k)) = 0
           /\ Last_Proper_Position(t.ahm.irl) = n
           /\ t.ahm.dot = 0 => t.origin = k[1]
<1> DEFINE next == Trailhead_AHM_of_LIM(k)
<1>1. TypeInv /\ ChartInv /\ SourcesInv /\ t.ahm.irl \in LeoIRLs
  BY DEF RecceInv, CilsAgree, CilAgrees
<1>2. /\ k = <<k[1], k[2]>> /\ k[1] \in Earlemes /\ k[2] \in NSYs /\ k[1] <= current_earleme
      /\ t \in YIMs /\ t \in yims[k[1]] /\ Postdot_NSYID_of_AHM(t.ahm) = k[2]
      /\ TrailheadCompletion(k) = Advance(t) /\ TrailheadCompletion(k) \in YIMs
      /\ AHM_is_Completion(TrailheadCompletion(k).ahm)
      /\ TrailheadCompletion(k).origin = t.origin
  BY <1>1, LimsBehind, TrailheadFacts
<1>3. t.ahm \in AHMs /\ ~ AHM_is_Completion(t.ahm) /\ TrailheadCompletion(k).ahm = next
  BY <1>2, PostdotMeansNext DEF YIMs, TrailheadCompletion
<1>4. next = Next_AHM_of_AHM(t.ahm)
  BY DEF Trailhead_AHM_of_LIM
<1> HIDE DEF next
<1>5. /\ next \in AHMs /\ next.irl = t.ahm.irl /\ t.ahm.irl \in IRLs /\ k[2] \notin NullingNSYs
      /\ n \in Nat /\ next.dot = n
  BY <1>2, <1>3, <1>4, NextAHM, AHMParts, PositionsRange DEF AHM_is_Completion, Length_of_IRL
<1>6. /\ t.ahm.dot \in Nat /\ ProperPosition(next) = t.ahm.dot + 1 /\ ProperPosition(next) <= n
      /\ RHS_of_IRL[t.ahm.irl][t.ahm.dot + 1] = k[2]
      /\ Null_Count_of_AHM(next) = n - ProperPosition(next)
      /\ \A q \in ProperPosition(next) + 1 .. n : RHS_of_IRL[t.ahm.irl][q] \in NullingNSYs
  BY <1>2, <1>3, <1>4, <1>5, ProperPositionOfNext, ProperPositionIs
<1>7. RHS_of_IRL[t.ahm.irl][n] \notin NullingNSYs
  BY <1>1 DEF LeoRulesEndProper, Length_of_IRL
<1>8. ProperPosition(next) = n
  BY <1>5, <1>6, <1>7
<1>9. Last_Proper_Position(t.ahm.irl) = n
  <2>1. next = [irl |-> t.ahm.irl, dot |-> n]
    BY <1>5, AHMParts
  <2> QED
    BY <1>8, <2>1 DEF Last_Proper_Position
<1>10. t.origin <= k[1]
  BY <1>1, <1>2 DEF ChartInv, ItemsAgree, FitsAt
<1>11. ASSUME t.ahm.dot = 0
       PROVE  t.origin = k[1]
  <2>1. ProperPosition(t.ahm) = 0
    BY <1>3, <1>11, ProperPositionIs
  <2>2. t.ahm = First_AHM_of_IRL(t.ahm.irl)
    BY <1>3, <2>1, ProperPositionOfFirst
  <2> QED
    BY <1>1, <1>2, <2>2 DEF SourcesInv
<1> QED
  BY <1>2, <1>3, <1>5, <1>6, <1>8, <1>9, <1>10, <1>11 DEF next

\* The paths of an item's Leo links lead through earlier Earley sets to one
\* that has the item for its trailhead's completion.
LEMMA ItemPaths ==
    ASSUME RecceInv, pc = "idle", NEW e \in Earlemes, NEW y, NEW k \in LeoPathsOf(e, y)
    PROVE  /\ k \in DOMAIN lims /\ k[1] \in Earlemes /\ k[1] < e
           /\ lims[k].predecessor = NoLIM => y = TrailheadCompletion(k)
           /\ lims[k].predecessor # NoLIM =>
                 lims[k].predecessor = PredecessorKey(k) /\ PredecessorKey(k) \in LeoPathsOf(e, y)
<1>1. /\ TypeInv /\ ChartInv
      /\ \A j \in DOMAIN lims : LIM_is_Populated(j) /\ LimJustified(j)
  BY DEF RecceInv, TypeInv, PhasesAgree, ChartInv, LimsJustified
<1> DEFINE K == {l.predecessor : l \in LeoLinksOf(e, y)}
           C == {j \in DOMAIN lims : j[1] < e /\ [ahm |-> lims[j].top, origin |-> lims[j].origin] = y}
<1>2. K \subseteq C
  <2> SUFFICES ASSUME NEW l \in LeoLinksOf(e, y) PROVE l.predecessor \in C
    OBVIOUS
  <2>1. LeoLinkJustified(l) /\ l.at = e /\ l.yim = y
    BY <1>1 DEF ChartInv, LinksJustified, LeoLinksOf
  <2> QED
    BY <2>1 DEF LeoLinkJustified
<1>3. ASSUME NEW j \in C, lims[j].predecessor # NoLIM
      PROVE  /\ lims[j].predecessor = PredecessorKey(j) /\ PredecessorKey(j) \in DOMAIN lims
             /\ PredecessorKey(j) \in C
  <2>1. /\ lims[j].predecessor = PredecessorKey(j) /\ PredecessorKey(j) \in DOMAIN lims
        /\ lims[j].top = lims[PredecessorKey(j)].top
        /\ lims[j].origin = lims[PredecessorKey(j)].origin
    BY <1>1, <1>3 DEF LimJustified
  <2>2. /\ lims[j].trailhead \in yims[j[1]] /\ lims[j].trailhead \in YIMs /\ j[1] \in Earlemes
    BY <1>1, TrailheadFacts, LimsBehind
  <2>3. lims[j].trailhead.origin <= j[1]
    BY <1>1, <2>2 DEF ChartInv, ItemsAgree, FitsAt
  <2>4. lims[j].trailhead.origin < e
    BY <1>3, <2>2, <2>3 DEF YIMs, Earlemes
  <2> QED
    BY <1>3, <2>1, <2>4 DEF PredecessorKey
<1>4. LeoPathsOf(e, y) \subseteq C
  <2> HIDE DEF C
  <2>1. C \in SUBSET DOMAIN lims /\ K \in SUBSET DOMAIN lims
    BY <1>2 DEF C
  <2>2. \A j \in C : lims[j].predecessor \in DOMAIN lims => lims[j].predecessor \in C
    <3>1. NoLIM \notin DOMAIN lims
      BY <1>1, LimsBehind DEF NoLIM, NoEarleme, Earlemes
    <3> QED
      BY <1>3, <3>1
  <2>3. LeoPathsFrom(K) \subseteq C
    BY <1>1, <1>2, <2>1, <2>2, LeoPathsAre
  <2> QED
    BY <2>3 DEF LeoPathsOf
<1>5. k \in C /\ k[1] \in Earlemes
  BY <1>1, <1>4, LimsBehind
<1>6. ASSUME lims[k].predecessor = NoLIM
      PROVE  y = TrailheadCompletion(k)
  BY <1>1, <1>5, <1>6 DEF LimJustified, TrailheadCompletion
<1>7. ASSUME lims[k].predecessor # NoLIM
      PROVE  lims[k].predecessor = PredecessorKey(k) /\ PredecessorKey(k) \in LeoPathsOf(e, y)
  <2>1. lims[k].predecessor = PredecessorKey(k) /\ PredecessorKey(k) \in DOMAIN lims
    BY <1>3, <1>5, <1>7
  <2>2. K \in SUBSET DOMAIN lims
    BY <1>2
  <2> HIDE DEF K
  <2>3. \A j \in LeoPathsFrom(K) : lims[j].predecessor \in DOMAIN lims
                                   => lims[j].predecessor \in LeoPathsFrom(K)
    BY <1>1, <2>2, LeoPathsAre
  <2> QED
    BY <2>1, <2>3 DEF LeoPathsOf, K
<1> QED
  BY <1>5, <1>6, <1>7

\* The path of a Leo link is one of its item's, it ends, and every Leo item on
\* it but the first comes after another.
LEMMA LinkPaths ==
    ASSUME RecceInv, pc = "idle", NEW e, NEW y, NEW l \in LeoLinksOf(e, y),
           NEW K, K = {l.predecessor}, NEW path, path = LeoPathsFrom(K)
    PROVE  /\ l.predecessor \in path /\ path \subseteq LeoPathsOf(e, y)
           /\ \E k \in path : lims[k].predecessor = NoLIM
           /\ \A k \in path : k \notin K => \E j \in path : lims[j].predecessor = k
<1>1. /\ TypeInv /\ ChartInv /\ PathsEnd
      /\ \A j \in DOMAIN lims : LIM_is_Populated(j) /\ LimJustified(j)
  BY DEF RecceInv, TypeInv, PhasesAgree, ChartInv, LimsJustified
<1> DEFINE All == {m.predecessor : m \in LeoLinksOf(e, y)}
<1>2. All \in SUBSET DOMAIN lims /\ l.predecessor \in All
  <2>1. ASSUME NEW m \in LeoLinksOf(e, y)
        PROVE  m.predecessor \in DOMAIN lims
    BY <1>1 DEF ChartInv, LinksJustified, LeoLinkJustified, LeoLinksOf
  <2> QED
    BY <2>1
<1> HIDE DEF All
<1>3. K \in SUBSET DOMAIN lims
  BY <1>2
<1>4. /\ l.predecessor \in path /\ path \subseteq DOMAIN lims
      /\ \A k \in path : lims[k].predecessor \in DOMAIN lims => lims[k].predecessor \in path
      /\ \A C \in SUBSET DOMAIN lims :
            /\ {l.predecessor} \subseteq C
            /\ \A k \in C : lims[k].predecessor \in DOMAIN lims => lims[k].predecessor \in C
            => path \subseteq C
  BY <1>1, <1>3, LeoPathsAre
<1>5. path \subseteq LeoPathsFrom(All)
  <2>1. /\ All \subseteq LeoPathsFrom(All) /\ LeoPathsFrom(All) \subseteq DOMAIN lims
        /\ \A k \in LeoPathsFrom(All) :
              lims[k].predecessor \in DOMAIN lims => lims[k].predecessor \in LeoPathsFrom(All)
    BY <1>1, <1>2, LeoPathsAre
  <2> QED
    BY <1>2, <1>4, <2>1
<1>6. \E k \in path : lims[k].predecessor = NoLIM
  <2>1. PICK k \in path : lims[k].predecessor \notin path
    BY <1>1, <1>4 DEF PathsEnd
  <2>2. lims[k].predecessor = NoLIM \/ lims[k].predecessor \in DOMAIN lims
    BY <1>1, <1>4 DEF LimJustified
  <2> QED
    BY <1>4, <2>1, <2>2
<1>7. ASSUME NEW k \in path, k # l.predecessor, \A j \in path : lims[j].predecessor # k
      PROVE  FALSE
  <2> DEFINE C == path \ {k}
  <2>1. /\ C \in SUBSET DOMAIN lims /\ {l.predecessor} \subseteq C
        /\ \A j \in C : lims[j].predecessor \in DOMAIN lims => lims[j].predecessor \in C
    BY <1>4, <1>7
  <2> HIDE DEF C
  <2>2. path \subseteq C
    BY <1>4, <2>1
  <2> QED
    BY <2>2 DEF C
<1>8. path \subseteq LeoPathsOf(e, y)
  BY <1>5 DEF LeoPathsOf, All
<1> QED
  BY <1>4, <1>6, <1>7, <1>8

\* The same, for one Leo item of the path.
LEMMA OnLinkPath ==
    ASSUME RecceInv, pc = "idle", NEW e, NEW y, NEW l \in LeoLinksOf(e, y),
           NEW k \in LeoPathsFrom({l.predecessor})
    PROVE  /\ k \in LeoPathsOf(e, y)
           /\ k # l.predecessor => \E j \in LeoPathsFrom({l.predecessor}) : lims[j].predecessor = k
<1>1. PICK K, path : K = {l.predecessor} /\ path = LeoPathsFrom(K)
  OBVIOUS
<1>2. path \subseteq LeoPathsOf(e, y)
  BY <1>1, LinkPaths
<1>3. \A m \in path : m \notin K => \E j \in path : lims[j].predecessor = m
  BY <1>1, LinkPaths
<1> QED
  BY <1>1, <1>2, <1>3

\* Every Leo item on the paths of an item is on the path of one of its links.
LEMMA PathHasLink ==
    ASSUME RecceInv, pc = "idle", NEW e, NEW y, NEW k \in LeoPathsOf(e, y)
    PROVE  \E l \in LeoLinksOf(e, y) : k \in LeoPathsFrom({l.predecessor})
<1>1. TypeInv /\ ChartInv
  BY DEF RecceInv
<1> DEFINE K == {m.predecessor : m \in LeoLinksOf(e, y)}
           C == {j \in DOMAIN lims :
                   \E l \in LeoLinksOf(e, y) : j \in LeoPathsFrom({l.predecessor})}
<1>2. ASSUME NEW l \in LeoLinksOf(e, y)
      PROVE  /\ l.predecessor \in DOMAIN lims /\ l.predecessor \in LeoPathsFrom({l.predecessor})
             /\ \A j \in LeoPathsFrom({l.predecessor}) :
                   lims[j].predecessor \in DOMAIN lims
                   => lims[j].predecessor \in LeoPathsFrom({l.predecessor})
  <2>1. l.predecessor \in DOMAIN lims
    BY <1>1 DEF ChartInv, LinksJustified, LeoLinkJustified, LeoLinksOf
  <2>2. {l.predecessor} \in SUBSET DOMAIN lims
    BY <2>1
  <2> QED
    BY <1>1, <2>1, <2>2, LeoPathsAre
<1>3. /\ K \in SUBSET DOMAIN lims /\ C \in SUBSET DOMAIN lims /\ K \subseteq C
      /\ \A j \in C : lims[j].predecessor \in DOMAIN lims => lims[j].predecessor \in C
  BY <1>2
<1> HIDE DEF C, K
<1>4. LeoPathsFrom(K) \subseteq C
  BY <1>1, <1>3, LeoPathsAre
<1>5. k \in C
  BY <1>4 DEF LeoPathsOf, K
<1> QED
  BY <1>5 DEF C

-----------------------------------------------------------------------------
(* The ur-nodes *)

\* There are finitely many items.
LEMMA ItemsFinite == IsFiniteSet(Earlemes \X YIMs)
<1> DEFINE dots == {Positions(i) : i \in IRLs}
           Dots == UNION dots
           T == IRLs \X (Dots \X Earlemes)
<1>1. IsFiniteSet(IRLs) /\ IsFiniteSet(Earlemes)
  BY CarriersFinite
<1>2. IsFiniteSet(dots)
  <2> DEFINE f == [i \in IRLs |-> Positions(i)]
  <2>1. f \in Surjection(IRLs, dots)
    BY DEF Surjection
  <2> HIDE DEF f, dots
  <2> QED
    BY <1>1, <2>1, FS_Surjection
<1>3. \A D \in dots : IsFiniteSet(D)
  <2> SUFFICES ASSUME NEW i \in IRLs PROVE IsFiniteSet(Positions(i))
    OBVIOUS
  <2>1. Positions(i) \subseteq 0 .. Len(RHS_of_IRL[i]) /\ Len(RHS_of_IRL[i]) \in Nat
    BY PositionsRange
  <2>2. IsFiniteSet(0 .. Len(RHS_of_IRL[i]))
    BY <2>1, FS_Interval
  <2> QED
    BY <2>1, <2>2, FS_Subset
<1>4. IsFiniteSet(Dots)
  <2> HIDE DEF dots
  <2> QED
    BY <1>2, <1>3, FS_UNION
<1>5. IsFiniteSet(T)
  <2>1. IsFiniteSet(Dots \X Earlemes)
    BY <1>1, <1>4, FS_Product
  <2> QED
    BY <1>1, <2>1, FS_Product
<1>6. \A y \in YIMs : /\ y.ahm.irl \in IRLs /\ y.ahm.dot \in Dots /\ y.origin \in Earlemes
                      /\ y = [ahm |-> [irl |-> y.ahm.irl, dot |-> y.ahm.dot], origin |-> y.origin]
  BY AHMParts DEF YIMs
<1> DEFINE f == [y \in YIMs |-> <<y.ahm.irl, <<y.ahm.dot, y.origin>>>>]
<1>7. f \in Injection(YIMs, T)
  <2> HIDE DEF Dots
  <2>1. f \in [YIMs -> T]
    BY <1>6
  <2>2. \A x, y \in YIMs : f[x] = f[y] => x = y
    BY <1>6
  <2> QED
    BY <2>1, <2>2 DEF Injection, IsInjective
<1>8. IsFiniteSet(YIMs)
  <2> HIDE DEF f, T
  <2> QED
    BY <1>5, <1>7, FS_Injection
<1> QED
  BY <1>1, <1>8, FS_Product

\* What an ur-node needs are items.
LEMMA UrChildrenAre ==
    ASSUME RecceInv, pc = "idle", NEW e \in Earlemes, NEW y, NEW c \in UrChildren(<<e, y>>)
    PROVE  c = <<c[1], c[2]>> /\ c[1] \in Earlemes /\ c[2] \in yims[c[1]]
<1>1. TypeInv /\ ChartInv /\ LinksJustified
  BY DEF RecceInv, ChartInv
<1>2. token_links \subseteq TokenLinks /\ completion_links \subseteq CompletionLinks
      /\ leo_links \subseteq LeoLinks
  BY <1>1 DEF TypeInv, TypeOK, ChartTypeOK
<1>3. \/ \E l \in TokenLinksOf(e, y) : c = <<l.token.start, l.predecessor>>
      \/ \E l \in CompletionLinksOf(e, y) : c = <<e, l.cause>>
      \/ \E l \in LeoLinksOf(e, y) : c = <<e, l.cause>>
      \/ \E l \in CompletionLinksOf(e, y) : c = <<l.cause.origin, l.predecessor>>
      \/ \E k \in LeoPathsOf(e, y) : c = <<k[1], lims[k].trailhead>>
  BY DEF UrChildren
<1>4. ASSUME NEW l \in TokenLinksOf(e, y), c = <<l.token.start, l.predecessor>>
      PROVE  c[1] \in Earlemes /\ c[2] \in yims[c[1]]
  BY <1>1, <1>2, <1>4 DEF TokenLinksOf, TokenLinks, Alternatives, LinksJustified,
                          TokenLinkJustified, PIMs
<1>5. ASSUME NEW l \in CompletionLinksOf(e, y),
             c = <<e, l.cause>> \/ c = <<l.cause.origin, l.predecessor>>
      PROVE  c[1] \in Earlemes /\ c[2] \in yims[c[1]]
  BY <1>1, <1>2, <1>5 DEF CompletionLinksOf, CompletionLinks, YIMs, LinksJustified,
                          CompletionLinkJustified, PIMs
<1>6. ASSUME NEW l \in LeoLinksOf(e, y), c = <<e, l.cause>>
      PROVE  c[1] \in Earlemes /\ c[2] \in yims[c[1]]
  BY <1>1, <1>6 DEF LeoLinksOf, LinksJustified, LeoLinkJustified
<1>7. ASSUME NEW k \in LeoPathsOf(e, y), c = <<k[1], lims[k].trailhead>>
      PROVE  c[1] \in Earlemes /\ c[2] \in yims[c[1]]
  <2>1. k \in DOMAIN lims /\ k[1] \in Earlemes
    BY ItemPaths
  <2> QED
    BY <1>1, <1>7, <2>1, TrailheadFacts
<1> QED
  BY <1>3, <1>4, <1>5, <1>6, <1>7

\* The ur-nodes are items, among them the start item, and the items that they
\* need.
LEMMA UrNodesAre ==
    ASSUME RecceInv, pc = "idle", NEW e \in Earlemes, NEW start \in yims[e]
    PROVE  /\ <<e, start>> \in UrNodes(<<e, start>>)
           /\ \A u \in UrNodes(<<e, start>>) :
                 /\ u = <<u[1], u[2]>> /\ u[1] \in Earlemes /\ u[2] \in yims[u[1]]
                 /\ UrChildren(u) \subseteq UrNodes(<<e, start>>)
<1> DEFINE U == Earlemes \X YIMs
           grow == [S \in SUBSET U |-> UNION {UrChildren(u) : u \in S}]
           Items == {u \in U : u[2] \in yims[u[1]]}
<1>1. yims \in [Earlemes -> SUBSET YIMs]
  BY DEF RecceInv, TypeInv, TypeOK, ChartTypeOK
<1>2. \A u \in U : UrChildren(u) \subseteq Items
  <2> SUFFICES ASSUME NEW u \in U, NEW c \in UrChildren(u) PROVE c \in Items
    OBVIOUS
  <2>1. u = <<u[1], u[2]>> /\ u[1] \in Earlemes
    OBVIOUS
  <2>2. c = <<c[1], c[2]>> /\ c[1] \in Earlemes /\ c[2] \in yims[c[1]]
    BY <2>1, UrChildrenAre
  <2> QED
    BY <1>1, <2>2
<1>3. IsFiniteSet(U)
  BY ItemsFinite
<1>4. grow \in [SUBSET U -> SUBSET U]
  BY <1>2
<1>5. IsMonotone(U, grow)
  BY DEF IsMonotone
<1>6. {<<e, start>>} \in SUBSET U /\ {<<e, start>>} \subseteq Items
  BY <1>1
<1>7. UrNodes(<<e, start>>) = Fixpoint(U, grow, {<<e, start>>})
  BY DEF UrNodes
<1>8. IsClosed(U, grow, Items)
  BY <1>2 DEF IsClosed
<1>9. \A S \in SUBSET U : IsClosed(U, grow, S) => \A u \in S : UrChildren(u) \subseteq S
  BY DEF IsClosed
<1> HIDE DEF grow, Items
<1>10. /\ {<<e, start>>} \subseteq UrNodes(<<e, start>>)
       /\ IsClosed(U, grow, UrNodes(<<e, start>>))
       /\ \A C : IsClosed(U, grow, C) /\ {<<e, start>>} \subseteq C => UrNodes(<<e, start>>) \subseteq C
  <2>1. PICK From \in SUBSET U : From = {<<e, start>>}
    BY <1>6
  <2> HIDE DEF U
  <2>2. /\ From \subseteq Fixpoint(U, grow, From)
        /\ IsClosed(U, grow, Fixpoint(U, grow, From))
        /\ \A C : IsClosed(U, grow, C) /\ From \subseteq C => Fixpoint(U, grow, From) \subseteq C
    BY <1>3, <1>4, <1>5, FixpointIsLeast
  <2> QED
    BY <1>7, <2>1, <2>2
<1>11. UrNodes(<<e, start>>) \subseteq Items /\ UrNodes(<<e, start>>) \in SUBSET U
  BY <1>6, <1>8, <1>10 DEF IsClosed
<1> QED
  BY <1>9, <1>10, <1>11 DEF Items

\* After the first Earley set the start item is the one completion of the start
\* rule.
LEMMA StartItem ==
    ASSUME RecceInv, NEW e \in Earlemes \ {0}, NEW y \in StartYIMs(e)
    PROVE  /\ y \in yims[e] /\ StartIRL \in IRLs /\ y.ahm = [irl |-> StartIRL, dot |-> 1]
           /\ y.origin = 0 /\ y = [ahm |-> [irl |-> StartIRL, dot |-> 1], origin |-> 0]
           /\ ProperPosition(y.ahm) = 1
<1>1. /\ y \in yims[e] /\ y.ahm.irl = StartIRL /\ y.origin = 0 /\ y \in YIMs
  BY DEF StartYIMs, RecceInv, TypeInv, TypeOK, ChartTypeOK
<1>2. y.ahm \in AHMs /\ StartIRL \in IRLs
  BY <1>1, AHMParts DEF YIMs
<1>3. Length_of_IRL(StartIRL) = 1
  BY <1>2, StartAssumption DEF Length_of_IRL
<1>4. y.ahm.dot \in 0 .. 1 /\ ProperPosition(y.ahm) \in 0 .. y.ahm.dot
  BY <1>1, <1>2, <1>3, ProperPositionIs
<1>5. ProperPosition(y.ahm) # 0
  <2>1. y.ahm # First_AHM_of_IRL(y.ahm.irl)
    BY <1>1 DEF RecceInv, SourcesInv
  <2> QED
    BY <1>2, <2>1, ProperPositionOfFirst
<1>6. y.ahm.dot = 1 /\ ProperPosition(y.ahm) = 1
  BY <1>4, <1>5
<1>7. y.ahm = [irl |-> StartIRL, dot |-> 1]
  BY <1>1, <1>2, <1>6, AHMParts
<1>8. y = [ahm |-> y.ahm, origin |-> y.origin]
  BY <1>1 DEF YIMs
<1> QED
  BY <1>1, <1>2, <1>6, <1>7, <1>8

-----------------------------------------------------------------------------
(* Or-nodes *)

\* No or-node is a token or missing, and no token is missing.
LEMMA KindsOfCause ==
    /\ NoOR \notin ORs
    /\ \A o \in ORs : ~ OR_is_Token(o)
    /\ \A c \in TokenCauses : OR_is_Token(c) /\ c # NoOR /\ c \notin ORs
<1>1. NoOR \notin ORs
  BY DEF NoOR, ORs, NoIRL, IRLs
<1>2. ASSUME NEW o \in ORs
      PROVE  ~ OR_is_Token(o)
  <2>1. DOMAIN o = {"irl", "position", "origin", "set", "psl"}
    BY DEF ORs
  <2> QED
    BY <2>1 DEF OR_is_Token
<1>3. ~ OR_is_Token(NoOR)
  <2>1. DOMAIN NoOR = {"irl", "position", "origin", "set", "psl"}
    BY DEF NoOR
  <2> QED
    BY <2>1 DEF OR_is_Token
<1>4. ASSUME NEW c \in TokenCauses
      PROVE  OR_is_Token(c)
  <2>1. DOMAIN c = {"type", "nsy", "value"}
    BY DEF TokenCauses
  <2> QED
    BY <2>1 DEF OR_is_Token
<1> QED
  BY <1>1, <1>2, <1>3, <1>4

\* Every or-node is in the PSL of its origin.
NodesFiled == \A o \in or_nodes : o \in ORs /\ o.psl = o.origin

\* What the PSL of an origin has is the or-node of the work set that starts
\* there.
LEMMA NodeFound ==
    ASSUME NodesFiled, NEW origin, NEW irl, NEW position,
           NEW n, n = [irl |-> irl, position |-> position, origin |-> origin, set |-> b_set,
                       psl |-> origin]
    PROVE  or_by_origin_and_symi(origin, irl, position) = IF n \in or_nodes THEN n ELSE NoOR
<1> DEFINE found == {o \in or_nodes : /\ o.set = b_set /\ o.psl = origin
                                      /\ o.irl = irl /\ o.position = position}
<1>1. \A o \in found : o = n
  BY DEF NodesFiled, ORs
<1>2. n \in or_nodes => n \in found
  OBVIOUS
<1>3. CASE n \in or_nodes
  <2>1. found = {n}
    BY <1>1, <1>2, <1>3
  <2> HIDE DEF found
  <2>2. (IF found = {} THEN NoOR ELSE CHOOSE o \in found : TRUE) = n
    BY <2>1
  <2> QED
    BY <1>3, <2>2 DEF or_by_origin_and_symi, found
<1>4. CASE n \notin or_nodes
  <2>1. found = {}
    BY <1>1, <1>4
  <2> QED
    BY <1>4, <2>1 DEF or_by_origin_and_symi
<1> QED
  BY <1>3, <1>4

-----------------------------------------------------------------------------
(* Items and their or-nodes *)

\* An item starts no later than its set, and there if nothing proper is before
\* its dot; if something is, it has a source.
LEMMA ItemFacts ==
    ASSUME RecceInv, NEW e \in Earlemes, NEW y \in yims[e]
    PROVE  /\ y \in YIMs /\ y.ahm \in AHMs /\ y.ahm.irl \in IRLs /\ y.origin \in Earlemes
           /\ y = [ahm |-> y.ahm, origin |-> y.origin] /\ y.origin <= e
           /\ y.ahm.dot \in Nat /\ y.ahm.dot <= Length_of_IRL(y.ahm.irl)
           /\ Length_of_IRL(y.ahm.irl) \in Nat
           /\ ProperPosition(y.ahm) \in 0 .. y.ahm.dot /\ ProperPosition(y.ahm) \in Nat
           /\ Null_Count_of_AHM(y.ahm) = y.ahm.dot - ProperPosition(y.ahm)
           /\ ProperPosition(y.ahm) = 0 => y.origin = e
           /\ ProperPosition(y.ahm) # 0 => HasSource(e, y)
<1>1. y \in YIMs /\ y.origin <= e
  BY DEF RecceInv, TypeInv, TypeOK, ChartTypeOK, ChartInv, ItemsAgree, FitsAt
<1>2. y.ahm \in AHMs /\ y.origin \in Earlemes /\ y = [ahm |-> y.ahm, origin |-> y.origin]
  BY <1>1 DEF YIMs
<1>3. ProperPosition(y.ahm) = 0 <=> y.ahm = First_AHM_of_IRL(y.ahm.irl)
  BY <1>2, ProperPositionOfFirst
<1>4. IF y.ahm = First_AHM_of_IRL(y.ahm.irl) THEN y.origin = e ELSE HasSource(e, y)
  BY DEF RecceInv, SourcesInv
<1>5. Length_of_IRL(y.ahm.irl) \in Nat
  BY <1>2, AHMParts, PositionsRange DEF Length_of_IRL
<1> QED
  BY <1>1, <1>2, <1>3, <1>4, <1>5, ProperPositionIs

\* The or-nodes of an item, and which of them are nulling.
LEMMA NodeAtIs ==
    ASSUME RecceInv, NEW e \in Earlemes, NEW y \in yims[e], NEW q \in 1 .. y.ahm.dot
    PROVE  /\ NodeAt(y, q, e) \in ORs /\ q \in 1 .. Length_of_IRL(y.ahm.irl)
           /\ Symbol_of_OR(NodeAt(y, q, e)) = RHS_of_IRL[y.ahm.irl][q]
           /\ RHS_of_IRL[y.ahm.irl][q] \in NSYs
           /\ q = ProperPosition(y.ahm) => RHS_of_IRL[y.ahm.irl][q] \notin NullingNSYs
           /\ q > ProperPosition(y.ahm) => RHS_of_IRL[y.ahm.irl][q] \in NullingNSYs
<1>1. /\ y.ahm \in AHMs /\ y.ahm.irl \in IRLs /\ y.origin \in Earlemes
      /\ y.ahm.dot \in Nat /\ y.ahm.dot <= Length_of_IRL(y.ahm.irl)
      /\ Length_of_IRL(y.ahm.irl) \in Nat /\ ProperPosition(y.ahm) \in Nat
  BY ItemFacts
<1>2. q \in Nat /\ q > 0 /\ q <= y.ahm.dot /\ q \in 1 .. Length_of_IRL(y.ahm.irl)
  BY <1>1
<1>3. RHS_of_IRL[y.ahm.irl] \in Seq(NSYs)
  BY <1>1, GrammarAssumption
<1>4. RHS_of_IRL[y.ahm.irl][q] \in NSYs
  BY <1>2, <1>3 DEF Length_of_IRL
<1>5. /\ ProperPosition(y.ahm) > 0
            => RHS_of_IRL[y.ahm.irl][ProperPosition(y.ahm)] \notin NullingNSYs
      /\ \A r \in ProperPosition(y.ahm) + 1 .. y.ahm.dot : RHS_of_IRL[y.ahm.irl][r] \in NullingNSYs
  BY <1>1, ProperPositionIs
<1>6. NodeAt(y, q, e) \in ORs
  BY <1>1, <1>2 DEF NodeAt, ORs
<1>7. Symbol_of_OR(NodeAt(y, q, e)) = RHS_of_IRL[y.ahm.irl][q]
  BY DEF NodeAt, Symbol_of_OR
<1>8. q > ProperPosition(y.ahm) => q \in ProperPosition(y.ahm) + 1 .. y.ahm.dot
  BY <1>1, <1>2
<1> QED
  BY <1>2, <1>4, <1>5, <1>6, <1>7, <1>8

\* Two items of a set that have an or-node between their proper positions and
\* their dots in common are the same.
LEMMA NodesApart ==
    ASSUME RecceInv, NEW e \in Earlemes, NEW x \in yims[e], NEW y \in yims[e],
           NEW q \in ProperPosition(x.ahm) .. x.ahm.dot,
           NEW r \in ProperPosition(y.ahm) .. y.ahm.dot,
           NodeAt(x, q, e) = NodeAt(y, r, e)
    PROVE  x = y
<1>1. /\ x.ahm \in AHMs /\ y.ahm \in AHMs /\ ProperPosition(x.ahm) \in Nat
      /\ x = [ahm |-> x.ahm, origin |-> x.origin] /\ y = [ahm |-> y.ahm, origin |-> y.origin]
      /\ x.ahm.dot \in Nat
  BY ItemFacts
<1>2. x.ahm.irl = y.ahm.irl /\ q = r /\ x.origin = y.origin
  <2>1. /\ NodeAt(x, q, e).irl = x.ahm.irl /\ NodeAt(y, r, e).irl = y.ahm.irl
        /\ NodeAt(x, q, e).position = q /\ NodeAt(y, r, e).position = r
        /\ NodeAt(x, q, e).origin = x.origin /\ NodeAt(y, r, e).origin = y.origin
    BY DEF NodeAt
  <2> QED
    BY <2>1
<1>3. q \in Nat
  BY <1>1
<1>4. x.ahm = y.ahm
  BY <1>1, <1>2, <1>3, PositionsApart
<1> QED
  BY <1>1, <1>2, <1>4

\* The or-nodes of the Leo paths of an item.
LEMMA PathNodeIs ==
    ASSUME LeoRulesEndProper, RecceInv, pc = "idle", NEW e \in Earlemes, NEW y,
           NEW k \in LeoPathsOf(e, y),
           NEW t, t = lims[k].trailhead, NEW n, n = Length_of_IRL(t.ahm.irl)
    PROVE  /\ PathNode(k, e) = [irl |-> t.ahm.irl, position |-> n, origin |-> t.origin,
                                set |-> e, psl |-> t.origin]
           /\ PathNode(k, e) \in ORs /\ n \in 1 .. Length_of_IRL(t.ahm.irl)
           /\ Symbol_of_OR(PathNode(k, e)) = k[2] /\ k[2] \notin NullingNSYs
           /\ lims[k].predecessor = NoLIM =>
                 y = TrailheadCompletion(k) /\ PathNode(k, e) = NodeAt(y, n, e)
                 /\ ProperPosition(y.ahm) = n /\ y.ahm.dot = n
<1>1. k \in DOMAIN lims /\ lims[k].predecessor = NoLIM => y = TrailheadCompletion(k)
  BY ItemPaths
<1>2. k \in DOMAIN lims
  BY ItemPaths
<1>3. /\ t \in YIMs /\ n \in Nat /\ n > 0 /\ RHS_of_IRL[t.ahm.irl][n] = k[2]
      /\ k[2] \in NSYs \ NullingNSYs
      /\ TrailheadCompletion(k).ahm.irl = t.ahm.irl /\ TrailheadCompletion(k).ahm.dot = n
      /\ TrailheadCompletion(k).origin = t.origin
      /\ TrailheadCompletion(k).ahm = Trailhead_AHM_of_LIM(k)
      /\ ProperPosition(Trailhead_AHM_of_LIM(k)) = n
  BY <1>2, TrailheadEnds
<1>4. t.ahm.irl \in IRLs /\ t.origin \in Earlemes
  BY <1>3, AHMParts DEF YIMs
<1>5. PathNode(k, e) = [irl |-> t.ahm.irl, position |-> n, origin |-> t.origin,
                        set |-> e, psl |-> t.origin]
  BY <1>3 DEF PathNode, NodeAt
<1>6. PathNode(k, e) \in ORs
  BY <1>3, <1>4, <1>5 DEF ORs
<1>7. Symbol_of_OR(PathNode(k, e)) = k[2]
  BY <1>3, <1>5 DEF Symbol_of_OR
<1>8. lims[k].predecessor = NoLIM => PathNode(k, e) = NodeAt(y, n, e)
  BY <1>1, <1>2 DEF PathNode
<1> QED
  BY <1>1, <1>2, <1>3, <1>5, <1>6, <1>7, <1>8

-----------------------------------------------------------------------------
(* Making or-nodes *)

\* One more and-node in front.
LEMMA InFront ==
    ASSUME NEW S, NEW x \in S, NEW s \in Seq(S)
    PROVE  /\ <<>> \in Seq(S) /\ <<x>> \in Seq(S) /\ <<x>> \o s \in Seq(S)
           /\ <<x>> # <<>> /\ <<x>> \o s # <<>>
<1>1. <<>> \in Seq(S) /\ <<x>> \in Seq(S) /\ Len(<<x>>) = 1
  OBVIOUS
<1>2. <<x>> \o s \in Seq(S) /\ Len(<<x>> \o s) = 1 + Len(s) /\ Len(s) \in Nat
  BY <1>1
<1>3. Len(<<>>) = 0
  OBVIOUS
<1> QED
  BY <1>1, <1>2, <1>3

\* An and-node meets its neighbors in a larger set of or-nodes as well.
LEMMA NodesStay ==
    ASSUME NEW o, NodeTypeOK(o), or_nodes \subseteq or_nodes', dands'[o] = dands[o]
    PROVE  NodeTypeOK(o)'
<1>1. \A a : Meets(o, a) => Meets(o, a)'
  BY DEF Meets
<1>2. \A a : MeetsProper(o, a) => MeetsProper(o, a)'
  BY <1>1 DEF MeetsProper
<1> DEFINE S == {a \in DANDs : MeetsProper(o, a)}
           T == {a \in DANDs : MeetsProper(o, a)'}
<1>3. S \subseteq T
  BY <1>2
<1>4. dands[o] \in Seq(S)
  BY DEF NodeTypeOK
<1> HIDE DEF S, T
<1>5. dands'[o] \in Seq(T)
  BY <1>3, <1>4
<1> QED
  BY <1>5 DEF NodeTypeOK, S, T

\* The or-nodes of the invariant are filed.
LEMMA AllFiled ==
    ASSUME NodesAgree
    PROVE  NodesFiled
  BY DEF NodesAgree, NodeTypeOK, NodesFiled

\* Of an item that was not reached yet, no nulling or-node is there, and no
\* other one either if there are to be nulling ones.
LEMMA FreshNodes ==
    ASSUME LeoRulesEndProper, RecceInv, pc = "idle", BuildingInv, b_pc = "or-nodes",
           NEW y \in b_todo, NEW q \in ProperPosition(y.ahm) .. y.ahm.dot, q > 0,
           ProperPosition(y.ahm) < y.ahm.dot
    PROVE  NodeAt(y, q, b_set) \notin or_nodes
<1> DEFINE o == NodeAt(y, q, b_set)
           p == ProperPosition(y.ahm)
<1>1. /\ b_set \in Earlemes /\ <<b_set, y>> \in DOMAIN psi /\ y \in yims[b_set]
  BY DEF BuildingInv, PsiAgrees, WorkAgrees
<1> SUFFICES ASSUME o \in or_nodes PROVE FALSE
  OBVIOUS
<1>2. PICK u \in DOMAIN psi :
         /\ IsReached(u) /\ u[1] = o.set
         /\ IF Symbol_of_OR(o) \notin NullingNSYs THEN Serves(o.set, u[2], o)
            ELSE /\ o.position \in ProperPosition(u[2].ahm) + 1 .. u[2].ahm.dot
                 /\ o = NodeAt(u[2], o.position, o.set)
  BY DEF BuildingInv, NodesAgree, NodeNeeded
<1>3. o.set = b_set /\ o.position = q /\ o.irl = y.ahm.irl
  BY DEF NodeAt
<1>4. u[2] \in yims[b_set] /\ u[2] # y
  BY <1>2, <1>3 DEF BuildingInv, PsiAgrees, IsReached, Earlemes
<1>5. /\ p \in Nat /\ y.ahm.dot \in Nat /\ y.ahm.dot <= Length_of_IRL(y.ahm.irl)
      /\ Length_of_IRL(y.ahm.irl) \in Nat
      /\ ProperPosition(u[2].ahm) \in Nat /\ u[2].ahm.dot \in Nat
      /\ ProperPosition(u[2].ahm) <= u[2].ahm.dot
  BY <1>1, <1>4, ItemFacts
<1>6. q \in 1 .. y.ahm.dot
  BY <1>5
<1>7. ASSUME NEW r \in ProperPosition(u[2].ahm) .. u[2].ahm.dot, o = NodeAt(u[2], r, b_set)
      PROVE  FALSE
  BY <1>1, <1>4, <1>7, NodesApart
<1>8. CASE Symbol_of_OR(o) \in NullingNSYs
  <2>1. q \in ProperPosition(u[2].ahm) .. u[2].ahm.dot /\ o = NodeAt(u[2], q, b_set)
    BY <1>2, <1>3, <1>5, <1>8
  <2> QED
    BY <1>7, <2>1
<1>9. CASE Symbol_of_OR(o) \notin NullingNSYs
  <2>1. q = p
    BY <1>1, <1>5, <1>6, <1>9, NodeAtIs
  <2>2. o # NodeAt(u[2], ProperPosition(u[2].ahm), b_set)
    BY <1>5, <1>7
  <2>3. PICK k \in UpperLIMs(b_set, u[2]) : o = PathNode(k, b_set)
    BY <1>2, <1>3, <1>9, <2>2 DEF Serves
  <2>4. k \in LeoPathsOf(b_set, u[2])
    BY DEF UpperLIMs
  <2>5. o.position = Length_of_IRL(o.irl)
    <3> DEFINE t == lims[k].trailhead
               n == Length_of_IRL(t.ahm.irl)
    <3>1. PathNode(k, b_set) = [irl |-> t.ahm.irl, position |-> n, origin |-> t.origin,
                                set |-> b_set, psl |-> t.origin]
      BY <1>1, <2>4, PathNodeIs
    <3> QED
      BY <2>3, <3>1
  <2> QED
    BY <1>3, <1>5, <2>1, <2>5
<1> QED
  BY <1>8, <1>9

\* What CreateOrNodes makes: the or-nodes of the item from its proper position
\* to its dot, each nulling one with the and-node that comes to it.
LEMMA OwnNodesAdded ==
    ASSUME LeoRulesEndProper, RecceInv, pc = "idle", BuildingInv, b_pc = "or-nodes",
           NEW y \in b_todo,
           NEW p, p = ProperPosition(y.ahm), NEW n, n = Null_Count_of_AHM(y.ahm),
           AddNodes(y.ahm.irl, p, n, y.origin, y.origin)
    PROVE  /\ or_nodes' = or_nodes \cup {NodeAt(y, q, b_set) : q \in {r \in p .. y.ahm.dot : r > 0}}
           /\ DOMAIN dands' = or_nodes'
           /\ \A o \in or_nodes : dands'[o] = dands[o]
           /\ p > 0 /\ NodeAt(y, p, b_set) \notin or_nodes => dands'[NodeAt(y, p, b_set)] = <<>>
           /\ \A q \in p + 1 .. y.ahm.dot :
                 /\ NodeAt(y, q, b_set) \notin or_nodes
                 /\ dands'[NodeAt(y, q, b_set)] = <<NullingDAND(NodeAt(y, q, b_set))>>
<1> DEFINE d == y.ahm.dot
           irl == y.ahm.irl
           PSL_at(q) == IF q = p THEN y.origin ELSE y.origin
           Node(q) == [irl |-> irl, position |-> q, origin |-> y.origin, set |-> b_set,
                       psl |-> PSL_at(q)]
           new == {q \in p .. p + n : q > 0 /\ or_by_origin_and_symi(PSL_at(q), irl, q) = NoOR}
           last_or_node(q) ==
              IF \E r \in new : r < q
              THEN Node(CHOOSE r \in new : r < q /\ \A s \in new : s < q => s <= r)
              ELSE NoOR
           DANDs_at(q) ==
              IF q = p THEN <<>>
              ELSE <<[predecessor |-> last_or_node(q),
                      cause |-> NullingToken(RHS_of_IRL[irl][q])]>>
<1>1. /\ b_set \in Earlemes /\ y \in yims[b_set] /\ NodesFiled
  BY AllFiled DEF BuildingInv, PsiAgrees, WorkAgrees
<1>2. /\ p \in Nat /\ d \in Nat /\ p <= d /\ n = d - p /\ p + n = d
  BY <1>1, ItemFacts
<1>3. /\ or_nodes' = or_nodes \cup {Node(q) : q \in new}
      /\ dands' = [o \in or_nodes' |-> IF o \in or_nodes THEN dands[o]
                                       ELSE DANDs_at(o.position)]
  BY DEF AddNodes
<1>4. \A q : Node(q) = NodeAt(y, q, b_set)
  BY DEF NodeAt
<1>5. \A q : or_by_origin_and_symi(PSL_at(q), irl, q)
                = IF Node(q) \in or_nodes THEN Node(q) ELSE NoOR
  <2> SUFFICES ASSUME NEW q
               PROVE  or_by_origin_and_symi(y.origin, irl, q)
                         = IF Node(q) \in or_nodes THEN Node(q) ELSE NoOR
    OBVIOUS
  <2>1. Node(q) = [irl |-> irl, position |-> q, origin |-> y.origin, set |-> b_set,
                   psl |-> y.origin]
    OBVIOUS
  <2> HIDE DEF Node, irl
  <2> QED
    BY <1>1, <2>1, NodeFound
<1>6. \A q \in p .. d : q \in new <=> q > 0 /\ NodeAt(y, q, b_set) \notin or_nodes
  <2>1. \A o \in or_nodes : o # NoOR
    BY <1>1, KindsOfCause DEF NodesFiled
  <2> QED
    BY <1>2, <1>4, <1>5, <2>1
<1>7. new \subseteq p .. d
  BY <1>2
<1> HIDE DEF Node, new
<1>8. or_nodes' = or_nodes \cup {NodeAt(y, q, b_set) : q \in {r \in p .. d : r > 0}}
  BY <1>3, <1>4, <1>6, <1>7
<1>9. \A q : NodeAt(y, q, b_set).position = q
  BY DEF NodeAt
<1>10. \A q \in p .. d : q > 0 /\ NodeAt(y, q, b_set) \notin or_nodes
          => dands'[NodeAt(y, q, b_set)] = DANDs_at(q)
  <2> HIDE DEF DANDs_at
  <2> SUFFICES ASSUME NEW q \in p .. d, q > 0, NodeAt(y, q, b_set) \notin or_nodes
               PROVE  dands'[NodeAt(y, q, b_set)] = DANDs_at(q)
    OBVIOUS
  <2>1. PICK o : o = NodeAt(y, q, b_set)
    OBVIOUS
  <2>2. o \in or_nodes' /\ o \notin or_nodes /\ o.position = q
    BY <1>8, <1>9, <2>1
  <2> QED
    BY <1>3, <2>1, <2>2
<1>11. ASSUME NEW q \in p + 1 .. d
       PROVE  /\ NodeAt(y, q, b_set) \notin or_nodes
              /\ dands'[NodeAt(y, q, b_set)] = <<NullingDAND(NodeAt(y, q, b_set))>>
  <2>1. p < d /\ q \in p .. d /\ q > 0 /\ q # p /\ q \in Nat
    BY <1>2
  <2>2. \A r \in p .. d : r > 0 => NodeAt(y, r, b_set) \notin or_nodes
    BY <2>1, FreshNodes
  <2>3. last_or_node(q) = IF q = 1 THEN NoOR ELSE NodeAt(y, q - 1, b_set)
    <3>1. CASE q = 1
      <4>1. \A r \in new : ~ (r < q)
        BY <1>2, <1>6, <1>7, <3>1
      <4> QED
        BY <3>1, <4>1
    <3>2. CASE q # 1
      <4>1. q - 1 \in new /\ q - 1 < q /\ \A s \in new : s < q => s <= q - 1
        BY <1>2, <1>6, <1>7, <2>1, <2>2, <3>2
      <4>2. \A r \in new : r < q /\ (\A s \in new : s < q => s <= r) => r = q - 1
        BY <1>2, <1>7, <2>1, <4>1
      <4>3. (CHOOSE r \in new : r < q /\ \A s \in new : s < q => s <= r) = q - 1
        BY <4>1, <4>2
      <4> QED
        BY <1>4, <3>2, <4>1, <4>3
    <3> QED
      BY <3>1, <3>2
  <2> HIDE DEF last_or_node
  <2>4. DANDs_at(q) = <<[predecessor |-> last_or_node(q),
                         cause |-> NullingToken(RHS_of_IRL[irl][q])]>>
    BY <2>1
  <2>5. NullingDAND(NodeAt(y, q, b_set))
           = [predecessor |-> last_or_node(q), cause |-> NullingToken(RHS_of_IRL[irl][q])]
    BY <2>1, <2>3 DEF NullingDAND, NodeAt, Symbol_of_OR
  <2> QED
    BY <1>10, <2>1, <2>2, <2>4, <2>5
<1>12. p > 0 /\ NodeAt(y, p, b_set) \notin or_nodes => dands'[NodeAt(y, p, b_set)] = <<>>
  <2>1. p \in p .. d /\ DANDs_at(p) = <<>>
    BY <1>2
  <2> QED
    BY <1>10, <2>1
<1>13. DOMAIN dands' = or_nodes' /\ \A o \in or_nodes : dands'[o] = dands[o]
  BY <1>3
<1> QED
  BY <1>8, <1>11, <1>12, <1>13

\* The ur-nodes stay closed, and an or-node stays needed.
LEMMA PsiStays ==
    ASSUME PsiAgrees, UNCHANGED vars, UNCHANGED b_end, DOMAIN psi' = DOMAIN psi,
           b_set' \in Earlemes
    PROVE  PsiAgrees'
<1>1. /\ UNCHANGED yims /\ \A u : UrChildren(u)' = UrChildren(u)
      /\ \A e : StartYIMs(e)' = StartYIMs(e)
  BY RecceStays
<1>2. StartYIMs(b_end)' = StartYIMs(b_end)
  <2>1. PICK e : e = b_end
    OBVIOUS
  <2>2. StartYIMs(b_end)' = StartYIMs(e)'
    BY <2>1 DEF StartYIMs
  <2> QED
    BY <1>1, <2>1, <2>2
<1> QED
  BY <1>1, <1>2 DEF PsiAgrees

LEMMA NeedStays ==
    ASSUME NEW o, NodeNeeded(o), UNCHANGED vars, DOMAIN psi' = DOMAIN psi,
           \A u \in DOMAIN psi : IsReached(u) => IsReached(u)'
    PROVE  NodeNeeded(o)'
<1>1. \A e, y : Serves(e, y, o) => Serves(e, y, o)'
  <2>1. /\ \A e, y : UpperLIMs(e, y)' = UpperLIMs(e, y)
        /\ \A k, e : PathNode(k, e)' = PathNode(k, e)
    BY RecceStays
  <2> QED
    BY <2>1 DEF Serves
<1> QED
  BY <1>1 DEF NodeNeeded

LEMMA CreateOrNodesKeeps ==
    ASSUME LeoRulesEndProper, RecceInv, pc = "idle", BuildingInv, CreateOrNodes, UNCHANGED vars
    PROVE  BuildingInv' /\ Building'
<1>1. PICK y \in NextOf(b_todo) :
         /\ b_todo' = b_todo \ {y}
         /\ AddNodes(y.ahm.irl, ProperPosition(y.ahm), Null_Count_of_AHM(y.ahm), y.origin, y.origin)
         /\ psi' = [psi EXCEPT ![<<b_set, y>>] =
               IF ProperPosition(y.ahm) + Null_Count_of_AHM(y.ahm) = 0 THEN NoOR
               ELSE [irl |-> y.ahm.irl,
                     position |-> ProperPosition(y.ahm) + Null_Count_of_AHM(y.ahm),
                     origin |-> y.origin, set |-> b_set, psl |-> y.origin]]
         /\ b_path' = UpperLIMs(b_set, y)
  BY DEF CreateOrNodes, UpperLIMs
<1>2. /\ b_pc = "or-nodes" /\ b_path = {} /\ b_links = {}
      /\ UNCHANGED <<b_pc, b_end, b_set, b_item, b_links>>
  BY DEF CreateOrNodes, BuildingInv, WorkAgrees
<1>3. PICK e \in Earlemes : e = b_set
  BY DEF BuildingInv, PsiAgrees
<1> DEFINE u0 == <<e, y>>
           p == ProperPosition(y.ahm)
           d == y.ahm.dot
<1>4. y \in b_todo
  BY <1>1 DEF NextOf
<1>5. u0 \in DOMAIN psi /\ y \in yims[b_set]
  BY <1>3, <1>4 DEF BuildingInv, WorkAgrees, PsiAgrees
<1>6. /\ y.ahm \in AHMs /\ y.ahm.irl \in IRLs /\ y.origin \in Earlemes
      /\ d \in Nat /\ p \in Nat /\ p <= d /\ Null_Count_of_AHM(y.ahm) = d - p
      /\ p = 0 => y.origin = b_set
  BY <1>3, <1>5, ItemFacts
<1>7. /\ or_nodes' = or_nodes \cup {NodeAt(y, q, b_set) : q \in {r \in p .. d : r > 0}}
      /\ DOMAIN dands' = or_nodes'
      /\ \A o \in or_nodes : dands'[o] = dands[o]
      /\ p > 0 /\ NodeAt(y, p, b_set) \notin or_nodes => dands'[NodeAt(y, p, b_set)] = <<>>
      /\ \A q \in p + 1 .. d :
            /\ NodeAt(y, q, b_set) \notin or_nodes
            /\ dands'[NodeAt(y, q, b_set)] = <<NullingDAND(NodeAt(y, q, b_set))>>
  BY <1>1, <1>2, <1>4, OwnNodesAdded
<1>8. \A u \in DOMAIN psi : IsReached(u)' <=> IsReached(u) \/ u = u0
  <2>1. \A u \in DOMAIN psi : u = <<u[1], u[2]>>
    BY DEF BuildingInv, PsiAgrees
  <2> QED
    BY <1>1, <1>2, <1>3, <1>5, <2>1 DEF IsReached
<1>9. /\ DOMAIN psi' = DOMAIN psi /\ psi'[u0] = ItemOR(y, b_set)
      /\ \A u \in DOMAIN psi : u # u0 => psi'[u] = psi[u]
  BY <1>1, <1>3, <1>5, <1>6 DEF ItemOR, NodeAt
<1>10. PsiAgrees'
  BY <1>2, <1>3, <1>9, PsiStays DEF BuildingInv
<1>11. /\ \A a, b : UpperLIMs(a, b)' = UpperLIMs(a, b)
       /\ \A a, b : PathNode(a, b)' = PathNode(a, b)
       /\ UNCHANGED yims
  BY RecceStays
<1>12. UpperLIMs(b_set, y) = UpperLIMs(e, y) /\ b_set' = e
  BY <1>2, <1>3
<1>13. WorkAgrees'
  <2>1. IsReached(u0)' /\ u0[1] = e /\ u0[2] = y
    BY <1>5, <1>8
  <2>2. ASSUME NEW k \in b_path'
        PROVE  b_pc' = "or-nodes" /\ \E u \in DOMAIN psi' :
                  IsReached(u)' /\ u[1] = b_set' /\ k \in UpperLIMs(b_set, u[2])'
    <3>1. k \in UpperLIMs(e, y)
      BY <1>1, <1>12
    <3>2. UpperLIMs(b_set, u0[2])' = UpperLIMs(e, y)'
      BY <1>12, <2>1 DEF UpperLIMs
    <3> QED
      BY <1>2, <1>5, <1>9, <1>11, <1>12, <2>1, <3>1, <3>2
  <2> QED
    BY <1>1, <1>2, <1>9, <2>2 DEF BuildingInv, WorkAgrees
<1>14. NodesMade'
  <2> SUFFICES ASSUME NEW u \in DOMAIN psi', IsReached(u)'
               PROVE  /\ psi'[u] = ItemOR(u[2], u[1])
                      /\ \A q \in ProperPosition(u[2].ahm) .. u[2].ahm.dot :
                            q > 0 => NodeAt(u[2], q, u[1]) \in or_nodes'
                      /\ \A k \in UpperLIMs(u[1], u[2])' :
                            PathNode(k, u[1])' \in or_nodes' \/ (u[1] = b_set' /\ k \in b_path')
    BY DEF NodesMade
  <2>1. CASE u = u0
    BY <1>1, <1>3, <1>7, <1>9, <1>11, <1>12, <2>1
  <2>2. CASE u # u0
    BY <1>2, <1>7, <1>8, <1>9, <1>11, <2>2 DEF BuildingInv, NodesMade
  <2> QED
    BY <2>1, <2>2
<1>15. \A o \in or_nodes' : o \in or_nodes \/ \E q \in p .. d : q > 0 /\ o = NodeAt(y, q, e)
  BY <1>3, <1>7
<1>16. NodesAgree'
  <2>1. ASSUME NEW o \in or_nodes
        PROVE  /\ NodeTypeOK(o)' /\ o.set <= b_set' /\ NodeNeeded(o)'
               /\ Symbol_of_OR(o) \in NullingNSYs => dands'[o] = <<NullingDAND(o)>>
    <3>1. NodeTypeOK(o)'
      BY <1>7, NodesStay DEF BuildingInv, NodesAgree
    <3>2. NodeNeeded(o)'
      BY <1>8, <1>9, NeedStays DEF BuildingInv, NodesAgree
    <3> QED
      BY <1>2, <1>7, <3>1, <3>2 DEF BuildingInv, NodesAgree
  <2>2. ASSUME NEW q \in p .. d, q > 0, NEW o, o = NodeAt(y, q, e), o \notin or_nodes
        PROVE  /\ NodeTypeOK(o)' /\ o.set <= b_set' /\ NodeNeeded(o)'
               /\ Symbol_of_OR(o) \in NullingNSYs => dands'[o] = <<NullingDAND(o)>>
    <3>1. q \in 1 .. d /\ q \in Nat
      BY <1>6, <2>2
    <3>2. /\ o \in ORs /\ q \in 1 .. Length_of_IRL(y.ahm.irl)
          /\ Symbol_of_OR(o) = RHS_of_IRL[y.ahm.irl][q] /\ Symbol_of_OR(o) \in NSYs
          /\ q = p => Symbol_of_OR(o) \notin NullingNSYs
          /\ q > p => Symbol_of_OR(o) \in NullingNSYs
      BY <1>3, <1>5, <2>2, <3>1, NodeAtIs
    <3>3. /\ o.psl = o.origin /\ o.position = q /\ o.irl = y.ahm.irl /\ o.set = e
          /\ o.origin = y.origin
      BY <2>2 DEF NodeAt
    <3>4. IF q = p THEN dands'[o] = <<>>
          ELSE q \in p + 1 .. d /\ dands'[o] = <<NullingDAND(o)>>
      BY <1>3, <1>6, <1>7, <2>2, <3>1
    <3>5. ASSUME q # p
          PROVE  NullingDAND(o) \in DANDs /\ MeetsProper(o, NullingDAND(o))'
      <4> DEFINE a == NullingDAND(o)
                 before == NodeAt(y, q - 1, e)
      <4>1. a = [predecessor |-> IF q = 1 THEN NoOR ELSE before,
                 cause |-> NullingToken(Symbol_of_OR(o))]
        BY <2>2, <3>3 DEF NullingDAND, NodeAt
      <4>2. /\ a.cause = [type |-> "nulling", nsy |-> Symbol_of_OR(o), value |-> 0]
            /\ a.cause \in TokenCauses
        BY <3>2, <4>1 DEF NullingToken, TokenCause, TokenCauses
      <4>3. q # 1 => before \in or_nodes' /\ before \in ORs
        <5>1. q # 1 => q - 1 \in p .. d /\ q - 1 > 0 /\ q - 1 \in 1 .. d
          BY <1>6, <3>1, <3>5
        <5> QED
          BY <1>3, <1>5, <1>7, <5>1, NodeAtIs
      <4>4. before.irl = y.ahm.irl /\ before.position = q - 1 /\ before.origin = y.origin
            /\ before.set = e
        BY DEF NodeAt
      <4>5. a \in DANDs
        BY <4>1, <4>2, <4>3 DEF DANDs
      <4>6. OR_is_Token(a.cause) /\ a.cause # NoOR
        BY <4>2, KindsOfCause
      <4>7. before \in or_nodes' => before # NoOR \/ q = 1
        BY <4>3, KindsOfCause
      <4>8. q = 1 => y.origin = e
        BY <1>3, <1>6, <3>5
      <4>9. Meets(o, a)'
        BY <3>3, <4>1, <4>2, <4>3, <4>4, <4>6, <4>7, <4>8 DEF Meets, Symbol_of_OR
      <4>10. Symbol_of_OR(o) \in NullingNSYs
        BY <1>6, <3>1, <3>2, <3>5
      <4> QED
        BY <4>5, <4>9, <4>10 DEF MeetsProper
    <3>6. NodeTypeOK(o)'
      <4> DEFINE T == {a \in DANDs : MeetsProper(o, a)'}
      <4>1. dands'[o] = <<>> \/ (dands'[o] = <<NullingDAND(o)>> /\ NullingDAND(o) \in T)
        BY <3>4, <3>5
      <4> HIDE DEF T
      <4>2. PICK a : a = NullingDAND(o)
        OBVIOUS
      <4>3. dands'[o] \in Seq(T)
        <5>1. dands'[o] = <<>> \/ (dands'[o] = <<a>> /\ a \in T)
          BY <4>1, <4>2
        <5>2. <<>> \in Seq(T) /\ \A x \in T : <<x>> \in Seq(T)
          BY InFront, EmptySeq
        <5> QED
          BY <5>1, <5>2
      <4> QED
        BY <3>2, <3>3, <4>3 DEF NodeTypeOK, T
    <3>7. NodeNeeded(o)'
      <4>1. u0 \in DOMAIN psi' /\ IsReached(u0)' /\ u0[1] = o.set /\ u0[2] = y
        BY <1>3, <1>5, <1>8, <1>9, <3>3
      <4>2. q = p => Serves(o.set, y, o)'
        BY <2>2, <3>3 DEF Serves
      <4>3. q # p => o.position \in ProperPosition(y.ahm) + 1 .. y.ahm.dot
        BY <3>3, <3>4
      <4> QED
        <5>1. CASE Symbol_of_OR(o) \notin NullingNSYs
          BY <1>6, <3>1, <3>2, <4>1, <4>2, <5>1 DEF NodeNeeded
        <5>2. CASE Symbol_of_OR(o) \in NullingNSYs
          BY <2>2, <3>2, <3>3, <4>1, <4>3, <5>2 DEF NodeNeeded
        <5> QED
          BY <5>1, <5>2
    <3> QED
      BY <1>3, <1>12, <1>6, <3>1, <3>2, <3>3, <3>4, <3>6, <3>7 DEF Earlemes
  <2> QED
    BY <1>7, <1>15, <2>1, <2>2 DEF NodesAgree
<1>17. DraftsPending'
  <2>1. ASSUME NEW o \in or_nodes'
        PROVE  /\ dands'[o] = <<>> => o.set = e
               /\ o.set = e /\ Symbol_of_OR(o) \notin NullingNSYs => dands'[o] = <<>>
    <3>1. CASE o \in or_nodes
      BY <1>2, <1>3, <1>7, <3>1 DEF BuildingInv, DraftsPending
    <3>2. CASE o \notin or_nodes
      <4>1. PICK q \in p .. d : q > 0 /\ o = NodeAt(y, q, e)
        BY <1>15, <3>2
      <4>2. q \in 1 .. d /\ (q # p => q > p)
        BY <1>6, <4>1
      <4>3. q # p => Symbol_of_OR(o) \in NullingNSYs
        BY <1>3, <1>5, <4>1, <4>2, NodeAtIs
      <4>4. q = p => dands'[o] = <<>>
        BY <1>3, <1>7, <3>2, <4>1
      <4> QED
        BY <4>1, <4>3, <4>4 DEF NodeAt
    <3> QED
      BY <3>1, <3>2
  <2> QED
    BY <1>2, <1>12, <2>1 DEF DraftsPending
<1> QED
  BY <1>2, <1>10, <1>13, <1>14, <1>16, <1>17 DEF BuildingInv, Building

\* What CreateLeoPathOrNodes makes: the or-node of the trailhead's completion.
LEMMA PathNodeAdded ==
    ASSUME LeoRulesEndProper, RecceInv, pc = "idle", BuildingInv,
           NEW y, NEW k \in UpperLIMs(b_set, y),
           AddNodes(Trailhead_AHM_of_LIM(k).irl, ProperPosition(Trailhead_AHM_of_LIM(k)),
                    Null_Count_of_AHM(Trailhead_AHM_of_LIM(k)), lims[k].predecessor[1],
                    Leo_null_psl(lims[k].predecessor[1]))
    PROVE  /\ or_nodes' = or_nodes \cup {PathNode(k, b_set)}
           /\ DOMAIN dands' = or_nodes'
           /\ \A o \in or_nodes : dands'[o] = dands[o]
           /\ PathNode(k, b_set) \notin or_nodes => dands'[PathNode(k, b_set)] = <<>>
<1> DEFINE t == lims[k].trailhead
           p == Length_of_IRL(t.ahm.irl)
           a == Trailhead_AHM_of_LIM(k)
           origin == lims[k].predecessor[1]
           PSL_at(q) == IF q = p THEN origin ELSE Leo_null_psl(origin)
           Node(q) == [irl |-> a.irl, position |-> q, origin |-> origin, set |-> b_set,
                       psl |-> PSL_at(q)]
           new == {q \in p .. p + 0 : q > 0 /\ or_by_origin_and_symi(PSL_at(q), a.irl, q) = NoOR}
           last_or_node(q) ==
              IF \E r \in new : r < q
              THEN Node(CHOOSE r \in new : r < q /\ \A s \in new : s < q => s <= r)
              ELSE NoOR
           DANDs_at(q) ==
              IF q = p THEN <<>>
              ELSE <<[predecessor |-> last_or_node(q),
                      cause |-> NullingToken(RHS_of_IRL[a.irl][q])]>>
<1>1. b_set \in Earlemes /\ NodesFiled
  BY AllFiled DEF BuildingInv, PsiAgrees
<1>2. k \in LeoPathsOf(b_set, y) /\ lims[k].predecessor # NoLIM
  BY DEF UpperLIMs
<1>3. k \in DOMAIN lims /\ lims[k].predecessor = PredecessorKey(k)
  BY <1>1, <1>2, ItemPaths
<1>4. origin = t.origin
  BY <1>3 DEF PredecessorKey
<1>5. /\ p \in Nat /\ p > 0 /\ ProperPosition(a) = p /\ Null_Count_of_AHM(a) = 0
      /\ a.irl = t.ahm.irl
  BY <1>3, TrailheadEnds
<1>6. /\ PathNode(k, b_set) = [irl |-> t.ahm.irl, position |-> p, origin |-> t.origin,
                              set |-> b_set, psl |-> t.origin]
      /\ PathNode(k, b_set) \in ORs
  BY <1>1, <1>2, PathNodeIs
<1>7. AddNodes(a.irl, p, 0, origin, Leo_null_psl(origin))
  BY <1>5
<1>8. /\ or_nodes' = or_nodes \cup {Node(q) : q \in new}
      /\ dands' = [o \in or_nodes' |-> IF o \in or_nodes THEN dands[o]
                                       ELSE DANDs_at(o.position)]
  BY <1>7 DEF AddNodes
<1>9. Node(p) = PathNode(k, b_set) /\ PSL_at(p) = t.origin
  BY <1>4, <1>5, <1>6
<1>10. or_by_origin_and_symi(t.origin, a.irl, p)
          = IF PathNode(k, b_set) \in or_nodes THEN PathNode(k, b_set) ELSE NoOR
  <2> HIDE DEF p, a, t
  <2> QED
    BY <1>1, <1>5, <1>6, NodeFound
<1>11. p \in new <=> PathNode(k, b_set) \notin or_nodes
  BY <1>5, <1>6, <1>9, <1>10, KindsOfCause
<1>12. \A q \in new : q = p
  BY <1>5
<1>13. DANDs_at(p) = <<>>
  OBVIOUS
<1> HIDE DEF new, Node, DANDs_at
<1>14. or_nodes' = or_nodes \cup {PathNode(k, b_set)}
  BY <1>8, <1>9, <1>11, <1>12
<1>15. PathNode(k, b_set) \notin or_nodes => dands'[PathNode(k, b_set)] = <<>>
  <2>1. PathNode(k, b_set).position = p
    BY <1>6
  <2>2. PathNode(k, b_set) \in or_nodes'
    BY <1>14
  <2> QED
    BY <1>8, <1>13, <2>1, <2>2
<1> QED
  BY <1>8, <1>14, <1>15

LEMMA CreateLeoPathOrNodesKeeps ==
    ASSUME LeoRulesEndProper, RecceInv, pc = "idle", BuildingInv, CreateLeoPathOrNodes,
           UNCHANGED vars
    PROVE  BuildingInv' /\ Building'
<1>1. PICK k \in NextOf(b_path) :
         /\ AddNodes(Trailhead_AHM_of_LIM(k).irl, ProperPosition(Trailhead_AHM_of_LIM(k)),
                     Null_Count_of_AHM(Trailhead_AHM_of_LIM(k)), lims[k].predecessor[1],
                     Leo_null_psl(lims[k].predecessor[1]))
         /\ b_path' = b_path \ {k}
  BY DEF CreateLeoPathOrNodes
<1>2. /\ b_pc = "or-nodes" /\ UNCHANGED <<b_pc, b_end, b_set, b_todo, b_item, b_links, psi>>
      /\ b_links = {}
  BY DEF CreateLeoPathOrNodes, BuildingInv, WorkAgrees
<1>3. PICK e \in Earlemes : e = b_set
  BY DEF BuildingInv, PsiAgrees
<1>4. k \in b_path
  BY <1>1 DEF NextOf
<1>5. PICK u \in DOMAIN psi : IsReached(u) /\ u[1] = e /\ k \in UpperLIMs(e, u[2])
  BY <1>3, <1>4 DEF BuildingInv, WorkAgrees
<1>6. PICK n : n = PathNode(k, e)
  OBVIOUS
<1>7. /\ or_nodes' = or_nodes \cup {n} /\ DOMAIN dands' = or_nodes'
      /\ \A o \in or_nodes : dands'[o] = dands[o]
      /\ n \notin or_nodes => dands'[n] = <<>>
  BY <1>1, <1>3, <1>5, <1>6, PathNodeAdded
<1>8. k \in LeoPathsOf(e, u[2])
  BY <1>5 DEF UpperLIMs
<1>9. /\ n \in ORs /\ n.set = e /\ n.psl = n.origin /\ n.position \in 1 .. Length_of_IRL(n.irl)
      /\ Symbol_of_OR(n) \notin NullingNSYs
  <2> DEFINE t == lims[k].trailhead
             m == Length_of_IRL(t.ahm.irl)
  <2>1. /\ PathNode(k, e) = [irl |-> t.ahm.irl, position |-> m, origin |-> t.origin,
                             set |-> e, psl |-> t.origin]
        /\ PathNode(k, e) \in ORs /\ m \in 1 .. Length_of_IRL(t.ahm.irl)
        /\ Symbol_of_OR(PathNode(k, e)) = k[2] /\ k[2] \notin NullingNSYs
    BY <1>8, PathNodeIs
  <2> QED
    BY <1>6, <2>1
<1>10. \A v \in DOMAIN psi : IsReached(v)' <=> IsReached(v)
  BY <1>2 DEF IsReached
<1>11. /\ \A a, b : UpperLIMs(a, b)' = UpperLIMs(a, b)
       /\ \A a, b : PathNode(a, b)' = PathNode(a, b)
  BY RecceStays
<1>12. PsiAgrees'
  BY <1>2, <1>3, PsiStays DEF BuildingInv
<1>13. WorkAgrees'
  <2>1. ASSUME NEW j \in b_path'
        PROVE  \E v \in DOMAIN psi' : IsReached(v)' /\ v[1] = b_set' /\ j \in UpperLIMs(b_set, v[2])'
    <3>1. PICK v \in DOMAIN psi : IsReached(v) /\ v[1] = e /\ j \in UpperLIMs(e, v[2])
      BY <1>1, <1>3 DEF BuildingInv, WorkAgrees
    <3>2. UpperLIMs(b_set, v[2])' = UpperLIMs(e, v[2])'
      BY <1>2, <1>3 DEF UpperLIMs
    <3> QED
      BY <1>2, <1>3, <1>10, <1>11, <3>1, <3>2
  <2> QED
    BY <1>1, <1>2, <2>1 DEF BuildingInv, WorkAgrees
<1>14. NodesMade'
  <2> SUFFICES ASSUME NEW v \in DOMAIN psi', IsReached(v)'
               PROVE  /\ psi'[v] = ItemOR(v[2], v[1])
                      /\ \A q \in ProperPosition(v[2].ahm) .. v[2].ahm.dot :
                            q > 0 => NodeAt(v[2], q, v[1]) \in or_nodes'
                      /\ \A j \in UpperLIMs(v[1], v[2])' :
                            PathNode(j, v[1])' \in or_nodes' \/ (v[1] = b_set' /\ j \in b_path')
    BY DEF NodesMade
  <2>1. /\ psi[v] = ItemOR(v[2], v[1])
        /\ \A q \in ProperPosition(v[2].ahm) .. v[2].ahm.dot :
              q > 0 => NodeAt(v[2], q, v[1]) \in or_nodes
        /\ \A j \in UpperLIMs(v[1], v[2]) :
              PathNode(j, v[1]) \in or_nodes \/ (v[1] = e /\ j \in b_path)
    BY <1>2, <1>3, <1>10 DEF BuildingInv, NodesMade
  <2>2. ASSUME NEW j \in UpperLIMs(v[1], v[2])
        PROVE  PathNode(j, v[1]) \in or_nodes' \/ (v[1] = e /\ j \in b_path')
    BY <1>1, <1>6, <1>7, <2>1
  <2> QED
    BY <1>2, <1>3, <1>7, <1>11, <2>1, <2>2
<1>15. NodesAgree'
  <2>1. ASSUME NEW o \in or_nodes
        PROVE  /\ NodeTypeOK(o)' /\ o.set <= b_set' /\ NodeNeeded(o)'
               /\ Symbol_of_OR(o) \in NullingNSYs => dands'[o] = <<NullingDAND(o)>>
    <3>1. NodeTypeOK(o)'
      BY <1>7, NodesStay DEF BuildingInv, NodesAgree
    <3>2. NodeNeeded(o)'
      BY <1>2, <1>10, NeedStays DEF BuildingInv, NodesAgree
    <3> QED
      BY <1>2, <1>7, <3>1, <3>2 DEF BuildingInv, NodesAgree
  <2>2. ASSUME n \notin or_nodes
        PROVE  NodeTypeOK(n)' /\ n.set <= b_set' /\ NodeNeeded(n)'
    <3>1. NodeTypeOK(n)'
      BY <1>7, <1>9, <2>2, EmptySeq DEF NodeTypeOK
    <3>2. Serves(n.set, u[2], n)'
      BY <1>5, <1>6, <1>9, <1>11 DEF Serves
    <3> QED
      BY <1>2, <1>3, <1>5, <1>9, <1>10, <3>1, <3>2 DEF NodeNeeded, Earlemes
  <2> QED
    BY <1>7, <1>9, <2>1, <2>2 DEF NodesAgree
<1>16. DraftsPending'
  BY <1>2, <1>3, <1>7, <1>9 DEF BuildingInv, DraftsPending
<1> QED
  BY <1>2, <1>12, <1>13, <1>14, <1>15, <1>16 DEF BuildingInv, Building

LEMMA OrNodesEndKeeps ==
    ASSUME LeoRulesEndProper, RecceInv, pc = "idle", BuildingInv, OrNodesEnd, UNCHANGED vars
    PROVE  BuildingInv' /\ Building'
<1>1. /\ b_pc = "or-nodes" /\ b_path = {} /\ b_todo = {} /\ b_pc' = "drafts" /\ b_links = {}
      /\ b_todo' = {u[2] : u \in {v \in DOMAIN psi : v[1] = b_set}}
      /\ UNCHANGED <<b_end, b_set, b_path, b_item, b_links, psi, or_nodes, dands>>
  BY DEF OrNodesEnd, BuildingInv, WorkAgrees
<1>2. PICK e \in Earlemes : e = b_set
  BY DEF BuildingInv, PsiAgrees
<1>3. \A v \in DOMAIN psi : IsReached(v)' <=> IsReached(v)
  BY <1>1 DEF IsReached
<1>4. /\ \A a, b : UpperLIMs(a, b)' = UpperLIMs(a, b)
      /\ \A a, b : PathNode(a, b)' = PathNode(a, b)
      /\ \A a, b : LeoLinksOf(a, b)' = LeoLinksOf(a, b)
  BY RecceStays
<1>5. PsiAgrees'
  BY <1>1, <1>2, PsiStays DEF BuildingInv
<1>6. \A y \in b_todo' : <<e, y>> \in DOMAIN psi /\ y \in yims[e] /\ IsReached(<<e, y>>)
  BY <1>1, <1>2 DEF BuildingInv, PsiAgrees, IsReached
<1>7. WorkAgrees'
  BY <1>1, <1>2, <1>6 DEF WorkAgrees
<1>8. NodesMade'
  BY <1>1, <1>3, <1>4 DEF BuildingInv, NodesMade
<1>9. NodesAgree'
  <2> SUFFICES ASSUME NEW o \in or_nodes
               PROVE  NodeTypeOK(o)' /\ NodeNeeded(o)'
    BY <1>1 DEF BuildingInv, NodesAgree
  <2>1. NodeTypeOK(o)'
    BY <1>1, NodesStay DEF BuildingInv, NodesAgree
  <2>2. NodeNeeded(o)'
    BY <1>1, <1>3, NeedStays DEF BuildingInv, NodesAgree
  <2> QED
    BY <2>1, <2>2
<1>10. DraftsPending'
  <2>1. ASSUME NEW o \in or_nodes, dands[o] = <<>>
        PROVE  o.set = e /\ \E y \in b_todo' : Serves(e, y, o)'
    <3>1. o.set = e
      BY <1>2, <2>1 DEF BuildingInv, DraftsPending
    <3>2. Symbol_of_OR(o) \notin NullingNSYs
      <4>1. PICK a : a = NullingDAND(o)
        OBVIOUS
      <4>2. Symbol_of_OR(o) \in NullingNSYs => dands[o] = <<a>>
        BY <4>1 DEF BuildingInv, NodesAgree
      <4>3. <<a>> # <<>>
        OBVIOUS
      <4> QED
        BY <2>1, <4>2, <4>3
    <3>3. PICK u \in DOMAIN psi : u[1] = e /\ Serves(e, u[2], o)
      BY <3>1, <3>2 DEF BuildingInv, NodesAgree, NodeNeeded
    <3>4. Serves(e, u[2], o)'
      BY <1>4, <3>3 DEF Serves
    <3> QED
      BY <1>1, <1>2, <3>1, <3>3, <3>4
  <2>2. ASSUME NEW y \in b_todo', ProperPosition(y.ahm) = 1
        PROVE  dands[NodeAt(y, 1, e)] = <<>>
    <3>1. 1 \in ProperPosition(y.ahm) .. y.ahm.dot /\ 1 \in 1 .. y.ahm.dot
      <4>1. y.ahm.dot \in Nat /\ ProperPosition(y.ahm) \in 0 .. y.ahm.dot
        BY <1>6, ItemFacts
      <4> QED
        BY <2>2, <4>1
    <3>2. NodeAt(y, 1, e) \in or_nodes
      <4>1. PICK u \in DOMAIN psi : u = <<e, y>> /\ IsReached(u)
        BY <1>6
      <4>2. u[1] = e /\ u[2] = y
        BY <4>1
      <4> QED
        BY <3>1, <4>1, <4>2 DEF BuildingInv, NodesMade
    <3>3. Symbol_of_OR(NodeAt(y, 1, e)) \notin NullingNSYs /\ NodeAt(y, 1, e).set = e
      <4>1. NodeAt(y, 1, e).set = e
        BY DEF NodeAt
      <4> QED
        BY <1>6, <2>2, <3>1, <4>1, NodeAtIs
    <3> QED
      BY <1>1, <1>2, <3>2, <3>3 DEF BuildingInv, DraftsPending
  <2> QED
    BY <1>1, <1>2, <2>1, <2>2 DEF DraftsPending, Serves
<1> QED
  BY <1>1, <1>5, <1>7, <1>8, <1>9, <1>10 DEF BuildingInv, Building

-----------------------------------------------------------------------------
(* The item whose links are read *)

\* What is known of the ur-nodes when draft and-nodes are made.
LEMMA DraftFacts ==
    ASSUME RecceInv, BuildingInv, b_pc = "drafts"
    PROVE  /\ b_set \in Earlemes /\ b_path = {} /\ NodesFiled
           /\ \A u \in DOMAIN psi :
                 /\ u[1] \in Earlemes /\ u[2] \in yims[u[1]]
                 /\ u[1] <= b_set =>
                       /\ psi[u] = ItemOR(u[2], u[1])
                       /\ \A q \in ProperPosition(u[2].ahm) .. u[2].ahm.dot :
                             q > 0 => NodeAt(u[2], q, u[1]) \in or_nodes
                       /\ \A k \in UpperLIMs(u[1], u[2]) : PathNode(k, u[1]) \in or_nodes
<1>1. b_set \in Earlemes /\ b_path = {} /\ NodesFiled
  BY AllFiled DEF BuildingInv, PsiAgrees, WorkAgrees
<1>2. \A u \in DOMAIN psi : u[1] \in Earlemes /\ u[2] \in yims[u[1]]
  BY DEF BuildingInv, PsiAgrees
<1>3. \A u \in DOMAIN psi : u[1] <= b_set => IsReached(u)
  BY <1>1, <1>2 DEF IsReached, Earlemes
<1> QED
  BY <1>1, <1>2, <1>3 DEF BuildingInv, NodesMade

\* The recursion, unfolded.
LEMMA ResetRows ==
    ASSUME NEW or, NEW d \in Nat, or.position = d,
           NEW g, g[0] = or, \A n \in 1 .. d : g[n] = ResetOR(g[n - 1])
    PROVE  ProperPredecessor(or) = g[d]
<1> DEFINE reset[n \in 0 .. or.position] == IF n = 0 THEN or ELSE ResetOR(reset[n - 1])
<1>1. \E f : f = [n \in 0 .. or.position |-> IF n = 0 THEN or ELSE ResetOR(f[n - 1])]
  <2> DEFINE f == [n \in 0 .. d |-> g[n]]
  <2>1. \A n \in 0 .. d : f[n] = IF n = 0 THEN or ELSE ResetOR(f[n - 1])
    <3>1. \A n \in 0 .. d : n # 0 => n \in 1 .. d /\ n - 1 \in 0 .. d
      OBVIOUS
    <3> QED
      BY <3>1
  <2>2. f = [n \in 0 .. or.position |-> IF n = 0 THEN or ELSE ResetOR(f[n - 1])]
    <3>1. f = [n \in 0 .. d |-> f[n]]
      OBVIOUS
    <3> HIDE DEF f
    <3>2. [n \in 0 .. d |-> f[n]] = [n \in 0 .. d |-> IF n = 0 THEN or ELSE ResetOR(f[n - 1])]
      BY <2>1
    <3> QED
      BY <3>1, <3>2
  <2> QED
    BY <2>2, Zenon
<1>2. reset = [n \in 0 .. or.position |-> IF n = 0 THEN or ELSE ResetOR(reset[n - 1])]
  BY <1>1, Zenon
<1>3. ProperPredecessor(or) = reset[or.position]
  BY Zenon DEF ProperPredecessor
<1> HIDE DEF reset
<1> DEFINE S == {n \in 0 .. d : reset[n] = g[n]}
<1>4. 0 \in S
  BY <1>2
<1>5. ASSUME NEW n \in 0 .. d, n \in S, n < d
      PROVE  n + 1 \in S
  <2>1. n + 1 \in 0 .. d /\ n + 1 # 0 /\ (n + 1) - 1 = n
    BY <1>5
  <2>2. reset[n + 1] = ResetOR(reset[n])
    BY <1>2, <2>1
  <2>3. n + 1 \in 1 .. d /\ g[n + 1] = ResetOR(g[n])
    BY <2>1
  <2> QED
    BY <1>5, <2>1, <2>2, <2>3
<1> HIDE DEF S
<1>6. \A n \in 0 .. d : n \in S
  BY <1>4, <1>5, UpTo
<1> QED
  BY <1>3, <1>6 DEF S

\* From the or-node of an item the nulling or-nodes lead back to the one at its
\* proper position, and not beyond it, unless that is the first one and has
\* and-nodes.
LEMMA ResetToProper ==
    ASSUME RecceInv, BuildingInv, b_pc = "drafts", NEW y, <<b_set, y>> \in DOMAIN psi,
           NEW p, p = ProperPosition(y.ahm), p > 0,
           p > 1 \/ dands[NodeAt(y, p, b_set)] = <<>>
    PROVE  ProperPredecessor(psi[<<b_set, y>>]) = NodeAt(y, p, b_set)
<1> DEFINE d == y.ahm.dot
           e == b_set
           g == [n \in 0 .. d |-> IF n < d - p THEN NodeAt(y, d - n, e) ELSE NodeAt(y, p, e)]
<1>1. e \in Earlemes /\ y \in yims[e]
  <2>1. PICK u \in DOMAIN psi : u = <<b_set, y>>
    OBVIOUS
  <2> QED
    BY <2>1, DraftFacts
<1>2. /\ d \in Nat /\ p \in Nat /\ p <= d
  BY <1>1, ItemFacts
<1>3. /\ psi[<<b_set, y>>] = NodeAt(y, d, e)
      /\ \A q \in p .. d : NodeAt(y, q, e) \in or_nodes
  <2>1. PICK u \in DOMAIN psi : u = <<b_set, y>>
    OBVIOUS
  <2>2. u[1] = b_set /\ u[2] = y /\ u[1] <= b_set
    BY <1>1, <2>1 DEF Earlemes
  <2>3. psi[u] = ItemOR(y, e) /\ \A q \in p .. d : q > 0 => NodeAt(y, q, e) \in or_nodes
    BY <2>2, DraftFacts
  <2> QED
    BY <1>2, <2>1, <2>3 DEF ItemOR
<1>4. \A q \in 1 .. d :
         /\ NodeAt(y, q, e) \in ORs /\ NodeAt(y, q, e) # NoOR
         /\ q = p => Symbol_of_OR(NodeAt(y, q, e)) \notin NullingNSYs
         /\ q > p => Symbol_of_OR(NodeAt(y, q, e)) \in NullingNSYs
  BY <1>1, NodeAtIs, KindsOfCause
<1>5. \A q : /\ NodeAt(y, q, e).set = e /\ NodeAt(y, q, e).position = q
             /\ [NodeAt(y, q, e) EXCEPT !.position = @ - 1] = NodeAt(y, q - 1, e)
  BY DEF NodeAt
<1>6. ASSUME NEW q \in p + 1 .. d
      PROVE  ResetOR(NodeAt(y, q, e)) = NodeAt(y, q - 1, e)
  <2>1. PICK o \in or_nodes : o = NodeAt(y, q, e)
    BY <1>2, <1>3
  <2>2. o # NoOR /\ Symbol_of_OR(o) \in NullingNSYs
    BY <1>2, <1>4, <2>1
  <2>3. PICK a : a = NullingDAND(o)
    OBVIOUS
  <2>4. dands[o] = <<a>>
    BY <2>2, <2>3 DEF BuildingInv, NodesAgree
  <2>5. <<a>> # <<>> /\ <<a>>[1] = a
    OBVIOUS
  <2>6. a.predecessor = NodeAt(y, q - 1, e)
    BY <1>2, <1>5, <2>1, <2>3 DEF NullingDAND
  <2>7. NodeAt(y, q - 1, e).set = b_set
    BY <1>5
  <2> QED
    BY <2>1, <2>2, <2>4, <2>5, <2>6, <2>7 DEF ResetOR
<1>7. ResetOR(NodeAt(y, p, e)) = NodeAt(y, p, e)
  <2>1. PICK o \in or_nodes : o = NodeAt(y, p, e)
    BY <1>2, <1>3
  <2>2. o # NoOR /\ Symbol_of_OR(o) \notin NullingNSYs /\ o.set = e /\ o.position = p
    BY <1>2, <1>4, <1>5, <2>1
  <2>3. CASE dands[o] = <<>>
    BY <2>1, <2>3 DEF ResetOR
  <2>4. CASE dands[o] # <<>>
    <3> DEFINE S == {b \in DANDs : MeetsProper(o, b)}
    <3>1. dands[o] \in Seq(S)
      BY DEF BuildingInv, NodesAgree, NodeTypeOK
    <3> HIDE DEF S
    <3>2. dands[o][1] \in S
      BY <2>4, <3>1
    <3>3. PICK a \in DANDs : a = dands[o][1] /\ MeetsProper(o, a)
      BY <3>2 DEF S
    <3>4. p # 1
      BY <2>1, <2>4
    <3>5. a.predecessor # NoOR /\ a.predecessor \in ORs
      BY <2>2, <3>3, <3>4, KindsOfCause, AllFiled DEF MeetsProper, Meets, BuildingInv, NodesFiled
    <3>6. a.predecessor.set # e
      BY <1>1, <2>2, <3>3, <3>5 DEF MeetsProper, ORs, Earlemes
    <3> QED
      BY <2>1, <2>2, <2>4, <3>3, <3>5, <3>6 DEF ResetOR
  <2> QED
    BY <2>3, <2>4
<1>8. \A n \in 0 .. d : g[n] = IF n = 0 THEN NodeAt(y, d, e) ELSE ResetOR(g[n - 1])
  <2> SUFFICES ASSUME NEW n \in 0 .. d
               PROVE  g[n] = IF n = 0 THEN NodeAt(y, d, e) ELSE ResetOR(g[n - 1])
    OBVIOUS
  <2>1. CASE n = 0
    BY <1>2, <2>1
  <2>2. CASE n # 0 /\ n <= d - p
    <3>1. n - 1 \in 0 .. d /\ n - 1 < d - p /\ d - (n - 1) = d - n + 1
      BY <1>2, <2>2
    <3>2. g[n - 1] = NodeAt(y, d - n + 1, e)
      BY <3>1
    <3>3. d - n + 1 \in p + 1 .. d /\ (d - n + 1) - 1 = d - n
      BY <1>2, <2>2
    <3>4. ResetOR(NodeAt(y, d - n + 1, e)) = NodeAt(y, d - n, e)
      BY <1>6, <3>3
    <3>5. n < d - p \/ d - n = p
      BY <1>2, <2>2
    <3>6. g[n] = NodeAt(y, d - n, e)
      BY <3>5
    <3> HIDE DEF g
    <3> QED
      BY <2>2, <3>2, <3>4, <3>6
  <2>3. CASE n > d - p
    <3>1. n - 1 \in 0 .. d /\ ~ (n - 1 < d - p) /\ ~ (n < d - p) /\ n # 0
      BY <1>2, <2>3
    <3>2. g[n - 1] = NodeAt(y, p, e) /\ g[n] = NodeAt(y, p, e)
      BY <3>1
    <3> HIDE DEF g
    <3> QED
      BY <1>7, <3>1, <3>2
  <2> QED
    BY <1>2, <2>1, <2>2, <2>3
<1>9. g[d] = NodeAt(y, p, e)
  BY <1>2
<1> HIDE DEF g
<1>10. ProperPredecessor(NodeAt(y, d, e)) = g[d]
  <2>1. PICK or : or = NodeAt(y, d, e)
    OBVIOUS
  <2>2. or.position = d
    BY <1>5, <2>1
  <2>3. g[0] = or /\ \A n \in 1 .. d : g[n] = ResetOR(g[n - 1])
    BY <1>2, <1>8, <2>1
  <2>4. ProperPredecessor(or) = g[d]
    <3> HIDE DEF d
    <3> QED
      BY <1>2, <2>2, <2>3, ResetRows
  <2> QED
    BY <2>1, <2>4
<1> QED
  BY <1>3, <1>9, <1>10

\* The or-nodes are served as they were if the ur-nodes and the or-nodes stay.
LEMMA DraftsSteps ==
    ASSUME BuildingInv, UNCHANGED vars, b_pc = "drafts",
           UNCHANGED <<b_pc, b_end, b_set, b_path, psi, or_nodes>>
    PROVE  /\ PsiAgrees' /\ NodesMade'
           /\ \A o \in or_nodes : NodeNeeded(o)'
           /\ \A a, b : UpperLIMs(a, b)' = UpperLIMs(a, b)
           /\ \A a, b : PathNode(a, b)' = PathNode(a, b)
           /\ \A a, b : LeoLinksOf(a, b)' = LeoLinksOf(a, b)
           /\ \A a, b : SourceLinks(a, b)' = SourceLinks(a, b)
           /\ \A K : LeoPathsFrom(K)' = LeoPathsFrom(K)
           /\ \A a, b, o : Serves(a, b, o)' <=> Serves(a, b, o)
<1>1. /\ \A a, b : UpperLIMs(a, b)' = UpperLIMs(a, b)
      /\ \A a, b : PathNode(a, b)' = PathNode(a, b)
      /\ \A a, b : LeoLinksOf(a, b)' = LeoLinksOf(a, b)
      /\ \A a, b : SourceLinks(a, b)' = SourceLinks(a, b)
      /\ \A K : LeoPathsFrom(K)' = LeoPathsFrom(K)
  BY RecceStays
<1>2. \A v : IsReached(v)' <=> IsReached(v)
  BY DEF IsReached
<1>3. PsiAgrees'
  BY PsiStays DEF BuildingInv, PsiAgrees
<1>4. NodesMade'
  BY <1>1, <1>2 DEF BuildingInv, NodesMade
<1>5. \A o \in or_nodes : NodeNeeded(o)'
  BY <1>2, NeedStays DEF BuildingInv, NodesAgree
<1>6. \A a, b, o : Serves(a, b, o)' <=> Serves(a, b, o)
  BY <1>1 DEF Serves
<1> QED
  BY <1>1, <1>3, <1>4, <1>5, <1>6

LEMMA BeginDraftsKeeps ==
    ASSUME LeoRulesEndProper, RecceInv, pc = "idle", BuildingInv, BeginDrafts, UNCHANGED vars
    PROVE  BuildingInv' /\ Building'
<1>1. PICK y \in b_todo :
         /\ b_todo' = b_todo \ {y} /\ b_item' = y
         /\ b_links' = IF ProperPredecessor(psi[<<b_set, y>>]) = NoOR THEN {}
                       ELSE SourceLinks(b_set, y)
  BY DEF BeginDrafts, NextOf
<1>2. /\ b_pc = "drafts" /\ b_links = {}
      /\ UNCHANGED <<b_pc, b_end, b_set, b_path, psi, or_nodes, dands>>
  BY DEF BeginDrafts
<1>3. PICK e \in Earlemes : e = b_set
  BY DEF BuildingInv, PsiAgrees
<1>4. <<e, y>> \in DOMAIN psi /\ y \in yims[e]
  BY <1>3 DEF BuildingInv, WorkAgrees, PsiAgrees
<1>5. /\ PsiAgrees' /\ NodesMade'
      /\ \A o \in or_nodes : NodeNeeded(o)'
      /\ \A a, b : PathNode(a, b)' = PathNode(a, b)
      /\ \A a, b : LeoLinksOf(a, b)' = LeoLinksOf(a, b)
      /\ \A a, b : SourceLinks(a, b)' = SourceLinks(a, b)
      /\ \A K : LeoPathsFrom(K)' = LeoPathsFrom(K)
      /\ \A a, b, o : Serves(a, b, o)' <=> Serves(a, b, o)
  BY <1>2, DraftsSteps
<1>6. WorkAgrees'
  <2>1. SourceLinks(b_set, b_item)' = SourceLinks(e, y)
    <3>1. SourceLinks(b_set, b_item)' = SourceLinks(e, y)'
      BY <1>1, <1>2, <1>3 DEF SourceLinks, TokenLinksOf, CompletionLinksOf, LeoLinksOf
    <3> QED
      BY <1>5, <3>1
  <2>2. b_links' \subseteq SourceLinks(e, y)
    BY <1>1, <1>3
  <2> QED
    BY <1>1, <1>2, <1>3, <1>4, <2>1, <2>2 DEF BuildingInv, WorkAgrees
<1>7. NodesAgree'
  <2>1. \A o \in or_nodes : NodeTypeOK(o)'
    BY <1>2, NodesStay DEF BuildingInv, NodesAgree
  <2> QED
    BY <1>2, <1>5, <2>1 DEF BuildingInv, NodesAgree
<1> DEFINE p == ProperPosition(y.ahm)
<1>8. ASSUME NEW o \in or_nodes, dands[o] = <<>>, Serves(e, y, o)
      PROVE  \E l \in b_links' : LinkServes(l, o)'
  <2>1. p \in Nat /\ y.ahm.dot \in Nat /\ p <= y.ahm.dot /\ (p # 0 => HasSource(e, y))
    BY <1>4, ItemFacts
  <2>2. ASSUME NEW l \in LeoLinksOf(e, y)
        PROVE  /\ p > 0 /\ \E k \in LeoPathsFrom({l.predecessor}) : PathNode(k, e) = NodeAt(y, p, e)
               /\ LeoPathsFrom({l.predecessor}) \subseteq LeoPathsOf(e, y)
    <3>1. PICK K, path : K = {l.predecessor} /\ path = LeoPathsFrom(K)
      OBVIOUS
    <3>2. path \subseteq LeoPathsOf(e, y) /\ \E k \in path : lims[k].predecessor = NoLIM
      BY <3>1, LinkPaths
    <3>3. PICK k \in path : lims[k].predecessor = NoLIM
      BY <3>2
    <3> DEFINE n == Length_of_IRL(lims[k].trailhead.ahm.irl)
    <3>4. PathNode(k, e) = NodeAt(y, n, e) /\ ProperPosition(y.ahm) = n
      BY <3>2, <3>3, PathNodeIs
    <3>5. n > 0
      BY <3>2, <3>3, ItemPaths, TrailheadEnds
    <3> QED
      BY <3>1, <3>2, <3>3, <3>4, <3>5
  <2>3. p > 0
    <3>1. CASE o = NodeAt(y, p, e)
      <4>1. o.position \in 1 .. Length_of_IRL(o.irl) /\ o.position = p
        BY <3>1 DEF BuildingInv, NodesAgree, NodeTypeOK, NodeAt
      <4>2. Length_of_IRL(o.irl) \in Nat
        BY <1>4, <3>1, ItemFacts DEF NodeAt
      <4> QED
        BY <4>1, <4>2
    <3>2. CASE \E k \in UpperLIMs(e, y) : o = PathNode(k, e)
      <4>1. LeoLinksOf(e, y) # {}
        BY <3>2, PathHasLink DEF UpperLIMs
      <4> QED
        BY <2>2, <4>1
    <3> QED
      BY <1>8, <3>1, <3>2 DEF Serves
  <2>4. p > 1 \/ dands[NodeAt(y, p, b_set)] = <<>>
    <3>1. CASE o = NodeAt(y, p, e)
      BY <1>3, <1>8, <3>1
    <3>2. CASE \E k \in UpperLIMs(e, y) : o = PathNode(k, e)
      <4>1. LeoLinksOf(e, y) # {}
        BY <3>2, PathHasLink DEF UpperLIMs
      <4>2. p = 1 => dands[NodeAt(y, 1, e)] = <<>>
        BY <1>2, <1>3, <4>1 DEF BuildingInv, DraftsPending
      <4> QED
        BY <1>3, <2>1, <2>3, <4>2
    <3> QED
      BY <1>8, <3>1, <3>2 DEF Serves
  <2>5. ProperPredecessor(psi[<<b_set, y>>]) = NodeAt(y, p, b_set)
    BY <1>2, <1>3, <1>4, <2>3, <2>4, ResetToProper
  <2>6. p \in 1 .. y.ahm.dot
    BY <2>1, <2>3
  <2>7. NodeAt(y, p, b_set) # NoOR
    BY <1>3, <1>4, <2>6, NodeAtIs, KindsOfCause
  <2>8. b_links' = SourceLinks(e, y)
    BY <1>1, <1>3, <2>5, <2>7
  <2>9. \A l : LinkServes(l, o)' <=>
           IF l[1] = "leo" THEN \E k \in LeoPathsFrom({l[2].predecessor}) : o = PathNode(k, e)
           ELSE o = NodeAt(y, p, e)
    <3>1. \A k : PathNode(k, b_set)' = PathNode(k, e)
      <4>1. \A k : PathNode(k, b_set)' = PathNode(k, e)'
        BY <1>2, <1>3 DEF PathNode, NodeAt
      <4> QED
        BY <1>5, <4>1
    <3> QED
      BY <1>1, <1>2, <1>3, <1>5, <3>1 DEF LinkServes
  <2>10. CASE o = NodeAt(y, p, e)
    <3>1. CASE TokenLinksOf(e, y) # {}
      <4>1. PICK l \in TokenLinksOf(e, y) : TRUE
        BY <3>1
      <4>2. <<"token", l>> \in b_links' /\ <<"token", l>>[1] # "leo"
        BY <2>8 DEF SourceLinks
      <4> QED
        BY <2>9, <2>10, <4>2
    <3>2. CASE CompletionLinksOf(e, y) # {}
      <4>1. PICK l \in CompletionLinksOf(e, y) : TRUE
        BY <3>2
      <4>2. <<"completion", l>> \in b_links' /\ <<"completion", l>>[1] # "leo"
        BY <2>8 DEF SourceLinks
      <4> QED
        BY <2>9, <2>10, <4>2
    <3>3. CASE LeoLinksOf(e, y) # {}
      <4>1. PICK l \in LeoLinksOf(e, y) : TRUE
        BY <3>3
      <4>2. PICK m \in b_links' : m = <<"leo", l>>
        BY <2>8 DEF SourceLinks
      <4>3. m[1] = "leo" /\ m[2] = l
        BY <4>2
      <4> QED
        BY <2>2, <2>9, <2>10, <4>3
    <3> QED
      BY <2>1, <2>3, <3>1, <3>2, <3>3 DEF HasSource
  <2>11. CASE \E k \in UpperLIMs(e, y) : o = PathNode(k, e)
    <3>1. PICK k \in LeoPathsOf(e, y) : o = PathNode(k, e)
      BY <2>11 DEF UpperLIMs
    <3>2. PICK l \in LeoLinksOf(e, y) : k \in LeoPathsFrom({l.predecessor})
      BY PathHasLink
    <3>3. PICK m \in b_links' : m = <<"leo", l>>
      BY <2>8 DEF SourceLinks
    <3>4. m[1] = "leo" /\ m[2] = l
      BY <3>3
    <3> QED
      BY <2>9, <3>1, <3>2, <3>4
  <2> QED
    BY <1>8, <2>10, <2>11 DEF Serves
<1>9. DraftsPending'
  <2>1. ASSUME NEW o \in or_nodes, dands[o] = <<>>
        PROVE  o.set = e /\ ((\E x \in b_todo' : Serves(b_set, x, o)') \/ \E l \in b_links' : LinkServes(l, o)')
    <3>1. o.set = e /\ \E x \in b_todo : Serves(e, x, o)
      BY <1>2, <1>3, <2>1 DEF BuildingInv, DraftsPending
    <3>2. PICK x \in b_todo : Serves(e, x, o)
      BY <3>1
    <3>3. CASE x = y
      BY <1>8, <2>1, <3>1, <3>2, <3>3
    <3>4. CASE x # y
      <4>1. Serves(b_set, x, o)' <=> Serves(e, x, o)'
        BY <1>2, <1>3 DEF Serves, NodeAt, PathNode, UpperLIMs, LeoPathsOf, LeoLinksOf
      <4> QED
        BY <1>1, <1>5, <3>1, <3>2, <3>4, <4>1
    <3> QED
      BY <3>3, <3>4
  <2>2. ASSUME NEW x \in b_todo', ProperPosition(x.ahm) = 1, LeoLinksOf(b_set, x)' # {}
        PROVE  dands[NodeAt(x, 1, e)] = <<>>
    <3>1. LeoLinksOf(b_set, x)' = LeoLinksOf(e, x)'
      BY <1>2, <1>3 DEF LeoLinksOf
    <3> QED
      BY <1>1, <1>2, <1>3, <1>5, <2>2, <3>1 DEF BuildingInv, DraftsPending
  <2> QED
    BY <1>2, <1>3, <2>1, <2>2 DEF DraftsPending
<1> QED
  BY <1>2, <1>5, <1>6, <1>7, <1>9 DEF BuildingInv, Building

-----------------------------------------------------------------------------
(* Draft and-nodes *)

\* A link that has given its or-nodes their draft and-nodes is done with.
LEMMA DraftsAddedKeep ==
    ASSUME BuildingInv, b_pc = "drafts", UNCHANGED vars,
           UNCHANGED <<b_pc, b_end, b_set, b_todo, b_path, b_item, psi, or_nodes>>,
           NEW link \in b_links, b_links' = b_links \ {link},
           DOMAIN dands' = or_nodes,
           \A o \in or_nodes :
              /\ dands'[o] \in Seq({a \in DANDs : MeetsProper(o, a)})
              /\ Symbol_of_OR(o) \in NullingNSYs => dands'[o] = dands[o]
              /\ dands'[o] = <<>> => dands[o] = <<>> /\ ~ LinkServes(link, o),
           \A y \in b_todo : ProperPosition(y.ahm) = 1 /\ LeoLinksOf(b_set, y) # {}
              => dands'[NodeAt(y, 1, b_set)] = dands[NodeAt(y, 1, b_set)]
    PROVE  BuildingInv' /\ Building'
<1>1. /\ PsiAgrees' /\ NodesMade'
      /\ \A o \in or_nodes : NodeNeeded(o)'
      /\ \A a, b : PathNode(a, b)' = PathNode(a, b)
      /\ \A a, b : LeoLinksOf(a, b)' = LeoLinksOf(a, b)
      /\ \A a, b : SourceLinks(a, b)' = SourceLinks(a, b)
      /\ \A K : LeoPathsFrom(K)' = LeoPathsFrom(K)
      /\ \A a, b, o : Serves(a, b, o)' <=> Serves(a, b, o)
  BY DraftsSteps
<1>2. PICK e \in Earlemes : e = b_set
  BY DEF BuildingInv, PsiAgrees
<1>3. WorkAgrees'
  <2>1. SourceLinks(b_set, b_item)' = SourceLinks(b_set, b_item)
    <3>1. PICK i : i = b_item
      OBVIOUS
    <3>2. SourceLinks(b_set, b_item)' = SourceLinks(e, i)'
      BY <1>2, <3>1 DEF SourceLinks, TokenLinksOf, CompletionLinksOf, LeoLinksOf
    <3> QED
      BY <1>1, <1>2, <3>1, <3>2
  <2> QED
    BY <2>1 DEF BuildingInv, WorkAgrees
<1>4. NodesAgree'
  <2>1. ASSUME NEW o \in or_nodes
        PROVE  NodeTypeOK(o)'
    <3>1. \A a : MeetsProper(o, a)' <=> MeetsProper(o, a)
      BY DEF MeetsProper, Meets
    <3> DEFINE S == {a \in DANDs : MeetsProper(o, a)}
               T == {a \in DANDs : MeetsProper(o, a)'}
    <3>2. S = T /\ dands'[o] \in Seq(S)
      BY <3>1
    <3> HIDE DEF S, T
    <3>3. dands'[o] \in Seq(T)
      BY <3>2
    <3> QED
      BY <3>3 DEF BuildingInv, NodesAgree, NodeTypeOK, T
  <2> QED
    BY <1>1, <2>1 DEF BuildingInv, NodesAgree
<1>5. \A l, o : LinkServes(l, o)' <=> LinkServes(l, o)
  <2>1. \A k : PathNode(k, b_set)' = PathNode(k, b_set)
    <3>1. \A k : PathNode(k, b_set)' = PathNode(k, e)'
      BY <1>2 DEF PathNode, NodeAt
    <3> QED
      BY <1>1, <1>2, <3>1
  <2> QED
    BY <1>1, <2>1 DEF LinkServes
<1>6. DraftsPending'
  <2>1. ASSUME NEW o \in or_nodes, dands'[o] = <<>>
        PROVE  o.set = b_set /\ ((\E x \in b_todo : Serves(b_set, x, o)') \/ \E l \in b_links' : LinkServes(l, o)')
    <3>1. dands[o] = <<>> /\ ~ LinkServes(link, o)
      BY <2>1
    <3>2. /\ o.set = b_set
          /\ (\E x \in b_todo : Serves(b_set, x, o)) \/ \E l \in b_links : LinkServes(l, o)
      BY <3>1 DEF BuildingInv, DraftsPending
    <3>3. \A x : Serves(b_set, x, o)' <=> Serves(b_set, x, o)
      <4>1. \A x : Serves(b_set, x, o)' <=> Serves(e, x, o)'
        BY <1>2 DEF Serves, NodeAt, PathNode, UpperLIMs, LeoPathsOf, LeoLinksOf
      <4> QED
        BY <1>1, <1>2, <4>1
    <3> QED
      BY <1>5, <3>1, <3>2, <3>3
  <2>2. ASSUME NEW x \in b_todo, ProperPosition(x.ahm) = 1, LeoLinksOf(b_set, x)' # {}
        PROVE  dands'[NodeAt(x, 1, b_set)] = <<>>
    <3>1. LeoLinksOf(b_set, x)' = LeoLinksOf(e, x)'
      BY <1>2 DEF LeoLinksOf
    <3> QED
      BY <1>1, <1>2, <2>2, <3>1 DEF BuildingInv, DraftsPending
  <2> QED
    BY <2>1, <2>2 DEF DraftsPending
<1> QED
  BY <1>1, <1>3, <1>4, <1>6 DEF BuildingInv, Building


\* The or-node of an item that an ur-node needs is found, unless nothing is
\* before its dot.
LEMMA ItemORFound ==
    ASSUME RecceInv, BuildingInv, b_pc = "drafts", NEW m \in Earlemes, m <= b_set,
           NEW x \in yims[m],
           <<m, x>> \in DOMAIN psi \/ (YIM_was_Predicted(x) /\ ~ (Null_Count_of_AHM(x.ahm) > 0))
    PROVE  /\ set_or_from_yim(m, x) = ItemOR(x, m) /\ safe_or_from_yim(m, x) = ItemOR(x, m)
           /\ x.ahm.dot > 0 => NodeAt(x, x.ahm.dot, m) \in or_nodes
<1>1. /\ x.ahm \in AHMs /\ x.ahm.dot \in Nat /\ ProperPosition(x.ahm) \in 0 .. x.ahm.dot
      /\ Null_Count_of_AHM(x.ahm) = x.ahm.dot - ProperPosition(x.ahm)
  BY ItemFacts
<1>2. CASE <<m, x>> \in DOMAIN psi
  <2>1. PICK u \in DOMAIN psi : u = <<m, x>>
    BY <1>2
  <2>2. u[1] = m /\ u[2] = x
    BY <2>1
  <2>3. psi[u] = ItemOR(x, m)
        /\ \A q \in ProperPosition(x.ahm) .. x.ahm.dot : q > 0 => NodeAt(x, q, m) \in or_nodes
    BY <2>2, DraftFacts
  <2>4. x.ahm.dot \in ProperPosition(x.ahm) .. x.ahm.dot
    BY <1>1
  <2>5. x.ahm.dot < 1 => ItemOR(x, m) = NoOR
    BY <1>1 DEF ItemOR
  <2> QED
    BY <2>1, <2>3, <2>4, <2>5 DEF set_or_from_yim, safe_or_from_yim
<1>3. CASE <<m, x>> \notin DOMAIN psi
  <2>1. x.ahm = First_AHM_of_IRL(x.ahm.irl) /\ ~ (Null_Count_of_AHM(x.ahm) > 0)
    BY <1>3 DEF YIM_was_Predicted
  <2>2. ProperPosition(x.ahm) = 0
    BY <1>1, <2>1, ProperPositionOfFirst
  <2>3. x.ahm.dot = 0
    BY <1>1, <2>1, <2>2
  <2> QED
    BY <1>3, <2>3 DEF set_or_from_yim, safe_or_from_yim, ItemOR
<1> QED
  BY <1>2, <1>3

\* The or-node of a completion that an ur-node has for a cause.
LEMMA CauseORFound ==
    ASSUME RecceInv, BuildingInv, b_pc = "drafts", NEW c \in yims[b_set],
           <<b_set, c>> \in DOMAIN psi, AHM_is_Completion(c.ahm),
           NEW n, n = NodeAt(c, Length_of_IRL(c.ahm.irl), b_set)
    PROVE  /\ n \in or_nodes /\ n \in ORs /\ ItemOR(c, b_set) = n
           /\ set_or_from_yim(b_set, c) = n
           /\ or_by_origin_and_symi(c.origin, c.ahm.irl, Length_of_IRL(c.ahm.irl)) = n
<1>1. PICK e \in Earlemes : e = b_set /\ NodesFiled
  BY DraftFacts
<1>2. c.ahm \in AHMs /\ c.ahm.dot = Length_of_IRL(c.ahm.irl) /\ c.ahm.dot \in Nat
  BY <1>1, ItemFacts DEF AHM_is_Completion, Length_of_IRL
<1>3. c.ahm.dot > 0
  <2>1. c.ahm # First_AHM_of_IRL(c.ahm.irl)
    BY <1>2, AHMParts, FirstAHM
  <2> QED
    BY <1>2, <2>1, ProperPositionOfFirst, ProperPositionIs
<1>4. /\ set_or_from_yim(e, c) = ItemOR(c, e) /\ NodeAt(c, c.ahm.dot, e) \in or_nodes
  <2>1. e <= b_set
    BY <1>1 DEF Earlemes
  <2> QED
    BY <1>1, <1>3, <2>1, ItemORFound
<1>5. ItemOR(c, e) = NodeAt(c, c.ahm.dot, e)
  BY <1>2, <1>3 DEF ItemOR
<1>6. n \in or_nodes /\ n \in ORs
  BY <1>1, <1>2, <1>4 DEF NodesFiled
<1>7. or_by_origin_and_symi(c.origin, c.ahm.irl, Length_of_IRL(c.ahm.irl)) = n
  <2>1. n = [irl |-> c.ahm.irl, position |-> Length_of_IRL(c.ahm.irl), origin |-> c.origin,
             set |-> b_set, psl |-> c.origin]
    BY DEF NodeAt
  <2> QED
    BY <1>1, <1>6, <2>1, NodeFound
<1> QED
  BY <1>1, <1>2, <1>4, <1>5, <1>6, <1>7

\* The or-nodes of a Leo path are found.
LEMMA LeoPathORFound ==
    ASSUME LeoRulesEndProper, RecceInv, pc = "idle", BuildingInv, b_pc = "drafts",
           <<b_set, b_item>> \in DOMAIN psi, NEW k \in LeoPathsOf(b_set, b_item)
    PROVE  /\ LeoPathOr(k) = PathNode(k, b_set) /\ PathNode(k, b_set) \in or_nodes
           /\ lims[k].predecessor # NoLIM =>
                 or_by_origin_and_symi(lims[k].trailhead.origin, lims[k].trailhead.ahm.irl,
                                       Length_of_IRL(lims[k].trailhead.ahm.irl))
                    = PathNode(k, b_set)
<1> DEFINE t == lims[k].trailhead
           n == Length_of_IRL(t.ahm.irl)
           y == b_item
<1>1. PICK e \in Earlemes : e = b_set /\ NodesFiled
  BY DraftFacts
<1>2. /\ PathNode(k, e) = [irl |-> t.ahm.irl, position |-> n, origin |-> t.origin,
                           set |-> e, psl |-> t.origin]
      /\ lims[k].predecessor = NoLIM =>
            y = TrailheadCompletion(k) /\ PathNode(k, e) = NodeAt(y, n, e)
            /\ ProperPosition(y.ahm) = n /\ y.ahm.dot = n
  BY <1>1, PathNodeIs
<1>3. k \in DOMAIN lims
  BY <1>1, ItemPaths
<1>4. n \in Nat /\ n > 0 /\ Last_Proper_Position(t.ahm.irl) = n
  BY <1>3, TrailheadEnds
<1>5. PICK u \in DOMAIN psi : u = <<e, y>> /\ u[1] = e /\ u[2] = y
  BY <1>1
<1>6. /\ \A q \in ProperPosition(y.ahm) .. y.ahm.dot : q > 0 => NodeAt(y, q, e) \in or_nodes
      /\ \A j \in UpperLIMs(e, y) : PathNode(j, e) \in or_nodes
  <2>1. u[1] <= b_set
    BY <1>1, <1>5 DEF Earlemes
  <2> QED
    BY <1>5, <2>1, DraftFacts
<1>7. PathNode(k, e) \in or_nodes
  <2>1. CASE lims[k].predecessor = NoLIM
    <3>1. n \in ProperPosition(y.ahm) .. y.ahm.dot
      BY <1>2, <1>4, <2>1
    <3> QED
      BY <1>2, <1>4, <1>6, <2>1, <3>1
  <2>2. CASE lims[k].predecessor # NoLIM
    BY <1>1, <1>6, <2>2 DEF UpperLIMs
  <2> QED
    BY <2>1, <2>2
<1>8. or_by_origin_and_symi(t.origin, t.ahm.irl, n) = PathNode(k, e)
  <2>1. PICK or : or = PathNode(k, e)
    OBVIOUS
  <2> HIDE DEF t, n
  <2>2. or = [irl |-> t.ahm.irl, position |-> n, origin |-> t.origin, set |-> b_set,
              psl |-> t.origin]
    BY <1>1, <1>2, <2>1
  <2>3. or \in or_nodes
    BY <1>7, <2>1
  <2> QED
    BY <1>1, <2>1, <2>2, <2>3, NodeFound
<1>9. LeoPathOr(k) = PathNode(k, e)
  <2>1. CASE lims[k].predecessor = NoLIM
    <3>1. t.origin = y.origin /\ t.ahm.irl = y.ahm.irl
      BY <1>2, <2>1 DEF NodeAt
    <3>2. work_proper_or_node = or_by_origin_and_symi(t.origin, t.ahm.irl, n)
      BY <1>2, <2>1, <3>1 DEF work_proper_or_node
    <3> QED
      BY <1>8, <2>1, <3>2 DEF LeoPathOr
  <2>2. CASE lims[k].predecessor # NoLIM
    BY <1>4, <1>8, <2>2 DEF LeoPathOr
  <2> QED
    BY <2>1, <2>2
<1> QED
  BY <1>1, <1>7, <1>8, <1>9

\* The draft and-node for a Leo item on the path of a link: its cause is the
\* completion below, which starts where the trailhead ends.
LEMMA LeoDANDMeets ==
    ASSUME LeoRulesEndProper, RecceInv, pc = "idle", BuildingInv, b_pc = "drafts",
           <<b_set, b_item>> \in DOMAIN psi, NEW l \in LeoLinksOf(b_set, b_item),
           NEW k \in LeoPathsFrom({l.predecessor})
    PROVE  /\ k \in LeoPathsOf(b_set, b_item)
           /\ LeoPathDAND(k, l) \in DANDs /\ MeetsProper(PathNode(k, b_set), LeoPathDAND(k, l))
           /\ ~ OR_is_Token(LeoPathDAND(k, l).cause)
<1> DEFINE t == lims[k].trailhead
           n == Length_of_IRL(t.ahm.irl)
           y == b_item
           o == PathNode(k, b_set)
           a == LeoPathDAND(k, l)
<1>1. PICK e \in Earlemes : e = b_set
  BY DraftFacts
<1>2. /\ k \in LeoPathsOf(e, y)
      /\ k # l.predecessor => \E j \in LeoPathsFrom({l.predecessor}) : lims[j].predecessor = k
  <2>1. PICK item : item = b_item
    OBVIOUS
  <2>2. l \in LeoLinksOf(e, item)
    BY <1>1, <2>1
  <2>3. /\ k \in LeoPathsOf(e, item)
        /\ k # l.predecessor => \E j \in LeoPathsFrom({l.predecessor}) : lims[j].predecessor = k
    BY <2>2, OnLinkPath
  <2> QED
    BY <2>1, <2>3
<1>3. k \in LeoPathsOf(e, y)
  BY <1>2
<1>4. k \in DOMAIN lims /\ k[1] \in Earlemes /\ k[1] < e
  BY <1>3, ItemPaths
<1>5. /\ t \in yims[k[1]] /\ n \in Nat /\ n > 0 /\ t.ahm.dot = n - 1 /\ t.ahm.dot \in Nat
      /\ RHS_of_IRL[t.ahm.irl][n] = k[2] /\ k[2] \in NSYs \ NullingNSYs
      /\ t.ahm.dot = 0 => t.origin = k[1]
  BY <1>4, TrailheadEnds
<1>6. /\ o = [irl |-> t.ahm.irl, position |-> n, origin |-> t.origin, set |-> e, psl |-> t.origin]
      /\ o \in ORs /\ Symbol_of_OR(o) = k[2]
  BY <1>1, <1>3, PathNodeIs
<1>7. a.predecessor = ItemOR(t, k[1]) /\ (t.ahm.dot > 0 => NodeAt(t, t.ahm.dot, k[1]) \in or_nodes)
  <2>1. <<k[1], t>> \in DOMAIN psi
        \/ (YIM_was_Predicted(t) /\ ~ (Null_Count_of_AHM(t.ahm) > 0))
    <3>1. PICK u \in DOMAIN psi : u = <<e, y>> /\ u[1] = e /\ u[2] = y
      BY <1>1
    <3>2. UrChildren(u) \subseteq DOMAIN psi
      BY DEF BuildingInv, PsiAgrees
    <3>3. (YIM_was_Predicted(t) => Null_Count_of_AHM(t.ahm) > 0) => <<k[1], t>> \in UrChildren(u)
      BY <1>3, <3>1 DEF UrChildren
    <3> QED
      BY <3>2, <3>3
  <2>2. k[1] <= b_set
    BY <1>1, <1>4 DEF Earlemes
  <2>3. /\ set_or_from_yim(k[1], t) = ItemOR(t, k[1])
        /\ t.ahm.dot > 0 => NodeAt(t, t.ahm.dot, k[1]) \in or_nodes
    BY <1>4, <1>5, <2>1, <2>2, ItemORFound
  <2>4. a.predecessor = set_or_from_yim(k[1], t)
    BY DEF LeoPathDAND
  <2> QED
    BY <2>3, <2>4
<1>8. /\ a.cause \in or_nodes /\ a.cause \in ORs /\ a.cause.set = e /\ a.cause.origin = k[1]
      /\ a.cause.position = Length_of_IRL(a.cause.irl) /\ LHSID_of_IRL[a.cause.irl] = k[2]
  <2>1. CASE k = l.predecessor
    <3>1. /\ l.cause \in yims[e] /\ AHM_is_Completion(l.cause.ahm)
          /\ k = <<l.cause.origin, LHS_NSYID_of_YIM(l.cause)>>
      BY <1>1, <2>1 DEF RecceInv, ChartInv, LinksJustified, LeoLinkJustified, LeoLinksOf
    <3>2. <<e, l.cause>> \in DOMAIN psi
      <4>1. PICK u \in DOMAIN psi : u = <<e, y>> /\ u[1] = e /\ u[2] = y
        BY <1>1
      <4>2. ~ YIM_was_Predicted(l.cause)
        <5>1. l.cause.ahm.irl \in IRLs
          BY <3>1, ItemFacts
        <5> QED
          BY <3>1, <5>1, FirstAHM DEF YIM_was_Predicted
      <4>3. <<e, l.cause>> \in UrChildren(u)
        BY <1>1, <4>1, <4>2 DEF UrChildren
      <4> QED
        BY <4>3 DEF BuildingInv, PsiAgrees
    <3>3. PICK m : m = NodeAt(l.cause, Length_of_IRL(l.cause.ahm.irl), e)
      OBVIOUS
    <3>4. m \in or_nodes /\ m \in ORs /\ set_or_from_yim(e, l.cause) = m
      BY <1>1, <3>1, <3>2, <3>3, CauseORFound
    <3>5. a.cause = m
      BY <1>1, <2>1, <3>4 DEF LeoPathDAND
    <3>6. k[1] = l.cause.origin /\ k[2] = LHSID_of_IRL[l.cause.ahm.irl]
      BY <3>1 DEF LHS_NSYID_of_YIM
    <3> QED
      BY <3>3, <3>4, <3>5, <3>6 DEF NodeAt
  <2>2. CASE k # l.predecessor
    <3> DEFINE previous == CHOOSE j \in LeoPathsFrom({l.predecessor}) : lims[j].predecessor = k
    <3>1. previous \in LeoPathsFrom({l.predecessor}) /\ lims[previous].predecessor = k
      BY <1>2, <2>2
    <3> DEFINE tj == lims[previous].trailhead
    <3>2. a.cause = or_by_origin_and_symi(k[1], tj.ahm.irl, Length_of_IRL(tj.ahm.irl))
      BY <2>2 DEF LeoPathDAND
    <3> HIDE DEF previous
    <3>3. PICK j \in LeoPathsOf(e, y) : j = previous
      <4>1. PICK item : item = b_item
        OBVIOUS
      <4>2. PICK j : j = previous
        OBVIOUS
      <4>3. j \in LeoPathsOf(e, item)
        BY <1>1, <3>1, <4>1, <4>2, OnLinkPath
      <4> QED
        BY <4>1, <4>2, <4>3
    <3>4. lims[j].predecessor # NoLIM
      BY <1>4, <3>1, <3>3 DEF NoLIM, NoEarleme, Earlemes
    <3>5. k = PredecessorKey(j)
      BY <3>1, <3>3, <3>4, ItemPaths
    <3>6. k[1] = lims[j].trailhead.origin /\ k[2] = LHSID_of_IRL[lims[j].trailhead.ahm.irl]
      BY <3>5 DEF PredecessorKey, LHS_NSYID_of_YIM
    <3>7. /\ PathNode(j, e) \in or_nodes
          /\ or_by_origin_and_symi(lims[j].trailhead.origin, lims[j].trailhead.ahm.irl,
                                   Length_of_IRL(lims[j].trailhead.ahm.irl)) = PathNode(j, e)
      BY <1>1, <3>4, LeoPathORFound
    <3>8. a.cause = PathNode(j, e)
      BY <3>2, <3>3, <3>6, <3>7
    <3> DEFINE th == lims[j].trailhead
               len == Length_of_IRL(th.ahm.irl)
    <3>9. /\ PathNode(j, e) = [irl |-> th.ahm.irl, position |-> len, origin |-> th.origin,
                               set |-> e, psl |-> th.origin]
          /\ PathNode(j, e) \in ORs
      BY PathNodeIs
    <3> QED
      BY <3>6, <3>7, <3>8, <3>9
  <2> QED
    BY <2>1, <2>2
<1>9. a = [predecessor |-> a.predecessor, cause |-> a.cause]
  BY DEF LeoPathDAND
<1>10. ~ OR_is_Token(a.cause)
  BY <1>8, KindsOfCause
<1>11. CASE n = 1
  <2>1. a.predecessor = NoOR /\ t.origin = k[1]
    BY <1>5, <1>7, <1>11 DEF ItemOR
  <2>2. a \in DANDs
    BY <1>8, <1>9, <2>1 DEF DANDs
  <2>3. Meets(o, a)
    BY <1>6, <1>8, <1>11, <2>1, KindsOfCause DEF Meets, Symbol_of_OR
  <2> QED
    BY <1>1, <1>3, <1>10, <2>1, <2>2, <2>3 DEF MeetsProper
<1>12. CASE n # 1
  <2>1. /\ a.predecessor = NodeAt(t, n - 1, k[1]) /\ a.predecessor \in or_nodes
        /\ n - 1 \in 1 .. t.ahm.dot
    BY <1>5, <1>7, <1>12 DEF ItemOR
  <2>2. a.predecessor \in ORs /\ a.predecessor # NoOR
    BY <1>4, <1>5, <2>1, NodeAtIs, KindsOfCause
  <2>3. /\ a.predecessor.irl = t.ahm.irl /\ a.predecessor.position = n - 1
        /\ a.predecessor.origin = t.origin /\ a.predecessor.set = k[1]
    BY <2>1 DEF NodeAt
  <2>4. a \in DANDs
    BY <1>8, <1>9, <2>2 DEF DANDs
  <2>5. Meets(o, a)
    BY <1>6, <1>8, <1>12, <2>1, <2>2, <2>3, KindsOfCause DEF Meets, Symbol_of_OR
  <2> QED
    BY <1>1, <1>3, <1>4, <1>6, <1>10, <2>3, <2>4, <2>5 DEF MeetsProper
<1> HIDE DEF a, o
<1> QED
  BY <1>2, <1>10, <1>11, <1>12 DEF a, o

\* An or-node that a Leo path makes for a rule's first symbol is that of an item
\* with Leo links only if the path is the item's.
LEMMA TopsApart ==
    ASSUME LeoRulesEndProper, RecceInv, pc = "idle", NEW e \in Earlemes, NEW x, NEW y,
           NEW k \in LeoPathsOf(e, x), LeoLinksOf(e, y) # {}, ProperPosition(y.ahm) = 1,
           PathNode(k, e) = NodeAt(y, 1, e)
    PROVE  x = y
<1>1. PICK l \in LeoLinksOf(e, y) : TRUE
  OBVIOUS
<1>2. PICK K, path : K = {l.predecessor} /\ path = LeoPathsFrom(K)
  OBVIOUS
<1>3. path \subseteq LeoPathsOf(e, y) /\ \E j \in path : lims[j].predecessor = NoLIM
  BY <1>2, LinkPaths
<1>4. PICK j \in LeoPathsOf(e, y) : lims[j].predecessor = NoLIM
  BY <1>3
<1> DEFINE tj == lims[j].trailhead
           tk == lims[k].trailhead
           nj == Length_of_IRL(tj.ahm.irl)
           nk == Length_of_IRL(tk.ahm.irl)
<1>5. j \in DOMAIN lims /\ k \in DOMAIN lims
  BY ItemPaths
<1>6. /\ j = <<j[1], j[2]>> /\ tj.ahm.dot = nj - 1 /\ RHS_of_IRL[tj.ahm.irl][nj] = j[2]
      /\ nj \in Nat /\ (tj.ahm.dot = 0 => tj.origin = j[1])
  BY <1>5, TrailheadEnds
<1>7. /\ k = <<k[1], k[2]>> /\ tk.ahm.dot = nk - 1 /\ RHS_of_IRL[tk.ahm.irl][nk] = k[2]
      /\ nk \in Nat /\ (tk.ahm.dot = 0 => tk.origin = k[1])
  BY <1>5, TrailheadEnds
<1>8. /\ PathNode(j, e) = [irl |-> tj.ahm.irl, position |-> nj, origin |-> tj.origin,
                           set |-> e, psl |-> tj.origin]
      /\ y = TrailheadCompletion(j) /\ PathNode(j, e) = NodeAt(y, nj, e)
      /\ ProperPosition(y.ahm) = nj
  BY <1>4, PathNodeIs
<1>9. PathNode(k, e) = [irl |-> tk.ahm.irl, position |-> nk, origin |-> tk.origin,
                        set |-> e, psl |-> tk.origin]
  BY PathNodeIs
<1>10. nj = 1 /\ PathNode(k, e) = PathNode(j, e)
  BY <1>8
<1>11. nk = 1 /\ tk.origin = tj.origin /\ tk.ahm.irl = tj.ahm.irl
  <2> HIDE DEF tj, tk, nj, nk
  <2> QED
    BY <1>8, <1>9, <1>10
<1>12. k[1] = j[1] /\ k[2] = j[2]
  BY <1>6, <1>7, <1>10, <1>11
<1>13. k = j
  BY <1>6, <1>7, <1>12
<1>14. x = TrailheadCompletion(k)
  BY <1>4, <1>13, ItemPaths
<1> QED
  BY <1>8, <1>13, <1>14

LEMMA CreateLeoDraftsKeeps ==
    ASSUME LeoRulesEndProper, RecceInv, pc = "idle", BuildingInv, CreateLeoDrafts, UNCHANGED vars
    PROVE  BuildingInv' /\ Building'
<1>1. PICK l \in leo_links :
         /\ NextLink("leo", l)
         /\ LET New(o) == {k \in LeoPathsFrom({l.predecessor}) :
                             LeoPathOr(k) = o /\ ~ dand_is_duplicate(o, LeoPathDAND(k, l))}
            IN dands' = [o \in or_nodes |->
                   IF New(o) = {} THEN dands[o]
                   ELSE <<LeoPathDAND(CHOOSE k \in New(o) : TRUE, l)>> \o dands[o]]
  BY DEF CreateLeoDrafts
<1>2. /\ b_pc = "drafts" /\ <<"leo", l>> \in b_links /\ b_links' = b_links \ {<<"leo", l>>}
      /\ UNCHANGED <<b_pc, b_end, b_set, b_todo, b_path, b_item, psi, or_nodes>>
  BY <1>1 DEF NextLink
<1>3. PICK e \in Earlemes, y \in {b_item} : e = b_set /\ y = b_item
  BY <1>2, DraftFacts
<1>4. <<b_set, b_item>> \in DOMAIN psi /\ b_item \notin b_todo /\ l \in LeoLinksOf(b_set, b_item)
  <2>1. <<"leo", l>> \in SourceLinks(b_set, b_item)
    BY <1>2 DEF BuildingInv, WorkAgrees
  <2> QED
    BY <1>2, <2>1 DEF SourceLinks, BuildingInv, WorkAgrees
<1> DEFINE P == LeoPathsFrom({l.predecessor})
           New(o) == {k \in P : LeoPathOr(k) = o /\ ~ dand_is_duplicate(o, LeoPathDAND(k, l))}
<1>5. ASSUME NEW k \in P
      PROVE  /\ k \in LeoPathsOf(e, y)
             /\ LeoPathOr(k) = PathNode(k, e) /\ PathNode(k, e) \in or_nodes
             /\ LeoPathDAND(k, l) \in DANDs /\ MeetsProper(PathNode(k, e), LeoPathDAND(k, l))
             /\ Symbol_of_OR(PathNode(k, e)) \notin NullingNSYs
  <2>1. /\ k \in LeoPathsOf(e, y) /\ LeoPathDAND(k, l) \in DANDs
        /\ MeetsProper(PathNode(k, e), LeoPathDAND(k, l))
    BY <1>2, <1>3, <1>4, LeoDANDMeets
  <2>2. LeoPathOr(k) = PathNode(k, e) /\ PathNode(k, e) \in or_nodes
    BY <1>2, <1>3, <1>4, <2>1, LeoPathORFound
  <2> QED
    BY <2>1, <2>2, PathNodeIs
<1>6. DOMAIN dands' = or_nodes
  BY <1>1
<1>7. ASSUME NEW o \in or_nodes
      PROVE  dands'[o] = IF New(o) = {} THEN dands[o]
                         ELSE <<LeoPathDAND(CHOOSE k \in New(o) : TRUE, l)>> \o dands[o]
  BY <1>1
<1>8. ASSUME NEW o \in or_nodes
      PROVE  /\ dands'[o] \in Seq({a \in DANDs : MeetsProper(o, a)})
             /\ Symbol_of_OR(o) \in NullingNSYs => dands'[o] = dands[o]
             /\ dands'[o] = <<>> => dands[o] = <<>> /\ ~ LinkServes(<<"leo", l>>, o)
  <2> DEFINE S == {a \in DANDs : MeetsProper(o, a)}
  <2>1. dands[o] \in Seq(S)
    BY DEF BuildingInv, NodesAgree, NodeTypeOK
  <2>2. CASE New(o) = {}
    <3>1. dands'[o] = dands[o]
      BY <1>7, <2>2
    <3>2. ASSUME dands[o] = <<>>, LinkServes(<<"leo", l>>, o)
          PROVE  FALSE
      <4>1. PICK k \in P : o = PathNode(k, b_set)
        BY <3>2 DEF LinkServes
      <4>2. ~ dand_is_duplicate(o, LeoPathDAND(k, l))
        BY <3>2 DEF dand_is_duplicate
      <4>3. k \in New(o)
        BY <1>3, <1>5, <4>1, <4>2
      <4> QED
        BY <2>2, <4>3
    <3> QED
      BY <2>1, <3>1, <3>2
  <2>3. CASE New(o) # {}
    <3> DEFINE first == CHOOSE k \in New(o) : TRUE
    <3>1. first \in New(o)
      BY <2>3
    <3>2. dands'[o] = <<LeoPathDAND(first, l)>> \o dands[o]
      BY <1>7, <2>3
    <3> HIDE DEF first
    <3>3. o = PathNode(first, e) /\ first \in P
      BY <1>5, <3>1
    <3>4. LeoPathDAND(first, l) \in S /\ Symbol_of_OR(o) \notin NullingNSYs
      BY <1>5, <3>3
    <3> HIDE DEF S
    <3>5. PICK a : a = LeoPathDAND(first, l)
      OBVIOUS
    <3>6. <<a>> \o dands[o] \in Seq(S) /\ <<a>> \o dands[o] # <<>>
      BY <2>1, <3>4, <3>5, InFront
    <3> QED
      BY <3>2, <3>4, <3>5, <3>6 DEF S
  <2> QED
    BY <2>2, <2>3
<1>9. ASSUME NEW x \in b_todo, ProperPosition(x.ahm) = 1, LeoLinksOf(b_set, x) # {}
      PROVE  dands'[NodeAt(x, 1, b_set)] = dands[NodeAt(x, 1, b_set)]
  <2>1. NodeAt(x, 1, e) \in or_nodes
    <3>1. PICK u \in DOMAIN psi : u[1] = e /\ u[2] = x
      BY <1>3 DEF BuildingInv, WorkAgrees
    <3>2. x \in yims[e] /\ u[1] <= b_set
      BY <1>3, <3>1 DEF BuildingInv, PsiAgrees, Earlemes
    <3>3. 1 \in ProperPosition(x.ahm) .. x.ahm.dot
      BY <1>9, <3>2, ItemFacts
    <3> QED
      BY <1>2, <1>9, <3>1, <3>2, <3>3, DraftFacts
  <2>2. New(NodeAt(x, 1, e)) = {}
    <3> SUFFICES ASSUME NEW k \in P, LeoPathOr(k) = NodeAt(x, 1, e) PROVE FALSE
      OBVIOUS
    <3>1. PathNode(k, e) = NodeAt(x, 1, e) /\ k \in LeoPathsOf(e, y)
      BY <1>5
    <3>2. y = x
      BY <1>3, <1>9, <3>1, TopsApart
    <3> QED
      BY <1>3, <1>4, <3>2
  <2> QED
    BY <1>3, <1>7, <2>1, <2>2
<1>10. PICK link \in b_links : link = <<"leo", l>>
  BY <1>2
<1> HIDE DEF New, P
<1> QED
  BY <1>2, <1>6, <1>8, <1>9, <1>10, DraftsAddedKeep

\* Where an and-node is split.
Middle(o, a) == IF a.predecessor = NoOR THEN o.origin ELSE a.predecessor.set

\* The draft and-node for a token or a completion: its predecessor is the
\* or-node of the item that was advanced, where there is one.
LEMMA ProperDANDMeets ==
    ASSUME RecceInv, BuildingInv, b_pc = "drafts", NEW e \in Earlemes, e = b_set,
           NEW y, y = b_item, <<e, y>> \in DOMAIN psi,
           NEW m \in Earlemes, m < e, NEW x \in yims[m], y = Advance(x),
           NEW nsy \in NSYs, Postdot_NSYID_of_AHM(x.ahm) = nsy,
           (YIM_was_Predicted(x) => Null_Count_of_AHM(x.ahm) > 0)
              => <<m, x>> \in UrChildren(<<e, y>>),
           NEW cause \in ORs \cup TokenCauses,
           OR_is_Token(cause) => cause.nsy = nsy /\ cause.type # "nulling",
           ~ OR_is_Token(cause) =>
              /\ cause \in or_nodes /\ cause.position = Length_of_IRL(cause.irl)
              /\ LHSID_of_IRL[cause.irl] = nsy /\ cause.origin = m /\ cause.set = e,
           NEW o, o = NodeAt(y, ProperPosition(y.ahm), e),
           NEW a, a = [predecessor |-> safe_or_from_yim(m, x), cause |-> cause]
    PROVE  /\ work_proper_or_node = o /\ o \in or_nodes /\ Symbol_of_OR(o) \notin NullingNSYs
           /\ a \in DANDs /\ MeetsProper(o, a)
           /\ Middle(o, a) = m /\ o.set = e
<1>1. PICK u \in DOMAIN psi : u = <<e, y>> /\ u[1] = e /\ u[2] = y
  OBVIOUS
<1>2. y \in yims[e] /\ UrChildren(u) \subseteq DOMAIN psi
  BY <1>1 DEF BuildingInv, PsiAgrees
<1>3. /\ x \in YIMs /\ x.ahm \in AHMs /\ x.ahm.dot \in Nat /\ ProperPosition(x.ahm) \in 0 .. x.ahm.dot
      /\ ProperPosition(x.ahm) = 0 => x.origin = m
  BY ItemFacts
<1>4. ~ AHM_is_Completion(x.ahm)
  BY <1>3, PostdotMeansNext
<1>5. /\ y.ahm = Next_AHM_of_AHM(x.ahm) /\ y.ahm.irl = x.ahm.irl /\ y.origin = x.origin
      /\ nsy \notin NullingNSYs
  BY <1>3, <1>4, NextAHM DEF Advance
<1> DEFINE d == x.ahm.dot
<1>6. ProperPosition(y.ahm) = d + 1 /\ RHS_of_IRL[x.ahm.irl][d + 1] = nsy
  BY <1>3, <1>4, <1>5, ProperPositionOfNext
<1>7. d + 1 \in ProperPosition(y.ahm) .. y.ahm.dot /\ d + 1 \in 1 .. y.ahm.dot
  BY <1>2, <1>3, <1>6, ItemFacts
<1>8. o \in or_nodes
  <2>1. u[1] <= b_set
    BY <1>1 DEF Earlemes
  <2> QED
    BY <1>1, <1>6, <1>7, <2>1, DraftFacts
<1>9. /\ o = [irl |-> x.ahm.irl, position |-> d + 1, origin |-> x.origin, set |-> e,
              psl |-> x.origin]
      /\ Symbol_of_OR(o) = nsy
  BY <1>5, <1>6 DEF NodeAt, Symbol_of_OR
<1>10. work_proper_or_node = o
  <2>1. o = [irl |-> y.ahm.irl, position |-> ProperPosition(y.ahm), origin |-> y.origin,
             set |-> b_set, psl |-> y.origin]
    BY DEF NodeAt
  <2>2. NodesFiled
    BY DraftFacts
  <2> QED
    BY <1>8, <2>1, <2>2, NodeFound DEF work_proper_or_node
<1>11. a.predecessor = ItemOR(x, m) /\ (d > 0 => NodeAt(x, d, m) \in or_nodes)
  <2>1. <<m, x>> \in DOMAIN psi \/ (YIM_was_Predicted(x) /\ ~ (Null_Count_of_AHM(x.ahm) > 0))
    BY <1>1, <1>2
  <2>2. m <= b_set
    BY DEF Earlemes
  <2>3. /\ safe_or_from_yim(m, x) = ItemOR(x, m)
        /\ x.ahm.dot > 0 => NodeAt(x, x.ahm.dot, m) \in or_nodes
    BY <2>1, <2>2, ItemORFound
  <2> QED
    BY <2>3
<1>12. a.cause = cause /\ cause # NoOR
  BY KindsOfCause
<1>13. CASE d = 0
  <2>1. a.predecessor = NoOR /\ x.origin = m
    BY <1>3, <1>11, <1>13 DEF ItemOR
  <2>2. a \in DANDs
    BY <2>1 DEF DANDs
  <2>3. Meets(o, a)
    BY <1>8, <1>9, <1>12, <1>13, <2>1 DEF Meets, Symbol_of_OR
  <2> QED
    BY <1>5, <1>8, <1>9, <1>10, <2>1, <2>2, <2>3 DEF MeetsProper, Middle
<1>14. CASE d # 0
  <2>1. a.predecessor = NodeAt(x, d, m) /\ a.predecessor \in or_nodes /\ d \in 1 .. x.ahm.dot
    BY <1>3, <1>11, <1>14 DEF ItemOR
  <2>2. a.predecessor \in ORs /\ a.predecessor # NoOR
    BY <2>1, NodeAtIs, KindsOfCause
  <2>3. /\ a.predecessor.irl = x.ahm.irl /\ a.predecessor.position = d
        /\ a.predecessor.origin = x.origin /\ a.predecessor.set = m
    BY <2>1 DEF NodeAt
  <2>4. a \in DANDs
    BY <2>2 DEF DANDs
  <2>5. d + 1 # 1 /\ d = (d + 1) - 1
    BY <1>3, <1>14
  <2>6. Meets(o, a)
    <3> HIDE DEF d
    <3> QED
      BY <1>9, <1>12, <2>1, <2>2, <2>3, <2>5 DEF Meets, Symbol_of_OR
  <2>7. a.predecessor.set < o.set
    BY <1>9, <2>3
  <2> QED
    BY <1>5, <1>8, <1>9, <1>10, <2>2, <2>3, <2>4, <2>6, <2>7 DEF MeetsProper, Middle
<1> QED
  BY <1>13, <1>14

\* A token or a completion gives the item's or-node a draft and-node.
LEMMA ProperDraftKeeps ==
    ASSUME LeoRulesEndProper, RecceInv, pc = "idle", BuildingInv, UNCHANGED vars,
           NEW kind \in {"token", "completion"}, NEW l, NextLink(kind, l),
           NEW o \in or_nodes, o = NodeAt(b_item, ProperPosition(b_item.ahm), b_set),
           Symbol_of_OR(o) \notin NullingNSYs,
           NEW a \in DANDs, MeetsProper(o, a), dands' = [dands EXCEPT ![o] = <<a>> \o @]
    PROVE  BuildingInv' /\ Building'
<1>1. /\ b_pc = "drafts" /\ <<kind, l>> \in b_links /\ b_links' = b_links \ {<<kind, l>>}
      /\ UNCHANGED <<b_pc, b_end, b_set, b_todo, b_path, b_item, psi, or_nodes>>
  BY DEF NextLink
<1>2. PICK e \in Earlemes, y \in {b_item} : e = b_set /\ y = b_item
  BY <1>1, DraftFacts
<1>3. <<e, y>> \in DOMAIN psi /\ y \notin b_todo
  BY <1>1, <1>2 DEF BuildingInv, WorkAgrees
<1>4. y \in yims[e]
  BY <1>3 DEF BuildingInv, PsiAgrees
<1>5. DOMAIN dands = or_nodes
  BY DEF BuildingInv, NodesAgree
<1>6. /\ DOMAIN dands' = or_nodes /\ dands'[o] = <<a>> \o dands[o]
      /\ \A n \in or_nodes : n # o => dands'[n] = dands[n]
  BY <1>5
<1>7. ASSUME NEW n \in or_nodes
      PROVE  /\ dands'[n] \in Seq({b \in DANDs : MeetsProper(n, b)})
             /\ Symbol_of_OR(n) \in NullingNSYs => dands'[n] = dands[n]
             /\ dands'[n] = <<>> => dands[n] = <<>> /\ ~ LinkServes(<<kind, l>>, n)
  <2> DEFINE S == {b \in DANDs : MeetsProper(n, b)}
  <2>1. dands[n] \in Seq(S)
    BY DEF BuildingInv, NodesAgree, NodeTypeOK
  <2>2. CASE n # o
    <3>1. ~ LinkServes(<<kind, l>>, n)
      BY <2>2 DEF LinkServes
    <3> QED
      BY <1>6, <2>1, <2>2, <3>1
  <2>3. CASE n = o
    <3>1. a \in S
      BY <2>3
    <3> HIDE DEF S
    <3>2. <<a>> \o dands[n] \in Seq(S) /\ <<a>> \o dands[n] # <<>>
      BY <2>1, <3>1, InFront
    <3> QED
      BY <1>6, <2>3, <3>2 DEF S
  <2> QED
    BY <2>2, <2>3
<1>8. ASSUME NEW x \in b_todo, ProperPosition(x.ahm) = 1, LeoLinksOf(b_set, x) # {}
      PROVE  dands'[NodeAt(x, 1, b_set)] = dands[NodeAt(x, 1, b_set)]
  <2>1. PICK u \in DOMAIN psi : u[1] = e /\ u[2] = x
    BY <1>2 DEF BuildingInv, WorkAgrees
  <2>2. x \in yims[e] /\ u[1] <= b_set
    BY <1>2, <2>1 DEF BuildingInv, PsiAgrees, Earlemes
  <2>3. 1 \in ProperPosition(x.ahm) .. x.ahm.dot
    BY <1>8, <2>2, ItemFacts
  <2>4. NodeAt(x, 1, e) \in or_nodes
    BY <1>1, <2>1, <2>2, <2>3, DraftFacts
  <2>5. NodeAt(x, 1, e) # o
    <3> SUFFICES ASSUME NodeAt(x, 1, e) = o PROVE FALSE
      OBVIOUS
    <3>1. PICK p : p = ProperPosition(y.ahm)
      OBVIOUS
    <3>2. p \in ProperPosition(y.ahm) .. y.ahm.dot
      BY <1>4, <3>1, ItemFacts
    <3>3. NodeAt(x, 1, e) = NodeAt(y, p, e)
      BY <1>2, <3>1
    <3>4. x = y
      BY <1>4, <2>2, <2>3, <3>2, <3>3, NodesApart
    <3> QED
      BY <1>3, <3>4
  <2> QED
    BY <1>2, <1>6, <2>4, <2>5
<1>9. PICK link \in b_links : link = <<kind, l>>
  BY <1>1
<1> QED
  BY <1>1, <1>6, <1>7, <1>8, <1>9, DraftsAddedKeep

\* A token has the status that its symbol had when marpa_b_new was called.
StatusCause(token) ==
    IF Source_XSY_of_NSY[token.nsy] \in b_valued THEN TokenCause("valued", token.nsy, token.value)
    ELSE TokenCause("unvalued", token.nsy, 0)

LEMMA TokenDraftMeets ==
    ASSUME LeoRulesEndProper, RecceInv, pc = "idle", BuildingInv, CreateTokenDraft
    PROVE  \E l \in token_links, o \in or_nodes, a \in DANDs :
              /\ NextLink("token", l) /\ o = NodeAt(b_item, ProperPosition(b_item.ahm), b_set)
              /\ Symbol_of_OR(o) \notin NullingNSYs /\ MeetsProper(o, a)
              /\ dands' = [dands EXCEPT ![o] = <<a>> \o @]
              /\ l.token \in tokens /\ a.cause = StatusCause(l.token)
              /\ Middle(o, a) = l.token.start /\ o.set = l.token.end
<1> DEFINE Cause(l) == IF Source_XSY_of_NSY[l.token.nsy] \in b_valued
                       THEN TokenCause("valued", l.token.nsy, l.token.value)
                       ELSE TokenCause("unvalued", l.token.nsy, 0)
           DAND(l) == [predecessor |-> safe_or_from_yim(l.token.start, l.predecessor),
                       cause |-> Cause(l)]
<1>1. PICK l \in token_links :
         NextLink("token", l) /\ draft_and_node_add(work_proper_or_node, DAND(l))
  BY DEF CreateTokenDraft
<1>2. b_pc = "drafts" /\ <<"token", l>> \in b_links
  BY <1>1 DEF NextLink
<1>3. PICK e \in Earlemes, y \in {b_item} : e = b_set /\ y = b_item
  BY <1>2, DraftFacts
<1>4. <<e, y>> \in DOMAIN psi /\ l \in TokenLinksOf(e, y)
  <2>1. <<"token", l>> \in SourceLinks(b_set, b_item)
    BY <1>2 DEF BuildingInv, WorkAgrees
  <2> QED
    BY <1>2, <1>3, <2>1 DEF SourceLinks, BuildingInv, WorkAgrees
<1>5. TokenLinkJustified(l) /\ l.at = e /\ l.yim = y /\ l.token \in Alternatives
  BY <1>4 DEF TokenLinksOf, RecceInv, ChartInv, LinksJustified, TypeInv, TypeOK, ChartTypeOK,
              TokenLinks
<1> DEFINE m == l.token.start
           x == l.predecessor
           nsy == l.token.nsy
<1>6. m \in Earlemes /\ nsy \in NSYs /\ l.token.value \in Int
  BY <1>5 DEF Alternatives
<1>7. m < e
  BY <1>5 DEF TokenLinkJustified, RecceInv, ChartInv, StacksAgree
<1>8. x \in yims[m] /\ Postdot_NSYID_of_AHM(x.ahm) = nsy /\ y = Advance(x)
  BY <1>5 DEF TokenLinkJustified, PIMs
<1>9. (YIM_was_Predicted(x) => Null_Count_of_AHM(x.ahm) > 0) => <<m, x>> \in UrChildren(<<e, y>>)
  <2>1. PICK u \in DOMAIN psi : u = <<e, y>> /\ u[1] = e /\ u[2] = y
    BY <1>4
  <2>2. l \in TokenLinksOf(u[1], u[2])
    BY <1>4, <2>1
  <2>3. (YIM_was_Predicted(x) => Null_Count_of_AHM(x.ahm) > 0) => <<m, x>> \in UrChildren(u)
    BY <2>2 DEF UrChildren
  <2> QED
    BY <2>1, <2>3
<1>10. PICK cause \in TokenCauses : cause = Cause(l) /\ cause.nsy = nsy /\ cause.type # "nulling"
  <2>1. Cause(l) \in TokenCauses /\ Cause(l).nsy = nsy /\ Cause(l).type # "nulling"
    BY <1>6 DEF TokenCauses, TokenCause
  <2> QED
    BY <2>1
<1>11. PICK o, a, n : /\ o = NodeAt(y, ProperPosition(y.ahm), e) /\ n = nsy
                      /\ a = [predecessor |-> safe_or_from_yim(m, x), cause |-> cause]
  OBVIOUS
<1>12. PICK start, item : start = m /\ item = x
  OBVIOUS
<1> HIDE DEF m, x, nsy, Cause
<1>13. /\ work_proper_or_node = o /\ o \in or_nodes /\ Symbol_of_OR(o) \notin NullingNSYs
       /\ a \in DANDs /\ MeetsProper(o, a) /\ Middle(o, a) = start /\ o.set = e
  BY <1>2, <1>3, <1>4, <1>6, <1>7, <1>8, <1>9, <1>10, <1>11, <1>12, KindsOfCause, ProperDANDMeets
<1>14. a = DAND(l)
  BY <1>10, <1>11 DEF m, x
<1>15. dands' = [dands EXCEPT ![o] = <<a>> \o @]
  BY <1>1, <1>13, <1>14 DEF draft_and_node_add
<1>16. o = NodeAt(b_item, ProperPosition(b_item.ahm), b_set)
  BY <1>3, <1>11
<1>17. a.cause = StatusCause(l.token)
  BY <1>10, <1>11 DEF Cause, StatusCause
<1>18. l.token \in tokens /\ start = l.token.start /\ e = l.token.end
  BY <1>5, <1>12 DEF TokenLinkJustified, m
<1> HIDE DEF DAND
<1> QED
  BY <1>1, <1>13, <1>15, <1>16, <1>17, <1>18

LEMMA CreateTokenDraftKeeps ==
    ASSUME LeoRulesEndProper, RecceInv, pc = "idle", BuildingInv, CreateTokenDraft, UNCHANGED vars
    PROVE  BuildingInv' /\ Building'
  BY TokenDraftMeets, ProperDraftKeeps

LEMMA CompletionDraftMeets ==
    ASSUME LeoRulesEndProper, RecceInv, pc = "idle", BuildingInv, CreateCompletionDraft
    PROVE  \E l \in completion_links, o \in or_nodes, a \in DANDs :
              /\ NextLink("completion", l)
              /\ o = NodeAt(b_item, ProperPosition(b_item.ahm), b_set)
              /\ Symbol_of_OR(o) \notin NullingNSYs /\ MeetsProper(o, a)
              /\ dands' = [dands EXCEPT ![o] = <<a>> \o @]
              /\ ~ OR_is_Token(a.cause)
<1> DEFINE Cause(l) == or_by_origin_and_symi(l.cause.origin, l.cause.ahm.irl,
                                             Length_of_IRL(l.cause.ahm.irl))
           DAND(l) == [predecessor |-> safe_or_from_yim(l.cause.origin, l.predecessor),
                       cause |-> Cause(l)]
<1>1. PICK l \in completion_links :
         NextLink("completion", l) /\ draft_and_node_add(work_proper_or_node, DAND(l))
  BY DEF CreateCompletionDraft
<1>2. b_pc = "drafts" /\ <<"completion", l>> \in b_links
  BY <1>1 DEF NextLink
<1>3. PICK e \in Earlemes, y \in {b_item} : e = b_set /\ y = b_item
  BY <1>2, DraftFacts
<1>4. <<e, y>> \in DOMAIN psi /\ l \in CompletionLinksOf(e, y)
  <2>1. <<"completion", l>> \in SourceLinks(b_set, b_item)
    BY <1>2 DEF BuildingInv, WorkAgrees
  <2> QED
    BY <1>2, <1>3, <2>1 DEF SourceLinks, BuildingInv, WorkAgrees
<1>5. CompletionLinkJustified(l) /\ l.at = e /\ l.yim = y /\ l.cause \in YIMs
  BY <1>4 DEF CompletionLinksOf, RecceInv, ChartInv, LinksJustified, TypeInv, TypeOK, ChartTypeOK,
              CompletionLinks
<1> DEFINE c == l.cause
           m == c.origin
           x == l.predecessor
           nsy == LHS_NSYID_of_YIM(c)
<1>6. /\ c \in yims[e] /\ AHM_is_Completion(c.ahm) /\ m < e
      /\ x \in yims[m] /\ Postdot_NSYID_of_AHM(x.ahm) = nsy /\ y = Advance(x)
  BY <1>5 DEF CompletionLinkJustified, PIMs
<1>7. /\ m \in Earlemes /\ c.ahm.irl \in IRLs /\ ~ YIM_was_Predicted(c)
      /\ nsy = LHSID_of_IRL[c.ahm.irl] /\ nsy \in NSYs
  <2>1. m \in Earlemes /\ c.ahm.irl \in IRLs
    BY <1>6, ItemFacts
  <2>2. c.ahm # First_AHM_of_IRL(c.ahm.irl)
    BY <1>6, <2>1, FirstAHM
  <2> QED
    BY <2>1, <2>2, GrammarAssumption DEF YIM_was_Predicted, LHS_NSYID_of_YIM
<1>8. /\ <<e, c>> \in DOMAIN psi
      /\ (YIM_was_Predicted(x) => Null_Count_of_AHM(x.ahm) > 0) => <<m, x>> \in UrChildren(<<e, y>>)
  <2>1. PICK u \in DOMAIN psi : u = <<e, y>> /\ u[1] = e /\ u[2] = y
    BY <1>4
  <2>2. l \in CompletionLinksOf(u[1], u[2])
    BY <1>4, <2>1
  <2>3. <<e, c>> \in UrChildren(u)
    BY <1>7, <2>1, <2>2 DEF UrChildren
  <2>4. (YIM_was_Predicted(x) => Null_Count_of_AHM(x.ahm) > 0) => <<m, x>> \in UrChildren(u)
    BY <2>2 DEF UrChildren
  <2> QED
    BY <2>1, <2>3, <2>4 DEF BuildingInv, PsiAgrees
<1>9. PICK cause : cause = NodeAt(c, Length_of_IRL(c.ahm.irl), e)
  OBVIOUS
<1>10. cause \in or_nodes /\ cause \in ORs /\ Cause(l) = cause
  BY <1>2, <1>3, <1>6, <1>8, <1>9, CauseORFound
<1>11. /\ cause.position = Length_of_IRL(cause.irl) /\ LHSID_of_IRL[cause.irl] = nsy
       /\ cause.origin = m /\ cause.set = e /\ ~ OR_is_Token(cause)
  BY <1>7, <1>9, <1>10, KindsOfCause DEF NodeAt
<1>12. PICK o, a : /\ o = NodeAt(y, ProperPosition(y.ahm), e)
                   /\ a = [predecessor |-> safe_or_from_yim(m, x), cause |-> cause]
  OBVIOUS
<1>13. a = DAND(l)
  BY <1>10, <1>12
<1>14. PICK start, item, n : start = m /\ item = x /\ n = nsy
  OBVIOUS
<1> HIDE DEF c, m, x, nsy, Cause
<1>15. /\ work_proper_or_node = o /\ o \in or_nodes /\ Symbol_of_OR(o) \notin NullingNSYs
       /\ a \in DANDs /\ MeetsProper(o, a)
  BY <1>2, <1>3, <1>4, <1>6, <1>7, <1>8, <1>10, <1>11, <1>12, <1>14, ProperDANDMeets
<1> HIDE DEF DAND
<1>16. dands' = [dands EXCEPT ![o] = <<a>> \o @]
  BY <1>1, <1>13, <1>15 DEF draft_and_node_add
<1>17. o = NodeAt(b_item, ProperPosition(b_item.ahm), b_set)
  BY <1>3, <1>12
<1>18. ~ OR_is_Token(a.cause)
  BY <1>11, <1>12
<1> QED
  BY <1>1, <1>15, <1>16, <1>17, <1>18

LEMMA CreateCompletionDraftKeeps ==
    ASSUME LeoRulesEndProper, RecceInv, pc = "idle", BuildingInv, CreateCompletionDraft,
           UNCHANGED vars
    PROVE  BuildingInv' /\ Building'
  BY CompletionDraftMeets, ProperDraftKeeps

-----------------------------------------------------------------------------
(* The end of the draft and-nodes of a set *)

\* With the draft and-nodes of its last set, the bocage is built.
LEMMA BocageIsBuilt ==
    ASSUME RecceInv, BuildingInv, UNCHANGED vars, b_pc = "drafts", b_links = {}, b_todo = {},
           \A e \in earley_sets : e <= b_set,
           UNCHANGED <<b_end, psi, or_nodes, dands>>
    PROVE  BuiltInv'
<1>1. DOMAIN dands = or_nodes /\ \A o \in or_nodes : NodeTypeOK(o) /\ dands[o] # <<>>
  BY DEF BuildingInv, NodesAgree, DraftsPending
<1>2. \A o \in or_nodes : NodeTypeOK(o)'
  BY <1>1, NodesStay
<1>3. PICK e \in Earlemes \ {0} : e = b_end
  BY DEF BuildingInv, PsiAgrees
<1>4. <<e, StartDone>> \in DOMAIN psi /\ StartDone \in StartYIMs(e)
  BY <1>3 DEF BuildingInv, PsiAgrees
<1>5. /\ StartDone \in yims[e] /\ ProperPosition(StartDone.ahm) = 1
      /\ StartDone.ahm = [irl |-> StartIRL, dot |-> 1]
  BY <1>3, <1>4, StartItem
<1>6. e <= b_set
  BY <1>5 DEF RecceInv, SourcesInv
<1>7. psi[<<e, StartDone>>] = NodeAt(StartDone, 1, e) /\ NodeAt(StartDone, 1, e) \in or_nodes
  <2>1. PICK u \in DOMAIN psi : u = <<e, StartDone>> /\ u[1] = e /\ u[2] = StartDone
    BY <1>4
  <2>2. /\ psi[u] = ItemOR(StartDone, e)
        /\ \A q \in ProperPosition(StartDone.ahm) .. StartDone.ahm.dot :
              q > 0 => NodeAt(StartDone, q, e) \in or_nodes
    BY <1>6, <2>1, DraftFacts
  <2>3. StartDone.ahm.dot = 1
    BY <1>5
  <2>4. ItemOR(StartDone, e) = NodeAt(StartDone, 1, e)
    BY <2>3 DEF ItemOR
  <2>5. 1 \in ProperPosition(StartDone.ahm) .. StartDone.ahm.dot
    BY <1>5, <2>3
  <2> QED
    BY <2>1, <2>2, <2>4, <2>5
<1>8. StartDone \in StartYIMs(b_end)'
  <2>1. StartYIMs(b_end)' = StartYIMs(e)'
    BY <1>3 DEF StartYIMs
  <2> QED
    BY <1>4, <2>1, RecceStays
<1>9. StartDone' = StartDone
  BY DEF StartDone
<1>10. NodeAt(StartDone, 1, b_end)' = NodeAt(StartDone, 1, e)
  BY <1>3, <1>9 DEF NodeAt
<1> QED
  BY <1>1, <1>2, <1>3, <1>4, <1>7, <1>8, <1>9, <1>10 DEF BuiltInv

LEMMA DraftsEndKeeps ==
    ASSUME LeoRulesEndProper, RecceInv, pc = "idle", BuildingInv, DraftsEnd, UNCHANGED vars
    PROVE  (Building' /\ BuildingInv') \/ (b_pc' = "built" /\ BuiltInv')
<1> DEFINE later == {e \in earley_sets : e > b_set}
<1>1. /\ b_pc = "drafts" /\ b_links = {} /\ b_todo = {}
      /\ UNCHANGED <<b_end, b_path, b_item, b_links, psi, or_nodes, dands>>
  BY DEF DraftsEnd
<1>2. b_set \in Earlemes /\ b_path = {} /\ earley_sets \subseteq Earlemes
  BY <1>1, DraftFacts DEF RecceInv, TypeInv, TypeOK, ChartTypeOK
<1>3. CASE later = {}
  <2>1. b_pc' = "built"
    BY <1>3 DEF DraftsEnd
  <2>2. \A e \in earley_sets : e <= b_set
    BY <1>2, <1>3 DEF Earlemes
  <2> QED
    BY <1>1, <2>1, <2>2, BocageIsBuilt
<1>4. CASE later # {}
  <2>1. PICK s : s = Least(later)
    OBVIOUS
  <2>2. /\ b_set' = s /\ b_pc' = "or-nodes"
        /\ b_todo' = {u[2] : u \in {v \in DOMAIN psi : v[1] = s}}
    BY <1>4, <2>1 DEF DraftsEnd
  <2>3. s \in later /\ \A e \in later : s <= e
    <3>1. later \subseteq Nat
      <4>1. \A e \in Earlemes : e \in Nat
        BY DEF Earlemes
      <4> QED
        BY <1>2, <4>1
    <3> HIDE DEF later
    <3> QED
      BY <1>4, <2>1, <3>1, LeastExists
  <2>4. s \in Earlemes /\ s > b_set
    BY <1>2, <2>3
  <2>5. \A u \in DOMAIN psi : /\ u = <<u[1], u[2]>> /\ u[1] \in Earlemes /\ u[1] \in earley_sets
    BY DEF BuildingInv, PsiAgrees, RecceInv, SourcesInv
  <2>6. \A u \in DOMAIN psi : (u[1] < s <=> u[1] <= b_set)
    BY <1>2, <2>3, <2>4, <2>5 DEF Earlemes
  <2>7. \A u \in DOMAIN psi : /\ IsReached(u)' <=> u[1] < s
                              /\ IsReached(u) <=> u[1] <= b_set
    <3>1. \A u \in DOMAIN psi : u[1] = s => u[2] \in b_todo'
      BY <2>2
    <3>2. \A u \in DOMAIN psi : IsReached(u)' <=> u[1] < s
      BY <2>2, <3>1 DEF IsReached
    <3>3. \A u \in DOMAIN psi : IsReached(u) <=> u[1] <= b_set
      BY <1>1, <1>2, <2>5 DEF IsReached, Earlemes
    <3> QED
      BY <3>2, <3>3
  <2>8. \A u \in DOMAIN psi : IsReached(u)' <=> IsReached(u)
    BY <2>6, <2>7
  <2>9. PsiAgrees'
    BY <1>1, <2>2, <2>4, PsiStays DEF BuildingInv
  <2>10. WorkAgrees'
    <3>1. \A y \in b_todo' : <<b_set', y>> \in DOMAIN psi
      BY <2>2, <2>5
    <3> QED
      BY <1>1, <1>2, <3>1 DEF WorkAgrees
  <2>11. NodesMade'
    <3>1. /\ \A a, b : UpperLIMs(a, b)' = UpperLIMs(a, b)
          /\ \A a, b : PathNode(a, b)' = PathNode(a, b)
      BY RecceStays
    <3> QED
      BY <1>1, <1>2, <2>8, <3>1 DEF BuildingInv, NodesMade
  <2>12. \A o \in or_nodes : o.set <= b_set /\ o.set \in Earlemes /\ dands[o] # <<>>
    BY <1>1 DEF BuildingInv, NodesAgree, NodeTypeOK, ORs, DraftsPending
  <2>13. NodesAgree'
    <3>1. \A o \in or_nodes : NodeTypeOK(o)' /\ NodeNeeded(o)'
      BY <1>1, <2>8, NodesStay, NeedStays DEF BuildingInv, NodesAgree
    <3>2. \A o \in or_nodes : o.set <= s
      BY <1>2, <2>4, <2>12 DEF Earlemes
    <3> QED
      BY <1>1, <2>2, <3>1, <3>2 DEF BuildingInv, NodesAgree
  <2>14. DraftsPending'
    <3>1. \A o \in or_nodes : o.set # s
      BY <1>2, <2>4, <2>12 DEF Earlemes
    <3> QED
      BY <1>1, <2>2, <2>12, <3>1 DEF DraftsPending
  <2> QED
    BY <2>2, <2>9, <2>10, <2>11, <2>13, <2>14 DEF BuildingInv, Building
<1> QED
  BY <1>3, <1>4

-----------------------------------------------------------------------------
(* The bocage, from the call to the end *)

\* "Find start_yim" finds the completed start rule, if it finds an item.
LEMMA BocageBeginsWell ==
    ASSUME RecceInv, BocageInv, UNCHANGED vars, NEW e, BocageBegins(e)
    PROVE  BuildingInv' /\ Building' /\ pc' = "idle"
<1>1. /\ pc = "idle" /\ pc' = "idle" /\ e \in Earlemes \ {0}
      /\ or_nodes = {} /\ b_path = {} /\ b_links = {} /\ DOMAIN dands = {}
  BY RecceStays DEF BocageBegins, BocageInv, RecceInv, TypeInv, TypeOK, ChartTypeOK
<1>2. PICK start \in StartYIMs(e) : psi' = [u \in UrNodes(<<e, start>>) |-> NoOR]
  BY DEF BocageBegins
<1>3. start = StartDone /\ start \in yims[e]
  BY <1>1, <1>2, StartItem DEF StartDone
<1>4. /\ <<e, start>> \in DOMAIN psi'
      /\ \A u \in DOMAIN psi' :
            /\ u = <<u[1], u[2]>> /\ u[1] \in Earlemes /\ u[2] \in yims[u[1]]
            /\ UrChildren(u) \subseteq DOMAIN psi'
  BY <1>1, <1>2, <1>3, UrNodesAre
<1>5. /\ b_pc' = "or-nodes" /\ b_end' = e /\ b_set' = 0
      /\ b_todo' = {u[2] : u \in {v \in DOMAIN psi' : v[1] = 0}}
      /\ UNCHANGED <<b_path, b_item, b_links, or_nodes, dands>>
  BY DEF BocageBegins
<1>6. 0 \in Earlemes
  BY RecceAssumption DEF Earlemes
<1>7. PsiAgrees'
  <2>1. /\ UNCHANGED yims /\ \A u : UrChildren(u)' = UrChildren(u)
        /\ StartYIMs(e)' = StartYIMs(e)
    BY RecceStays
  <2>2. StartYIMs(b_end)' = StartYIMs(e)'
    BY <1>5 DEF StartYIMs
  <2>3. StartDone' = StartDone
    BY DEF StartDone
  <2> QED
    BY <1>1, <1>2, <1>3, <1>4, <1>5, <1>6, <2>1, <2>2, <2>3 DEF PsiAgrees
<1>8. WorkAgrees'
  <2>1. \A y \in b_todo' : <<0, y>> \in DOMAIN psi'
    BY <1>4, <1>5
  <2> QED
    BY <1>1, <1>5, <2>1 DEF WorkAgrees
<1>9. \A u \in DOMAIN psi' : ~ IsReached(u)'
  <2>1. \A u \in DOMAIN psi' : u[1] = 0 => u[2] \in b_todo'
    BY <1>5
  <2>2. \A u \in DOMAIN psi' : ~ (u[1] < 0)
    BY <1>4 DEF Earlemes
  <2> QED
    BY <1>5, <2>1, <2>2 DEF IsReached
<1>10. NodesMade'
  BY <1>9 DEF NodesMade
<1>11. NodesAgree' /\ DraftsPending'
  BY <1>1, <1>5 DEF NodesAgree, DraftsPending
<1> QED
  BY <1>1, <1>5, <1>7, <1>8, <1>10, <1>11 DEF BuildingInv, Building

LEMMA BocageCallsKeep ==
    ASSUME LeoRulesEndProper, RecceInv, BocageInv, BocageCalls, UNCHANGED vars
    PROVE  BocageInv'
<1>1. PICK e : BocageNoParse(e) \/ BocageNulling(e) \/ BocageBegins(e)
  BY DEF BocageCalls
<1>2. CASE BocageNoParse(e) \/ BocageNulling(e)
  BY <1>2 DEF BocageNoParse, BocageNulling, BocageInv, Building
<1>3. CASE BocageBegins(e)
  <2>1. BuildingInv' /\ Building' /\ pc' = "idle"
    BY <1>3, BocageBeginsWell
  <2> QED
    BY <2>1 DEF BocageInv, Building
<1> QED
  BY <1>1, <1>2, <1>3

LEMMA BocageStepsKeep ==
    ASSUME LeoRulesEndProper, RecceInv, BocageInv, BocageSteps, UNCHANGED vars
    PROVE  BocageInv'
<1>1. Building
  BY DEF BocageSteps, CreateOrNodes, CreateLeoPathOrNodes, OrNodesEnd, BeginDrafts,
         CreateLeoDrafts, CreateTokenDraft, CreateCompletionDraft, NextLink, DraftsEnd, Building
<1>2. pc = "idle" /\ BuildingInv
  BY <1>1 DEF BocageInv
<1>3. pc' = "idle"
  BY <1>2, RecceStays
<1>4. (BuildingInv' /\ Building') \/ (b_pc' = "built" /\ BuiltInv')
  BY <1>2, CreateOrNodesKeeps, CreateLeoPathOrNodesKeeps, OrNodesEndKeeps, BeginDraftsKeeps,
     CreateLeoDraftsKeeps, CreateTokenDraftKeeps, CreateCompletionDraftKeeps, DraftsEndKeeps
     DEF BocageSteps
<1> QED
  BY <1>3, <1>4 DEF BocageInv, Building

\* An Earley set loses no items; only set 0 gets its items at once.
LEMMA ItemsStay ==
    ASSUME RecceInv, [Next]_vars, NEW e \in Earlemes \ {0}
    PROVE  yims[e] \subseteq yims'[e]
<1>1. yims \in [Earlemes -> SUBSET YIMs]
  BY DEF RecceInv, TypeInv, TypeOK, ChartTypeOK
<1>2. CASE StartInput
  BY <1>1, <1>2 DEF StartInput
<1>3. CASE StartInputTrivial
  BY <1>3 DEF StartInputTrivial
<1>4. CASE ScanAlternative
  BY <1>1, <1>4 DEF ScanAlternative
<1>5. CASE CompleteCause
  BY <1>1, <1>5 DEF CompleteCause, CompleteWithLeo, CompleteWithPredecessors
<1>6. CASE AddPredictions
  BY <1>1, <1>6 DEF AddPredictions
<1> QED
  BY <1>2, <1>3, <1>4, <1>5, <1>6, OtherCallsKeepItems

\* The calls on the recognizer leave the bocage as it is.
LEMMA RecceCallsKeep ==
    ASSUME RecceInv, BocageInv, RecceCalls
    PROVE  BocageInv'
<1>1. [Next]_vars /\ ~ Building /\ UNCHANGED bocage
  BY DEF RecceCalls, Building
<1>2. UNCHANGED <<b_pc, b_end, b_path, b_links, psi, or_nodes, dands>>
  BY <1>1 DEF bocage
<1>3. CASE b_pc # "built"
  BY <1>1, <1>2, <1>3 DEF BocageInv, Building
<1>4. CASE b_pc = "built"
  <2>1. BuiltInv
    BY <1>4 DEF BocageInv
  <2>2. \A o \in or_nodes : NodeTypeOK(o)'
    BY <1>2, <2>1, NodesStay DEF BuiltInv
  <2>3. PICK e \in Earlemes \ {0} : e = b_end
    BY <2>1 DEF BuiltInv
  <2>4. StartDone \in StartYIMs(e)'
    <3>1. StartDone \in StartYIMs(e)
      BY <2>1, <2>3 DEF BuiltInv
    <3>2. yims[e] \subseteq yims'[e]
      BY <1>1, ItemsStay
    <3> QED
      BY <3>1, <3>2 DEF StartYIMs
  <2>5. StartDone \in StartYIMs(b_end)'
    BY <1>2, <2>3, <2>4 DEF StartYIMs
  <2>6. BuiltInv'
    BY <1>2, <2>1, <2>2, <2>5 DEF BuiltInv, StartDone, NodeAt
  <2> QED
    BY <1>1, <1>2, <1>4, <2>6 DEF BocageInv, Building
<1> QED
  BY <1>3, <1>4

\* Nor do the calls on its order and its tree change it.
LEMMA BocageUntouched ==
    ASSUME BocageInv, UNCHANGED <<vars, bocage>>
    PROVE  BocageInv'
<1>1. /\ UNCHANGED <<b_pc, b_end, b_set, b_todo, b_path, b_item, b_links, psi, or_nodes, dands>>
      /\ UNCHANGED pc
  BY RecceStays DEF bocage
<1>2. \A o \in or_nodes : NodeTypeOK(o) => NodeTypeOK(o)'
  BY <1>1, NodesStay
<1>3. /\ \A a, b : UpperLIMs(a, b)' = UpperLIMs(a, b)
      /\ \A a, b : PathNode(a, b)' = PathNode(a, b)
      /\ \A a, b : LeoLinksOf(a, b)' = LeoLinksOf(a, b)
      /\ \A a, b : SourceLinks(a, b)' = SourceLinks(a, b)
      /\ \A K : LeoPathsFrom(K)' = LeoPathsFrom(K)
      /\ \A u : UrChildren(u)' = UrChildren(u)
      /\ \A e : StartYIMs(e)' = StartYIMs(e)
      /\ UNCHANGED yims
  BY RecceStays
<1>4. b_pc = "built" => BuiltInv'
  <2>1. StartYIMs(b_end)' = StartYIMs(b_end)
    BY <1>1, RecceStays DEF StartYIMs
  <2> QED
    BY <1>1, <1>2, <2>1 DEF BocageInv, BuiltInv, StartDone, NodeAt
<1>5. Building => BuildingInv'
  <2> SUFFICES ASSUME Building, BuildingInv PROVE BuildingInv'
    BY DEF BocageInv
  <2>1. PICK e \in Earlemes, y \in {b_item} : e = b_set /\ y = b_item
    BY DEF BuildingInv, PsiAgrees
  <2>2. /\ \A b : UpperLIMs(b_set, b)' = UpperLIMs(b_set, b)
        /\ \A b : LeoLinksOf(b_set, b)' = LeoLinksOf(b_set, b)
        /\ \A k : PathNode(k, b_set)' = PathNode(k, b_set)
        /\ SourceLinks(b_set, b_item)' = SourceLinks(b_set, b_item)
    <3>1. /\ \A b : UpperLIMs(b_set, b)' = UpperLIMs(e, b)'
          /\ \A b : LeoLinksOf(b_set, b)' = LeoLinksOf(e, b)'
          /\ \A k : PathNode(k, b_set)' = PathNode(k, e)'
          /\ SourceLinks(b_set, b_item)' = SourceLinks(e, y)'
      BY <1>1, <2>1 DEF UpperLIMs, LeoPathsOf, LeoLinksOf, PathNode, NodeAt, SourceLinks,
                        TokenLinksOf, CompletionLinksOf
    <3> QED
      BY <1>3, <2>1, <3>1
  <2>3. \A u : IsReached(u)' <=> IsReached(u)
    BY <1>1 DEF IsReached
  <2>4. PsiAgrees'
    BY <1>1, PsiStays DEF BuildingInv, PsiAgrees
  <2>5. WorkAgrees'
    BY <1>1, <2>2, <2>3 DEF BuildingInv, WorkAgrees
  <2>6. NodesMade'
    BY <1>1, <1>3, <2>3 DEF BuildingInv, NodesMade
  <2>7. NodesAgree'
    BY <1>1, <1>2, <2>3, NeedStays DEF BuildingInv, NodesAgree
  <2>8. \A x, o : Serves(b_set, x, o)' <=> Serves(b_set, x, o)
    BY <1>1, <2>2 DEF Serves
  <2>9. \A l, o : LinkServes(l, o)' <=> LinkServes(l, o)
    BY <1>1, <1>3, <2>2 DEF LinkServes
  <2>10. DraftsPending'
    BY <1>1, <2>2, <2>8, <2>9 DEF BuildingInv, DraftsPending
  <2> QED
    BY <2>4, <2>5, <2>6, <2>7, <2>10 DEF BuildingInv
<1> QED
  BY <1>1, <1>4, <1>5 DEF BocageInv, Building

-----------------------------------------------------------------------------
(* The and-nodes *)

\* What else works on a tree pauses it and ends the pause, as a valuator does.
TreePauses ==
    UNCHANGED <<vars, bocage, order, t_returned, t_pc, t_is_exhausted, parse_count, iterator, parses>>

PausedNext == ForestNext \/ TreePauses
PausedSpec == ForestInit /\ [][PausedNext]_forest

LEMMA ForestIsPaused == ForestSpec => PausedSpec
<1>1. [ForestNext]_forest => [PausedNext]_forest
  BY DEF PausedNext
<1> QED
  BY <1>1, PTL DEF ForestSpec, PausedSpec

\* A bocage, its order and its tree leave the recognizer to its own steps.
LEMMA ForestIsRecce == PausedSpec => Spec
<1>1. ForestInit => Init
  BY DEF ForestInit
<1>2. [PausedNext]_forest => [Next]_vars
  BY DEF PausedNext, TreePauses, ForestNext, RecceCalls, forest
<1> QED
  BY <1>1, <1>2, PTL DEF PausedSpec, Spec

LEMMA BocageAlways ==
    ASSUME LeoRulesEndProper
    PROVE  PausedSpec => []BocageInv
<1>1. ForestInit => BocageInv
  BY DEF ForestInit, BocageInit, BocageInv, Building
<1>2. RecceInv /\ BocageInv /\ [PausedNext]_forest => BocageInv'
  <2> SUFFICES ASSUME RecceInv, BocageInv, [PausedNext]_forest PROVE BocageInv'
    OBVIOUS
  <2>1. CASE RecceCalls
    BY <2>1, RecceCallsKeep
  <2>2. CASE (BocageCalls \/ BocageSteps) /\ UNCHANGED vars
    BY <2>2, BocageCallsKeep, BocageStepsKeep
  <2>3. CASE UNCHANGED <<vars, bocage>>
    BY <2>3, BocageUntouched
  <2> QED
    BY <2>1, <2>2, <2>3 DEF PausedNext, TreePauses, ForestNext, forest
<1> QED
  BY <1>1, <1>2, ForestIsRecce, RecceInvAlways, PTL DEF PausedSpec

LEMMA NodesOfBocageMeet ==
    ASSUME BocageInv
    PROVE  AndNodesMeet /\ AndNodesHaveCause
<1>1. \A o \in or_nodes : b_pc = "built" => dands[o] # <<>>
  BY DEF BocageInv, BuiltInv
<1>2. \A o \in or_nodes : \A i \in DOMAIN dands[o] : Meets(o, dands[o][i])
  <2> SUFFICES ASSUME NEW o \in or_nodes, NEW i \in DOMAIN dands[o]
               PROVE  Meets(o, dands[o][i])
    OBVIOUS
  <2>1. NodeTypeOK(o)
    BY DEF BocageInv, Building, BuildingInv, NodesAgree, BuiltInv
  <2> DEFINE S == {a \in DANDs : MeetsProper(o, a)}
  <2>2. dands[o] \in Seq(S)
    BY <2>1 DEF NodeTypeOK
  <2> HIDE DEF S
  <2>3. dands[o][i] \in S
    BY <2>2
  <2> QED
    BY <2>3 DEF S, MeetsProper
<1>3. AndNodesHaveCause
  BY <1>2 DEF AndNodesHaveCause, Meets
<1> QED
  BY <1>1, <1>2, <1>3 DEF AndNodesMeet

\* Every or-node of a finished bocage has an and-node, and its and-nodes fit
\* together: the predecessor is the or-node of the same rule one position
\* before, the cause is a token or a completion of the symbol in between, and
\* the two meet inside the stretch of the or-node.  What marpa_b_new relies on
\* for it is that no right recursive rule ends with a nulled symbol.
THEOREM AndNodesFit ==
    ASSUME LeoRulesEndProper
    PROVE  ForestSpec => []AndNodesMeet
  BY ForestIsPaused, BocageAlways, NodesOfBocageMeet, PTL

\* Then draft_and_node_new is never called without a cause.
THEOREM CausesAreFound ==
    ASSUME LeoRulesEndProper
    PROVE  ForestSpec => []AndNodesHaveCause
  BY ForestIsPaused, BocageAlways, NodesOfBocageMeet, PTL

-----------------------------------------------------------------------------
(* The tokens that and-nodes have for causes *)

\* A token cause is of a symbol that is nulled where it stands, or else it is a
\* token that was read, over the stretch of input that the and-node leaves it.
CauseAsRead(o, a) ==
    OR_is_Token(a.cause) =>
        IF a.cause.type = "nulling" THEN Symbol_of_OR(o) \in NullingNSYs
        ELSE \E t \in tokens :
                a.cause = StatusCause(t) /\ t.start = Middle(o, a) /\ t.end = o.set

CausesAsRead == \A o \in or_nodes : \A i \in DOMAIN dands[o] : CauseAsRead(o, dands[o][i])

\* A token that was accepted stays accepted.
LEMMA TokensGrow ==
    ASSUME [Next]_vars
    PROVE  tokens \subseteq tokens'
<1>1. CASE EarlemeCompleteSteps
  BY <1>1 DEF EarlemeCompleteSteps, ScanAlternative, CompleteCause, AddPredictions,
              PrePopulateCompletions, StartLIMs, PopulateLIM, EarlemeCompleteEnds, input
<1>2. CASE Reads
  <2>1. ASSUME NEW x \in XSYs, NEW v \in TokenValues, NEW length \in TokenLengths,
               \/ AlternativeFails(x, v, length) \/ AlternativeRejected(x, v, length)
               \/ Alternative(x, v, length)
        PROVE  tokens \subseteq tokens'
    BY <2>1 DEF AlternativeFails, AlternativeRejected, Alternative, input
  <2>2. CASE \/ StartInputFails \/ StartInput \/ StartInputTrivial \/ EarlemeCompleteFails
             \/ EarlemeCompleteExhausts \/ EarlemeCompleteEmpty \/ EarlemeCompleteBegins
             \/ CleanFails \/ Clean
    BY <2>2 DEF StartInputFails, StartInput, StartInputTrivial, EarlemeCompleteFails,
                EarlemeCompleteExhausts, EarlemeCompleteEmpty, EarlemeCompleteBegins,
                CleanFails, Clean, input
  <2> QED
    BY <1>2, <2>1, <2>2 DEF Reads
<1>3. CASE Settings
  BY <1>3 DEF Settings, SymbolActivate, SymbolDeactivate, ExpectedSymbolEventSet,
              ZWADefaultSet, IsUseLeoSet, WarningThresholdSet, input
<1>4. CASE UNCHANGED vars
  BY <1>4 DEF vars, input
<1> QED
  BY <1>1, <1>2, <1>3, <1>4 DEF Next

\* And-nodes stay as they are read, and new ones are to be looked at.
LEMMA CausesStay ==
    ASSUME CausesAsRead, tokens \subseteq tokens', UNCHANGED b_valued,
           \A o \in or_nodes' : \A i \in DOMAIN dands'[o] :
              \/ CauseAsRead(o, dands'[o][i])
              \/ o \in or_nodes /\ \E j \in DOMAIN dands[o] : dands'[o][i] = dands[o][j]
    PROVE  CausesAsRead'
<1>1. \A o, a : CauseAsRead(o, a) => CauseAsRead(o, a)'
  BY DEF CauseAsRead, StatusCause
<1> QED
  BY <1>1 DEF CausesAsRead

\* What is put in front of a list of and-nodes.
LEMMA OneInFront ==
    ASSUME NEW S, NEW s \in Seq(S), NEW a, NEW i \in DOMAIN (<<a>> \o s)
    PROVE  (<<a>> \o s)[i] = a \/ \E j \in DOMAIN s : (<<a>> \o s)[i] = s[j]
<1>1. i \in 1 .. 1 + Len(s) /\ DOMAIN s = 1 .. Len(s) /\ Len(s) \in Nat
  OBVIOUS
<1>2. CASE i = 1
  BY <1>2
<1>3. CASE i # 1
  <2>1. i - 1 \in DOMAIN s /\ (<<a>> \o s)[i] = s[i - 1]
    BY <1>1, <1>3
  <2> QED
    BY <2>1
<1> QED
  BY <1>2, <1>3

LEMMA OneDraftCauses ==
    ASSUME CausesAsRead, UNCHANGED <<vars, b_valued, or_nodes>>, NodesAgree,
           NEW o \in or_nodes, NEW a, CauseAsRead(o, a), dands' = [dands EXCEPT ![o] = <<a>> \o @]
    PROVE  CausesAsRead'
<1>1. DOMAIN dands = or_nodes /\ tokens' = tokens
  BY DEF NodesAgree, vars, input
<1>2. ASSUME NEW n \in or_nodes, NEW i \in DOMAIN dands'[n]
      PROVE  CauseAsRead(n, dands'[n][i]) \/ \E j \in DOMAIN dands[n] : dands'[n][i] = dands[n][j]
  <2>1. CASE n # o
    BY <1>1, <1>2, <2>1
  <2>2. CASE n = o
    <3>1. dands'[n] = <<a>> \o dands[n]
      BY <1>1, <2>2
    <3>2. PICK S : dands[n] \in Seq(S)
      BY DEF NodesAgree, NodeTypeOK
    <3>3. PICK s \in Seq(S) : s = dands[n]
      BY <3>2
    <3>4. dands'[n][i] = a \/ \E j \in DOMAIN s : dands'[n][i] = s[j]
      BY <1>2, <3>1, <3>3, OneInFront
    <3> QED
      BY <2>2, <3>3, <3>4
  <2> QED
    BY <2>1, <2>2
<1> QED
  BY <1>1, <1>2, CausesStay

LEMMA NodesMadeCauses ==
    ASSUME BuildingInv, BuildingInv', UNCHANGED <<vars, b_valued, b_set>>, CausesAsRead,
           b_pc' = "or-nodes",
           \A o \in or_nodes : dands'[o] = dands[o],
           \A o \in or_nodes' : o \in or_nodes \/ o.set = b_set
    PROVE  CausesAsRead'
<1>1. ASSUME NEW o \in or_nodes', o \notin or_nodes, NEW i \in DOMAIN dands'[o]
      PROVE  CauseAsRead(o, dands'[o][i])
  <2>1. CASE Symbol_of_OR(o) \in NullingNSYs
    <3>1. dands'[o] = <<NullingDAND(o)>>
      BY <1>1, <2>1 DEF BuildingInv, NodesAgree
    <3>2. dands'[o][i] = NullingDAND(o)
      BY <1>1, <3>1
    <3> QED
      BY <2>1, <3>2 DEF CauseAsRead, NullingDAND, NullingToken, TokenCause
  <2>2. CASE Symbol_of_OR(o) \notin NullingNSYs
    <3>1. dands'[o] = <<>>
      BY <1>1, <2>2 DEF BuildingInv, DraftsPending
    <3> QED
      BY <1>1, <3>1
  <2> QED
    BY <2>1, <2>2
<1>2. tokens' = tokens
  BY DEF vars, input
<1> QED
  BY <1>1, <1>2, CausesStay

LEMMA CreateOrNodesCauses ==
    ASSUME LeoRulesEndProper, RecceInv, pc = "idle", BuildingInv, UNCHANGED vars, CausesAsRead,
           CreateOrNodes \/ CreateLeoPathOrNodes
    PROVE  CausesAsRead'
<1>1. BuildingInv'
  BY CreateOrNodesKeeps, CreateLeoPathOrNodesKeeps
<1>2. b_pc' = "or-nodes" /\ UNCHANGED <<b_set, b_valued>>
  BY DEF CreateOrNodes, CreateLeoPathOrNodes
<1>3. \E irl, p, n, origin, null_psl : AddNodes(irl, p, n, origin, null_psl)
  <2>1. CASE CreateOrNodes
    BY <2>1 DEF CreateOrNodes
  <2>2. CASE CreateLeoPathOrNodes
    BY <2>2 DEF CreateLeoPathOrNodes
  <2> QED
    BY <2>1, <2>2
<1>4. PICK irl, p, n, origin, null_psl : AddNodes(irl, p, n, origin, null_psl)
  BY <1>3
<1>5. /\ \A o \in or_nodes' : o \in or_nodes \/ o.set = b_set
      /\ or_nodes \subseteq or_nodes'
  BY <1>4 DEF AddNodes
<1>6. \A o \in or_nodes : dands'[o] = dands[o]
  BY <1>4, <1>5 DEF AddNodes
<1> QED
  BY <1>1, <1>2, <1>5, <1>6, NodesMadeCauses

LEMMA CreateLeoDraftsCauses ==
    ASSUME LeoRulesEndProper, RecceInv, pc = "idle", BuildingInv, UNCHANGED vars, CausesAsRead,
           CreateLeoDrafts
    PROVE  CausesAsRead'
<1>1. PICK l \in leo_links :
         /\ NextLink("leo", l)
         /\ LET New(o) == {k \in LeoPathsFrom({l.predecessor}) :
                             LeoPathOr(k) = o /\ ~ dand_is_duplicate(o, LeoPathDAND(k, l))}
            IN dands' = [o \in or_nodes |->
                   IF New(o) = {} THEN dands[o]
                   ELSE <<LeoPathDAND(CHOOSE k \in New(o) : TRUE, l)>> \o dands[o]]
  BY DEF CreateLeoDrafts
<1>2. /\ b_pc = "drafts" /\ <<"leo", l>> \in b_links /\ UNCHANGED <<or_nodes, b_valued>>
  BY <1>1 DEF NextLink
<1>3. <<b_set, b_item>> \in DOMAIN psi /\ l \in LeoLinksOf(b_set, b_item)
  <2>1. <<"leo", l>> \in SourceLinks(b_set, b_item)
    BY <1>2 DEF BuildingInv, WorkAgrees
  <2> QED
    BY <1>2, <2>1 DEF SourceLinks, BuildingInv, WorkAgrees
<1> DEFINE P == LeoPathsFrom({l.predecessor})
           New(o) == {k \in P : LeoPathOr(k) = o /\ ~ dand_is_duplicate(o, LeoPathDAND(k, l))}
<1>4. ASSUME NEW o \in or_nodes
      PROVE  dands'[o] = IF New(o) = {} THEN dands[o]
                         ELSE <<LeoPathDAND(CHOOSE k \in New(o) : TRUE, l)>> \o dands[o]
  BY <1>1
<1>5. ASSUME NEW o \in or_nodes, NEW i \in DOMAIN dands'[o]
      PROVE  CauseAsRead(o, dands'[o][i]) \/ \E j \in DOMAIN dands[o] : dands'[o][i] = dands[o][j]
  <2>1. CASE New(o) = {}
    BY <1>4, <1>5, <2>1
  <2>2. CASE New(o) # {}
    <3> DEFINE first == CHOOSE k \in New(o) : TRUE
    <3>1. first \in New(o)
      BY <2>2
    <3>2. dands'[o] = <<LeoPathDAND(first, l)>> \o dands[o]
      BY <1>4, <2>2
    <3> HIDE DEF first
    <3>3. first \in P
      BY <3>1
    <3> HIDE DEF New
    <3>4. PICK a : a = LeoPathDAND(first, l)
      OBVIOUS
    <3>5. ~ OR_is_Token(a.cause)
      BY <1>2, <1>3, <3>3, <3>4, LeoDANDMeets
    <3>6. PICK S : dands[o] \in Seq(S)
      BY DEF BuildingInv, NodesAgree, NodeTypeOK
    <3>7. PICK s \in Seq(S) : s = dands[o]
      BY <3>6
    <3>8. dands'[o][i] = a \/ \E j \in DOMAIN s : dands'[o][i] = s[j]
      BY <1>5, <3>2, <3>4, <3>7, OneInFront
    <3> QED
      BY <3>5, <3>7, <3>8 DEF CauseAsRead
  <2> QED
    BY <2>1, <2>2
<1>6. tokens' = tokens
  BY DEF vars, input
<1> QED
  BY <1>2, <1>5, <1>6, CausesStay

LEMMA OtherDraftsCauses ==
    ASSUME LeoRulesEndProper, RecceInv, pc = "idle", BuildingInv, UNCHANGED vars, CausesAsRead,
           CreateTokenDraft \/ CreateCompletionDraft
    PROVE  CausesAsRead'
<1>1. \E kind, l : NextLink(kind, l)
  BY DEF CreateTokenDraft, CreateCompletionDraft
<1>2. UNCHANGED <<b_valued, or_nodes>> /\ NodesAgree
  BY <1>1 DEF NextLink, BuildingInv
<1>3. \E o \in or_nodes, a \in DANDs : CauseAsRead(o, a) /\ dands' = [dands EXCEPT ![o] = <<a>> \o @]
  <2>1. CASE CreateTokenDraft
    <3>1. PICK l \in token_links, o \in or_nodes, a \in DANDs :
             /\ dands' = [dands EXCEPT ![o] = <<a>> \o @]
             /\ l.token \in tokens /\ a.cause = StatusCause(l.token)
             /\ Middle(o, a) = l.token.start /\ o.set = l.token.end
      BY <2>1, TokenDraftMeets
    <3>2. a.cause.type # "nulling"
      BY <3>1 DEF StatusCause, TokenCause
    <3>3. CauseAsRead(o, a)
      BY <3>1, <3>2 DEF CauseAsRead
    <3> QED
      BY <3>1, <3>3
  <2>2. CASE CreateCompletionDraft
    BY <2>2, CompletionDraftMeets DEF CauseAsRead
  <2> QED
    BY <2>1, <2>2
<1> QED
  BY <1>2, <1>3, OneDraftCauses

\* A token that is the cause of an and-node is one that was read over what the and-node
\* leaves it, and stays so while the application reads on.
LEMMA CausesAlways ==
    ASSUME LeoRulesEndProper
    PROVE  PausedSpec => []CausesAsRead
<1>1. ForestInit => CausesAsRead
  BY DEF ForestInit, BocageInit, CausesAsRead
<1>2. RecceInv /\ BocageInv /\ CausesAsRead /\ [PausedNext]_forest => CausesAsRead'
  <2> SUFFICES ASSUME RecceInv, BocageInv, CausesAsRead, [PausedNext]_forest PROVE CausesAsRead'
    OBVIOUS
  <2>1. CASE [Next]_vars /\ UNCHANGED bocage
    <3>1. UNCHANGED <<b_valued, or_nodes, dands>>
      BY <2>1 DEF bocage
    <3> QED
      BY <2>1, <3>1, TokensGrow, CausesStay DEF CausesAsRead
  <2>2. CASE (BocageCalls \/ BocageSteps) /\ UNCHANGED vars
    <3>1. CASE BocageCalls
      <4>1. or_nodes = {} /\ UNCHANGED or_nodes
        BY <3>1 DEF BocageCalls, BocageNoParse, BocageNulling, BocageBegins, BocageInv
      <4> QED
        BY <4>1 DEF CausesAsRead
    <3>2. CASE BocageSteps
      <4>1. Building
        BY <3>2 DEF BocageSteps, CreateOrNodes, CreateLeoPathOrNodes, OrNodesEnd, BeginDrafts,
               CreateLeoDrafts, CreateTokenDraft, CreateCompletionDraft, NextLink, DraftsEnd,
               Building
      <4>2. pc = "idle" /\ BuildingInv /\ UNCHANGED vars
        BY <2>2, <4>1 DEF BocageInv
      <4>3. CASE OrNodesEnd \/ BeginDrafts \/ DraftsEnd
        <5>1. UNCHANGED <<b_valued, or_nodes, dands>>
          BY <4>3 DEF OrNodesEnd, BeginDrafts, DraftsEnd
        <5>2. tokens' = tokens
          BY <4>2 DEF vars, input
        <5> QED
          BY <5>1, <5>2, CausesStay DEF CausesAsRead
      <4> QED
        BY <3>2, <4>2, <4>3, CreateOrNodesCauses, CreateLeoDraftsCauses, OtherDraftsCauses
           DEF BocageSteps
    <3> QED
      BY <2>2, <3>1, <3>2
  <2> QED
    BY <2>1, <2>2 DEF PausedNext, TreePauses, ForestNext, RecceCalls, forest
<1> QED
  BY <1>1, <1>2, ForestIsRecce, RecceInvAlways, BocageAlways, PTL DEF PausedSpec

-----------------------------------------------------------------------------
(* The inductive invariant of the order and the tree. *)

NookSet ==
    [or : or_nodes, choice : Nat, parent : Nat, is_cause : BOOLEAN, is_predecessor : BOOLEAN,
     cause_expanded : BOOLEAN, predecessor_expanded : BOOLEAN]

\* What is on offer at an or-node is some of its and-nodes.
OrderInv ==
    /\ \A o \in DOMAIN and_node_orderings : o \in or_nodes /\ and_node_orderings[o] # <<>>
          /\ and_node_orderings[o] \in Seq({dands[o][i] : i \in DOMAIN dands[o]})
    /\ t_pc # "none" => o_is_frozen
    /\ t_pc = "none" /\ ~ HasBocage => DOMAIN and_node_orderings = {}

\* The nooks of the stack have or-nodes and choices, and every or-node of some
\* length is in use while a nook has it, the only one.
StackInv ==
    /\ nook_stack \in Seq(NookSet)
    /\ \A i \in DOMAIN nook_stack : nook_stack[i].choice < Len(and_order(nook_stack[i].or))
    /\ \A i, j \in DOMAIN nook_stack :
          nook_stack[i].or = nook_stack[j].or /\ Length_of_OR(nook_stack[i].or) # 0 => i = j
    /\ \A o \in or_nodes : Length_of_OR(o) # 0 =>
          (o \in or_node_in_use <=> \E i \in DOMAIN nook_stack : nook_stack[i].or = o)

TreeInv ==
    /\ t_pc \in {"none", "ready", "iterate", "finish"} /\ parse_count \in Nat
    /\ t_pc # "none" => HasBocage
    /\ t_pc \in {"iterate", "finish"} => b_pc = "built"
    /\ OrderInv /\ StackInv
    /\ t_pc = "none" \/ (t_pc = "ready" /\ parse_count < 1) => nook_stack = <<>> /\ or_node_in_use = {}
    /\ t_pc = "none" => parse_count = 0
    /\ t_pc = "finish" =>
          nook_worklist \in Seq(Nat) /\ \A i \in DOMAIN nook_worklist : nook_worklist[i] \in DOMAIN nook_stack

-----------------------------------------------------------------------------
(* The order *)

StrictOrder(S, Before) ==
    /\ \A i \in S : <<i, i>> \notin Before
    /\ \A i, j \in S : i # j => <<i, j>> \in Before \/ <<j, i>> \in Before
    /\ \A i, j, k \in S : <<i, j>> \in Before /\ <<j, k>> \in Before => <<i, k>> \in Before

\* Where some places of a list are strictly ordered, the members there are
\* arranged in a list.
LEMMA ArrangedIs ==
    ASSUME NEW N \in Nat, NEW ands, NEW S \in SUBSET (1 .. N), S # {}, NEW Before,
           StrictOrder(S, Before), NEW T, \A i \in S : ands[i] \in T
    PROVE  Arranged(ands, S, Before) \in Seq(T) /\ Arranged(ands, S, Before) # <<>>
<1> DEFINE Front(i) == {j \in S : <<j, i>> \in Before}
           n == Cardinality(S)
           place == [i \in S |-> Cardinality(Front(i))]
<1>1. IsFiniteSet(S) /\ n \in Nat /\ n # 0
  <2>1. IsFiniteSet(1 .. N)
    BY FS_Interval
  <2>2. IsFiniteSet(S)
    BY <2>1, FS_Subset
  <2> QED
    BY <2>2, FS_CardinalityType, FS_EmptySet
<1>2. ASSUME NEW i \in S
      PROVE  IsFiniteSet(Front(i)) /\ place[i] \in 0 .. n - 1
  <2>1. Front(i) \in SUBSET (S \ {i})
    BY DEF StrictOrder
  <2>2. IsFiniteSet(S \ {i}) /\ Cardinality(S \ {i}) = n - 1
    BY <1>1, FS_RemoveElement
  <2> HIDE DEF Front, n
  <2>3. IsFiniteSet(Front(i)) /\ Cardinality(Front(i)) <= n - 1
    BY <2>1, <2>2, FS_Subset
  <2>4. Cardinality(Front(i)) \in Nat
    BY <2>3, FS_CardinalityType
  <2> QED
    BY <1>1, <2>3, <2>4
<1>3. ASSUME NEW i \in S, NEW j \in S, <<j, i>> \in Before
      PROVE  place[j] # place[i]
  <2>1. Front(j) \in SUBSET Front(i) /\ j \in Front(i) /\ j \notin Front(j)
    BY <1>3 DEF StrictOrder
  <2>2. IsFiniteSet(Front(i))
    BY <1>2
  <2> HIDE DEF Front
  <2>3. Cardinality(Front(i)) # Cardinality(Front(j))
    BY <2>1, <2>2, FS_Subset
  <2> QED
    BY <2>3
<1> DEFINE places == 0 .. n - 1
<1>4. place \in Injection(S, places)
  <2> HIDE DEF Front, n
  <2>1. place \in [S -> places]
    BY <1>2
  <2>2. \A i, j \in S : place[i] = place[j] => i = j
    <3> HIDE DEF place
    <3> QED
      BY <1>3 DEF StrictOrder
  <2> QED
    BY <2>1, <2>2 DEF Injection, IsInjective
<1>5. place \in Surjection(S, places)
  <2>1. IsFiniteSet(places) /\ Cardinality(places) = n
    <3>1. 0 \in Int /\ n - 1 \in Int
      BY <1>1
    <3>2. IsFiniteSet(0 .. n - 1)
          /\ Cardinality(0 .. n - 1) = IF 0 > n - 1 THEN 0 ELSE n - 1 - 0 + 1
      BY <3>1, FS_Interval
    <3> QED
      BY <1>1, <3>2
  <2> HIDE DEF place, places
  <2> QED
    BY <1>4, <2>1, FS_Injection
<1>6. ASSUME NEW m \in 1 .. n
      PROVE  (CHOOSE i \in S : Cardinality({j \in S : <<j, i>> \in Before}) = m - 1) \in S
  <2>1. m - 1 \in places
    BY <1>1
  <2>2. \E i \in S : place[i] = m - 1
    <3> HIDE DEF place, places
    <3> QED
      BY <1>5, <2>1 DEF Surjection
  <2>3. \E i \in S : Cardinality({j \in S : <<j, i>> \in Before}) = m - 1
    BY <2>2
  <2> QED
    BY <2>3
<1> DEFINE list == Arranged(ands, S, Before)
<1>7. DOMAIN list = 1 .. n /\ \A m \in 1 .. n : list[m] \in T
  BY <1>6 DEF Arranged
<1>8. list = [m \in 1 .. n |-> list[m]]
  BY DEF Arranged
<1> HIDE DEF list, n
<1>9. list \in Seq(T)
  BY <1>1, <1>7, <1>8
<1>10. 1 \in DOMAIN list
  BY <1>1, <1>7
<1>11. list # <<>>
  BY <1>10
<1> QED
  BY <1>9, <1>11 DEF list

\* A list has a member of the highest rank.
LEMMA HighestRank ==
    ASSUME NEW N \in Nat, N > 0, NEW rank, \A i \in 1 .. N : rank[i] \in Int
    PROVE  \E i \in 1 .. N : \A j \in 1 .. N : rank[j] <= rank[i]
<1> DEFINE S == {n \in 0 .. N : n = 0 \/ \E i \in 1 .. n : \A j \in 1 .. n : rank[j] <= rank[i]}
<1>1. 0 \in S
  OBVIOUS
<1>2. ASSUME NEW n \in 0 .. N, n \in S, n < N
      PROVE  n + 1 \in S
  <2>1. n + 1 \in 0 .. N /\ n + 1 \in 1 .. n + 1 /\ n \in Nat /\ n + 1 \in 1 .. N
    BY <1>2
  <2>2. CASE n = 0
    <3>1. \A j \in 1 .. n + 1 : j = n + 1
      BY <2>2
    <3> QED
      BY <2>1, <3>1
  <2>3. CASE n # 0
    <3>1. PICK i \in 1 .. n : \A j \in 1 .. n : rank[j] <= rank[i]
      BY <1>2, <2>3
    <3>2. rank[i] \in Int /\ rank[n + 1] \in Int /\ i \in 1 .. n + 1
      BY <1>2, <2>1
    <3>3. \A j \in 1 .. n + 1 : j \in 1 .. n \/ j = n + 1
      BY <2>1
    <3>4. \A j \in 1 .. n : rank[j] \in Int
      BY <1>2
    <3>5. CASE rank[n + 1] <= rank[i]
      BY <2>1, <3>1, <3>2, <3>3, <3>5
    <3>6. CASE rank[i] <= rank[n + 1]
      <4>1. \A j \in 1 .. n : rank[j] <= rank[n + 1]
        BY <3>1, <3>2, <3>4, <3>6
      <4> QED
        BY <2>1, <3>2, <3>3, <4>1
    <3> QED
      BY <3>2, <3>5, <3>6
  <2> QED
    BY <2>2, <2>3
<1> HIDE DEF S
<1>3. N \in S
  BY <1>1, <1>2, UpTo
<1> QED
  BY <1>3 DEF S

\* Both ways to rank the and-nodes of an or-node leave it with some of them.
LEMMA RankedIs ==
    ASSUME NEW ands \in Seq(DANDs), ands # <<>>,
           NEW ranked, ranked = HighRankOnly(ands) \/ ranked = RankByRule(ands)
    PROVE  ranked \in Seq({ands[i] : i \in DOMAIN ands}) /\ ranked # <<>>
<1>1. PICK N \in Nat : N = Len(ands) /\ DOMAIN ands = 1 .. N /\ N > 0
  BY EmptySeq
<1>2. ASSUME NEW i \in 1 .. N
      PROVE  Rank_of_AND(ands[i]) \in Int
  <2>1. ands[i] \in DANDs
    BY <1>1
  <2>2. CASE OR_is_Token(ands[i].cause)
    <3>1. ands[i].cause \in TokenCauses
      BY <2>1, <2>2, KindsOfCause DEF DANDs
    <3> QED
      BY <2>2, <3>1, RankAssumption DEF TokenCauses, Rank_of_AND
  <2>3. CASE ~ OR_is_Token(ands[i].cause)
    <3>1. ands[i].cause \in ORs
      BY <2>1, <2>3, KindsOfCause DEF DANDs
    <3> QED
      BY <2>3, <3>1, RankAssumption DEF ORs, Rank_of_AND
  <2> QED
    BY <2>2, <2>3
<1> DEFINE rank == [i \in 1 .. N |-> Rank_of_AND(ands[i])]
<1>3. \A i \in 1 .. N : rank[i] \in Int
  BY <1>2
<1>4. PICK T : T = {ands[i] : i \in DOMAIN ands}
  OBVIOUS
<1>5. CASE ranked = HighRankOnly(ands)
  <2> DEFINE kept == {i \in DOMAIN ands :
                        \A j \in DOMAIN ands : Rank_of_AND(ands[j]) <= Rank_of_AND(ands[i])}
             Before == {p \in kept \X kept : p[1] < p[2]}
  <2>1. kept # {}
    <3>1. PICK i \in 1 .. N : \A j \in 1 .. N : rank[j] <= rank[i]
      <4> HIDE DEF rank
      <4> QED
        BY <1>1, <1>3, HighestRank
    <3> QED
      BY <1>1, <3>1
  <2>2. kept \in SUBSET (1 .. N) /\ \A i \in kept : i \in Int
    BY <1>1
  <2>3. ranked = Arranged(ands, kept, Before)
    BY <1>5 DEF HighRankOnly
  <2>4. \A i, j \in kept : <<i, j>> \in Before <=> i < j
    OBVIOUS
  <2> HIDE DEF kept, Before
  <2>5. StrictOrder(kept, Before)
    BY <2>2, <2>4 DEF StrictOrder
  <2>6. \A i \in kept : ands[i] \in T
    BY <1>1, <1>4, <2>2
  <2>7. ranked \in Seq(T) /\ ranked # <<>>
    BY <2>1, <2>2, <2>3, <2>5, <2>6, ArrangedIs
  <2> QED
    BY <1>4, <2>7
<1>6. CASE ranked = RankByRule(ands)
  <2> DEFINE Before == RanksBefore(ands)
  <2>1. \A i, j \in 1 .. N : <<i, j>> \in Before <=>
           rank[i] > rank[j] \/ (rank[i] = rank[j] /\ i < j)
    BY <1>1 DEF RanksBefore
  <2>2. ranked = Arranged(ands, 1 .. N, Before)
    BY <1>1, <1>6 DEF RankByRule
  <2> HIDE DEF Before, rank
  <2>3. /\ \A i \in 1 .. N : <<i, i>> \notin Before
        /\ \A i, j \in 1 .. N : i # j => <<i, j>> \in Before \/ <<j, i>> \in Before
    BY <1>3, <2>1
  <2>4. ASSUME NEW i \in 1 .. N, NEW j \in 1 .. N, NEW k \in 1 .. N,
               <<i, j>> \in Before, <<j, k>> \in Before
        PROVE  <<i, k>> \in Before
    <3>1. /\ rank[i] > rank[j] \/ (rank[i] = rank[j] /\ i < j)
          /\ rank[j] > rank[k] \/ (rank[j] = rank[k] /\ j < k)
          /\ rank[i] \in Int /\ rank[j] \in Int /\ rank[k] \in Int
      BY <1>3, <2>1, <2>4
    <3>2. rank[i] > rank[k] \/ (rank[i] = rank[k] /\ i < k)
      BY <3>1
    <3> QED
      BY <2>1, <3>2
  <2>5. PICK S : S = 1 .. N
    OBVIOUS
  <2>6. 1 \in S
    BY <1>1, <2>5
  <2>7. StrictOrder(S, Before)
    BY <2>3, <2>4, <2>5 DEF StrictOrder
  <2>8. \A i \in S : ands[i] \in T
    BY <1>1, <1>4, <2>5
  <2>9. ranked \in Seq(T) /\ ranked # <<>>
    BY <2>2, <2>5, <2>6, <2>7, <2>8, ArrangedIs
  <2> QED
    BY <1>4, <2>9
<1> QED
  BY <1>5, <1>6

-----------------------------------------------------------------------------
(* What the tree iterator finds *)

\* An or-node of a bocage has and-nodes on offer, and they fit.
LEMMA OnOffer ==
    ASSUME BocageInv, OrderInv, NEW o \in or_nodes, b_pc = "built"
    PROVE  /\ and_order(o) \in Seq({a \in DANDs : Meets(o, a)})
           /\ Len(and_order(o)) \in Nat /\ Len(and_order(o)) > 0
<1> DEFINE S == {a \in DANDs : MeetsProper(o, a)}
           T == {a \in DANDs : Meets(o, a)}
<1>1. dands[o] \in Seq(S) /\ dands[o] # <<>>
  BY DEF BocageInv, BuiltInv, NodeTypeOK
<1>2. S \subseteq T
  BY DEF MeetsProper
<1> HIDE DEF S, T
<1>3. dands[o] \in Seq(T)
  BY <1>1, <1>2
<1>4. and_order(o) \in Seq(T) /\ and_order(o) # <<>>
  <2>1. CASE o \in DOMAIN and_node_orderings
    <3> DEFINE R == {dands[o][i] : i \in DOMAIN dands[o]}
    <3>1. R \subseteq T
      BY <1>3
    <3>2. and_node_orderings[o] \in Seq(R) /\ and_node_orderings[o] # <<>>
      BY <2>1 DEF OrderInv
    <3> HIDE DEF R
    <3> QED
      BY <2>1, <3>1, <3>2 DEF and_order
  <2>2. CASE o \notin DOMAIN and_node_orderings
    BY <1>1, <1>3, <2>2 DEF and_order
  <2> QED
    BY <2>1, <2>2
<1>5. Len(and_order(o)) \in Nat /\ Len(and_order(o)) > 0
  BY <1>4, EmptySeq
<1> QED
  BY <1>4, <1>5 DEF T

\* The and-node of a choice leads to or-nodes.
LEMMA ChoiceFits ==
    ASSUME BocageInv, OrderInv, NEW o \in or_nodes, b_pc = "built",
           NEW choice \in Nat, choice < Len(and_order(o)),
           NEW a, a = and_order_get(o, choice)
    PROVE  /\ ~ OR_is_Token(a.cause) => a.cause \in or_nodes
           /\ a.predecessor # NoOR => a.predecessor \in or_nodes
<1> DEFINE T == {b \in DANDs : Meets(o, b)}
<1>1. and_order(o) \in Seq(T) /\ Len(and_order(o)) \in Nat
  BY OnOffer
<1>2. choice + 1 \in DOMAIN and_order(o)
  BY <1>1
<1> HIDE DEF T
<1>3. a \in T
  BY <1>1, <1>2 DEF and_order_get
<1> QED
  BY <1>3 DEF T, Meets

\* "Set top or node id in b"
LEMMA TopIsNode ==
    ASSUME RecceInv, BocageInv, b_pc = "built"
    PROVE  Top_OR_of_B \in or_nodes /\ Top_OR_of_B = NodeAt(StartDone, 1, b_end)
<1>1. PICK e \in Earlemes \ {0} : e = b_end
  BY DEF BocageInv, BuiltInv
<1>2. /\ StartDone \in StartYIMs(e)
      /\ psi[<<e, StartDone>>] = NodeAt(StartDone, 1, e) /\ NodeAt(StartDone, 1, e) \in or_nodes
  BY <1>1 DEF BocageInv, BuiltInv
<1>3. \A y \in StartYIMs(e) : y = StartDone
  BY StartItem DEF StartDone
<1>4. (CHOOSE y \in StartYIMs(e) : TRUE) = StartDone
  BY <1>2, <1>3
<1> QED
  BY <1>1, <1>2, <1>4 DEF Top_OR_of_B

-----------------------------------------------------------------------------
(* The stack of nooks *)

LEMMA EmptyStack ==
    ASSUME nook_stack' = <<>>, or_node_in_use' = {}
    PROVE  StackInv'
<1>1. \A o : ~ (o \in or_node_in_use') /\ ~ \E i \in DOMAIN nook_stack' : nook_stack'[i].or = o
  OBVIOUS
<1>2. <<>> \in Seq(NookSet')
  OBVIOUS
<1> QED
  BY <1>1, <1>2 DEF StackInv

\* The nooks keep their or-nodes, and their choices are on offer.
LEMMA SameNooks ==
    ASSUME StackInv, UNCHANGED <<bocage, order, or_node_in_use>>,
           nook_stack' \in Seq(NookSet), DOMAIN nook_stack' = DOMAIN nook_stack,
           \A i \in DOMAIN nook_stack :
              /\ nook_stack'[i].or = nook_stack[i].or
              /\ nook_stack'[i].choice < Len(and_order(nook_stack[i].or))
    PROVE  StackInv'
<1>1. UNCHANGED <<or_nodes, dands, and_node_orderings>>
  BY DEF bocage, order
<1>2. NookSet' = NookSet /\ \A o : and_order(o)' = and_order(o)
  BY <1>1 DEF NookSet, and_order
<1> QED
  BY <1>1, <1>2 DEF StackInv, Length_of_OR

\* The top nook is popped, and its or-node put out of use.
LEMMA PoppedNook ==
    ASSUME StackInv, UNCHANGED <<bocage, order>>, nook_stack # <<>>,
           NEW n, n = Len(nook_stack), nook_stack' \in Seq(NookSet), Len(nook_stack') = n - 1,
           \A i \in 1 .. n - 1 :
              /\ nook_stack'[i].or = nook_stack[i].or
              /\ nook_stack'[i].choice = nook_stack[i].choice,
           or_node_in_use' = or_node_in_use \ {nook_stack[n].or}
    PROVE  StackInv'
<1>1. UNCHANGED <<or_nodes, dands, and_node_orderings>>
  BY DEF bocage, order
<1>2. NookSet' = NookSet /\ \A o : and_order(o)' = and_order(o)
  BY <1>1 DEF NookSet, and_order
<1> DEFINE all == 1 .. n
           rest == 1 .. n - 1
<1>3. /\ DOMAIN nook_stack = all /\ DOMAIN nook_stack' = rest
      /\ n \in all /\ n \notin rest /\ all = rest \cup {n}
      /\ \A i \in rest : nook_stack'[i].or = nook_stack[i].or
                        /\ nook_stack'[i].choice = nook_stack[i].choice
  <2>1. n \in Nat /\ n > 0
    BY EmptySeq DEF StackInv
  <2> QED
    BY <2>1 DEF StackInv
<1> HIDE DEF all, rest
<1>4. ASSUME NEW o \in or_nodes, Length_of_OR(o) # 0
      PROVE  o \in or_node_in_use' <=> \E i \in DOMAIN nook_stack' : nook_stack'[i].or = o
  <2>1. o \in or_node_in_use <=> \E i \in all : nook_stack[i].or = o
    BY <1>3, <1>4 DEF StackInv
  <2>2. ASSUME NEW i \in rest, nook_stack[i].or = o
        PROVE  nook_stack[n].or # o
    <3>1. i \in DOMAIN nook_stack /\ n \in DOMAIN nook_stack /\ i # n
      BY <1>3
    <3> QED
      BY <1>4, <2>2, <3>1 DEF StackInv
  <2> QED
    BY <1>3, <2>1, <2>2
<1>5. \A i \in DOMAIN nook_stack' : nook_stack'[i].choice < Len(and_order(nook_stack'[i].or))
  BY <1>3 DEF StackInv
<1>6. \A i, j \in DOMAIN nook_stack' :
         nook_stack'[i].or = nook_stack'[j].or /\ Length_of_OR(nook_stack'[i].or) # 0 => i = j
  <2> SUFFICES ASSUME NEW i \in rest, NEW j \in rest, nook_stack[i].or = nook_stack[j].or,
                      Length_of_OR(nook_stack[i].or) # 0
               PROVE  i = j
    BY <1>3
  <2> QED
    BY <1>3 DEF StackInv
<1> QED
  BY <1>1, <1>2, <1>4, <1>5, <1>6 DEF StackInv, Length_of_OR

\* A nook is pushed for an or-node that can be claimed.
LEMMA PushedNook ==
    ASSUME StackInv, UNCHANGED <<bocage, order>>,
           NEW n, n = Len(nook_stack), nook_stack' \in Seq(NookSet), Len(nook_stack') = n + 1,
           \A i \in 1 .. n :
              /\ nook_stack'[i].or = nook_stack[i].or
              /\ nook_stack'[i].choice = nook_stack[i].choice,
           NEW child \in or_nodes, nook_stack'[n + 1].or = child, nook_stack'[n + 1].choice = 0,
           Len(and_order(child)) > 0, Claimable(child), or_node_in_use' = Claim(child)
    PROVE  StackInv'
<1>1. UNCHANGED <<or_nodes, dands, and_node_orderings>>
  BY DEF bocage, order
<1>2. NookSet' = NookSet /\ \A o : and_order(o)' = and_order(o)
  BY <1>1 DEF NookSet, and_order
<1>3. /\ n \in Nat /\ DOMAIN nook_stack = 1 .. n /\ DOMAIN nook_stack' = 1 .. n + 1
      /\ \A i \in 1 .. n + 1 : i = n + 1 \/ i \in 1 .. n
      /\ \A i \in 1 .. n : i \in 1 .. n + 1
      /\ n + 1 \in 1 .. n + 1
  BY DEF StackInv
<1>4. ASSUME NEW o \in or_nodes, Length_of_OR(o) # 0
      PROVE  o \in or_node_in_use' <=> \E i \in DOMAIN nook_stack' : nook_stack'[i].or = o
  <2>1. o \in or_node_in_use <=> \E i \in 1 .. n : nook_stack[i].or = o
    BY <1>3, <1>4 DEF StackInv
  <2>2. o \in or_node_in_use' <=> o \in or_node_in_use \/ o = child
    BY <1>4 DEF Claim
  <2>3. (\E i \in 1 .. n + 1 : nook_stack'[i].or = o)
           <=> (\E i \in 1 .. n : nook_stack[i].or = o) \/ o = child
    BY <1>3
  <2> QED
    BY <1>3, <2>1, <2>2, <2>3
<1>5. \A i \in DOMAIN nook_stack' : nook_stack'[i].choice < Len(and_order(nook_stack'[i].or))
  BY <1>3 DEF StackInv
<1>6. \A i, j \in DOMAIN nook_stack' :
         nook_stack'[i].or = nook_stack'[j].or /\ Length_of_OR(nook_stack'[i].or) # 0 => i = j
  <2>1. \A i \in 1 .. n : Length_of_OR(child) # 0 => nook_stack[i].or # child
    BY <1>3 DEF Claimable, StackInv
  <2> QED
    BY <1>3, <2>1 DEF StackInv
<1> QED
  BY <1>1, <1>2, <1>4, <1>5, <1>6 DEF StackInv, Length_of_OR

-----------------------------------------------------------------------------
(* The steps of the order and of the tree *)

\* The lists on offer are ranked only before there is a tree.
LEMMA OrderCallsKeep ==
    ASSUME BocageInv, TreeInv, OrderCalls, UNCHANGED bocage
    PROVE  TreeInv'
<1>1. UNCHANGED <<b_pc, or_nodes, dands>> /\ HasBocage /\ HasBocage' /\ UNCHANGED tree
  BY DEF bocage, OrderCalls, OrderFrozen, HighRankOnlySet, OrderRank, AmbiguityMetric, T_Idle,
         HasBocage
<1>2. UNCHANGED <<t_pc, parse_count, nook_stack, nook_worklist, or_node_in_use>>
  BY <1>1 DEF tree, iterator
<1>3. CASE UNCHANGED and_node_orderings /\ (o_is_frozen => o_is_frozen')
  <2>1. NookSet' = NookSet /\ \A o : and_order(o)' = and_order(o)
    BY <1>1, <1>3 DEF NookSet, and_order
  <2>2. StackInv'
    BY <1>1, <1>2, <2>1 DEF TreeInv, StackInv, Length_of_OR
  <2>3. OrderInv'
    BY <1>1, <1>2, <1>3 DEF TreeInv, OrderInv
  <2> QED
    BY <1>1, <1>2, <2>2, <2>3 DEF TreeInv
<1>4. CASE OrderRank
  <2>1. /\ t_pc = "none" /\ nook_stack = <<>> /\ or_node_in_use = {}
    BY <1>4 DEF OrderRank, TreeInv, OrderInv
  <2>2. StackInv'
    BY <1>2, <2>1, EmptyStack
  <2>3. ASSUME NEW o \in DOMAIN and_node_orderings'
        PROVE  /\ o \in or_nodes /\ and_node_orderings'[o] # <<>>
               /\ and_node_orderings'[o] \in Seq({dands[o][i] : i \in DOMAIN dands[o]})
    <3>1. /\ o \in or_nodes
          /\ \/ and_node_orderings'[o] = HighRankOnly(dands[o])
             \/ and_node_orderings'[o] = RankByRule(dands[o])
      BY <1>4, <2>3 DEF OrderRank
    <3>2. b_pc = "built"
      BY <1>1, <3>1 DEF HasBocage, BocageInv
    <3> DEFINE S == {a \in DANDs : MeetsProper(o, a)}
    <3>3. dands[o] \in Seq(S) /\ dands[o] # <<>>
      BY <3>1, <3>2 DEF BocageInv, BuiltInv, NodeTypeOK
    <3>4. S \subseteq DANDs
      OBVIOUS
    <3> HIDE DEF S
    <3>5. PICK ands \in Seq(DANDs) : ands = dands[o]
      BY <3>3, <3>4
    <3>6. PICK ranked : ranked = and_node_orderings'[o]
      OBVIOUS
    <3>7. ranked \in Seq({ands[i] : i \in DOMAIN ands}) /\ ranked # <<>>
      BY <3>1, <3>3, <3>5, <3>6, RankedIs
    <3> QED
      BY <3>1, <3>5, <3>6, <3>7
  <2>4. OrderInv'
    BY <1>1, <1>2, <2>1, <2>3 DEF OrderInv
  <2> QED
    BY <1>1, <1>2, <2>1, <2>2, <2>4 DEF TreeInv
<1> QED
  BY <1>3, <1>4 DEF OrderCalls, OrderFrozen, HighRankOnlySet, AmbiguityMetric, order

\* With no change to the order, the invariant of the order is kept once there
\* is a tree.
LEMMA OrderStays ==
    ASSUME OrderInv, HasBocage, UNCHANGED <<bocage, order>>, t_pc # "none"
    PROVE  OrderInv' /\ HasBocage' /\ UNCHANGED b_pc
<1>1. UNCHANGED <<b_pc, or_nodes, dands, and_node_orderings, o_is_frozen>>
  BY DEF bocage, order
<1> QED
  BY <1>1 DEF OrderInv, HasBocage

LEMMA ExhaustKeeps ==
    ASSUME TreeInv, t_pc \in {"ready", "iterate"}, Exhaust, UNCHANGED bocage
    PROVE  TreeInv'
<1>1. /\ UNCHANGED <<order, parse_count>> /\ t_pc' = "ready" /\ nook_stack' = <<>>
      /\ or_node_in_use' = {}
  BY DEF Exhaust
<1>2. OrderInv' /\ HasBocage'
  BY <1>1, OrderStays DEF TreeInv
<1>3. StackInv'
  BY <1>1, EmptyStack
<1> QED
  BY <1>1, <1>2, <1>3 DEF TreeInv

\* "Finish tree if possible" starts with a stack whose nooks are all to be
\* looked at.
LEMMA FinishStarts ==
    ASSUME TreeInv, NEW stack, StartFinish(stack), stack \in Seq(NookSet),
           t_pc \in {"ready", "iterate"}, b_pc = "built", StackInv',
           UNCHANGED <<bocage, order, parse_count>>
    PROVE  TreeInv'
<1>1. OrderInv' /\ HasBocage' /\ UNCHANGED b_pc
  BY OrderStays DEF TreeInv
<1>2. /\ t_pc' = "finish" /\ nook_stack' = stack
      /\ nook_worklist' = [i \in DOMAIN stack |-> i]
  BY DEF StartFinish, WorklistOf
<1>3. nook_worklist' \in Seq(Nat) /\ \A i \in DOMAIN nook_worklist' : nook_worklist'[i] \in DOMAIN stack
  <2>1. PICK n \in Nat : n = Len(stack) /\ DOMAIN stack = 1 .. n
    OBVIOUS
  <2> QED
    BY <1>2, <2>1
<1> QED
  BY <1>1, <1>2, <1>3 DEF TreeInv

LEMMA InitializeIteratorKeeps ==
    ASSUME RecceInv, BocageInv, TreeInv, InitializeIterator, UNCHANGED bocage
    PROVE  TreeInv'
<1>1. /\ t_pc = "ready" /\ parse_count < 1 /\ b_pc = "built"
      /\ StartFinish(<<NewNook(Top_OR_of_B, 0, FALSE, FALSE)>>)
      /\ or_node_in_use' = or_node_in_use \cup {Top_OR_of_B}
      /\ UNCHANGED <<order, parse_count>>
  BY DEF InitializeIterator, TreeInv, HasBocage, O_is_Nulling
<1>2. nook_stack = <<>> /\ or_node_in_use = {}
  BY <1>1 DEF TreeInv
<1>3. PICK top \in or_nodes : top = Top_OR_of_B
  BY <1>1, TopIsNode
<1>4. PICK nook \in NookSet : nook = NewNook(top, 0, FALSE, FALSE)
  BY DEF NewNook, NookSet
<1>5. nook.or = top /\ nook.choice = 0
  BY <1>4 DEF NewNook
<1>6. PICK stack : stack = <<nook>>
  OBVIOUS
<1>7. /\ stack \in Seq(NookSet) /\ DOMAIN stack = {1} /\ stack[1] = nook
  BY <1>6
<1>8. /\ nook_stack' = stack /\ or_node_in_use' = {top} /\ StartFinish(stack)
  BY <1>1, <1>2, <1>3, <1>4, <1>6 DEF StartFinish
<1>9. StackInv'
  <2>1. UNCHANGED <<or_nodes, dands, and_node_orderings>>
    BY <1>1 DEF bocage, order
  <2>2. NookSet' = NookSet /\ \A o : and_order(o)' = and_order(o)
    BY <2>1 DEF NookSet, and_order
  <2>3. 0 < Len(and_order(top))
    BY <1>1, OnOffer DEF TreeInv
  <2> QED
    BY <1>5, <1>7, <1>8, <2>1, <2>2, <2>3 DEF StackInv, Length_of_OR
<1> QED
  BY <1>1, <1>7, <1>8, <1>9, FinishStarts

LEMMA TreeCallsKeep ==
    ASSUME RecceInv, BocageInv, TreeInv, TreeCalls, UNCHANGED bocage
    PROVE  TreeInv'
<1>1. UNCHANGED <<b_pc, or_nodes, dands>>
  BY DEF bocage
<1>2. CASE TreeNew
  <2>1. /\ UNCHANGED <<and_node_orderings, parse_count, nook_stack, nook_worklist, or_node_in_use>>
        /\ t_pc = "none" /\ HasBocage /\ o_is_frozen' /\ t_pc' = "ready"
    BY <1>2 DEF TreeNew, iterator
  <2>2. NookSet' = NookSet /\ \A o : and_order(o)' = and_order(o)
    BY <1>1, <2>1 DEF NookSet, and_order
  <2>3. StackInv' /\ OrderInv'
    BY <1>1, <2>1, <2>2 DEF TreeInv, StackInv, OrderInv, Length_of_OR
  <2> QED
    BY <1>1, <2>1, <2>3 DEF TreeInv, HasBocage
<1>3. CASE NextAnswers \/ NextIterates
  <2>1. /\ t_pc = "ready" /\ UNCHANGED <<order, nook_stack, nook_worklist, or_node_in_use>>
        /\ parse_count' = parse_count \/ (parse_count' = parse_count + 1)
        /\ \/ t_pc' = "ready"
           \/ t_pc' = "iterate" /\ ~ O_is_Nulling
    BY <1>3 DEF NextAnswers, NextIterates, iterator
  <2>2. OrderInv' /\ HasBocage'
    BY <2>1, OrderStays DEF TreeInv
  <2>3. UNCHANGED and_node_orderings
    BY <2>1 DEF order
  <2>4. NookSet' = NookSet /\ \A o : and_order(o)' = and_order(o)
    BY <1>1, <2>3 DEF NookSet, and_order
  <2>5. StackInv'
    BY <1>1, <2>1, <2>4 DEF TreeInv, StackInv, Length_of_OR
  <2>6. t_pc' = "iterate" => b_pc = "built"
    BY <2>1 DEF TreeInv, HasBocage, O_is_Nulling
  <2>7. parse_count' \in Nat /\ (parse_count' < 1 => parse_count < 1)
    BY <2>1 DEF TreeInv
  <2> QED
    BY <1>1, <2>1, <2>2, <2>5, <2>6, <2>7 DEF TreeInv
<1>4. CASE NullingIsExhausted
  BY <1>4, ExhaustKeeps DEF NullingIsExhausted
<1>5. CASE InitializeIterator
  BY <1>5, InitializeIteratorKeeps
<1> QED
  BY <1>2, <1>3, <1>4, <1>5 DEF TreeCalls

LEMMA NextChoiceKeeps ==
    ASSUME BocageInv, TreeInv, NextChoice, UNCHANGED bocage
    PROVE  TreeInv'
<1>1. PICK n \in Nat : n = Len(nook_stack) /\ DOMAIN nook_stack = 1 .. n /\ n \in 1 .. n
                       /\ nook_stack \in Seq(NookSet)
  <2>1. nook_stack \in Seq(NookSet) /\ nook_stack # <<>>
    BY DEF NextChoice, TreeInv, StackInv
  <2>2. Len(nook_stack) \in Nat /\ Len(nook_stack) > 0
    BY <2>1, EmptySeq
  <2> QED
    BY <2>1, <2>2
<1>2. PICK nook \in NookSet : nook = nook_stack[n]
  BY <1>1
<1>3. PICK new : new = [nook EXCEPT !.choice = @ + 1, !.cause_expanded = FALSE,
                                    !.predecessor_expanded = FALSE]
  OBVIOUS
<1>4. new \in NookSet /\ new.or = nook.or /\ new.choice = nook.choice + 1
  <2>1. nook.choice + 1 \in Nat
    BY DEF NookSet
  <2> QED
    BY <1>3, <2>1, Zenon DEF NookSet
<1>5. PICK stack : stack = [nook_stack EXCEPT ![n] = new]
  OBVIOUS
<1>6. /\ stack \in Seq(NookSet) /\ DOMAIN stack = 1 .. n
      /\ stack[n] = new /\ \A i \in 1 .. n : i # n => stack[i] = nook_stack[i]
  BY <1>1, <1>4, <1>5
<1>7. /\ t_pc = "iterate" /\ StartFinish(stack)
      /\ new.choice < Len(and_order(nook.or))
      /\ UNCHANGED <<order, parse_count, or_node_in_use>>
  <2>1. Top = nook
    BY <1>1, <1>2 DEF Top
  <2>2. new = [Top EXCEPT !.choice = @ + 1, !.cause_expanded = FALSE,
                          !.predecessor_expanded = FALSE]
    BY <1>3, <2>1
  <2>3. StartFinish([nook_stack EXCEPT ![n] = new])
    BY <1>1, <2>2, Zenon DEF NextChoice
  <2> QED
    BY <1>4, <1>5, <2>1, <2>3 DEF NextChoice, and_order_ix_is_valid
<1>8. nook_stack' = stack
  BY <1>7 DEF StartFinish
<1>9. StackInv'
  <2>1. /\ nook_stack' \in Seq(NookSet) /\ DOMAIN nook_stack' = DOMAIN nook_stack
    BY <1>1, <1>6, <1>8
  <2>2. ASSUME NEW i \in DOMAIN nook_stack
        PROVE  /\ nook_stack'[i].or = nook_stack[i].or
               /\ nook_stack'[i].choice < Len(and_order(nook_stack[i].or))
    BY <1>1, <1>2, <1>4, <1>6, <1>7, <1>8 DEF TreeInv, StackInv
  <2> QED
    BY <1>7, <2>1, <2>2, SameNooks DEF TreeInv
<1> QED
  BY <1>6, <1>7, <1>9, FinishStarts DEF TreeInv

LEMMA PopNookKeeps ==
    ASSUME BocageInv, TreeInv, PopNook, UNCHANGED bocage
    PROVE  TreeInv'
<1>1. PICK n \in Nat : n = Len(nook_stack) /\ DOMAIN nook_stack = 1 .. n /\ n \in 1 .. n
                       /\ nook_stack \in Seq(NookSet)
  <2>1. nook_stack \in Seq(NookSet) /\ nook_stack # <<>>
    BY DEF PopNook, TreeInv, StackInv
  <2>2. Len(nook_stack) \in Nat /\ Len(nook_stack) > 0
    BY <2>1, EmptySeq
  <2> QED
    BY <2>1, <2>2
<1>2. PICK nook \in NookSet : nook = nook_stack[n] /\ Top = nook
  BY <1>1 DEF Top
<1>3. PICK rest : rest = WithoutTop(nook_stack)
  OBVIOUS
<1>4. /\ rest \in Seq(NookSet) /\ DOMAIN rest = 1 .. n - 1
      /\ \A i \in 1 .. n - 1 : i \in 1 .. n /\ rest[i] = nook_stack[i]
  BY <1>1, <1>3 DEF WithoutTop
<1>5. /\ t_pc = "iterate" /\ t_pc' = "iterate"
      /\ or_node_in_use' = or_node_in_use \ {nook.or}
      /\ UNCHANGED <<order, parse_count>>
      /\ nook_stack' = [i \in 1 .. n - 1 |->
                          IF i # nook.parent THEN rest[i]
                          ELSE [rest[i] EXCEPT
                                  !.cause_expanded = @ /\ ~ nook.is_cause,
                                  !.predecessor_expanded = @ /\ ~ nook.is_predecessor]]
  BY <1>2, <1>3, <1>4 DEF PopNook, Release
<1>6. ASSUME NEW i \in 1 .. n - 1
      PROVE  /\ nook_stack'[i] \in NookSet /\ nook_stack'[i].or = nook_stack[i].or
             /\ nook_stack'[i].choice = nook_stack[i].choice
  <2>1. PICK old \in NookSet : old = nook_stack[i] /\ old = rest[i]
    BY <1>1, <1>4
  <2>2. \/ nook_stack'[i] = old
        \/ nook_stack'[i] = [old EXCEPT
                               !.cause_expanded = @ /\ ~ nook.is_cause,
                               !.predecessor_expanded = @ /\ ~ nook.is_predecessor]
    BY <1>5, <2>1
  <2>3. PICK c \in BOOLEAN : c = (old.cause_expanded /\ ~ nook.is_cause)
    OBVIOUS
  <2>4. PICK p \in BOOLEAN : p = (old.predecessor_expanded /\ ~ nook.is_predecessor)
    OBVIOUS
  <2>5. PICK kept : kept = [old EXCEPT !.cause_expanded = c, !.predecessor_expanded = p]
    OBVIOUS
  <2>6. kept \in NookSet /\ kept.or = old.or /\ kept.choice = old.choice
    BY <2>3, <2>4, <2>5, Zenon DEF NookSet
  <2>7. nook_stack'[i] = old \/ nook_stack'[i] = kept
    BY <2>2, <2>3, <2>4, <2>5, Zenon
  <2> QED
    BY <2>1, <2>6, <2>7
<1>7. nook_stack' \in Seq(NookSet) /\ Len(nook_stack') = n - 1
  <2>1. nook_stack' = [i \in 1 .. n - 1 |-> nook_stack'[i]]
    BY <1>5, Zenon
  <2>2. n - 1 \in Nat
    BY <1>1
  <2> QED
    BY <1>6, <2>1, <2>2
<1>8. StackInv'
  <2>1. StackInv /\ nook_stack # <<>>
    BY DEF TreeInv, PopNook
  <2> QED
    BY <1>1, <1>2, <1>5, <1>6, <1>7, <2>1, PoppedNook
<1>9. OrderInv' /\ HasBocage' /\ UNCHANGED b_pc
  BY <1>5, OrderStays DEF TreeInv
<1> QED
  BY <1>5, <1>8, <1>9 DEF TreeInv

LEMMA IterationEndsKeeps ==
    ASSUME TreeInv, IterationEnds, UNCHANGED bocage
    PROVE  TreeInv'
  BY ExhaustKeeps DEF IterationEnds

\* The nook that is looked at has an and-node, whose or-nodes are in the bocage.
LEMMA WorkIsNook ==
    ASSUME BocageInv, TreeInv, t_pc = "finish", nook_worklist # <<>>
    PROVE  /\ Work \in DOMAIN nook_stack /\ WorkNook \in NookSet
           /\ Len(nook_worklist) \in Nat /\ Len(nook_worklist) > 0
           /\ NeedsCause => WorkAND.cause \in or_nodes
           /\ NeedsPredecessor => WorkAND.predecessor \in or_nodes
<1>1. nook_worklist \in Seq(Nat) /\ Len(nook_worklist) \in Nat /\ Len(nook_worklist) > 0
  <2>1. nook_worklist \in Seq(Nat)
    BY DEF TreeInv
  <2> QED
    BY <2>1, EmptySeq
<1>2. Work \in DOMAIN nook_stack
  <2>1. Len(nook_worklist) \in DOMAIN nook_worklist
    BY <1>1
  <2> QED
    BY <2>1 DEF TreeInv, Work
<1>3. WorkNook \in NookSet /\ WorkNook.choice < Len(and_order(WorkNook.or))
  BY <1>2 DEF TreeInv, StackInv, WorkNook
<1>4. PICK o \in or_nodes, choice \in Nat : o = WorkNook.or /\ choice = WorkNook.choice
  BY <1>3 DEF NookSet
<1>5. /\ ~ OR_is_Token(WorkAND.cause) => WorkAND.cause \in or_nodes
      /\ WorkAND.predecessor # NoOR => WorkAND.predecessor \in or_nodes
  <2>1. PICK a : a = WorkAND
    OBVIOUS
  <2>2. a = and_order_get(o, choice) /\ choice < Len(and_order(o))
    BY <1>3, <1>4, <2>1 DEF WorkAND
  <2>3. b_pc = "built" /\ OrderInv
    BY DEF TreeInv
  <2> QED
    BY <2>1, <2>2, <2>3, ChoiceFits
<1> QED
  BY <1>1, <1>2, <1>3, <1>5 DEF NeedsCause, NeedsPredecessor

LEMMA FinishChildKeeps ==
    ASSUME BocageInv, TreeInv, t_pc = "finish", nook_worklist # <<>>, UNCHANGED bocage,
           NEW child \in or_nodes, NEW is_cause \in BOOLEAN, FinishChild(child, is_cause)
    PROVE  TreeInv'
<1>1. PICK n \in Nat : n = Len(nook_stack) /\ DOMAIN nook_stack = 1 .. n
                       /\ nook_stack \in Seq(NookSet)
  BY DEF TreeInv, StackInv
<1>2. PICK w \in 1 .. n : w = Work
  BY <1>1, WorkIsNook
<1>3. PICK nook \in NookSet : nook = nook_stack[w] /\ WorkNook = nook
  BY <1>1, <1>2 DEF WorkNook
<1>4. b_pc = "built" /\ StackInv /\ OrderInv /\ HasBocage /\ Len(and_order(child)) > 0
  BY OnOffer DEF TreeInv
<1> DEFINE added == Claimable(child) /\ and_order_ix_is_valid(child, 0)
<1>5. added <=> Claimable(child)
  BY <1>4 DEF and_order_ix_is_valid
<1>6. PICK c \in BOOLEAN : c = (~ is_cause \/ added)
  OBVIOUS
<1>7. PICK p \in BOOLEAN : p = (nook.predecessor_expanded \/ (added /\ ~ is_cause))
  OBVIOUS
<1>8. PICK work : work = [nook EXCEPT !.cause_expanded = c, !.predecessor_expanded = p]
  OBVIOUS
<1>9. work \in NookSet /\ work.or = nook.or /\ work.choice = nook.choice
  BY <1>6, <1>7, <1>8, Zenon DEF NookSet
<1>10. PICK stack : stack = [nook_stack EXCEPT ![w] = work]
  OBVIOUS
<1>11. /\ stack \in Seq(NookSet) /\ DOMAIN stack = 1 .. n /\ Len(stack) = n
       /\ \A i \in 1 .. n : stack[i].or = nook_stack[i].or
                            /\ stack[i].choice = nook_stack[i].choice
  BY <1>1, <1>3, <1>9, <1>10
<1>12. OrderInv' /\ HasBocage' /\ UNCHANGED <<b_pc, order, parse_count>>
  <2>1. UNCHANGED <<order, parse_count>>
    BY DEF FinishChild
  <2> QED
    BY <1>4, <2>1, OrderStays
<1>13. [WorkNook EXCEPT !.cause_expanded = ~ is_cause \/ added,
                        !.predecessor_expanded = @ \/ (added /\ ~ is_cause)] = work
  BY <1>3, <1>6, <1>7, <1>8, Zenon
<1>14. /\ nook_stack' = stack \o
             (IF added THEN <<NewNook(child, w, is_cause, ~ is_cause)>> ELSE <<>>)
       /\ nook_worklist' = IF added THEN Append(nook_worklist, Len(nook_stack) + 1)
                           ELSE nook_worklist
       /\ or_node_in_use' = Claim(child)
       /\ t_pc' = IF added THEN "finish" ELSE "iterate"
  BY <1>2, <1>10, <1>13, Zenon DEF FinishChild
<1>15. CASE added
  <2>1. PICK new : new = NewNook(child, w, is_cause, ~ is_cause)
    OBVIOUS
  <2>2. new \in NookSet /\ new.or = child /\ new.choice = 0
    BY <1>2, <2>1 DEF NewNook, NookSet
  <2>3. nook_stack' = stack \o <<new>> /\ t_pc' = "finish"
        /\ nook_worklist' = Append(nook_worklist, n + 1)
    BY <1>1, <1>14, <1>15, <2>1
  <2>4. /\ nook_stack' \in Seq(NookSet) /\ Len(nook_stack') = n + 1
        /\ nook_stack'[n + 1] = new
        /\ \A i \in 1 .. n : nook_stack'[i] = stack[i]
    BY <1>11, <2>2, <2>3
  <2>5. StackInv'
    <3>1. /\ \A i \in 1 .. n : /\ nook_stack'[i].or = nook_stack[i].or
                              /\ nook_stack'[i].choice = nook_stack[i].choice
          /\ nook_stack'[n + 1].or = child /\ nook_stack'[n + 1].choice = 0
      BY <1>11, <2>2, <2>4
    <3>2. Claimable(child) /\ or_node_in_use' = Claim(child) /\ UNCHANGED <<bocage, order>>
      BY <1>12, <1>14, <1>15
    <3> HIDE DEF added
    <3> QED
      BY <1>1, <1>4, <2>4, <3>1, <3>2, PushedNook
  <2>6. /\ nook_worklist' \in Seq(Nat)
        /\ \A i \in DOMAIN nook_worklist' : nook_worklist'[i] \in DOMAIN nook_stack'
    <3>1. PICK m \in Nat : m = Len(nook_worklist) /\ DOMAIN nook_worklist = 1 .. m
                           /\ nook_worklist \in Seq(Nat)
      BY DEF TreeInv
    <3>2. DOMAIN nook_stack' = 1 .. n + 1
      BY <1>1, <2>4
    <3>3. \A i \in 1 .. m : nook_worklist[i] \in 1 .. n
      BY <1>1, <3>1 DEF TreeInv
    <3>4. /\ DOMAIN nook_worklist' = 1 .. m + 1
          /\ \A i \in 1 .. m : nook_worklist'[i] = nook_worklist[i]
          /\ nook_worklist'[m + 1] = n + 1 /\ nook_worklist' \in Seq(Nat)
      BY <1>1, <2>3, <3>1
    <3>5. ASSUME NEW i \in 1 .. m + 1
          PROVE  nook_worklist'[i] \in 1 .. n + 1
      <4>1. CASE i = m + 1
        BY <3>4, <4>1
      <4>2. CASE i \in 1 .. m
        BY <3>3, <3>4, <4>2
      <4> QED
        BY <3>1, <4>1, <4>2
    <3> QED
      BY <3>2, <3>4, <3>5
  <2> QED
    BY <1>4, <1>12, <2>3, <2>5, <2>6 DEF TreeInv
<1>16. CASE ~ added
  <2>1. nook_stack' = stack /\ t_pc' = "iterate" /\ or_node_in_use' = or_node_in_use
    BY <1>5, <1>11, <1>14, <1>16 DEF Claim, Claimable
  <2>2. StackInv'
    <3>1. \A i \in DOMAIN nook_stack :
             /\ nook_stack'[i].or = nook_stack[i].or
             /\ nook_stack'[i].choice < Len(and_order(nook_stack[i].or))
      BY <1>1, <1>4, <1>11, <2>1 DEF StackInv
    <3> QED
      BY <1>1, <1>4, <1>11, <1>12, <2>1, <3>1, SameNooks
  <2> QED
    BY <1>4, <1>12, <2>1, <2>2 DEF TreeInv
<1> QED
  BY <1>15, <1>16

LEMMA FinishNookKeeps ==
    ASSUME BocageInv, TreeInv, FinishNook, UNCHANGED bocage
    PROVE  TreeInv'
<1>1. t_pc = "finish" /\ nook_worklist # <<>>
  BY DEF FinishNook
<1>2. CASE NeedsCause /\ FinishChild(WorkAND.cause, TRUE)
  <2>1. PICK child \in or_nodes : child = WorkAND.cause
    BY <1>1, <1>2, WorkIsNook
  <2>2. FinishChild(child, TRUE)
    BY <1>2, <2>1
  <2> QED
    BY <1>1, <2>2, FinishChildKeeps
<1>3. CASE NeedsPredecessor /\ FinishChild(WorkAND.predecessor, FALSE)
  <2>1. PICK child \in or_nodes : child = WorkAND.predecessor
    BY <1>1, <1>3, WorkIsNook
  <2>2. FinishChild(child, FALSE)
    BY <1>3, <2>1
  <2> QED
    BY <1>1, <2>2, FinishChildKeeps
<1> QED
  BY <1>2, <1>3 DEF FinishNook

LEMMA NookIsFinishedKeeps ==
    ASSUME BocageInv, TreeInv, NookIsFinished, UNCHANGED bocage
    PROVE  TreeInv'
<1>1. PICK n \in Nat : n = Len(nook_stack) /\ DOMAIN nook_stack = 1 .. n
                       /\ nook_stack \in Seq(NookSet)
  BY DEF TreeInv, StackInv
<1>2. t_pc = "finish" /\ nook_worklist # <<>> /\ b_pc = "built"
  BY DEF NookIsFinished, TreeInv
<1>3. PICK w \in 1 .. n : w = Work
  BY <1>1, <1>2, WorkIsNook
<1>4. PICK nook \in NookSet : nook = nook_stack[w]
  BY <1>1, <1>3
<1>5. PICK done : done = [nook EXCEPT !.cause_expanded = TRUE, !.predecessor_expanded = TRUE]
  OBVIOUS
<1>6. done \in NookSet /\ done.or = nook.or /\ done.choice = nook.choice
  BY <1>5 DEF NookSet
<1>7. /\ nook_stack' = [nook_stack EXCEPT ![w] = done]
      /\ nook_worklist' = WithoutTop(nook_worklist) /\ t_pc' = "finish"
      /\ UNCHANGED <<order, parse_count, or_node_in_use>>
  BY <1>2, <1>3, <1>4, <1>5, Zenon DEF NookIsFinished
<1>8. /\ nook_stack' \in Seq(NookSet) /\ DOMAIN nook_stack' = 1 .. n
      /\ \A i \in 1 .. n : nook_stack'[i].or = nook_stack[i].or
                           /\ nook_stack'[i].choice = nook_stack[i].choice
  BY <1>1, <1>4, <1>6, <1>7
<1>9. StackInv'
  <2>1. \A i \in DOMAIN nook_stack :
           /\ nook_stack'[i].or = nook_stack[i].or
           /\ nook_stack'[i].choice < Len(and_order(nook_stack[i].or))
    BY <1>1, <1>8 DEF TreeInv, StackInv
  <2> QED
    BY <1>1, <1>7, <1>8, <2>1, SameNooks DEF TreeInv
<1>10. nook_worklist' \in Seq(Nat)
       /\ \A i \in DOMAIN nook_worklist' : nook_worklist'[i] \in DOMAIN nook_stack'
  <2>1. PICK m \in Nat : m = Len(nook_worklist) /\ m > 0 /\ nook_worklist \in Seq(Nat)
                         /\ \A i \in 1 .. m : nook_worklist[i] \in 1 .. n
    BY <1>1, <1>2, WorkIsNook DEF TreeInv
  <2>2. /\ nook_worklist' \in Seq(Nat) /\ DOMAIN nook_worklist' = 1 .. m - 1
        /\ \A i \in 1 .. m - 1 : i \in 1 .. m /\ nook_worklist'[i] = nook_worklist[i]
    BY <1>7, <2>1 DEF WithoutTop
  <2> QED
    BY <1>8, <2>1, <2>2
<1>11. OrderInv' /\ HasBocage' /\ UNCHANGED b_pc
  BY <1>2, <1>7, OrderStays DEF TreeInv
<1> QED
  BY <1>2, <1>7, <1>9, <1>10, <1>11 DEF TreeInv

LEMMA TreeStepsKeep ==
    ASSUME BocageInv, TreeInv, TreeSteps, UNCHANGED bocage
    PROVE  TreeInv'
<1>1. CASE TreeIsFinished
  <2>1. /\ t_pc = "finish" /\ t_pc' = "ready" /\ parse_count' = parse_count + 1
        /\ UNCHANGED <<order, nook_stack, nook_worklist, or_node_in_use>>
    BY <1>1 DEF TreeIsFinished, iterator
  <2>2. OrderInv' /\ HasBocage' /\ UNCHANGED b_pc
    BY <2>1, OrderStays DEF TreeInv
  <2>3. StackInv'
    <3>1. UNCHANGED <<or_nodes, dands, and_node_orderings>>
      BY <2>1 DEF bocage, order
    <3>2. NookSet' = NookSet /\ \A o : and_order(o)' = and_order(o)
      BY <3>1 DEF NookSet, and_order
    <3> QED
      BY <2>1, <3>1, <3>2 DEF TreeInv, StackInv, Length_of_OR
  <2>4. parse_count' \in Nat /\ ~ (parse_count' < 1)
    BY <2>1 DEF TreeInv
  <2> QED
    BY <2>1, <2>2, <2>3, <2>4 DEF TreeInv
<1> QED
  BY <1>1, NextChoiceKeeps, PopNookKeeps, IterationEndsKeeps, FinishNookKeeps,
     NookIsFinishedKeeps DEF TreeSteps

-----------------------------------------------------------------------------
(* The tree *)

\* The calls on the recognizer, the pauses and the stutter leave order and tree
\* alone.
LEMMA TreeUntouched ==
    ASSUME TreeInv, UNCHANGED <<bocage, order, t_pc, parse_count, iterator>>
    PROVE  TreeInv'
<1>1. UNCHANGED <<b_pc, or_nodes, dands, and_node_orderings, o_is_frozen, t_pc, parse_count,
                  nook_stack, nook_worklist, or_node_in_use>>
  BY DEF bocage, order, iterator
<1>2. NookSet' = NookSet /\ \A o : and_order(o)' = and_order(o)
  BY <1>1 DEF NookSet, and_order
<1>3. StackInv'
  BY <1>1, <1>2 DEF TreeInv, StackInv, Length_of_OR
<1>4. OrderInv'
  BY <1>1 DEF TreeInv, OrderInv, HasBocage
<1> QED
  BY <1>1, <1>3, <1>4 DEF TreeInv, HasBocage

\* There is neither order nor tree while a bocage is being made.
LEMMA BocageMovesKeep ==
    ASSUME TreeInv, BocageCalls \/ BocageSteps, UNCHANGED <<order, tree>>
    PROVE  TreeInv'
<1>1. ~ HasBocage
  BY DEF BocageCalls, BocageNoParse, BocageNulling, BocageBegins, BocageSteps, CreateOrNodes,
         CreateLeoPathOrNodes, OrNodesEnd, BeginDrafts, CreateLeoDrafts, CreateTokenDraft,
         CreateCompletionDraft, NextLink, DraftsEnd, HasBocage
<1>2. UNCHANGED <<and_node_orderings, t_pc, parse_count, nook_stack, nook_worklist,
                  or_node_in_use>>
  BY DEF order, tree, iterator
<1>3. /\ t_pc = "none" /\ nook_stack = <<>> /\ or_node_in_use = {} /\ parse_count = 0
      /\ DOMAIN and_node_orderings = {}
  BY <1>1 DEF TreeInv, OrderInv
<1>4. StackInv'
  BY <1>2, <1>3, EmptyStack
<1>5. OrderInv'
  BY <1>2, <1>3 DEF OrderInv
<1> QED
  BY <1>2, <1>3, <1>4, <1>5 DEF TreeInv

LEMMA TreeBegins == ForestInit => TreeInv
<1> SUFFICES ASSUME ForestInit PROVE TreeInv
  OBVIOUS
<1>1. /\ t_pc = "none" /\ parse_count = 0 /\ nook_stack = <<>> /\ or_node_in_use = {}
      /\ DOMAIN and_node_orderings = {}
  BY DEF ForestInit, TreeInit
<1>2. StackInv
  <2>1. /\ <<>> \in Seq(NookSet) /\ DOMAIN nook_stack = {}
    BY <1>1
  <2> QED
    BY <1>1, <2>1 DEF StackInv
<1>3. OrderInv
  BY <1>1 DEF OrderInv
<1> QED
  BY <1>1, <1>2, <1>3 DEF TreeInv

LEMMA TreeAlways ==
    ASSUME LeoRulesEndProper
    PROVE  PausedSpec => []TreeInv
<1>1. RecceInv /\ BocageInv /\ TreeInv /\ [PausedNext]_forest => TreeInv'
  <2> SUFFICES ASSUME RecceInv, BocageInv, TreeInv, [PausedNext]_forest PROVE TreeInv'
    OBVIOUS
  <2>1. CASE UNCHANGED <<bocage, order, t_pc, parse_count, iterator>>
    BY <2>1, TreeUntouched
  <2>2. CASE (BocageCalls \/ BocageSteps) /\ UNCHANGED <<order, tree>>
    BY <2>2, BocageMovesKeep
  <2>3. CASE (OrderCalls \/ TreeCalls \/ TreeSteps) /\ UNCHANGED bocage
    BY <2>3, OrderCallsKeep, TreeCallsKeep, TreeStepsKeep
  <2> QED
    BY <2>1, <2>2, <2>3 DEF PausedNext, TreePauses, ForestNext, RecceCalls, forest, tree
<1> QED
  BY <1>1, TreeBegins, ForestIsRecce, RecceInvAlways, BocageAlways, PTL DEF PausedSpec

LEMMA StackIsExact == TreeInv => InUseExact
<1> SUFFICES ASSUME TreeInv, NEW o \in or_nodes, Length_of_OR(o) # 0
             PROVE  Cardinality(Nooks(o)) = (IF o \in or_node_in_use THEN 1 ELSE 0)
  BY DEF InUseExact
<1>1. o \in or_node_in_use <=> \E i \in DOMAIN nook_stack : nook_stack[i].or = o
  BY DEF TreeInv, StackInv
<1>2. CASE o \in or_node_in_use
  <2>1. PICK i \in DOMAIN nook_stack : nook_stack[i].or = o
    BY <1>1, <1>2
  <2>2. Nooks(o) = {i}
    BY <2>1 DEF Nooks, TreeInv, StackInv
  <2> QED
    BY <1>2, <2>2, FS_Singleton
<1>3. CASE o \notin or_node_in_use
  <2>1. Nooks(o) = {}
    BY <1>1, <1>3 DEF Nooks
  <2> QED
    BY <1>3, <2>1, FS_EmptySet
<1> QED
  BY <1>2, <1>3

\* An or-node of some length is claimed while one nook of the stack has it, and
\* never more than one: not when marpa_t_next pops and pushes nooks, not when
\* it gives a tree up because of a cycle, and not when it ends.
THEOREM ClaimsAreExact ==
    ASSUME LeoRulesEndProper
    PROVE  ForestSpec => []InUseExact
  BY ForestIsPaused, TreeAlways, StackIsExact, PTL

-----------------------------------------------------------------------------
(* The shape of the stack.  The nooks are in preorder: a nook is followed by
   those of its cause and then by those of its predecessor. *)

AndOf(s, i) == and_order_get(s[i].or, s[i].choice)
NookIsExpanded(s, i) == s[i].cause_expanded /\ s[i].predecessor_expanded

\* The first nook is that of the top or-node; every other one has the or-node
\* that the choice of its parent leads to, and its parent has it marked.
NooksLinked(s) ==
    \A i \in DOMAIN s :
       /\ i = 1 => s[i].parent = 0 /\ ~ s[i].is_cause /\ ~ s[i].is_predecessor
                   /\ s[i].or = NodeAt(StartDone, 1, b_end)
       /\ i # 1 =>
             /\ s[i].parent \in 1 .. i - 1 /\ s[i].is_predecessor = ~ s[i].is_cause
             /\ s[i].is_cause =>
                   /\ ~ OR_is_Token(AndOf(s, s[i].parent).cause)
                   /\ s[i].or = AndOf(s, s[i].parent).cause /\ s[s[i].parent].cause_expanded
             /\ ~ s[i].is_cause =>
                   /\ AndOf(s, s[i].parent).predecessor # NoOR
                   /\ s[i].or = AndOf(s, s[i].parent).predecessor
                   /\ s[s[i].parent].predecessor_expanded

OneOfEach(s) ==
    \A i, j \in DOMAIN s : s[i].parent = s[j].parent /\ s[i].is_cause = s[j].is_cause => i = j

\* A mark is right: the child is on the stack.
ChildrenThere(s) ==
    \A w \in DOMAIN s :
       /\ s[w].cause_expanded /\ ~ OR_is_Token(AndOf(s, w).cause)
             => \E j \in DOMAIN s : s[j].parent = w /\ s[j].is_cause
       /\ s[w].predecessor_expanded /\ AndOf(s, w).predecessor # NoOR
             => \E j \in DOMAIN s : s[j].parent = w /\ ~ s[j].is_cause

\* Only descendants come after a nook that is not finished.
Preorder(s) ==
    /\ \A j, k \in DOMAIN s : s[j].parent < k /\ k < j => s[k].parent >= s[j].parent
    /\ \A w, k \in DOMAIN s : w < k /\ ~ NookIsExpanded(s, w) => s[k].parent >= w

CauseFirst(s) ==
    \A j \in DOMAIN s :
       /\ s[j].is_cause => s[j].parent = j - 1
       /\ j # 1 /\ ~ s[j].is_cause =>
             \/ OR_is_Token(AndOf(s, s[j].parent).cause)
             \/ s[j].parent + 1 < j /\ s[s[j].parent + 1].is_cause /\ s[s[j].parent + 1].parent = s[j].parent

Shape(s) == NooksLinked(s) /\ OneOfEach(s) /\ ChildrenThere(s) /\ Preorder(s) /\ CauseFirst(s)

\* What is not on the worklist is finished; a tree that is returned is.
ShapeInv ==
    /\ Shape(nook_stack)
    /\ t_pc = "finish" =>
          /\ nook_stack # <<>>
          /\ \A i, j \in DOMAIN nook_worklist : i < j => nook_worklist[i] < nook_worklist[j]
          /\ \A i \in DOMAIN nook_stack :
                \/ NookIsExpanded(nook_stack, i)
                \/ \E k \in DOMAIN nook_worklist : nook_worklist[k] = i
    /\ t_pc = "ready" /\ parse_count >= 1 /\ ~ t_is_exhausted /\ b_pc = "built" =>
          nook_stack # <<>> /\ \A i \in DOMAIN nook_stack : NookIsExpanded(nook_stack, i)

\* Every nook but the first has a parent below it.
LEMMA ParentsBelow ==
    ASSUME NEW s, NEW n \in Nat, DOMAIN s = 1 .. n, NooksLinked(s)
    PROVE  /\ \A i \in 1 .. n : s[i].parent \in 0 .. i - 1
           /\ \A i \in 1 .. n : i # 1 => s[i].parent \in 1 .. n /\ s[i].parent < i
<1> SUFFICES ASSUME NEW i \in 1 .. n
             PROVE  /\ s[i].parent \in 0 .. i - 1
                    /\ i # 1 => s[i].parent \in 1 .. n /\ s[i].parent < i
  OBVIOUS
<1>1. CASE i = 1
  BY <1>1 DEF NooksLinked
<1>2. CASE i # 1
  <2>1. s[i].parent \in 1 .. i - 1
    BY <1>2 DEF NooksLinked
  <2> QED
    BY <1>2, <2>1
<1> QED
  BY <1>1, <1>2

\* The top nook takes another choice: it has no children.
LEMMA ShapeOfReset ==
    ASSUME NEW s, NEW n \in Nat, n > 0, DOMAIN s = 1 .. n, Shape(s),
           NEW t, DOMAIN t = 1 .. n, \A i \in 1 .. n - 1 : t[i] = s[i],
           t[n].or = s[n].or, t[n].parent = s[n].parent, t[n].is_cause = s[n].is_cause,
           t[n].is_predecessor = s[n].is_predecessor,
           ~ t[n].cause_expanded, ~ t[n].predecessor_expanded
    PROVE  Shape(t)
<1>1. /\ \A i \in 1 .. n : s[i].parent \in 0 .. i - 1
      /\ \A i \in 1 .. n : i # 1 => s[i].parent \in 1 .. n /\ s[i].parent < i
  BY ParentsBelow DEF Shape
<1>2. \A i \in 1 .. n : /\ t[i].or = s[i].or /\ t[i].parent = s[i].parent
                        /\ t[i].is_cause = s[i].is_cause
                        /\ t[i].is_predecessor = s[i].is_predecessor
  OBVIOUS
<1>3. \A i \in 1 .. n - 1 : t[i] = s[i] /\ AndOf(t, i) = AndOf(s, i)
  BY DEF AndOf
<1>4. \A i \in 1 .. n : i # 1 => s[i].parent \in 1 .. n - 1
  BY <1>1
<1>5. NooksLinked(t)
  <2> SUFFICES ASSUME NEW i \in 1 .. n, i # 1
               PROVE  /\ t[i].parent \in 1 .. i - 1 /\ t[i].is_predecessor = ~ t[i].is_cause
                      /\ t[i].is_cause =>
                            /\ ~ OR_is_Token(AndOf(t, t[i].parent).cause)
                            /\ t[i].or = AndOf(t, t[i].parent).cause
                            /\ t[t[i].parent].cause_expanded
                      /\ ~ t[i].is_cause =>
                            /\ AndOf(t, t[i].parent).predecessor # NoOR
                            /\ t[i].or = AndOf(t, t[i].parent).predecessor
                            /\ t[t[i].parent].predecessor_expanded
    BY <1>2 DEF Shape, NooksLinked
  <2>1. PICK p \in 1 .. n - 1 : p = s[i].parent
    BY <1>4
  <2> QED
    BY <1>2, <1>3, <2>1 DEF Shape, NooksLinked
<1>6. OneOfEach(t)
  BY <1>2 DEF Shape, OneOfEach
<1>7. ChildrenThere(t)
  <2>1. \A w \in 1 .. n : w # n => w \in 1 .. n - 1
    OBVIOUS
  <2> QED
    BY <1>2, <1>3, <2>1 DEF Shape, ChildrenThere
<1>8. Preorder(t)
  <2>1. \A w \in 1 .. n - 1 : NookIsExpanded(t, w) = NookIsExpanded(s, w)
    BY DEF NookIsExpanded
  <2>2. \A w, k \in 1 .. n : w < k => w \in 1 .. n - 1
    OBVIOUS
  <2> QED
    BY <1>2, <2>1, <2>2 DEF Shape, Preorder
<1>9. CauseFirst(t)
  <2> SUFFICES ASSUME NEW j \in 1 .. n
               PROVE  /\ t[j].is_cause => t[j].parent = j - 1
                      /\ j # 1 /\ ~ t[j].is_cause =>
                            \/ OR_is_Token(AndOf(t, t[j].parent).cause)
                            \/ /\ t[j].parent + 1 < j /\ t[t[j].parent + 1].is_cause
                               /\ t[t[j].parent + 1].parent = t[j].parent
    BY DEF CauseFirst
  <2>1. CASE t[j].is_cause \/ j = 1
    BY <1>2, <2>1 DEF Shape, CauseFirst
  <2>2. CASE ~ t[j].is_cause /\ j # 1
    <3>1. PICK p \in 1 .. n - 1 : p = s[j].parent
      BY <1>4, <2>2
    <3> QED
      BY <1>2, <1>3, <2>2, <3>1 DEF Shape, CauseFirst
  <2> QED
    BY <2>1, <2>2
<1> QED
  BY <1>5, <1>6, <1>7, <1>8, <1>9 DEF Shape

\* The top nook is popped, and the mark of its parent for it taken back.
LEMMA ShapeOfPop ==
    ASSUME NEW s, NEW n \in Nat, n > 0, DOMAIN s = 1 .. n, Shape(s),
           \A i \in 1 .. n : s[i].is_cause \in BOOLEAN,
           NEW t, DOMAIN t = 1 .. n - 1,
           \A i \in 1 .. n - 1 :
              /\ t[i].or = s[i].or /\ t[i].choice = s[i].choice /\ t[i].parent = s[i].parent
              /\ t[i].is_cause = s[i].is_cause /\ t[i].is_predecessor = s[i].is_predecessor
              /\ t[i].cause_expanded <=>
                    s[i].cause_expanded /\ ~ (i = s[n].parent /\ s[n].is_cause)
              /\ t[i].predecessor_expanded <=>
                    s[i].predecessor_expanded /\ ~ (i = s[n].parent /\ s[n].is_predecessor)
    PROVE  Shape(t)
<1>1. /\ \A i \in 1 .. n : s[i].parent \in 0 .. i - 1
      /\ \A i \in 1 .. n : i # 1 => s[i].parent \in 1 .. n /\ s[i].parent < i
  BY ParentsBelow DEF Shape
<1>2. \A i \in 1 .. n - 1 : i \in 1 .. n /\ i # n /\ AndOf(t, i) = AndOf(s, i)
  BY DEF AndOf
<1>3. n # 1 => s[n].is_predecessor = ~ s[n].is_cause
  BY DEF Shape, NooksLinked
<1>4. NooksLinked(t)
  <2> SUFFICES ASSUME NEW i \in 1 .. n - 1, i # 1
               PROVE  /\ t[i].parent \in 1 .. i - 1 /\ t[i].is_predecessor = ~ t[i].is_cause
                      /\ t[i].is_cause =>
                            /\ ~ OR_is_Token(AndOf(t, t[i].parent).cause)
                            /\ t[i].or = AndOf(t, t[i].parent).cause
                            /\ t[t[i].parent].cause_expanded
                      /\ ~ t[i].is_cause =>
                            /\ AndOf(t, t[i].parent).predecessor # NoOR
                            /\ t[i].or = AndOf(t, t[i].parent).predecessor
                            /\ t[t[i].parent].predecessor_expanded
    BY <1>2 DEF Shape, NooksLinked
  <2>1. PICK p \in 1 .. n - 1 : p = s[i].parent
    BY <1>1
  <2>2. s[n].parent = p => s[n].is_cause # s[i].is_cause
    BY <1>2, <2>1 DEF Shape, OneOfEach
  <2>3. s[i].is_predecessor = ~ s[i].is_cause /\ s[i].parent \in 1 .. i - 1
        /\ (s[i].is_cause =>
              /\ ~ OR_is_Token(AndOf(s, p).cause) /\ s[i].or = AndOf(s, p).cause
              /\ s[p].cause_expanded)
        /\ (~ s[i].is_cause =>
              /\ AndOf(s, p).predecessor # NoOR /\ s[i].or = AndOf(s, p).predecessor
              /\ s[p].predecessor_expanded)
    BY <1>2, <2>1 DEF Shape, NooksLinked
  <2>4. n # 1
    OBVIOUS
  <2>5. \/ s[n].parent # p
        \/ s[n].is_cause <=> ~ s[i].is_cause
    BY <1>2, <2>2
  <2>6. s[i].is_cause => t[p].cause_expanded
    BY <2>1, <2>3, <2>5
  <2>7. ~ s[i].is_cause => t[p].predecessor_expanded
    <3>1. s[n].parent = p /\ ~ s[i].is_cause => ~ s[n].is_predecessor
      BY <1>3, <2>4, <2>5
    <3> QED
      BY <2>1, <2>3, <3>1
  <2> QED
    BY <1>2, <2>1, <2>3, <2>6, <2>7
<1>5. OneOfEach(t)
  BY <1>2 DEF Shape, OneOfEach
<1>6. ChildrenThere(t)
  <2> SUFFICES ASSUME NEW w \in 1 .. n - 1
               PROVE  /\ t[w].cause_expanded /\ ~ OR_is_Token(AndOf(t, w).cause)
                            => \E j \in 1 .. n - 1 : t[j].parent = w /\ t[j].is_cause
                      /\ t[w].predecessor_expanded /\ AndOf(t, w).predecessor # NoOR
                            => \E j \in 1 .. n - 1 : t[j].parent = w /\ ~ t[j].is_cause
    BY DEF ChildrenThere
  <2>1. \A j \in 1 .. n : j # n => j \in 1 .. n - 1
    OBVIOUS
  <2>2. s[n].parent = w => n # 1
    BY <1>2, <1>1
  <2>3. ASSUME t[w].cause_expanded, ~ OR_is_Token(AndOf(t, w).cause)
        PROVE  \E j \in 1 .. n - 1 : t[j].parent = w /\ t[j].is_cause
    <3>1. s[w].cause_expanded /\ ~ (w = s[n].parent /\ s[n].is_cause)
      BY <2>3
    <3>2. PICK j \in 1 .. n : s[j].parent = w /\ s[j].is_cause
      BY <1>2, <2>3, <3>1 DEF Shape, ChildrenThere
    <3> QED
      BY <2>1, <3>1, <3>2
  <2>4. ASSUME t[w].predecessor_expanded, AndOf(t, w).predecessor # NoOR
        PROVE  \E j \in 1 .. n - 1 : t[j].parent = w /\ ~ t[j].is_cause
    <3>1. s[w].predecessor_expanded /\ ~ (w = s[n].parent /\ s[n].is_predecessor)
      BY <2>4
    <3>2. PICK j \in 1 .. n : s[j].parent = w /\ ~ s[j].is_cause
      BY <1>2, <2>4, <3>1 DEF Shape, ChildrenThere
    <3>3. j # n
      BY <1>3, <2>2, <3>1, <3>2
    <3> QED
      BY <2>1, <3>2, <3>3
  <2> QED
    BY <2>3, <2>4
<1>7. Preorder(t)
  <2>1. \A j, k \in 1 .. n - 1 : t[j].parent < k /\ k < j => t[k].parent >= t[j].parent
    BY <1>2 DEF Shape, Preorder
  <2> SUFFICES ASSUME NEW w \in 1 .. n - 1, NEW k \in 1 .. n - 1, w < k, ~ NookIsExpanded(t, w)
               PROVE  t[k].parent >= w
    BY <2>1 DEF Preorder
  <2>2. CASE ~ NookIsExpanded(s, w)
    BY <1>2, <2>2 DEF Shape, Preorder
  <2>3. CASE NookIsExpanded(s, w)
    <3>1. w = s[n].parent
      BY <2>3 DEF NookIsExpanded
    <3>2. s[n].parent < k /\ k < n
      BY <3>1
    <3> QED
      BY <1>2, <3>1, <3>2 DEF Shape, Preorder
  <2> QED
    BY <2>2, <2>3
<1>8. CauseFirst(t)
  <2> SUFFICES ASSUME NEW j \in 1 .. n - 1
               PROVE  /\ t[j].is_cause => t[j].parent = j - 1
                      /\ j # 1 /\ ~ t[j].is_cause =>
                            \/ OR_is_Token(AndOf(t, t[j].parent).cause)
                            \/ /\ t[j].parent + 1 < j /\ t[t[j].parent + 1].is_cause
                               /\ t[t[j].parent + 1].parent = t[j].parent
    BY DEF CauseFirst
  <2>1. CASE t[j].is_cause \/ j = 1
    BY <1>2, <2>1 DEF Shape, CauseFirst
  <2>2. CASE ~ t[j].is_cause /\ j # 1
    <3>1. PICK p \in 1 .. n - 1 : p = s[j].parent
      BY <1>1, <2>2
    <3>2. \/ OR_is_Token(AndOf(s, p).cause)
          \/ p + 1 < j /\ s[p + 1].is_cause /\ s[p + 1].parent = p
      BY <1>2, <2>2, <3>1 DEF Shape, CauseFirst
    <3>3. p + 1 < j => p + 1 \in 1 .. n - 1
      OBVIOUS
    <3> QED
      BY <1>2, <2>2, <3>1, <3>2, <3>3
  <2> QED
    BY <2>1, <2>2
<1> QED
  BY <1>4, <1>5, <1>6, <1>7, <1>8 DEF Shape

\* The marks of a nook change to what they should be.
LEMMA ShapeOfMark ==
    ASSUME NEW s, NEW n \in Nat, DOMAIN s = 1 .. n, Shape(s), NEW w \in 1 .. n,
           NEW t, DOMAIN t = 1 .. n, \A i \in 1 .. n : i # w => t[i] = s[i],
           t[w].or = s[w].or, t[w].choice = s[w].choice, t[w].parent = s[w].parent,
           t[w].is_cause = s[w].is_cause, t[w].is_predecessor = s[w].is_predecessor,
           s[w].cause_expanded => t[w].cause_expanded,
           s[w].predecessor_expanded => t[w].predecessor_expanded,
           t[w].cause_expanded => s[w].cause_expanded \/ OR_is_Token(AndOf(s, w).cause),
           t[w].predecessor_expanded => s[w].predecessor_expanded \/ AndOf(s, w).predecessor = NoOR
    PROVE  Shape(t)
<1>1. \A i \in 1 .. n : i # 1 => s[i].parent \in 1 .. n /\ s[i].parent < i
  BY ParentsBelow DEF Shape
<1>2. \A i \in 1 .. n :
         /\ t[i].or = s[i].or /\ t[i].choice = s[i].choice /\ t[i].parent = s[i].parent
         /\ t[i].is_cause = s[i].is_cause /\ t[i].is_predecessor = s[i].is_predecessor
         /\ s[i].cause_expanded => t[i].cause_expanded
         /\ s[i].predecessor_expanded => t[i].predecessor_expanded
         /\ t[i].cause_expanded => s[i].cause_expanded \/ OR_is_Token(AndOf(s, i).cause)
         /\ t[i].predecessor_expanded =>
               s[i].predecessor_expanded \/ AndOf(s, i).predecessor = NoOR
  OBVIOUS
<1>3. \A i \in 1 .. n : AndOf(t, i) = AndOf(s, i)
  BY <1>2 DEF AndOf
<1>4. NooksLinked(t)
  <2> SUFFICES ASSUME NEW i \in 1 .. n, i # 1
               PROVE  /\ t[i].parent \in 1 .. i - 1 /\ t[i].is_predecessor = ~ t[i].is_cause
                      /\ t[i].is_cause =>
                            /\ ~ OR_is_Token(AndOf(t, t[i].parent).cause)
                            /\ t[i].or = AndOf(t, t[i].parent).cause
                            /\ t[t[i].parent].cause_expanded
                      /\ ~ t[i].is_cause =>
                            /\ AndOf(t, t[i].parent).predecessor # NoOR
                            /\ t[i].or = AndOf(t, t[i].parent).predecessor
                            /\ t[t[i].parent].predecessor_expanded
    BY <1>2 DEF Shape, NooksLinked
  <2>1. PICK p \in 1 .. n : p = s[i].parent
    BY <1>1
  <2>2. s[i].is_predecessor = ~ s[i].is_cause /\ s[i].parent \in 1 .. i - 1
        /\ (s[i].is_cause =>
              /\ ~ OR_is_Token(AndOf(s, p).cause) /\ s[i].or = AndOf(s, p).cause
              /\ s[p].cause_expanded)
        /\ (~ s[i].is_cause =>
              /\ AndOf(s, p).predecessor # NoOR /\ s[i].or = AndOf(s, p).predecessor
              /\ s[p].predecessor_expanded)
    BY <2>1 DEF Shape, NooksLinked
  <2> QED
    BY <1>2, <1>3, <2>1, <2>2
<1>5. OneOfEach(t)
  BY <1>2 DEF Shape, OneOfEach
<1>6. ChildrenThere(t)
  <2> SUFFICES ASSUME NEW u \in 1 .. n
               PROVE  /\ t[u].cause_expanded /\ ~ OR_is_Token(AndOf(t, u).cause)
                            => \E j \in 1 .. n : t[j].parent = u /\ t[j].is_cause
                      /\ t[u].predecessor_expanded /\ AndOf(t, u).predecessor # NoOR
                            => \E j \in 1 .. n : t[j].parent = u /\ ~ t[j].is_cause
    BY DEF ChildrenThere
  <2> QED
    BY <1>2, <1>3 DEF Shape, ChildrenThere
<1>7. Preorder(t)
  <2>1. \A u \in 1 .. n : NookIsExpanded(s, u) => NookIsExpanded(t, u)
    BY <1>2 DEF NookIsExpanded
  <2> QED
    BY <1>2, <2>1 DEF Shape, Preorder
<1>8. CauseFirst(t)
  <2> SUFFICES ASSUME NEW j \in 1 .. n
               PROVE  /\ t[j].is_cause => t[j].parent = j - 1
                      /\ j # 1 /\ ~ t[j].is_cause =>
                            \/ OR_is_Token(AndOf(t, t[j].parent).cause)
                            \/ /\ t[j].parent + 1 < j /\ t[t[j].parent + 1].is_cause
                               /\ t[t[j].parent + 1].parent = t[j].parent
    BY DEF CauseFirst
  <2>1. CASE t[j].is_cause \/ j = 1
    BY <1>2, <2>1 DEF Shape, CauseFirst
  <2>2. CASE ~ t[j].is_cause /\ j # 1
    <3>1. PICK p \in 1 .. n : p = s[j].parent
      BY <1>1, <2>2
    <3>2. \/ OR_is_Token(AndOf(s, p).cause)
          \/ p + 1 < j /\ s[p + 1].is_cause /\ s[p + 1].parent = p
      BY <1>2, <2>2, <3>1 DEF Shape, CauseFirst
    <3>3. p + 1 < j => p + 1 \in 1 .. n
      OBVIOUS
    <3> QED
      BY <1>2, <1>3, <2>2, <3>1, <3>2, <3>3
  <2> QED
    BY <2>1, <2>2
<1> QED
  BY <1>4, <1>5, <1>6, <1>7, <1>8 DEF Shape

\* The w-th nook of s, which has n, needs its cause, or its predecessor.
Needs(s, n, w, c) ==
    /\ \A i \in 1 .. n : i > w => NookIsExpanded(s, i)
    /\ c => ~ s[w].cause_expanded /\ ~ OR_is_Token(AndOf(s, w).cause)
    /\ ~ c => /\ ~ s[w].predecessor_expanded /\ AndOf(s, w).predecessor # NoOR
              /\ s[w].cause_expanded \/ OR_is_Token(AndOf(s, w).cause)

\* It is on top of s in t.
ChildPushed(s, n, w, c, t) ==
    /\ DOMAIN t = 1 .. n + 1
    /\ \A i \in 1 .. n :
          /\ t[i].or = s[i].or /\ t[i].choice = s[i].choice /\ t[i].parent = s[i].parent
          /\ t[i].is_cause = s[i].is_cause /\ t[i].is_predecessor = s[i].is_predecessor
          /\ t[i].cause_expanded <=> s[i].cause_expanded \/ i = w
          /\ t[i].predecessor_expanded <=> s[i].predecessor_expanded \/ (i = w /\ ~ c)
    /\ c => t[n + 1].or = AndOf(s, w).cause
    /\ ~ c => t[n + 1].or = AndOf(s, w).predecessor
    /\ t[n + 1].parent = w /\ t[n + 1].is_cause = c /\ t[n + 1].is_predecessor = ~ c
    /\ ~ t[n + 1].cause_expanded /\ ~ t[n + 1].predecessor_expanded

\* A child is pushed for the last nook that is not finished.
LEMMA ShapeOfPush ==
    ASSUME NEW s, NEW n \in Nat, DOMAIN s = 1 .. n, Shape(s),
           \A i \in 1 .. n : s[i].is_cause \in BOOLEAN, NEW w \in 1 .. n, NEW c \in BOOLEAN,
           Needs(s, n, w, c), NEW t, ChildPushed(s, n, w, c, t)
    PROVE  Shape(t)
<1> USE DEF Needs, ChildPushed
<1>1. \A i \in 1 .. n : /\ i # 1 => s[i].parent \in 1 .. n /\ s[i].parent < i
                        /\ s[i].parent \in 0 .. i - 1
  BY ParentsBelow DEF Shape
<1>2. /\ \A i \in 1 .. n : i \in 1 .. n + 1 /\ i # n + 1 /\ AndOf(t, i) = AndOf(s, i)
      /\ \A i \in 1 .. n + 1 : i = n + 1 \/ i \in 1 .. n
      /\ n + 1 \in 1 .. n + 1 /\ n + 1 # 1 /\ w \in 1 .. (n + 1) - 1
  BY DEF AndOf
<1>3. ~ NookIsExpanded(s, w)
  BY DEF NookIsExpanded
<1>4. \A k \in 1 .. n : w < k => s[k].parent >= w
  BY <1>3 DEF Shape, Preorder
<1>5. ASSUME c PROVE w = n
  <2> SUFFICES ASSUME w # n PROVE FALSE
    OBVIOUS
  <2>1. PICK k \in 1 .. n : k = w + 1 /\ k # 1
    OBVIOUS
  <2>2. s[k].parent = w
    BY <1>1, <1>4, <2>1
  <2>3. CASE s[k].is_cause
    BY <1>5, <2>1, <2>2, <2>3 DEF Shape, NooksLinked
  <2>4. CASE ~ s[k].is_cause
    BY <1>5, <2>1, <2>2, <2>4 DEF Shape, CauseFirst
  <2> QED
    BY <2>3, <2>4
<1>6. \A j \in 1 .. n : s[j].parent = w => s[j].is_cause # c
  <2> SUFFICES ASSUME NEW j \in 1 .. n, s[j].parent = w
               PROVE  s[j].is_cause # c
    OBVIOUS
  <2>1. j # 1
    BY <1>1
  <2>2. (s[j].is_cause => s[w].cause_expanded) /\ (~ s[j].is_cause => s[w].predecessor_expanded)
    BY <2>1 DEF Shape, NooksLinked
  <2> QED
    BY <2>2
<1>7. NooksLinked(t)
  <2> SUFFICES ASSUME NEW i \in 1 .. n + 1, i # 1
               PROVE  /\ t[i].parent \in 1 .. i - 1 /\ t[i].is_predecessor = ~ t[i].is_cause
                      /\ t[i].is_cause =>
                            /\ ~ OR_is_Token(AndOf(t, t[i].parent).cause)
                            /\ t[i].or = AndOf(t, t[i].parent).cause
                            /\ t[t[i].parent].cause_expanded
                      /\ ~ t[i].is_cause =>
                            /\ AndOf(t, t[i].parent).predecessor # NoOR
                            /\ t[i].or = AndOf(t, t[i].parent).predecessor
                            /\ t[t[i].parent].predecessor_expanded
    BY <1>2 DEF Shape, NooksLinked
  <2>1. CASE i = n + 1
    <3>1. AndOf(t, w) = AndOf(s, w) /\ t[w].cause_expanded /\ (~ c => t[w].predecessor_expanded)
      BY <1>2
    <3> QED
      BY <1>2, <2>1, <3>1
  <2>2. CASE i # n + 1
    <3>1. i \in 1 .. n
      BY <1>2, <2>2
    <3>2. PICK p \in 1 .. n : p = s[i].parent
      BY <1>1, <3>1
    <3>3. s[i].is_predecessor = ~ s[i].is_cause /\ s[i].parent \in 1 .. i - 1
          /\ (s[i].is_cause =>
                /\ ~ OR_is_Token(AndOf(s, p).cause) /\ s[i].or = AndOf(s, p).cause
                /\ s[p].cause_expanded)
          /\ (~ s[i].is_cause =>
                /\ AndOf(s, p).predecessor # NoOR /\ s[i].or = AndOf(s, p).predecessor
                /\ s[p].predecessor_expanded)
      BY <3>1, <3>2 DEF Shape, NooksLinked
    <3> QED
      BY <1>2, <3>1, <3>2, <3>3
  <2> QED
    BY <2>1, <2>2
<1>8. OneOfEach(t)
  <2> SUFFICES ASSUME NEW i \in 1 .. n + 1, NEW j \in 1 .. n + 1, t[i].parent = t[j].parent,
                      t[i].is_cause = t[j].is_cause
               PROVE  i = j
    BY DEF OneOfEach
  <2>1. CASE i \in 1 .. n /\ j \in 1 .. n
    BY <2>1 DEF Shape, OneOfEach
  <2>2. CASE i = n + 1 /\ j \in 1 .. n
    BY <1>6, <2>2
  <2>3. CASE j = n + 1 /\ i \in 1 .. n
    BY <1>6, <2>3
  <2> QED
    BY <1>2, <2>1, <2>2, <2>3
<1>9. ChildrenThere(t)
  <2> SUFFICES ASSUME NEW u \in DOMAIN t
               PROVE  /\ t[u].cause_expanded /\ ~ OR_is_Token(AndOf(t, u).cause)
                            => \E j \in DOMAIN t : t[j].parent = u /\ t[j].is_cause
                      /\ t[u].predecessor_expanded /\ AndOf(t, u).predecessor # NoOR
                            => \E j \in DOMAIN t : t[j].parent = u /\ ~ t[j].is_cause
    BY Zenon DEF ChildrenThere
  <2>1. CASE u = n + 1
    BY <2>1
  <2>2. CASE u \in 1 .. n
    <3>1. ASSUME t[u].cause_expanded, ~ OR_is_Token(AndOf(t, u).cause)
          PROVE  \E j \in 1 .. n + 1 : t[j].parent = u /\ t[j].is_cause
      <4>1. CASE u = w /\ c
        BY <1>2, <4>1
      <4>2. CASE ~ (u = w /\ c)
        <5>1. s[u].cause_expanded /\ ~ OR_is_Token(AndOf(s, u).cause)
          BY <1>2, <2>2, <3>1, <4>2
        <5>2. PICK j \in 1 .. n : s[j].parent = u /\ s[j].is_cause
          BY <2>2, <5>1 DEF Shape, ChildrenThere
        <5> QED
          BY <1>2, <5>2
      <4> QED
        BY <4>1, <4>2
    <3>2. ASSUME t[u].predecessor_expanded, AndOf(t, u).predecessor # NoOR
          PROVE  \E j \in 1 .. n + 1 : t[j].parent = u /\ ~ t[j].is_cause
      <4>1. CASE u = w /\ ~ c
        BY <1>2, <4>1
      <4>2. CASE ~ (u = w /\ ~ c)
        <5>1. s[u].predecessor_expanded /\ AndOf(s, u).predecessor # NoOR
          BY <1>2, <2>2, <3>2, <4>2
        <5>2. PICK j \in 1 .. n : s[j].parent = u /\ ~ s[j].is_cause
          BY <2>2, <5>1 DEF Shape, ChildrenThere
        <5> QED
          BY <1>2, <5>2
      <4> QED
        BY <4>1, <4>2
    <3> QED
      BY <3>1, <3>2
  <2> QED
    BY <1>2, <2>1, <2>2
<1>10. Preorder(t)
  <2>1. ASSUME NEW j \in 1 .. n + 1, NEW k \in 1 .. n + 1, t[j].parent < k, k < j
        PROVE  t[k].parent >= t[j].parent
    <3>1. k \in 1 .. n
      BY <2>1
    <3>2. CASE j = n + 1
      BY <1>4, <2>1, <3>1, <3>2
    <3>3. CASE j \in 1 .. n
      BY <2>1, <3>1, <3>3 DEF Shape, Preorder
    <3> QED
      BY <1>2, <3>2, <3>3
  <2>2. ASSUME NEW u \in 1 .. n + 1, NEW k \in 1 .. n + 1, u < k, ~ NookIsExpanded(t, u)
        PROVE  t[k].parent >= u
    <3>1. u \in 1 .. n
      BY <2>2
    <3>2. ~ NookIsExpanded(s, u)
      BY <2>2, <3>1 DEF NookIsExpanded
    <3>3. CASE k = n + 1
      BY <3>1, <3>2, <3>3
    <3>4. CASE k \in 1 .. n
      BY <2>2, <3>1, <3>2, <3>4 DEF Shape, Preorder
    <3> QED
      BY <1>2, <3>3, <3>4
  <2> QED
    BY <2>1, <2>2 DEF Preorder
<1>11. CauseFirst(t)
  <2> SUFFICES ASSUME NEW j \in 1 .. n + 1
               PROVE  /\ t[j].is_cause => t[j].parent = j - 1
                      /\ j # 1 /\ ~ t[j].is_cause =>
                            \/ OR_is_Token(AndOf(t, t[j].parent).cause)
                            \/ /\ t[j].parent + 1 < j /\ t[t[j].parent + 1].is_cause
                               /\ t[t[j].parent + 1].parent = t[j].parent
    BY DEF CauseFirst
  <2>1. CASE j = n + 1
    <3>1. CASE c
      <4>1. w = n
        BY <1>5, <3>1
      <4>2. t[j].parent = w /\ (n + 1) - 1 = n
        BY <2>1
      <4>3. t[j].is_cause
        BY <2>1, <3>1, Zenon
      <4> QED
        BY <2>1, <4>1, <4>2, <4>3
    <3>2. CASE ~ c /\ ~ OR_is_Token(AndOf(s, w).cause)
      <4>1. PICK i \in 1 .. n : s[i].parent = w /\ s[i].is_cause
        BY <3>2 DEF Shape, ChildrenThere
      <4>2. s[i].parent = i - 1
        BY <4>1 DEF Shape, CauseFirst
      <4>3. i = w + 1
        BY <4>1, <4>2
      <4> QED
        BY <1>2, <2>1, <3>2, <4>1, <4>3
    <3>3. CASE ~ c /\ OR_is_Token(AndOf(s, w).cause)
      BY <1>2, <2>1, <3>3
    <3> QED
      BY <3>1, <3>2, <3>3
  <2>2. CASE j \in 1 .. n /\ (t[j].is_cause \/ j = 1)
    BY <2>2 DEF Shape, CauseFirst
  <2>3. CASE j \in 1 .. n /\ ~ t[j].is_cause /\ j # 1
    <3>1. PICK p \in 1 .. n : p = s[j].parent
      BY <1>1, <2>3
    <3>2. \/ OR_is_Token(AndOf(s, p).cause)
          \/ p + 1 < j /\ s[p + 1].is_cause /\ s[p + 1].parent = p
      BY <2>3, <3>1 DEF Shape, CauseFirst
    <3>3. p + 1 < j => p + 1 \in 1 .. n
      BY <2>3
    <3> QED
      BY <1>2, <2>3, <3>1, <3>2, <3>3
  <2> QED
    BY <1>2, <2>1, <2>2, <2>3
<1> QED
  BY <1>7, <1>8, <1>9, <1>10, <1>11 DEF Shape

\* The stack with the top nook alone, and the empty one.
LEMMA ShapeOfOne ==
    ASSUME NEW s, DOMAIN s \in {{}, {1}},
           1 \in DOMAIN s =>
              /\ s[1].parent = 0 /\ ~ s[1].is_cause /\ ~ s[1].is_predecessor
              /\ ~ s[1].cause_expanded /\ ~ s[1].predecessor_expanded
              /\ s[1].or = NodeAt(StartDone, 1, b_end)
    PROVE  Shape(s)
<1>1. \A i \in DOMAIN s : i = 1
  OBVIOUS
<1>2. NooksLinked(s)
  BY <1>1 DEF NooksLinked
<1>3. OneOfEach(s) /\ ChildrenThere(s)
  BY <1>1 DEF OneOfEach, ChildrenThere
<1>4. Preorder(s)
  BY <1>1 DEF Preorder
<1>5. CauseFirst(s)
  BY <1>1 DEF CauseFirst
<1> QED
  BY <1>2, <1>3, <1>4, <1>5 DEF Shape

\* A stack has its shape while what is on offer stays.
LEMMA ShapeKept ==
    ASSUME UNCHANGED <<and_node_orderings, dands, b_end>>, NEW t, nook_stack' = t, Shape(t)
    PROVE  Shape(nook_stack)'
<1>1. NooksLinked(t) => NooksLinked(nook_stack)'
  BY DEF NooksLinked, AndOf, and_order_get, and_order, NodeAt, StartDone
<1>2. OneOfEach(t) => OneOfEach(nook_stack)'
  BY DEF OneOfEach
<1>3. ChildrenThere(t) => ChildrenThere(nook_stack)'
  BY DEF ChildrenThere, AndOf, and_order_get, and_order
<1>4. Preorder(t) => Preorder(nook_stack)'
  BY DEF Preorder, NookIsExpanded
<1>5. CauseFirst(t) => CauseFirst(nook_stack)'
  BY DEF CauseFirst, AndOf, and_order_get, and_order
<1> QED
  BY <1>1, <1>2, <1>3, <1>4, <1>5 DEF Shape

\* A stack is begun to be finished with every nook on the worklist.
LEMMA FinishStartsShape ==
    ASSUME NEW t \in Seq(NookSet), StartFinish(t), t # <<>>, Shape(t),
           UNCHANGED <<and_node_orderings, dands, b_end>>
    PROVE  ShapeInv'
<1>1. nook_stack' = t /\ t_pc' = "finish" /\ nook_worklist' = [i \in DOMAIN t |-> i]
  BY DEF StartFinish, WorklistOf
<1>2. Shape(nook_stack)'
  BY <1>1, ShapeKept
<1>3. PICK n \in Nat : DOMAIN t = 1 .. n
  OBVIOUS
<1> QED
  BY <1>1, <1>2, <1>3 DEF ShapeInv

LEMMA InitializeIteratorShape ==
    ASSUME RecceInv, BocageInv, TreeInv, InitializeIterator, UNCHANGED bocage
    PROVE  ShapeInv'
<1>1. /\ b_pc = "built" /\ UNCHANGED <<and_node_orderings, dands, b_end>>
      /\ StartFinish(<<NewNook(Top_OR_of_B, 0, FALSE, FALSE)>>)
  BY DEF InitializeIterator, TreeInv, HasBocage, O_is_Nulling, bocage, order
<1>2. PICK top \in or_nodes : top = Top_OR_of_B /\ top = NodeAt(StartDone, 1, b_end)
  BY <1>1, TopIsNode
<1>3. PICK nook : nook = NewNook(top, 0, FALSE, FALSE)
  OBVIOUS
<1>4. /\ nook \in NookSet /\ nook.parent = 0 /\ ~ nook.is_cause /\ ~ nook.is_predecessor
      /\ ~ nook.cause_expanded /\ ~ nook.predecessor_expanded /\ nook.or = top
  BY <1>3 DEF NewNook, NookSet
<1>5. PICK t : t = <<nook>>
  OBVIOUS
<1>6. t \in Seq(NookSet) /\ t # <<>> /\ DOMAIN t = {1} /\ t[1] = nook
  BY <1>4, <1>5
<1>7. StartFinish(t)
  BY <1>1, <1>2, <1>3, <1>5
<1>8. Shape(t)
  BY <1>2, <1>4, <1>6, ShapeOfOne
<1> QED
  BY <1>1, <1>6, <1>7, <1>8, FinishStartsShape

LEMMA NextChoiceShape ==
    ASSUME TreeInv, ShapeInv, NextChoice, UNCHANGED bocage
    PROVE  ShapeInv'
<1>1. PICK n \in Nat, s \in Seq(NookSet) :
         s = nook_stack /\ n = Len(s) /\ DOMAIN s = 1 .. n /\ n > 0 /\ n \in 1 .. n
  <2>1. nook_stack \in Seq(NookSet) /\ nook_stack # <<>>
    BY DEF NextChoice, TreeInv, StackInv
  <2>2. Len(nook_stack) \in Nat /\ Len(nook_stack) > 0
    BY <2>1, EmptySeq
  <2> QED
    BY <2>1, <2>2
<1>2. Shape(s)
  BY <1>1 DEF ShapeInv
<1>3. PICK nook \in NookSet : nook = s[n] /\ Top = nook
  BY <1>1 DEF Top
<1>4. PICK new : new = [nook EXCEPT !.choice = @ + 1, !.cause_expanded = FALSE,
                                    !.predecessor_expanded = FALSE]
  OBVIOUS
<1>5. /\ new \in NookSet /\ new.or = nook.or /\ new.parent = nook.parent
      /\ new.is_cause = nook.is_cause /\ new.is_predecessor = nook.is_predecessor
      /\ ~ new.cause_expanded /\ ~ new.predecessor_expanded
  <2>1. nook.choice + 1 \in Nat
    BY DEF NookSet
  <2>2. new \in NookSet
    BY <1>4, <2>1, Zenon DEF NookSet
  <2> QED
    BY <1>4, <2>2 DEF NookSet
<1>6. PICK t : t = [s EXCEPT ![n] = new]
  OBVIOUS
<1>7. /\ t \in Seq(NookSet) /\ DOMAIN t = 1 .. n /\ t[n] = new
      /\ \A i \in 1 .. n - 1 : t[i] = s[i]
  BY <1>1, <1>5, <1>6
<1>8. StartFinish(t)
  <2>1. new = [Top EXCEPT !.choice = @ + 1, !.cause_expanded = FALSE,
                          !.predecessor_expanded = FALSE]
    BY <1>3, <1>4
  <2> QED
    BY <1>1, <1>6, <2>1, Zenon DEF NextChoice
<1>9. Shape(t)
  BY <1>1, <1>2, <1>3, <1>5, <1>7, ShapeOfReset
<1>10. t # <<>> /\ UNCHANGED <<and_node_orderings, dands, b_end>>
  BY <1>1, <1>7 DEF NextChoice, bocage, order
<1> QED
  BY <1>7, <1>8, <1>9, <1>10, FinishStartsShape

LEMMA PopNookShape ==
    ASSUME TreeInv, ShapeInv, PopNook, UNCHANGED bocage
    PROVE  ShapeInv'
<1>1. PICK n \in Nat, s \in Seq(NookSet) :
         s = nook_stack /\ n = Len(s) /\ DOMAIN s = 1 .. n /\ n > 0 /\ n \in 1 .. n
  <2>1. nook_stack \in Seq(NookSet) /\ nook_stack # <<>>
    BY DEF PopNook, TreeInv, StackInv
  <2>2. Len(nook_stack) \in Nat /\ Len(nook_stack) > 0
    BY <2>1, EmptySeq
  <2> QED
    BY <2>1, <2>2
<1>2. Shape(s)
  BY <1>1 DEF ShapeInv
<1>3. PICK nook \in NookSet : nook = s[n] /\ Top = nook
  BY <1>1 DEF Top
<1>4. PICK rest : rest = WithoutTop(s)
  OBVIOUS
<1>5. /\ rest \in Seq(NookSet) /\ DOMAIN rest = 1 .. n - 1
      /\ \A i \in 1 .. n - 1 : i \in 1 .. n /\ rest[i] = s[i]
  BY <1>1, <1>4 DEF WithoutTop
<1>6. PICK t : t = [i \in 1 .. n - 1 |->
                      IF i # nook.parent THEN rest[i]
                      ELSE [rest[i] EXCEPT
                              !.cause_expanded = @ /\ ~ nook.is_cause,
                              !.predecessor_expanded = @ /\ ~ nook.is_predecessor]]
  OBVIOUS
<1>7. nook_stack' = t /\ t_pc' = "iterate" /\ UNCHANGED <<and_node_orderings, dands, b_end>>
  BY <1>1, <1>3, <1>4, <1>5, <1>6 DEF PopNook, bocage, order
<1>8. ASSUME NEW i \in 1 .. n - 1
      PROVE  /\ t[i].or = s[i].or /\ t[i].choice = s[i].choice /\ t[i].parent = s[i].parent
             /\ t[i].is_cause = s[i].is_cause /\ t[i].is_predecessor = s[i].is_predecessor
             /\ t[i].cause_expanded <=>
                   s[i].cause_expanded /\ ~ (i = s[n].parent /\ s[n].is_cause)
             /\ t[i].predecessor_expanded <=>
                   s[i].predecessor_expanded /\ ~ (i = s[n].parent /\ s[n].is_predecessor)
  <2>1. PICK old \in NookSet : old = s[i] /\ old = rest[i]
    BY <1>1, <1>5
  <2>2. CASE i # nook.parent
    BY <1>3, <1>6, <2>1, <2>2
  <2>3. CASE i = nook.parent
    <3>1. PICK c \in BOOLEAN : c = (old.cause_expanded /\ ~ nook.is_cause)
      OBVIOUS
    <3>2. PICK p \in BOOLEAN : p = (old.predecessor_expanded /\ ~ nook.is_predecessor)
      OBVIOUS
    <3>3. PICK kept : kept = [old EXCEPT !.cause_expanded = c, !.predecessor_expanded = p]
      OBVIOUS
    <3>4. t[i] = kept
      BY <1>6, <2>1, <2>3, <3>1, <3>2, <3>3, Zenon
    <3>5. /\ kept.or = old.or /\ kept.choice = old.choice /\ kept.parent = old.parent
          /\ kept.is_cause = old.is_cause /\ kept.is_predecessor = old.is_predecessor
          /\ kept.cause_expanded = c /\ kept.predecessor_expanded = p
      BY <3>3 DEF NookSet
    <3> QED
      BY <1>3, <2>1, <2>3, <3>1, <3>2, <3>4, <3>5
  <2> QED
    BY <2>2, <2>3
<1>9. DOMAIN t = 1 .. n - 1 /\ \A i \in 1 .. n : s[i].is_cause \in BOOLEAN
  <2>1. \A nk \in NookSet : nk.is_cause \in BOOLEAN
    BY DEF NookSet
  <2>2. \A i \in 1 .. n : s[i] \in NookSet
    BY <1>1
  <2> QED
    BY <1>6, <2>1, <2>2
<1>10. Shape(t)
  BY <1>1, <1>2, <1>8, <1>9, ShapeOfPop
<1>11. Shape(nook_stack)'
  BY <1>7, <1>10, ShapeKept
<1> QED
  BY <1>7, <1>11 DEF ShapeInv

\* What comes after the nook that is looked at is finished.
LEMMA LastUnfinished ==
    ASSUME BocageInv, TreeInv, ShapeInv, t_pc = "finish", nook_worklist # <<>>
    PROVE  \A i \in DOMAIN nook_stack : i > Work => NookIsExpanded(nook_stack, i)
<1>1. PICK m \in Nat : m = Len(nook_worklist) /\ DOMAIN nook_worklist = 1 .. m /\ m > 0
                       /\ nook_worklist \in Seq(Nat)
  BY WorkIsNook DEF TreeInv
<1>2. Work = nook_worklist[m] /\ m \in 1 .. m
  BY <1>1 DEF Work
<1>3. \A k \in 1 .. m : nook_worklist[k] \in Nat /\ nook_worklist[k] <= Work
  BY <1>1, <1>2 DEF ShapeInv
<1> SUFFICES ASSUME NEW i \in DOMAIN nook_stack, i > Work, ~ NookIsExpanded(nook_stack, i)
             PROVE  FALSE
  OBVIOUS
<1>4. PICK k \in 1 .. m : nook_worklist[k] = i
  BY <1>1 DEF ShapeInv
<1> QED
  BY <1>1, <1>2, <1>3, <1>4

LEMMA FinishChildShape ==
    ASSUME BocageInv, TreeInv, ShapeInv, t_pc = "finish", nook_worklist # <<>>,
           UNCHANGED bocage, NEW c \in BOOLEAN,
           NEW child, FinishChild(child, c),
           c => NeedsCause /\ child = WorkAND.cause,
           ~ c => NeedsPredecessor /\ child = WorkAND.predecessor
    PROVE  ShapeInv'
<1>1. PICK n \in Nat, s \in Seq(NookSet) : s = nook_stack /\ n = Len(s) /\ DOMAIN s = 1 .. n
  BY DEF TreeInv, StackInv
<1>2. PICK w \in 1 .. n : w = Work
  BY <1>1, WorkIsNook
<1>3. PICK nook \in NookSet : nook = s[w] /\ WorkNook = nook
  BY <1>1, <1>2 DEF WorkNook
<1>4. Shape(s) /\ \A i \in 1 .. n : i > w => NookIsExpanded(s, i)
  <2>1. \A i \in DOMAIN nook_stack : i > Work => NookIsExpanded(nook_stack, i)
    BY LastUnfinished
  <2> QED
    BY <1>1, <1>2, <2>1 DEF ShapeInv, NookIsExpanded
<1>5. AndOf(s, w) = WorkAND
  BY <1>3 DEF AndOf, WorkAND
<1>6. /\ c => ~ s[w].cause_expanded /\ ~ OR_is_Token(AndOf(s, w).cause)
      /\ ~ c => /\ ~ s[w].predecessor_expanded /\ AndOf(s, w).predecessor # NoOR
                /\ s[w].cause_expanded \/ OR_is_Token(AndOf(s, w).cause)
  BY <1>3, <1>5 DEF NeedsCause, NeedsPredecessor
<1>7. UNCHANGED <<and_node_orderings, dands, b_end>>
  BY DEF FinishChild, bocage, order
<1>8. \A i \in 1 .. n : s[i].is_cause \in BOOLEAN
  <2>1. \A nk \in NookSet : nk.is_cause \in BOOLEAN
    BY DEF NookSet
  <2> QED
    BY <1>1, <2>1
<1> DEFINE added == Claimable(child) /\ and_order_ix_is_valid(child, 0)
<1>9. PICK a \in BOOLEAN : a = added
  OBVIOUS
<1>10. PICK d \in BOOLEAN : d = (~ c \/ a)
  OBVIOUS
<1>11. PICK p \in BOOLEAN : p = (nook.predecessor_expanded \/ (a /\ ~ c))
  OBVIOUS
<1>12. PICK work : work = [nook EXCEPT !.cause_expanded = d, !.predecessor_expanded = p]
  OBVIOUS
<1>13. /\ work \in NookSet /\ work.or = nook.or /\ work.choice = nook.choice
       /\ work.parent = nook.parent /\ work.is_cause = nook.is_cause
       /\ work.is_predecessor = nook.is_predecessor /\ work.cause_expanded = d
       /\ work.predecessor_expanded = p
  <2>1. work \in NookSet
    BY <1>12, Zenon DEF NookSet
  <2> QED
    BY <1>12, <2>1 DEF NookSet
<1>14. PICK stack : stack = [s EXCEPT ![w] = work]
  OBVIOUS
<1>15. /\ stack \in Seq(NookSet) /\ DOMAIN stack = 1 .. n /\ Len(stack) = n
       /\ stack[w] = work /\ \A i \in 1 .. n : i # w => stack[i] = s[i]
  BY <1>1, <1>13, <1>14
<1>16. [WorkNook EXCEPT !.cause_expanded = ~ c \/ added,
                        !.predecessor_expanded = @ \/ (added /\ ~ c)] = work
  BY <1>3, <1>9, <1>10, <1>11, <1>12, Zenon
<1>17. /\ nook_stack' = stack \o
             (IF added THEN <<NewNook(child, w, c, ~ c)>> ELSE <<>>)
       /\ nook_worklist' = IF added THEN Append(nook_worklist, Len(nook_stack) + 1)
                           ELSE nook_worklist
       /\ t_pc' = IF added THEN "finish" ELSE "iterate"
  BY <1>1, <1>2, <1>14, <1>16, Zenon DEF FinishChild
<1>18. CASE a
  <2>1. PICK new : new = NewNook(child, w, c, ~ c)
    OBVIOUS
  <2>2. /\ new.or = child /\ new.parent = w /\ new.is_cause = c /\ new.is_predecessor = ~ c
        /\ ~ new.cause_expanded /\ ~ new.predecessor_expanded
    BY <2>1 DEF NewNook
  <2>3. PICK t : t = stack \o <<new>>
    OBVIOUS
  <2>4. /\ nook_stack' = t /\ t_pc' = "finish"
        /\ nook_worklist' = Append(nook_worklist, n + 1)
    BY <1>1, <1>9, <1>17, <1>18, <2>1, <2>3
  <2>5. DOMAIN t = 1 .. n + 1 /\ t[n + 1] = new /\ \A i \in 1 .. n : t[i] = stack[i]
    BY <1>15, <2>3
  <2>6. d /\ (p <=> nook.predecessor_expanded \/ ~ c)
    BY <1>10, <1>11, <1>18
  <2>7. \A i \in 1 .. n :
           /\ t[i].or = s[i].or /\ t[i].choice = s[i].choice /\ t[i].parent = s[i].parent
           /\ t[i].is_cause = s[i].is_cause /\ t[i].is_predecessor = s[i].is_predecessor
           /\ t[i].cause_expanded <=> s[i].cause_expanded \/ i = w
           /\ t[i].predecessor_expanded <=> s[i].predecessor_expanded \/ (i = w /\ ~ c)
    BY <1>3, <1>13, <1>15, <2>5, <2>6
  <2>8. /\ c => t[n + 1].or = AndOf(s, w).cause
        /\ ~ c => t[n + 1].or = AndOf(s, w).predecessor
        /\ t[n + 1].parent = w /\ t[n + 1].is_cause = c /\ t[n + 1].is_predecessor = ~ c
        /\ ~ t[n + 1].cause_expanded /\ ~ t[n + 1].predecessor_expanded
    BY <1>5, <2>2, <2>5
  <2>9. Shape(t)
    <3>1. Needs(s, n, w, c)
      BY <1>4, <1>6 DEF Needs
    <3>2. ChildPushed(s, n, w, c, t)
      BY <2>5, <2>7, <2>8 DEF ChildPushed
    <3> QED
      BY <1>1, <1>4, <1>8, <3>1, <3>2, ShapeOfPush
  <2>10. Shape(nook_stack)'
    BY <1>7, <2>4, <2>9, ShapeKept
  <2>11. PICK m \in Nat : m = Len(nook_worklist) /\ DOMAIN nook_worklist = 1 .. m
                          /\ nook_worklist \in Seq(Nat)
    BY DEF TreeInv
  <2>12. /\ DOMAIN nook_worklist' = 1 .. m + 1 /\ nook_worklist'[m + 1] = n + 1
         /\ \A i \in 1 .. m : nook_worklist'[i] = nook_worklist[i] /\ nook_worklist[i] \in 1 .. n
    <3>1. \A i \in 1 .. m : nook_worklist[i] \in 1 .. n
      BY <1>1, <2>11 DEF TreeInv
    <3> QED
      BY <2>4, <2>11, <3>1
  <2>13. \A i, j \in DOMAIN nook_worklist' : i < j => nook_worklist'[i] < nook_worklist'[j]
    <3>1. \A i, j \in 1 .. m : i < j => nook_worklist[i] < nook_worklist[j]
      BY <2>11 DEF ShapeInv
    <3> SUFFICES ASSUME NEW i \in 1 .. m + 1, NEW j \in 1 .. m + 1, i < j
                 PROVE  nook_worklist'[i] < nook_worklist'[j]
      BY <2>12
    <3>2. i \in 1 .. m
      OBVIOUS
    <3>3. CASE j \in 1 .. m
      BY <2>12, <3>1, <3>2, <3>3
    <3>4. CASE j = m + 1
      BY <2>12, <3>2, <3>4
    <3> QED
      BY <3>3, <3>4
  <2>14. ASSUME NEW i \in 1 .. n + 1
         PROVE  \/ NookIsExpanded(t, i)
                \/ \E k \in 1 .. m + 1 : nook_worklist'[k] = i
    <3>1. CASE i = n + 1
      BY <2>12, <3>1
    <3>2. CASE i \in 1 .. n /\ NookIsExpanded(s, i)
      BY <2>7, <3>2 DEF NookIsExpanded
    <3>3. CASE i \in 1 .. n /\ ~ NookIsExpanded(s, i)
      <4>1. ~ NookIsExpanded(nook_stack, i)
        BY <1>1, <3>3 DEF NookIsExpanded
      <4>2. PICK k \in 1 .. m : nook_worklist[k] = i
        BY <1>1, <2>11, <3>3, <4>1 DEF ShapeInv
      <4> QED
        BY <2>12, <4>2
    <3> QED
      BY <3>1, <3>2, <3>3
  <2>15. /\ nook_stack' # <<>>
         /\ \A i \in DOMAIN nook_stack' :
               \/ NookIsExpanded(nook_stack, i)'
               \/ \E k \in DOMAIN nook_worklist' : nook_worklist'[k] = i
    <3>1. DOMAIN nook_stack' = 1 .. n + 1 /\ 1 \in 1 .. n + 1
      BY <2>4, <2>5
    <3>2. nook_stack' # <<>>
      BY <3>1
    <3>3. ASSUME NEW i \in DOMAIN nook_stack'
          PROVE  \/ NookIsExpanded(nook_stack, i)'
                 \/ \E k \in DOMAIN nook_worklist' : nook_worklist'[k] = i
      BY <2>4, <2>12, <2>14, <3>1 DEF NookIsExpanded
    <3> QED
      BY <3>2, <3>3
  <2> QED
    BY <2>4, <2>10, <2>13, <2>15 DEF ShapeInv
<1>19. CASE ~ a
  <2>1. nook_stack' = stack /\ t_pc' = "iterate"
    <3>1. ~ added
      BY <1>9, <1>19
    <3>2. nook_stack' = stack \o <<>> /\ t_pc' = "iterate"
      BY <1>17, <3>1
    <3> QED
      BY <1>15, <3>2
  <2>2. /\ s[w].cause_expanded => stack[w].cause_expanded
        /\ s[w].predecessor_expanded => stack[w].predecessor_expanded
        /\ stack[w].cause_expanded => s[w].cause_expanded \/ OR_is_Token(AndOf(s, w).cause)
        /\ stack[w].predecessor_expanded =>
              s[w].predecessor_expanded \/ AndOf(s, w).predecessor = NoOR
    BY <1>3, <1>6, <1>10, <1>11, <1>13, <1>15, <1>19
  <2>3. Shape(stack)
    BY <1>1, <1>3, <1>4, <1>13, <1>15, <2>2, ShapeOfMark
  <2>4. Shape(nook_stack)'
    BY <1>7, <2>1, <2>3, ShapeKept
  <2> QED
    BY <2>1, <2>4 DEF ShapeInv
<1> QED
  BY <1>18, <1>19

LEMMA FinishNookShape ==
    ASSUME BocageInv, TreeInv, ShapeInv, FinishNook, UNCHANGED bocage
    PROVE  ShapeInv'
<1>1. t_pc = "finish" /\ nook_worklist # <<>>
  BY DEF FinishNook
<1>2. CASE NeedsCause /\ FinishChild(WorkAND.cause, TRUE)
  <2>1. PICK child : child = WorkAND.cause
    OBVIOUS
  <2>2. FinishChild(child, TRUE)
    BY <1>2, <2>1
  <2> QED
    BY <1>1, <1>2, <2>1, <2>2, FinishChildShape
<1>3. CASE NeedsPredecessor /\ FinishChild(WorkAND.predecessor, FALSE)
  <2>1. PICK child : child = WorkAND.predecessor
    OBVIOUS
  <2>2. FinishChild(child, FALSE)
    BY <1>3, <2>1
  <2> QED
    BY <1>1, <1>3, <2>1, <2>2, FinishChildShape
<1> QED
  BY <1>2, <1>3 DEF FinishNook

LEMMA NookIsFinishedShape ==
    ASSUME BocageInv, TreeInv, ShapeInv, NookIsFinished, UNCHANGED bocage
    PROVE  ShapeInv'
<1>1. PICK n \in Nat, s \in Seq(NookSet) : s = nook_stack /\ n = Len(s) /\ DOMAIN s = 1 .. n
  BY DEF TreeInv, StackInv
<1>2. t_pc = "finish" /\ nook_worklist # <<>> /\ b_pc = "built"
  BY DEF NookIsFinished, TreeInv
<1>3. PICK w \in 1 .. n : w = Work
  BY <1>1, <1>2, WorkIsNook
<1>4. PICK nook \in NookSet : nook = s[w] /\ WorkNook = nook
  BY <1>1, <1>3 DEF WorkNook
<1>5. PICK done : done = [nook EXCEPT !.cause_expanded = TRUE, !.predecessor_expanded = TRUE]
  OBVIOUS
<1>6. /\ done \in NookSet /\ done.or = nook.or /\ done.choice = nook.choice
      /\ done.parent = nook.parent /\ done.is_cause = nook.is_cause
      /\ done.is_predecessor = nook.is_predecessor
      /\ done.cause_expanded /\ done.predecessor_expanded
  BY <1>5 DEF NookSet
<1>7. PICK t : t = [s EXCEPT ![w] = done]
  OBVIOUS
<1>8. /\ nook_stack' = t /\ nook_worklist' = WithoutTop(nook_worklist) /\ t_pc' = "finish"
      /\ UNCHANGED <<and_node_orderings, dands, b_end>>
  <2>1. nook_stack' = [nook_stack EXCEPT ![w] = done]
    BY <1>1, <1>2, <1>3, <1>4, <1>5, Zenon DEF NookIsFinished
  <2> QED
    BY <1>1, <1>2, <1>7, <2>1 DEF NookIsFinished, bocage, order
<1>9. DOMAIN t = 1 .. n /\ t[w] = done /\ \A i \in 1 .. n : i # w => t[i] = s[i]
  BY <1>1, <1>7
<1>10. Shape(s)
  BY <1>1 DEF ShapeInv
<1>11. /\ s[w].cause_expanded \/ OR_is_Token(AndOf(s, w).cause)
       /\ s[w].predecessor_expanded \/ AndOf(s, w).predecessor = NoOR
  <2>1. AndOf(s, w) = WorkAND
    BY <1>4 DEF AndOf, WorkAND
  <2> QED
    BY <1>4, <2>1 DEF NookIsFinished, NeedsCause, NeedsPredecessor
<1>12. Shape(t)
  BY <1>1, <1>4, <1>6, <1>9, <1>10, <1>11, ShapeOfMark
<1>13. Shape(nook_stack)'
  BY <1>8, <1>12, ShapeKept
<1>14. PICK m \in Nat : m = Len(nook_worklist) /\ m > 0 /\ nook_worklist \in Seq(Nat)
                        /\ DOMAIN nook_worklist = 1 .. m /\ nook_worklist[m] = w
  BY <1>2, <1>3, WorkIsNook DEF TreeInv, Work
<1>15. /\ DOMAIN nook_worklist' = 1 .. m - 1
       /\ \A i \in 1 .. m - 1 : i \in 1 .. m /\ nook_worklist'[i] = nook_worklist[i]
  BY <1>8, <1>14 DEF WithoutTop
<1>16. \A i, j \in DOMAIN nook_worklist' : i < j => nook_worklist'[i] < nook_worklist'[j]
  BY <1>2, <1>14, <1>15 DEF ShapeInv
<1>17. ASSUME NEW i \in 1 .. n
       PROVE  \/ NookIsExpanded(t, i)
              \/ \E k \in 1 .. m - 1 : nook_worklist'[k] = i
  <2>1. CASE i = w
    BY <1>6, <1>9, <2>1 DEF NookIsExpanded
  <2>2. CASE i # w /\ NookIsExpanded(s, i)
    BY <1>9, <2>2 DEF NookIsExpanded
  <2>3. CASE i # w /\ ~ NookIsExpanded(s, i)
    <3>1. ~ NookIsExpanded(nook_stack, i)
      BY <1>1, <2>3 DEF NookIsExpanded
    <3>2. PICK k \in 1 .. m : nook_worklist[k] = i
      BY <1>1, <1>2, <1>14, <3>1 DEF ShapeInv
    <3>3. k \in 1 .. m - 1
      BY <1>14, <2>3, <3>2
    <3> QED
      BY <1>15, <3>2, <3>3
  <2> QED
    BY <2>1, <2>2, <2>3
<1>18. DOMAIN nook_stack' = 1 .. n /\ w \in DOMAIN nook_stack'
  BY <1>8, <1>9
<1>19. nook_stack' # <<>>
  BY <1>18
<1>20. \A i \in DOMAIN nook_stack' :
          \/ NookIsExpanded(nook_stack, i)'
          \/ \E k \in DOMAIN nook_worklist' : nook_worklist'[k] = i
  BY <1>8, <1>15, <1>17, <1>18 DEF NookIsExpanded
<1> QED
  BY <1>8, <1>13, <1>16, <1>19, <1>20 DEF ShapeInv

\* Where there is no tree, there is nothing to show.
LEMMA NoStack ==
    ASSUME nook_stack' = <<>>, t_pc' # "finish",
           t_pc' = "ready" => ~ (parse_count' >= 1) \/ t_is_exhausted'
    PROVE  ShapeInv'
<1>1. DOMAIN nook_stack' = {}
  OBVIOUS
<1>2. NooksLinked(nook_stack)' /\ OneOfEach(nook_stack)' /\ ChildrenThere(nook_stack)'
      /\ Preorder(nook_stack)' /\ CauseFirst(nook_stack)'
  BY <1>1 DEF NooksLinked, OneOfEach, ChildrenThere, Preorder, CauseFirst
<1> QED
  BY <1>2 DEF ShapeInv, Shape

\* The stack and what is on offer stay, and nothing is being finished.
LEMMA SameStack ==
    ASSUME ShapeInv, UNCHANGED <<and_node_orderings, dands, b_end, nook_stack>>, t_pc' # "finish",
           /\ t_pc' = "ready" /\ parse_count' >= 1 /\ ~ t_is_exhausted' /\ b_pc' = "built"
              => nook_stack # <<>> /\ \A i \in DOMAIN nook_stack : NookIsExpanded(nook_stack, i)
    PROVE  ShapeInv'
<1>1. PICK s : s = nook_stack
  OBVIOUS
<1>2. Shape(nook_stack)'
  BY <1>1, ShapeKept DEF ShapeInv
<1> QED
  BY <1>2 DEF ShapeInv, NookIsExpanded

LEMMA TreeShape ==
    ASSUME RecceInv, BocageInv, TreeInv, ShapeInv, TreeCalls \/ TreeSteps, UNCHANGED bocage
    PROVE  ShapeInv'
<1>1. UNCHANGED <<b_pc, dands, b_end>>
  BY DEF bocage
<1>2. CASE TreeNew
  <2>1. /\ nook_stack' = <<>> /\ t_pc' = "ready" /\ parse_count' = 0
    BY <1>2 DEF TreeNew, iterator, TreeInv
  <2> QED
    BY <2>1, NoStack
<1>3. CASE NextAnswers \/ NextIterates
  <2>1. UNCHANGED <<and_node_orderings, nook_stack, t_is_exhausted>>
    BY <1>3 DEF NextAnswers, NextIterates, order, iterator
  <2>2. t_pc = "ready" /\ t_pc' \in {"ready", "iterate"}
    BY <1>3 DEF NextAnswers, NextIterates
  <2>3. b_pc = "built" => parse_count' = parse_count
    BY <1>3 DEF NextAnswers, NextIterates, O_is_Nulling
  <2>4. /\ t_pc' = "ready" /\ parse_count' >= 1 /\ ~ t_is_exhausted' /\ b_pc' = "built"
           => nook_stack # <<>> /\ \A i \in DOMAIN nook_stack : NookIsExpanded(nook_stack, i)
    BY <1>1, <2>1, <2>2, <2>3 DEF ShapeInv
  <2> QED
    BY <1>1, <2>1, <2>2, <2>4, SameStack
<1>4. CASE NullingIsExhausted \/ IterationEnds
  <2>1. nook_stack' = <<>> /\ t_pc' = "ready" /\ t_is_exhausted'
    BY <1>4 DEF NullingIsExhausted, IterationEnds, Exhaust
  <2> QED
    BY <2>1, NoStack
<1>5. CASE TreeIsFinished
  <2>1. /\ t_pc = "finish" /\ nook_worklist = <<>> /\ t_pc' = "ready"
        /\ UNCHANGED <<and_node_orderings, nook_stack>>
    BY <1>5 DEF TreeIsFinished, order, iterator
  <2>2. nook_stack # <<>> /\ \A i \in DOMAIN nook_stack : NookIsExpanded(nook_stack, i)
    BY <2>1 DEF ShapeInv
  <2> QED
    BY <1>1, <2>1, <2>2, SameStack
<1> QED
  BY <1>2, <1>3, <1>4, <1>5, InitializeIteratorShape, NextChoiceShape, PopNookShape,
     FinishNookShape, NookIsFinishedShape DEF TreeCalls, TreeSteps

\* The lists on offer are ranked, and a bocage made, while there is no tree.
LEMMA OrderShape ==
    ASSUME TreeInv, ShapeInv, OrderCalls, UNCHANGED bocage
    PROVE  ShapeInv'
<1>1. UNCHANGED <<b_pc, dands, b_end>>
  BY DEF bocage
<1>2. UNCHANGED <<t_pc, t_is_exhausted, parse_count, nook_stack>> /\ t_pc \in {"none", "ready"}
  BY DEF OrderCalls, OrderFrozen, OrderRank, AmbiguityMetric, HighRankOnlySet, tree, iterator,
         T_Idle
<1>3. CASE OrderRank
  <2>1. t_pc = "none" /\ nook_stack = <<>>
    BY <1>2, <1>3 DEF OrderRank, TreeInv, OrderInv
  <2> QED
    BY <1>2, <2>1, NoStack
<1>4. CASE OrderFrozen \/ AmbiguityMetric \/ \E count \in {0, 1} : HighRankOnlySet(count)
  <2>1. UNCHANGED and_node_orderings
    BY <1>4 DEF OrderFrozen, AmbiguityMetric, HighRankOnlySet, order
  <2> QED
    BY <1>1, <1>2, <2>1, SameStack DEF ShapeInv
<1> QED
  BY <1>3, <1>4 DEF OrderCalls

LEMMA BocageMovesShape ==
    ASSUME TreeInv, BocageCalls \/ BocageSteps, UNCHANGED <<order, tree>>
    PROVE  ShapeInv'
<1>1. ~ HasBocage
  BY DEF BocageCalls, BocageNoParse, BocageNulling, BocageBegins, BocageSteps, CreateOrNodes,
         CreateLeoPathOrNodes, OrNodesEnd, BeginDrafts, CreateLeoDrafts, CreateTokenDraft,
         CreateCompletionDraft, NextLink, DraftsEnd, HasBocage
<1>2. t_pc' = "none" /\ nook_stack' = <<>>
  BY <1>1 DEF TreeInv, tree, iterator
<1> QED
  BY <1>2, NoStack

LEMMA ShapeUntouched ==
    ASSUME ShapeInv, UNCHANGED <<b_pc, and_node_orderings, dands, b_end, t_pc, parse_count,
                                 t_is_exhausted, nook_stack, nook_worklist>>
    PROVE  ShapeInv'
<1>1. PICK s : s = nook_stack
  OBVIOUS
<1>2. Shape(nook_stack)'
  BY <1>1, ShapeKept DEF ShapeInv
<1> QED
  BY <1>2 DEF ShapeInv, NookIsExpanded

\* The stack is a tree in preorder, whatever marpa_t_next has pushed, popped and
\* marked, and a tree that is returned has all its nooks.
LEMMA ShapeAlways ==
    ASSUME LeoRulesEndProper
    PROVE  PausedSpec => []ShapeInv
<1>1. ForestInit => ShapeInv
  <2> SUFFICES ASSUME ForestInit PROVE ShapeInv
    OBVIOUS
  <2>1. t_pc = "none" /\ nook_stack = <<>> /\ DOMAIN nook_stack = {}
    BY DEF ForestInit, TreeInit
  <2>2. Shape(nook_stack)
    BY <2>1 DEF Shape, NooksLinked, OneOfEach, ChildrenThere, Preorder, CauseFirst
  <2> QED
    BY <2>1, <2>2 DEF ShapeInv
<1>2. RecceInv /\ BocageInv /\ TreeInv /\ ShapeInv /\ [PausedNext]_forest => ShapeInv'
  <2> SUFFICES ASSUME RecceInv, BocageInv, TreeInv, ShapeInv, [PausedNext]_forest
               PROVE  ShapeInv'
    OBVIOUS
  <2>1. CASE UNCHANGED <<bocage, order, t_pc, t_is_exhausted, parse_count, iterator>>
    BY <2>1, ShapeUntouched DEF bocage, order, iterator
  <2>2. CASE (BocageCalls \/ BocageSteps) /\ UNCHANGED <<order, tree>>
    BY <2>2, BocageMovesShape
  <2>3. CASE OrderCalls /\ UNCHANGED bocage
    BY <2>3, OrderShape
  <2>4. CASE (TreeCalls \/ TreeSteps) /\ UNCHANGED bocage
    BY <2>4, TreeShape
  <2> QED
    BY <2>1, <2>2, <2>3, <2>4 DEF PausedNext, TreePauses, ForestNext, RecceCalls, forest, tree
<1> QED
  BY <1>1, <1>2, ForestIsRecce, RecceInvAlways, BocageAlways, TreeAlways, PTL DEF PausedSpec
=============================================================================
