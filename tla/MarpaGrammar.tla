---------------------------- MODULE MarpaGrammar ----------------------------
(***************************************************************************)
(* The precomputed grammar of libmarpa, as the recognizer reads it: the    *)
(* internal rules (IRLs) over internal symbols (NSYs), the Aycock-Horspool *)
(* items (AHMs) of marpa.w's "Create AHMs", and the memoizations that      *)
(* marpa_g_precompute builds from them: predictions, right recursions and  *)
(* event lists.  Precomputation leaves all of it constant.                 *)
(***************************************************************************)
EXTENDS Integers, Sequences, FiniteSets

CONSTANTS
    NSY_Count,          \* number of internal symbols
    IRL_Count,          \* number of internal rules
    LHSID_of_IRL,       \* IRL -> NSY
    RHS_of_IRL,         \* IRL -> sequence of NSYs
    NullingNSYs,        \* the NSYs with NSY_is_Nulling set
    StartIRL,           \* g->t_start_irl, NoIRL in a trivial grammar
    VirtualLHS,         \* the IRLs with IRL_has_Virtual_LHS set
    XSYs,               \* external symbols
    TerminalXSYs,       \* the XSYs with XSY_is_Terminal set
    NSY_of_XSY,         \* XSY -> NSY, NoNSY for an inaccessible symbol
    Source_XSY_of_NSY,  \* NSY -> XSY
    StartXSY,           \* g->t_start_xsy_id
    NulledXSYs,         \* XSY -> the XSYs nulled when it is nulled
    CompletionEventXSYs, \* the XSYs with t_is_completion_event set
    ZWAs,               \* zero-width assertions
    ZWA_CIL_of_IRL      \* IRL -> the assertions its first AHM must satisfy

NSYs == 0 .. NSY_Count - 1
IRLs == 0 .. IRL_Count - 1

\* The source's negative IDs and NULL pointers.
NoNSY == -1
NoIRL == -1

-----------------------------------------------------------------------------
(* AHMs.  A nulling symbol is never a postdot symbol: the dot steps over it,
   so the positions of an IRL are those before a non-nulling symbol and the
   one at its end. *)

Positions(irl) ==
    {d \in 0 .. Len(RHS_of_IRL[irl]) :
        d < Len(RHS_of_IRL[irl]) => RHS_of_IRL[irl][d + 1] \notin NullingNSYs}

Least(S) == CHOOSE n \in S : \A m \in S : n <= m

PositionsAfter(irl, d) == {p \in Positions(irl) : p > d}

AHMs == {a \in [irl : IRLs, dot : UNION {Positions(i) : i \in IRLs}] :
            a.dot \in Positions(a.irl)}

First_AHM_of_IRL(irl) ==
    [irl |-> irl, dot |-> Least(Positions(irl))]

AHM_is_Completion(ahm) == ahm.dot = Len(RHS_of_IRL[ahm.irl])

Postdot_NSYID_of_AHM(ahm) ==
    IF AHM_is_Completion(ahm) THEN NoNSY ELSE RHS_of_IRL[ahm.irl][ahm.dot + 1]

Next_AHM_of_AHM_unskipped(ahm) ==   \* mutant: stops before a nulling symbol
    [irl |-> ahm.irl, dot |-> ahm.dot + 1]

Next_AHM_of_AHM(ahm) ==
    [irl |-> ahm.irl, dot |-> Least(PositionsAfter(ahm.irl, ahm.dot))]

\* The nulling symbols just before the dot (Null_Count_of_AHM of them).
NulledBeforeDot(ahm) ==
    {k \in 1 .. ahm.dot :
        /\ \A j \in k .. ahm.dot : RHS_of_IRL[ahm.irl][j] \in NullingNSYs}

(* What precomputation guarantees of the internal grammar: every IRL has a
   non-nulling symbol on its RHS and a non-nulling LHS, and the start IRL's
   LHS, invented by the augmentation, is used nowhere else. *)
ASSUME GrammarAssumption ==
    /\ NSY_Count \in Nat /\ IRL_Count \in Nat
    /\ NullingNSYs \subseteq NSYs
    /\ LHSID_of_IRL \in [IRLs -> NSYs \ NullingNSYs]
    /\ RHS_of_IRL \in [IRLs -> Seq(NSYs)]
    /\ \A irl \in IRLs :
          \E k \in 1 .. Len(RHS_of_IRL[irl]) :
             RHS_of_IRL[irl][k] \notin NullingNSYs
    /\ StartIRL \in IRLs \cup {NoIRL}
    /\ StartIRL \in IRLs =>
          \A irl \in IRLs :
             /\ irl # StartIRL => LHSID_of_IRL[irl] # LHSID_of_IRL[StartIRL]
             /\ \A k \in 1 .. Len(RHS_of_IRL[irl]) :
                   RHS_of_IRL[irl][k] # LHSID_of_IRL[StartIRL]

ASSUME SymbolAssumption ==
    /\ IsFiniteSet(XSYs) /\ TerminalXSYs \subseteq XSYs
    /\ NSY_of_XSY \in [XSYs -> NSYs \cup {NoNSY}]
    /\ Source_XSY_of_NSY \in [NSYs -> XSYs]
    /\ StartXSY \in XSYs
    /\ NulledXSYs \in [XSYs -> SUBSET XSYs]
    /\ CompletionEventXSYs \subseteq XSYs
    /\ VirtualLHS \subseteq IRLs
    /\ ZWA_CIL_of_IRL \in [IRLs -> SUBSET ZWAs]

\* g->t_bv_nsyid_is_terminal
TerminalNSYs == {NSY_of_XSY[x] : x \in TerminalXSYs} \ {NoNSY}

G_is_Trivial == StartIRL = NoIRL

-----------------------------------------------------------------------------
(* What a worklist finds that is started with the members of From, all of them
   in U: the least set that has them and whatever grow, a function over the
   subsets of U, gives for the members it has. *)
Fixpoint(U, grow, From) ==
    LET fix[S \in SUBSET U] ==
          LET more == S \cup grow[S] IN IF more = S THEN S ELSE fix[more]
    IN  fix[From]

-----------------------------------------------------------------------------
(* transitive_closure: Warshall's algorithm on a relation over NSYs, one
   outer row after the other. *)

\* The pairs of a relation, and those that are joined through m.
JoinedThrough(R, m) ==
    {e \in NSYs \X NSYs : e \in R \/ (<<e[1], m>> \in R /\ <<m, e[2]>> \in R)}

transitive_closure(R) ==
    LET closed[n \in 0 .. NSY_Count] ==
          IF n = 0 THEN R ELSE JoinedThrough(closed[n - 1], n - 1)
    IN  closed[NSY_Count]

\* Predictions: the IRLs predicted by an AHM (Predicted_IRL_CIL_of_AHM).
PredictionMatrix ==
    transitive_closure(
        {<<LHSID_of_IRL[i], LHSID_of_IRL[i]>> : i \in IRLs}
        \cup {<<LHSID_of_IRL[i], Postdot_NSYID_of_AHM(First_AHM_of_IRL(i))>> : i \in IRLs})

Predicted_IRLs_of_AHM_direct(ahm) ==   \* mutant: predictions are not closed
    {i \in IRLs : Postdot_NSYID_of_AHM(ahm) = LHSID_of_IRL[i]}

Predicted_IRLs_of_AHM(ahm) ==
    {i \in IRLs : <<Postdot_NSYID_of_AHM(ahm), LHSID_of_IRL[i]>> \in PredictionMatrix}

\* The last non-nulling symbol of an IRL's RHS.
LastProperSymbol(irl) ==
    LET proper == {k \in 1 .. Len(RHS_of_IRL[irl]) : RHS_of_IRL[irl][k] \notin NullingNSYs}
    IN  RHS_of_IRL[irl][CHOOSE k \in proper : \A j \in proper : j <= k]

RightDerivations(irls) ==
    transitive_closure({<<LHSID_of_IRL[i], LastProperSymbol(i)>> : i \in irls})

\* IRL_is_Right_Recursive, which is also IRL_is_Leo.
LeoIRLs == {i \in IRLs : <<LastProperSymbol(i), LHSID_of_IRL[i]>> \in RightDerivations(IRLs)}

AHM_is_Leo_Completion(ahm) == AHM_is_Completion(ahm) /\ ahm.irl \in LeoIRLs

-----------------------------------------------------------------------------
(* The events an AHM can trigger when it is in a completed Earley set. *)

Completion_XSYIDs_of_AHM(ahm) ==
    {x \in CompletionEventXSYs :
        /\ AHM_is_Completion(ahm)
        /\ ahm.irl \notin VirtualLHS
        /\ x = Source_XSY_of_NSY[LHSID_of_IRL[ahm.irl]]}

Prediction_XSYIDs_of_AHM(ahm) ==
    IF AHM_is_Completion(ahm) THEN {}
    ELSE {Source_XSY_of_NSY[Postdot_NSYID_of_AHM(ahm)]}

Nulled_XSYIDs_of_AHM(ahm) ==
    UNION {NulledXSYs[Source_XSY_of_NSY[RHS_of_IRL[ahm.irl][k]]] : k \in NulledBeforeDot(ahm)}

AHM_has_Event(ahm) ==
    \/ Completion_XSYIDs_of_AHM(ahm) # {}
    \/ Prediction_XSYIDs_of_AHM(ahm) # {}
    \/ Nulled_XSYIDs_of_AHM(ahm) # {}

\* Mutant: the group does not count all the AHMs of a recursion.
Event_Group_Size_of_AHM_single(ahm) == IF AHM_has_Event(ahm) THEN 1 ELSE 0

\* The Leo completions that can share a Leo path with a given one.
Event_Group_Size_of_AHM(ahm) ==
    IF ~ AHM_is_Leo_Completion(ahm)
    THEN IF AHM_has_Event(ahm) THEN 1 ELSE 0
    ELSE Cardinality(
           {inner \in AHMs :
              /\ AHM_has_Event(inner)
              /\ AHM_is_Leo_Completion(inner)
              /\ <<LHSID_of_IRL[ahm.irl], LHSID_of_IRL[inner.irl]>> \in RightDerivations(LeoIRLs)})
=============================================================================
