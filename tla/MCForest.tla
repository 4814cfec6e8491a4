------------------------------ MODULE MCForest ------------------------------
(***************************************************************************)
(* The recognizer, a bocage of it, its order and its tree, on small        *)
(* grammars.  The application reads tokens that are expected, takes one    *)
(* bocage when it has read enough, and no longer reads then.               *)
(***************************************************************************)
EXTENDS ForestReference, ReportReference, TLC

W == INSTANCE MarpaRewrite

CONSTANT GrammarName

\* Ambiguity over a, a cycle over c, and over b right recursion through a unit
\* rule, between nulled symbols:
\*   S ::= E | F | C | n L n;  E ::= E E | a;  F ::= E;
\*   C ::= D | c;  D ::= C;  L ::= b M | b;  M ::= L.
\* NSYs: 0 S', 1 S, 2 E, 3 F, 4 C, 5 D, 6 L, 7 M, 8 n, 9 a, 10 b, 11 c.
Ambiguous ==
    [nsys |-> 12, nulling |-> {8}, terminals |-> {9, 10, 11},
     rules |-> << <<0, <<1>>>>, <<1, <<2>>>>, <<1, <<3>>>>, <<1, <<4>>>>, <<1, <<8, 6, 8>>>>,
                  <<2, <<2, 2>>>>, <<2, <<9>>>>, <<3, <<2>>>>, <<4, <<5>>>>, <<4, <<11>>>>,
                  <<5, <<4>>>>, <<6, <<10, 7>>>>, <<6, <<10>>>>, <<7, <<6>>>> >>]

\* Right recursion through a unit rule with a nulled symbol at the end:
\*   S ::= X;  X ::= a Y n | a;  Y ::= X.   NSYs: 0 S', 1 S, 2 X, 3 Y, 4 n, 5 a.
NulledEnd ==
    [nsys |-> 6, nulling |-> {4}, terminals |-> {5},
     rules |-> << <<0, <<1>>>>, <<1, <<2>>>>, <<2, <<5, 3, 4>>>>, <<2, <<5>>>>, <<3, <<2>>>> >>]

G == CASE GrammarName = "ambiguous" -> Ambiguous
       [] GrammarName = "nulled end" -> NulledEnd

MC_NSY_Count == G.nsys
MC_IRL_Count == Len(G.rules)
MC_LHSID_of_IRL == [i \in 0 .. Len(G.rules) - 1 |-> G.rules[i + 1][1]]
MC_RHS_of_IRL == [i \in 0 .. Len(G.rules) - 1 |-> G.rules[i + 1][2]]
MC_NullingNSYs == G.nulling
MC_XSYs == 1 .. G.nsys - 1
MC_TerminalXSYs == G.terminals
MC_Source_XSY_of_NSY == [n \in 0 .. G.nsys - 1 |-> IF n = 0 THEN 1 ELSE n]
MC_NSY_of_XSY == [x \in 1 .. G.nsys - 1 |-> x]
MC_NulledXSYs == [x \in 1 .. G.nsys - 1 |-> {}]
MC_ZWA_CIL_of_IRL == [i \in 0 .. Len(G.rules) - 1 |-> {}]
NoZWAs == [z \in {} |-> TRUE]

\* No rule is split; n has an empty rule.
MC_External ==
    [symbols |-> G.nsys, start |-> 1, locked |-> {}, terminals |-> {},
     rules |-> [r \in 1 .. Len(G.rules) - 1 |-> W!BNF(G.rules[r + 1][1], G.rules[r + 1][2])]
               \o [k \in 1 .. 1 |-> W!BNF(CHOOSE n \in G.nulling : TRUE, <<>>)]]
MC_Source_XRL_of_IRL == [i \in 0 .. Len(G.rules) - 1 |-> i]
MC_Virtual_Start_of_IRL == [i \in 0 .. Len(G.rules) - 1 |-> -1]

\* E ::= E E and C ::= D have a higher rank than the other rules.
MC_Rank_of_IRL == [i \in 0 .. Len(G.rules) - 1 |-> IF i \in {5, 8} THEN 1 ELSE 0]
MC_Rank_of_NSY == [n \in 0 .. G.nsys - 1 |-> 0]

\* The theorems on the bocage and the tree are about the first grammar, and not
\* about the second.
ASSUME LeoRulesEndProper <=> GrammarName = "ambiguous"

-----------------------------------------------------------------------------
forest_vars == <<vars, progress, bocage, order, tree, t_returned, promised>>

MCInit == Init /\ ProgressInit /\ BocageInit /\ TreeInit /\ PromiseInit

\* Bounds: one symbol is read in an input; a bocage is taken when no token
\* is pending; the order is done with before there is a tree, and the
\* application asks it for its metric or makes a tree of it, not both.
ReadsExpected ==
    \/ StartInput
    \/ \E x \in TerminalXSYs, v \in TokenValues, length \in TokenLengths :
          /\ \A t \in tokens : t.nsy = NSY_of_XSY[x]
          /\ Alternative(x, v, length)
    \/ EarlemeCompleteEmpty \/ EarlemeCompleteBegins \/ EarlemeCompleteSteps

\* Bounds: a report is made while no token is pending and is over when the
\* application goes on.
MCNext ==
    \/ /\ b_pc = "none" /\ ProgressInit /\ ReadsExpected
       /\ UNCHANGED <<progress, bocage, order, tree, t_returned, promised>>
    \/ /\ b_pc = "none" /\ alternatives = <<>> /\ ProgressCalls
       /\ UNCHANGED <<vars, bocage, order, tree, t_returned, promised>>
    \/ /\ ProgressInit /\ alternatives = <<>> /\ BocageCalls
       /\ UNCHANGED <<vars, progress, order, tree, t_returned, promised>>
    \/ BocageSteps /\ UNCHANGED <<vars, progress, order, tree, t_returned, promised>>
    \/ t_pc = "none" /\ OrderCalls /\ UNCHANGED <<vars, progress, bocage, promised>>
    \/ o_metric = -1 /\ TreeCalls /\ Promises /\ UNCHANGED <<vars, progress, bocage>>
    \/ TreeSteps /\ UNCHANGED <<vars, progress, bocage, promised>>

MCSpec == MCInit /\ [][MCNext]_forest_vars

\* A call that has begun runs to its end.
MCFairSpec ==
    /\ MCSpec
    /\ WF_forest_vars(EarlemeCompleteSteps /\ UNCHANGED <<progress, bocage, order, tree, t_returned, promised>>)
    /\ WF_forest_vars(BocageSteps /\ UNCHANGED <<vars, progress, order, tree, t_returned, promised>>)
    /\ WF_forest_vars(TreeSteps /\ UNCHANGED <<vars, progress, bocage, promised>>)
=============================================================================
