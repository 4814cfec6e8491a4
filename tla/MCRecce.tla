------------------------------- MODULE MCRecce -------------------------------
(***************************************************************************)
(* Small grammars for the recognizer, as marpa_g_precompute leaves them:   *)
(* rule 0 is the start rule that the augmentation adds.                    *)
(***************************************************************************)
EXTENDS EarleyReference, TLC

CONSTANT GrammarName

\* Right recursion behind unit rules, with a nulled symbol at the end of the
\* recursive rule:  S ::= X;  X ::= A Y n | b;  Y ::= X;  A ::= a.
\* NSYs: 0 S', 1 S, 2 X, 3 Y, 4 a, 5 b, 6 n, 7 A.
RightRecursive ==
    [nsys |-> 8, nulling |-> {6}, start |-> 0, virtual |-> {0},
     rules |-> << <<0, <<1>>>>, <<1, <<2>>>>, <<2, <<7, 3, 6>>>>, <<2, <<5>>>>, <<3, <<2>>>>,
                  <<7, <<4>>>> >>,
     xsys |-> 1 .. 7, terminals |-> {4, 5}, source |-> <<1, 1, 2, 3, 4, 5, 6, 7>>,
     nulled |-> <<{}, {}, {}, {}, {}, {6}, {}>>, zwas |-> <<{}, {}, {}, {}, {}, {}>>]

\* Ambiguity and a cycle:  S ::= S S | A;  A ::= B | a;  B ::= A.
\* NSYs: 0 S', 1 S, 2 A, 3 B, 4 a.
Cyclic ==
    [nsys |-> 5, nulling |-> {}, start |-> 0, virtual |-> {0},
     rules |-> << <<0, <<1>>>>, <<1, <<1, 1>>>>, <<1, <<2>>>>, <<2, <<3>>>>, <<2, <<4>>>>,
                  <<3, <<2>>>> >>,
     xsys |-> 1 .. 4, terminals |-> {4}, source |-> <<1, 1, 2, 3, 4>>,
     nulled |-> <<{}, {}, {}, {}>>, zwas |-> <<{}, {}, {}, {}, {}, {}>>]

\* A token grammar with an assertion before one rule, and a symbol (4) that
\* is inaccessible:  S ::= a S | (assertion 1) b.
\* NSYs: 0 S', 1 S, 2 a, 3 b.
Asserted ==
    [nsys |-> 4, nulling |-> {}, start |-> 0, virtual |-> {0},
     rules |-> << <<0, <<1>>>>, <<1, <<2, 1>>>>, <<1, <<3>>>> >>,
     xsys |-> 1 .. 4, terminals |-> {2, 3, 4}, source |-> <<1, 1, 2, 3>>,
     nulled |-> <<{}, {}, {}, {}>>, zwas |-> <<{}, {}, {1}>>]

\* A grammar that accepts the null string only; symbol 2 is nulled by S.
Trivial ==
    [nsys |-> 2, nulling |-> {0, 1}, start |-> NoIRL, virtual |-> {},
     rules |-> <<>>, xsys |-> 1 .. 2, terminals |-> {}, source |-> <<1, 2>>,
     nulled |-> <<{1, 2}, {2}>>, zwas |-> <<>>]

G == CASE GrammarName = "right recursive" -> RightRecursive
       [] GrammarName = "cyclic" -> Cyclic
       [] GrammarName = "asserted" -> Asserted
       [] GrammarName = "trivial" -> Trivial

MC_NSY_Count == G.nsys
MC_IRL_Count == Len(G.rules)
MC_LHSID_of_IRL == [i \in 0 .. Len(G.rules) - 1 |-> G.rules[i + 1][1]]
MC_RHS_of_IRL == [i \in 0 .. Len(G.rules) - 1 |-> G.rules[i + 1][2]]
MC_NullingNSYs == G.nulling
MC_StartIRL == G.start
MC_VirtualLHS == G.virtual
MC_XSYs == G.xsys
MC_TerminalXSYs == G.terminals
MC_Source_XSY_of_NSY == [n \in 0 .. G.nsys - 1 |-> G.source[n + 1]]
MC_NSY_of_XSY ==
    [x \in G.xsys |->
        IF \E n \in 1 .. G.nsys - 1 : G.source[n + 1] = x
        THEN CHOOSE n \in 1 .. G.nsys - 1 : G.source[n + 1] = x ELSE NoNSY]
MC_NulledXSYs == [x \in G.xsys |-> G.nulled[x]]
MC_ZWAs == UNION {G.zwas[i] : i \in 1 .. Len(G.zwas)}
MC_ZWA_CIL_of_IRL == [i \in 0 .. Len(G.rules) - 1 |-> G.zwas[i + 1]]
AllZWAsPass == [z \in MC_ZWAs |-> TRUE]
=============================================================================
