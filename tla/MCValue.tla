------------------------------- MODULE MCValue -------------------------------
(***************************************************************************)
(* From an external grammar to the values of its parses: the grammar is    *)
(* rewritten as marpa_g_precompute does, read into an Earley chart, made   *)
(* into a bocage, and each of its trees is valued.  The properties of the  *)
(* valuator are about the external rules, so all of these must agree.      *)
(***************************************************************************)
EXTENDS MarpaValue, ReportReference, TLC

W == INSTANCE MarpaRewrite

CONSTANT ReadsUpTo       \* bound: the earlemes an application reads

ASSUME ReadsUpTo \in Nat

(* S ::= N Q N;  Q ::= A*, separated by s, with or without a final separator;
   A ::= N a N N;  N ::= b | (nothing).  The rules of S and A are split, the
   pieces of an A inside the pieces of the S, and the N's are ambiguous.
   XSYs: 0 S, 1 N, 2 Q, 3 A, 4 a, 5 b, 6 s. *)
MC_External ==
    [symbols |-> 7, start |-> 0, locked |-> {}, terminals |-> {},
     rules |-> << W!BNF(0, <<1, 2, 1>>), W!SequenceOf(2, 3, 6, 0, FALSE),
                  W!BNF(3, <<1, 4, 1, 1>>), W!BNF(1, <<5>>), W!BNF(1, <<>>) >>]

(* The grammar that it is rewritten to: the names of the NSYs, and for each
   IRL its LHS, RHS, source, count of real symbols, and whether its LHS and
   its RHS are virtual. *)
NSYNames ==
    << W!NSY("start", 0, 0, 0), W!NSY("proper", 0, 0, 0), W!NSY("proper", 1, 0, 0),
       W!NSY("proper", 2, 0, 0), W!NSY("proper", 3, 0, 0), W!NSY("proper", 4, 0, 0),
       W!NSY("proper", 5, 0, 0), W!NSY("proper", 6, 0, 0), W!NSY("nulled", 1, 0, 0),
       W!NSY("nulled", 2, 0, 0), W!NSY("virtual", 0, 1, 2), W!NSY("virtual", 2, 2, 1),
       W!NSY("virtual", 3, 3, 3) >>

Internal ==
    << <<1, <<2, 10>>, 1, 1, FALSE, TRUE>>, <<1, <<2, 9, 8>>, 1, 3, FALSE, FALSE>>,
       <<1, <<8, 10>>, 1, 1, FALSE, TRUE>>, <<10, <<3, 2>>, 1, 2, TRUE, FALSE>>,
       <<10, <<3, 8>>, 1, 2, TRUE, FALSE>>, <<10, <<9, 2>>, 1, 2, TRUE, FALSE>>,
       <<3, <<11>>, 2, 0, FALSE, TRUE>>, <<3, <<11, 7>>, 2, 1, FALSE, TRUE>>,
       <<11, <<4>>, 2, 1, TRUE, FALSE>>, <<11, <<11, 7, 4>>, 2, 2, TRUE, TRUE>>,
       <<4, <<2, 5, 12>>, 3, 2, FALSE, TRUE>>, <<4, <<2, 5, 8, 8>>, 3, 4, FALSE, FALSE>>,
       <<4, <<8, 5, 12>>, 3, 2, FALSE, TRUE>>, <<4, <<8, 5, 8, 8>>, 3, 4, FALSE, FALSE>>,
       <<12, <<2, 2>>, 3, 2, TRUE, FALSE>>, <<12, <<2, 8>>, 3, 2, TRUE, FALSE>>,
       <<12, <<8, 2>>, 3, 2, TRUE, FALSE>>, <<2, <<6>>, 4, 0, FALSE, FALSE>>,
       <<0, <<1>>, 0, 1, TRUE, FALSE>> >>

InternalGrammarIsRewritten ==
    LET census == W!CensusOf(MC_External)
        irls == W!Rewrite(MC_External, census)
        Name(n) == NSYNames[n + 1]
    IN  /\ [i \in DOMAIN irls |-> <<irls[i].lhs, irls[i].rhs, irls[i].source, irls[i].real,
                                    irls[i].virtual_lhs, irls[i].virtual_rhs>>]
             = [i \in DOMAIN Internal |->
                  <<Name(Internal[i][1]), [k \in DOMAIN Internal[i][2] |-> Name(Internal[i][2][k])],
                    Internal[i][3], Internal[i][4], Internal[i][5], Internal[i][6]>>]
        /\ \A x \in XSYs : NSYNames[NSY_of_XSY[x] + 1] = W!NSY_of(census, x)
        /\ TerminalXSYs = census.terminal /\ NullableStart = (0 \in census.nullable)
        /\ NulledXSYs = W!Nulled_XSYIDs_of_XSY(MC_External, census)

ASSUME InternalGrammarIsRewritten

\* The theorems on the bocage, the tree and the valuator are about the grammar.
ASSUME LeoRulesEndProper

MC_NSY_Count == Len(NSYNames)
MC_IRL_Count == Len(Internal)
MC_LHSID_of_IRL == [i \in 0 .. Len(Internal) - 1 |-> Internal[i + 1][1]]
MC_RHS_of_IRL == [i \in 0 .. Len(Internal) - 1 |-> Internal[i + 1][2]]
MC_Source_XRL_of_IRL == [i \in 0 .. Len(Internal) - 1 |-> Internal[i + 1][3]]
MC_Virtual_Start_of_IRL ==
    [i \in 0 .. Len(Internal) - 1 |->
        LET irl == Internal[i + 1]
            splits == {r \in {1, 3} : r = irl[3]}     \* the rules that are split
        IN  IF splits = {} THEN -1
            ELSE IF irl[5] THEN NSYNames[irl[1] + 1].position - 1 ELSE 0]
MC_Real_SYM_Count_of_IRL == [i \in 0 .. Len(Internal) - 1 |-> Internal[i + 1][4]]
MC_VirtualLHS == {i \in 0 .. Len(Internal) - 1 : Internal[i + 1][5]}
MC_VirtualRHS == {i \in 0 .. Len(Internal) - 1 : Internal[i + 1][6]}
MC_ZWA_CIL_of_IRL == [i \in 0 .. Len(Internal) - 1 |-> {}]
MC_Rank_of_IRL == [i \in 0 .. Len(Internal) - 1 |-> 0]
MC_Rank_of_NSY == [n \in 0 .. Len(NSYNames) - 1 |-> 0]
MC_NullingNSYs == {8, 9}
MC_XSYs == 0 .. 6
MC_TerminalXSYs == {4, 5, 6}
MC_NSY_of_XSY == [x \in 0 .. 6 |-> x + 1]
MC_Source_XSY_of_NSY == [n \in 0 .. Len(NSYNames) - 1 |-> NSYNames[n + 1].xsy]
MC_NulledXSYs == [x \in 0 .. 6 |-> CASE x = 0 -> {0, 1, 2, 3} [] x = 2 -> {2, 3} [] OTHER -> {x} \cap {1}]
NoZWAs == [z \in {} |-> TRUE]

-----------------------------------------------------------------------------
value_vars == <<vars, progress, bocage, order, tree, t_returned, valuator>>

MCInit == Init /\ ProgressInit /\ BocageInit /\ TreeInit /\ ValueInit

\* Bounds: one token is read at an earleme, of those that are expected, and
\* no more than ReadsUpTo.
ReadsExpected ==
    \/ StartInput
    \/ /\ alternatives = <<>> /\ current_earleme < ReadsUpTo
       /\ \E x \in TerminalXSYs, value \in TokenValues, length \in TokenLengths :
             Alternative(x, value, length)
    \/ alternatives # <<>> /\ (EarlemeCompleteEmpty \/ EarlemeCompleteBegins)
    \/ EarlemeCompleteSteps

\* Bounds: one bocage, and one tree, with the default order.  The application
\* says that N is valued or unvalued, or forces all symbols, before the first
\* step; it begins to value each parse, steps to the end, and goes on to the next.
ValuesEach ==
    \/ ValueNew \/ (ValueUnref /\ v_next = "INACTIVE")
    \/ v_next = "INITIAL" /\ v_locked = b_locked /\ \E value \in BOOLEAN : SymbolIsValuedSet(1, value)
    \/ v_next = "INITIAL" /\ v_locked # XSYs /\ ValuedForce
    \/ StepBegins

\* Bounds: a report is made while no token is pending and is over when the
\* application goes on.
MCNext ==
    \/ /\ b_pc = "none" /\ ProgressInit /\ ReadsExpected
       /\ UNCHANGED <<progress, bocage, order, tree, t_returned, valuator>>
    \/ /\ b_pc = "none" /\ alternatives = <<>> /\ ProgressCalls
       /\ UNCHANGED <<vars, bocage, order, tree, t_returned, valuator>>
    \/ /\ ProgressInit /\ alternatives = <<>> /\ BocageCalls
       /\ UNCHANGED <<vars, progress, order, tree, t_returned, valuator>>
    \/ BocageSteps /\ UNCHANGED <<vars, progress, order, tree, t_returned, valuator>>
    \/ v_pc \in {"none", "idle"} /\ TreeCalls /\ UNCHANGED <<vars, progress, bocage, valuator>>
    \/ TreeSteps /\ UNCHANGED <<vars, progress, bocage, valuator>>
    \/ (ValuesEach \/ ValueSteps) /\ UNCHANGED <<vars, progress, bocage, order, t_returned>>

MCSpec == MCInit /\ [][MCNext]_value_vars
=============================================================================
