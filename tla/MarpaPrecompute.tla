---------------------------- MODULE MarpaPrecompute ----------------------------
(***************************************************************************)
(* A grammar object from its creation to its precomputation: the calls     *)
(* that build it, and marpa_g_precompute with its checks and its error     *)
(* exits, the result of which is the census and the internal rules.        *)
(* Events are a set here: their order is the order of the symbols.         *)
(***************************************************************************)
EXTENDS MarpaRewrite

CONSTANTS
    MaxSymbols,          \* bound: the symbols an application makes
    MaxRules,            \* bound: the rules an application makes
    LeftSides,           \* the left sides of rules an application passes
    RightSides,          \* the right sides of BNF rules
    SequenceArguments    \* the <<item, separator, min, proper>> of sequences

ASSUME PrecomputeAssumption ==
    /\ MaxSymbols \in Nat /\ MaxRules \in Nat
    /\ LeftSides \subseteq Nat /\ RightSides \subseteq Seq(Nat)
    /\ SequenceArguments \subseteq Nat \X (Nat \cup {NoXSY}) \X Int \X BOOLEAN

VARIABLES
    external,            \* symbols, rules, start, locked and terminals
    is_precomputed, has_cycle,
    irrecoverable,       \* precomputation failed after its first phase began
    post_census_xsy_count, census, irls,    \* its result
    g_events, g_error

census_vars == <<post_census_xsy_count, census, irls>>
g_vars == <<external, is_precomputed, has_cycle, irrecoverable, census_vars, g_events, g_error>>

EmptyCensus == [terminal |-> {}, nullable |-> {}, productive |-> {}, accessible |-> {}, nulling |-> {}]

GrammarInit ==
    /\ external = [symbols |-> 0, rules |-> <<>>, start |-> NoXSY, locked |-> {}, terminals |-> {}]
    /\ is_precomputed = FALSE /\ has_cycle = FALSE /\ irrecoverable = FALSE
    /\ post_census_xsy_count = -1 /\ census = EmptyCensus /\ irls = <<>>
    /\ g_events = {} /\ g_error = "NONE"

\* A call that has no effect but its error code.
GrammarError(code) ==
    /\ g_error' = code
    /\ UNCHANGED <<external, is_precomputed, has_cycle, irrecoverable, census_vars, g_events>>

\* A call that changes the external grammar alone.
Construct(e) ==
    /\ external' = e
    /\ UNCHANGED <<is_precomputed, has_cycle, irrecoverable, census_vars, g_events, g_error>>

XSY_is_LHS(x) == \E r \in XRLs_of(external) : external.rules[r].lhs = x
XSY_is_Sequence_LHS(x) ==
    \E r \in XRLs_of(external) : external.rules[r].sequence /\ external.rules[r].lhs = x

-----------------------------------------------------------------------------
(* Construction *)

\* Precomputation does not end the making of symbols.
SymbolNew ==
    /\ external.symbols < MaxSymbols
    /\ Construct([external EXCEPT !.symbols = @ + 1])

xsy_ids_are_valid(S) == S \subseteq XSYs_of(external)

RuleNew(lhs, rhs) ==
    LET rule == BNF(lhs, rhs)
        valid == xsy_ids_are_valid({lhs} \cup RHSOf(rule))
        duplicate == \E r \in XRLs_of(external) :
                        external.rules[r].lhs = lhs /\ external.rules[r].rhs = rhs
    IN  \/ is_precomputed /\ GrammarError("PRECOMPUTED")
        \/ ~ is_precomputed /\ ~ valid /\ GrammarError("INVALID_SYMBOL_ID")
        \/ /\ ~ is_precomputed /\ valid /\ XSY_is_Sequence_LHS(lhs)
           /\ GrammarError("SEQUENCE_LHS_NOT_UNIQUE")
        \/ /\ ~ is_precomputed /\ valid /\ ~ XSY_is_Sequence_LHS(lhs) /\ duplicate
           /\ GrammarError("DUPLICATE_RULE")
        \/ /\ ~ is_precomputed /\ valid /\ ~ XSY_is_Sequence_LHS(lhs) /\ ~ duplicate
           /\ Len(external.rules) < MaxRules
           /\ Construct([external EXCEPT !.rules = Append(@, rule)])

SequenceNew(lhs, item, separator, min, proper) ==
    LET rule == SequenceOf(lhs, item, separator, min, proper)
    IN  \/ is_precomputed /\ GrammarError("PRECOMPUTED")
        \/ /\ ~ is_precomputed /\ ~ xsy_ids_are_valid(SeparatorOf(rule))
           /\ GrammarError("BAD_SEPARATOR")
        \/ /\ ~ is_precomputed /\ xsy_ids_are_valid(SeparatorOf(rule))
           /\ \/ ~ xsy_ids_are_valid({lhs})
              \/ ~ XSY_is_LHS(lhs) /\ ~ xsy_ids_are_valid({item})
           /\ GrammarError("INVALID_SYMBOL_ID")
        \/ /\ ~ is_precomputed /\ xsy_ids_are_valid({lhs} \cup SeparatorOf(rule)) /\ XSY_is_LHS(lhs)
           /\ GrammarError("SEQUENCE_LHS_NOT_UNIQUE")
        \/ /\ ~ is_precomputed /\ xsy_ids_are_valid({lhs, item} \cup SeparatorOf(rule))
           /\ ~ XSY_is_LHS(lhs)
           /\ Len(external.rules) < MaxRules
           /\ Construct([external EXCEPT !.rules = Append(@, rule)])

\* A start symbol that does not exist is a soft failure.
StartSymbolSet(x) ==
    \/ is_precomputed /\ GrammarError("PRECOMPUTED")
    \/ ~ is_precomputed /\ x \notin XSYs_of(external) /\ GrammarError("NO_SUCH_SYMBOL_ID")
    \/ /\ ~ is_precomputed /\ x \in XSYs_of(external)
       /\ Construct([external EXCEPT !.start = x])

\* The first call decides; a second one may repeat its value.
SymbolIsTerminalSet(x, value) ==
    LET decided == x \in external.locked /\ (x \in external.terminals) # value
    IN  \/ is_precomputed /\ GrammarError("PRECOMPUTED")
        \/ /\ ~ is_precomputed /\ x \notin XSYs_of(external)
           /\ GrammarError("NO_SUCH_SYMBOL_ID")
        \/ /\ ~ is_precomputed /\ x \in XSYs_of(external) /\ decided
           /\ GrammarError("TERMINAL_IS_LOCKED")
        \/ /\ ~ is_precomputed /\ x \in XSYs_of(external) /\ ~ decided
           /\ Construct([external EXCEPT !.locked = @ \cup {x},
                                         !.terminals = IF value THEN @ \cup {x} ELSE @])

-----------------------------------------------------------------------------
(* marpa_g_precompute *)

Event(type, value) == [type |-> type, value |-> value]

\* The event of a symbol that "Census nullable symbols" or "Census nulling
\* symbols" does not accept.
CountedNullables(c) == c.nullable \cap counted(external)
NullingTerminals(c) == c.nulling \cap c.terminal

\* The code an error exit sets, in the order of the checks; the errors of the
\* second list leave the grammar half rewritten.
EarlyVerdict ==
    CASE external.rules = <<>> -> "NO_RULES"
      [] external.rules # <<>> /\ is_precomputed -> "PRECOMPUTED"
      [] external.rules # <<>> /\ ~ is_precomputed /\ external.start = NoXSY -> "NO_START_SYMBOL"
      [] /\ external.rules # <<>> /\ ~ is_precomputed /\ external.start # NoXSY
         /\ ~ XSY_is_LHS(external.start) -> "START_NOT_LHS"
      [] OTHER -> "NONE"

CensusVerdict(c) ==
    CASE CountedNullables(c) # {} -> "COUNTED_NULLABLE"
      [] CountedNullables(c) = {} /\ external.start \notin c.productive -> "UNPRODUCTIVE_START"
      [] /\ CountedNullables(c) = {} /\ external.start \in c.productive
         /\ NullingTerminals(c) # {} -> "NULLING_TERMINAL"
      [] OTHER -> "NONE"

PrecomputeRefused ==
    /\ EarlyVerdict # "NONE"
    /\ g_events' = {} /\ g_error' = EarlyVerdict
    /\ UNCHANGED <<external, is_precomputed, has_cycle, irrecoverable, census_vars>>

\* The census is of use to nobody then.
PrecomputeFails ==
    LET c == CensusOf(external)
    IN  /\ EarlyVerdict = "NONE" /\ CensusVerdict(c) # "NONE"
        /\ g_events' = {Event("COUNTED_NULLABLE", x) : x \in CountedNullables(c)}
                       \cup {Event("NULLING_TERMINAL", x) :
                               x \in IF CensusVerdict(c) = "NULLING_TERMINAL"
                                     THEN NullingTerminals(c) ELSE {}}
        /\ g_error' = CensusVerdict(c) /\ irrecoverable' = TRUE
        /\ UNCHANGED <<external, is_precomputed, has_cycle, census_vars>>

\* A grammar with a cycle is precomputed, though the call fails.
PrecomputeEnds ==
    LET c == CensusOf(external)
        loops == LoopRules(external, c)
    IN  /\ EarlyVerdict = "NONE" /\ CensusVerdict(c) = "NONE"
        /\ post_census_xsy_count' = external.symbols
        /\ census' = c /\ irls' = Rewrite(external, c)
        /\ is_precomputed' = TRUE /\ has_cycle' = (loops # {})
        /\ g_events' = {Event("LOOP_RULES", n) : n \in {Cardinality(loops)} \ {0}}
        /\ g_error' = IF loops # {} THEN "GRAMMAR_HAS_CYCLE" ELSE g_error
        /\ UNCHANGED <<external, irrecoverable>>

-----------------------------------------------------------------------------
ConstructionCalls ==
    \/ SymbolNew
    \/ \E lhs \in LeftSides, rhs \in RightSides : RuleNew(lhs, rhs)
    \/ \E lhs \in LeftSides, a \in SequenceArguments : SequenceNew(lhs, a[1], a[2], a[3], a[4])
    \/ \E x \in 0 .. MaxSymbols : StartSymbolSet(x)
    \/ \E x \in 0 .. MaxSymbols, value \in BOOLEAN : SymbolIsTerminalSet(x, value)

PrecomputeCalls == PrecomputeRefused \/ PrecomputeFails \/ PrecomputeEnds

\* An application does not go on with a grammar left half rewritten.
GrammarNext == ~ irrecoverable /\ (ConstructionCalls \/ PrecomputeCalls)

GrammarSpec == GrammarInit /\ [][GrammarNext]_g_vars
=============================================================================
