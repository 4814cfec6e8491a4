---------------------------- MODULE MarpaRewrite ----------------------------
(***************************************************************************)
(* What marpa_g_precompute computes: the census of the external grammar,   *)
(* which finds the symbols and rules that are of use, and the rewrite of   *)
(* the rules of use (XRLs) into internal rules (IRLs) over internal        *)
(* symbols (NSYs).  Sequences become left recursions, a rule with symbols  *)
(* that may or may not be nulled becomes variants of pieces of it (the     *)
(* CHAF form), and the start symbol gets a start rule.                     *)
(*                                                                         *)
(* An external grammar g is a record: its XSYs are 0 .. g.symbols - 1,     *)
(* g.rules is a sequence of rules, g.start the start symbol, g.locked the  *)
(* symbols whose terminal status the application set, g.terminals those of *)
(* them that it set to 1.  Rules are numbered from 1, and so are the       *)
(* positions of their right sides.                                         *)
(***************************************************************************)
EXTENDS Integers, Sequences, FiniteSets, SequencesExt

NoXSY == -1

\* A BNF rule, and a sequence of items with a separator or NoXSY.
BNF(lhs, rhs) ==
    [lhs |-> lhs, rhs |-> rhs, sequence |-> FALSE, min |-> 1, separator |-> NoXSY,
     proper |-> FALSE, rank |-> 0, null_ranks_high |-> FALSE]
SequenceOf(lhs, item, separator, min, proper) ==
    [BNF(lhs, <<item>>) EXCEPT !.sequence = TRUE, !.min = min, !.separator = separator,
                               !.proper = proper]

XSYs_of(g) == 0 .. g.symbols - 1
XRLs_of(g) == DOMAIN g.rules
RHSOf(rule) == {rule.rhs[i] : i \in DOMAIN rule.rhs}
SeparatorOf(rule) == {rule.separator} \ {NoXSY}

-----------------------------------------------------------------------------
(* The census *)

\* What must have a property for the LHS to get it: the RHS, and the separator
\* of a sequence that is never of one item.
RequiredOf(rule) ==
    RHSOf(rule) \cup (IF rule.sequence /\ rule.min >= 2 THEN SeparatorOf(rule) ELSE {})

\* Mutant: a symbol that is added is not looked for on the right sides again.
rhs_closure_once(g, S) ==
    S \cup {g.rules[r].lhs : r \in {q \in XRLs_of(g) :
               g.rules[q].rhs # <<>> /\ RequiredOf(g.rules[q]) \subseteq S}}

\* The symbols of S, and those on the LHS of a rule whose RHS is all of them.
rhs_closure(g, S) ==
    LET closed[n \in 0 .. g.symbols] ==
          IF n = 0 THEN S
          ELSE LET prior == closed[n - 1]
               IN  prior \cup {g.rules[r].lhs : r \in {q \in XRLs_of(g) :
                        g.rules[q].rhs # <<>> /\ RequiredOf(g.rules[q]) \subseteq prior}}
    IN  closed[g.symbols]

\* Warshall's algorithm on a relation over 0 .. n - 1.
closure_of(R, n) ==
    LET closed[k \in 0 .. n] ==
          IF k = 0 THEN R
          ELSE LET prior == closed[k - 1]
               IN  prior \cup {e \in (0 .. n - 1) \X (0 .. n - 1) :
                                 <<e[1], k - 1>> \in prior /\ <<k - 1, e[2]>> \in prior}
    IN  closed[n]

counted(g) ==
    UNION {RHSOf(g.rules[r]) \cup SeparatorOf(g.rules[r]) :
             r \in {q \in XRLs_of(g) : g.rules[q].sequence}}

\* "Census symbols" to "Census nulling symbols"
CensusOf(g) ==
    LET lhs == {g.rules[r].lhs : r \in XRLs_of(g)}
        empty_lhs == {g.rules[r].lhs : r \in {q \in XRLs_of(g) :
                        g.rules[q].rhs = <<>> \/ (g.rules[q].sequence /\ g.rules[q].min <= 0)}}
        terminal == {x \in XSYs_of(g) : IF x \in g.locked THEN x \in g.terminals ELSE x \notin lhs}
        nullable == rhs_closure(g, empty_lhs)
        reach == closure_of(UNION {{g.rules[r].lhs}
                                     \X (RHSOf(g.rules[r]) \cup SeparatorOf(g.rules[r])) :
                                     r \in XRLs_of(g)}, g.symbols)
    IN  [terminal |-> terminal,
         nullable |-> nullable,
         productive |-> rhs_closure(g, nullable \cup terminal),
         accessible |-> {g.start} \cup {x \in XSYs_of(g) : <<g.start, x>> \in reach},
         nulling |-> {x \in lhs : \A t \in terminal : <<x, t>> \notin reach}]

\* "Classify rules"
XRL_is_Nullable(c, rule) ==
    (rule.sequence /\ rule.min <= 0) \/ RHSOf(rule) \subseteq c.nullable

XRL_is_Nulling(c, rule) == RHSOf(rule) \cup SeparatorOf(rule) \subseteq c.nulling

XRL_is_Productive(c, rule) ==
    IF rule.sequence
    THEN \/ XRL_is_Nullable(c, rule)
         \/ RHSOf(rule) \cup SeparatorOf(rule) \subseteq c.productive
    ELSE RHSOf(rule) \subseteq c.productive

XRL_is_Used(c, rule) ==
    /\ rule.lhs \in c.accessible
    /\ RHSOf(rule) \cup SeparatorOf(rule) \subseteq c.productive
    /\ ~ XRL_is_Nulling(c, rule)

\* "Populate nullification CILs": the symbols nulled when a symbol is.
Nulled_XSYIDs_of_XSY(g, c) ==
    LET nullified ==
          closure_of({<<x, x>> : x \in c.nullable}
                     \cup UNION {{g.rules[r].lhs} \X RHSOf(g.rules[r]) :
                            r \in {q \in XRLs_of(g) : XRL_is_Nullable(c, g.rules[q])}}, g.symbols)
    IN  [x \in XSYs_of(g) |-> {y \in XSYs_of(g) : <<x, y>> \in nullified}]

\* Mutant: only the rules whose RHS is one symbol are unit rules.
UnitSymbols_length_1(c, rule) == IF Len(rule.rhs) = 1 THEN RHSOf(rule) ELSE {}

\* "Mark direct unit transitions": the one symbol of a rule that is not
\* nullable, or else each that is not nulling.
UnitSymbols(c, rule) ==
    LET nonnullable == {i \in DOMAIN rule.rhs : rule.rhs[i] \notin c.nullable}
    IN  CASE Cardinality(nonnullable) = 1 -> {rule.rhs[i] : i \in nonnullable}
          [] Cardinality(nonnullable) = 0 -> RHSOf(rule) \ c.nulling
          [] OTHER -> {}

\* "Detect cycles": the rules that derive themselves.
LoopRules(g, c) ==
    LET n == Len(g.rules)
        unit == {e \in (0 .. n - 1) \X (0 .. n - 1) :
                   g.rules[e[2] + 1].lhs \in UnitSymbols(c, g.rules[e[1] + 1])}
        transitions == closure_of(unit, n)
    IN  {r \in XRLs_of(g) : <<r - 1, r - 1>> \in transitions}

-----------------------------------------------------------------------------
(* Internal symbols and rules.  An NSY is named for what it is made for: an
   XSY, an XSY that is nulled, the rest of a rule from a position on, or the
   start symbol's augment.  A sequence's virtual symbol is at position 1. *)

NSY(kind, xsy, rule, position) ==
    [kind |-> kind, xsy |-> xsy, rule |-> rule, position |-> position]

Nulling_NSY(x) == NSY("nulled", x, 0, 0)

\* A nulling symbol has one NSY, a proper nullable symbol has two.
NSY_of(c, x) == IF x \in c.nulling THEN Nulling_NSY(x) ELSE NSY("proper", x, 0, 0)

VirtualNSY(g, r, position) == NSY("virtual", g.rules[r].lhs, r, position)

MAXIMUM_CHAF_RANK == 3
IRL_CHAF_Rank_by_XRL(rule, chaf_rank) ==
    rule.rank * 4 + (IF rule.null_ranks_high THEN MAXIMUM_CHAF_RANK - chaf_rank ELSE chaf_rank)

NewIRL(g, r, lhs, rhs, real, virtual_lhs, virtual_rhs, chaf_rank) ==
    [lhs |-> lhs, rhs |-> rhs, source |-> r, real |-> real, virtual_lhs |-> virtual_lhs,
     virtual_rhs |-> virtual_rhs, rank |-> IRL_CHAF_Rank_by_XRL(g.rules[r], chaf_rank)]

\* "Rewrite sequence rule into BNF"
SequenceIRLs(g, c, r) ==
    LET rule == g.rules[r]
        lhs == NSY_of(c, rule.lhs)
        internal == VirtualNSY(g, r, 1)
        item == NSY_of(c, rule.rhs[1])
        separator == IF rule.separator = NoXSY THEN <<>> ELSE <<NSY_of(c, rule.separator)>>
        New(l, rhs, real, vl, vr) == NewIRL(g, r, l, rhs, real, vl, vr, MAXIMUM_CHAF_RANK)
    IN  <<New(lhs, <<internal>>, 0, FALSE, TRUE)>>
        \o (IF separator = <<>> \/ rule.proper THEN <<>>
            ELSE <<New(lhs, <<internal>> \o separator, 1, FALSE, TRUE)>>)
        \o <<New(internal, <<item>>, 1, TRUE, FALSE),
             New(internal, <<internal>> \o separator \o <<item>>, Len(separator) + 1, TRUE, TRUE)>>

-----------------------------------------------------------------------------
(* The CHAF form *)

\* "Calculate CHAF rule statistics": the positions of the proper nullable
\* symbols, in order, and the last position that is not nullable, or 0.
FactorPositions(c, rule) ==
    LET factors == {i \in DOMAIN rule.rhs : rule.rhs[i] \in c.nullable \ c.nulling}
    IN  CHOOSE s \in [1 .. Cardinality(factors) -> factors] :
           \A i, j \in DOMAIN s : i < j => s[i] < s[j]

nullable_suffix(c, rule) ==
    LET proper == {i \in DOMAIN rule.rhs : rule.rhs[i] \notin c.nullable \cup c.nulling}
    IN  IF proper = {} THEN 0 ELSE CHOOSE i \in proper : \A j \in proper : j <= i

\* Mutant: the variant of a nullable piece in which all is nulled is added.
NNAllowed_always(piece_start, suffix) == TRUE

\* The variant with every factor nulled is left out where it would be nulling.
NNAllowed(piece_start, suffix) == piece_start <= suffix

\* Mutant: off by one, where what follows begins with the second factor.
NullableFrom_late(second, suffix) == second > suffix + 1

\* A piece ends before its second factor where what follows may be nulled.
NullableFrom(second, suffix) == second > suffix

\* The symbols of a rule from a position to another, some of them nulled.
Variant(c, rule, from, to, nulled) ==
    [i \in 1 .. to - from + 1 |->
        IF from + i - 1 \in nulled THEN Nulling_NSY(rule.rhs[from + i - 1])
        ELSE NSY_of(c, rule.rhs[from + i - 1])]

LHS_of_Piece(g, c, r, piece_start) ==
    IF piece_start = 1 THEN NSY_of(c, g.rules[r].lhs) ELSE VirtualNSY(g, r, piece_start)

\* A variant of the piece that ends the rule, and one of a piece that goes on.
FinalIRL(g, c, r, piece_start, nulled, chaf_rank) ==
    LET length == Len(g.rules[r].rhs)
    IN  NewIRL(g, r, LHS_of_Piece(g, c, r, piece_start),
               Variant(c, g.rules[r], piece_start, length, nulled),
               length - piece_start + 1, piece_start > 1, FALSE, chaf_rank)
ContinuedIRL(g, c, r, piece_start, piece_end, nulled, chaf_rank) ==
    NewIRL(g, r, LHS_of_Piece(g, c, r, piece_start),
           Append(Variant(c, g.rules[r], piece_start, piece_end, nulled),
                  VirtualNSY(g, r, piece_end + 1)),
           piece_end - piece_start + 1, piece_start > 1, TRUE, chaf_rank)

\* The IRLs of a rule from its position piece_start on, when its factors from
\* the k-th on are not yet processed: those of the piece and those of the
\* pieces that follow it.
PiecesFrom(g, c, r, factors, k, piece_start, following) ==
    LET length == Len(g.rules[r].rhs)
        suffix == nullable_suffix(c, g.rules[r])
        first == factors[k]
        second == factors[k + 1]
        Final(nulled, chaf_rank) == <<FinalIRL(g, c, r, piece_start, nulled, chaf_rank)>>
        UnlessNulling(nulled) == IF NNAllowed(piece_start, suffix) THEN Final(nulled, 0) ELSE <<>>
        Continued(piece_end, nulled, chaf_rank) ==
            <<ContinuedIRL(g, c, r, piece_start, piece_end, nulled, chaf_rank)>>
    IN  CASE Len(factors) - k >= 2 /\ NullableFrom(second, suffix) ->
               Continued(second - 1, {}, 3)
               \o Final(second .. length, 2)
               \o Continued(second - 1, {first}, 1)
               \o UnlessNulling({first} \cup second .. length)
               \o following[<<k + 1, second>>]
          [] Len(factors) - k >= 2 /\ ~ NullableFrom(second, suffix) ->
               Continued(second, {}, 3) \o Continued(second, {second}, 2)
               \o Continued(second, {first}, 1) \o Continued(second, {first, second}, 0)
               \o following[<<k + 2, second + 1>>]
          [] Len(factors) - k = 1 ->
               Final({}, 3) \o Final({second}, 2) \o Final({first}, 1)
               \o UnlessNulling({first, second})
          [] OTHER -> Final({}, 3) \o UnlessNulling({first})

PieceIRLs(g, c, r) ==
    LET factors == FactorPositions(c, g.rules[r])
        pieces[at \in (1 .. Len(factors)) \X (1 .. Len(g.rules[r].rhs))] ==
          PiecesFrom(g, c, r, factors, at[1], at[2], pieces)
    IN  pieces[<<1, 1>>]

\* "Rewrite grammar g into CHAF form"
IRLs_of_XRL(g, c, r) ==
    LET rule == g.rules[r]
    IN  CASE ~ XRL_is_Used(c, rule) -> <<>>
          [] XRL_is_Used(c, rule) /\ rule.sequence -> SequenceIRLs(g, c, r)
          [] XRL_is_Used(c, rule) /\ ~ rule.sequence /\ FactorPositions(c, rule) # <<>> ->
               PieceIRLs(g, c, r)
          [] OTHER ->
               <<NewIRL(g, r, NSY_of(c, rule.lhs), [i \in DOMAIN rule.rhs |-> NSY_of(c, rule.rhs[i])],
                        0, FALSE, FALSE, MAXIMUM_CHAF_RANK)>>

\* "Augment grammar g"; the start rule has no source.
StartIRLs(g, c) ==
    IF g.start \in c.nulling THEN <<>>
    ELSE <<[lhs |-> NSY("start", g.start, 0, 0), rhs |-> <<NSY_of(c, g.start)>>, source |-> 0,
            real |-> 1, virtual_lhs |-> TRUE, virtual_rhs |-> FALSE, rank |-> MAXIMUM_CHAF_RANK]>>

Rewrite(g, c) ==
    FlattenSeq([r \in XRLs_of(g) |-> IRLs_of_XRL(g, c, r)]) \o StartIRLs(g, c)
=============================================================================
