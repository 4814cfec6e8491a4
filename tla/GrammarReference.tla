--------------------------- MODULE GrammarReference ---------------------------
(***************************************************************************)
(* What the precomputation of a grammar is for, said without its           *)
(* algorithms: sets of symbols as the least ones that are closed under the *)
(* rules, and the right sides that a rule stands for.  The properties      *)
(* compare the result of marpa_g_precompute with it.                       *)
(***************************************************************************)
EXTENDS MarpaPrecompute

\* The grammar the census saw: symbols may have been made since.
Censused == [external EXCEPT !.symbols = post_census_xsy_count]

\* The symbols that are in every set S for which Closed(S) holds.
LeastClosed(Closed(_)) ==
    LET closed == {S \in SUBSET XSYs_of(Censused) : Closed(S)}
    IN  {x \in XSYs_of(Censused) : \A S \in closed : x \in S}

RuleSet == {Censused.rules[r] : r \in XRLs_of(Censused)}

\* The symbols that derive nothing at all, and those that derive some input.
Empties ==
    LeastClosed(LAMBDA S : \A rule \in RuleSet :
        (rule.sequence /\ rule.min <= 0) \/ RequiredOf(rule) \subseteq S => rule.lhs \in S)

Inputs ==
    LET empties == Empties
        Derivable == LeastClosed(LAMBDA S :
          /\ empties \cup census.terminal \subseteq S
          /\ \A rule \in RuleSet : RequiredOf(rule) \subseteq S => rule.lhs \in S)
        Parts(rule) ==     \* with separators only when these derive something
          RHSOf(rule) \cup (SeparatorOf(rule) \cap Derivable)
    IN  LeastClosed(LAMBDA S :
          /\ census.terminal \subseteq S
          /\ \A rule \in RuleSet :
                RequiredOf(rule) \subseteq Derivable /\ Parts(rule) \cap S # {} => rule.lhs \in S)

\* The symbols that are not productive, and those from which one is reached.
LeadsToUnproductive ==
    LeastClosed(LAMBDA S :
        /\ XSYs_of(Censused) \ census.productive \subseteq S
        /\ \A rule \in RuleSet :
              (RHSOf(rule) \cup SeparatorOf(rule)) \cap S # {} => rule.lhs \in S)

-----------------------------------------------------------------------------
(* The right sides that internal rules make when the virtual symbols in them
   are replaced by what they stand for, each with the rules it took and the
   real symbols that these count. *)

IRLsFor(r, lhs) == {i \in DOMAIN irls : irls[i].source = r /\ irls[i].lhs = lhs}
ExpansionOf(i) == [path |-> <<i>>, rhs |-> irls[i].rhs, real |-> irls[i].real]
Expanded(i, e, rhs) == [path |-> <<i>> \o e.path, rhs |-> rhs, real |-> irls[i].real + e.real]

\* Of a BNF rule: a virtual symbol stands for the rest from a position on.
Expansions(r) ==
    LET rule == Censused.rules[r]
        length == Len(rule.rhs)
        from[k \in 0 .. length - 1] ==     \* from position length - k on
          LET position == length - k
              lhs == IF position = 1 THEN NSY_of(census, rule.lhs)
                     ELSE VirtualNSY(Censused, r, position)
              Rest(i) == from[length - Last(irls[i].rhs).position]
          IN  UNION {IF irls[i].virtual_rhs
                     THEN {Expanded(i, e, Front(irls[i].rhs) \o e.rhs) : e \in Rest(i)}
                     ELSE {ExpansionOf(i)} : i \in IRLsFor(r, lhs)}
    IN  from[length - 1]

\* What a BNF rule stands for: each proper nullable symbol is there or nulled,
\* and not all symbols are nulled.
Instances(rule) ==
    LET Options(x) ==
          {NSY_of(census, x)} \cup {Nulling_NSY(x) : y \in {x} \cap census.nullable}
        all == {s \in [DOMAIN rule.rhs -> UNION {Options(x) : x \in RHSOf(rule)}] :
                  \A i \in DOMAIN rule.rhs : s[i] \in Options(rule.rhs[i])}
    IN  {s \in all : \E i \in DOMAIN s : s[i].kind # "nulled"}

\* Of a sequence: its virtual symbol stands for what precedes, to n items.
SequenceExpansions(r, n) ==
    LET virtual == VirtualNSY(Censused, r, 1)
        Preceded(i, e) == Expanded(i, e, e.rhs \o Tail(irls[i].rhs))
        items[k \in 0 .. n] ==
          IF k = 0 THEN {}
          ELSE UNION {IF irls[i].virtual_rhs THEN {Preceded(i, e) : e \in items[k - 1]}
                      ELSE {ExpansionOf(i)} : i \in IRLsFor(r, virtual)}
    IN  UNION {{Preceded(i, e) : e \in items[n]} :
                 i \in IRLsFor(r, NSY_of(census, Censused.rules[r].lhs))}

\* What a sequence stands for, to n items: items with separators between them,
\* and after the last one if the sequence is not proper.
SequenceInstances(rule, n) ==
    LET separator == IF rule.separator = NoXSY THEN <<>> ELSE <<NSY_of(census, rule.separator)>>
        spacing == Len(separator) + 1
        Listed(k) == [p \in 1 .. (k - 1) * spacing + 1 |->
                        IF p % spacing = 1 % spacing THEN NSY_of(census, rule.rhs[1])
                        ELSE separator[1]]
    IN  {Listed(k) : k \in 1 .. n}
        \cup IF rule.proper THEN {} ELSE {Listed(k) \o separator : k \in 1 .. n}

\* A rule has one derivation for each right side it stands for, and none other.
StandsFor(expansions, instances) ==
    /\ {e.rhs : e \in expansions} = instances
    /\ \A d, e \in expansions : d.rhs = e.rhs => d = e

-----------------------------------------------------------------------------
(* Properties *)

\* The census finds the nullable symbols and the symbols that can be reached;
\* the productive symbols are those that derive input or nothing.  No nulling
\* symbol could derive input, and a symbol that derives none is nulling, except
\* where a symbol that derives nothing at all comes in: what is reached through
\* the rules of that one counts for the flag (marpa.w:3674-3692).
CensusExact ==
    is_precomputed =>
        LET empties == Empties
            inputs == Inputs
        IN  /\ census.nullable = empties
            /\ census.accessible =
                 LeastClosed(LAMBDA S :
                    /\ Censused.start \in S
                    /\ \A rule \in RuleSet : rule.lhs \in S =>
                          RHSOf(rule) \cup SeparatorOf(rule) \subseteq S)
            /\ census.nulling \cap inputs = {}
            /\ XSYs_of(Censused) \ (census.nulling \cup inputs) \subseteq LeadsToUnproductive
            /\ census.productive = empties \cup inputs

\* The internal rules of a rule that is used derive exactly the right sides
\* that the rule stands for, each in one way, so that no parse is lost in the
\* rewrite and none is there twice; and each derivation counts as many real
\* symbols as it has.
MaxItems == 3
RewriteExact ==
    is_precomputed =>
        \A r \in {q \in XRLs_of(Censused) : XRL_is_Used(census, Censused.rules[q])} :
           LET rule == Censused.rules[r]
               sequences == SequenceExpansions(r, MaxItems)
           IN  IF rule.sequence
               THEN /\ StandsFor(sequences, SequenceInstances(rule, MaxItems))
                    /\ \A e \in sequences : e.real = Len(e.rhs)
               ELSE /\ StandsFor(Expansions(r), Instances(rule))
                    /\ \A e \in Expansions(r) : Len(e.path) > 1 => e.real = Len(rule.rhs)

NSY_is_Nulling(nsy) == nsy.kind = "nulled"

\* An internal rule has the symbols of the rule it is of, from where it starts to
\* the end, or to the piece of the rule that goes on; the piece of a sequence
\* comes before what is added to it.  The pieces count their symbols.
SourceOK(irl) ==
    LET rule == Censused.rules[irl.source]
        n == Len(irl.rhs)
        start == IF irl.virtual_lhs THEN irl.lhs.position - 1 ELSE 0
        pieces == {p \in 1 .. n : irl.rhs[p].kind = "virtual"}
        spacing == IF rule.separator = NoXSY THEN 1 ELSE 2
        IsItem(i) == i % spacing = 1 % spacing
        SymbolFor(i) == IF ~ rule.sequence THEN rule.rhs[start + i]
                        ELSE IF IsItem(i) THEN rule.rhs[1] ELSE rule.separator
    IN  /\ irl.virtual_lhs \/ irl.lhs.xsy = rule.lhs
        /\ irl.virtual_lhs \/ irl.virtual_rhs => irl.real = IF irl.virtual_rhs THEN n - 1 ELSE n
        /\ \A p \in (1 .. n) \ pieces : irl.rhs[p].xsy = SymbolFor(p)
        /\ \A p \in pieces :
              /\ irl.rhs[p].rule = irl.source
              /\ rule.sequence \/ irl.rhs[p].position = start + p
        /\ irl.virtual_lhs => irl.lhs.rule = irl.source
        /\ IF rule.sequence
           THEN pieces \subseteq {1} /\ (irl.virtual_lhs \/ rule.proper => IsItem(n))
           ELSE pieces \subseteq {n} /\ (irl.virtual_rhs \/ start + n = Len(rule.rhs))

\* What the recognizer and the valuator rely on: an internal rule has a
\* non-nulling symbol on either side, the start symbol of the start rule is in
\* no other rule, the symbols invented for pieces of a rule are on the left
\* side of pieces only and once on the right side of what goes on in one, each
\* rule and symbol is true to its source, and, in a grammar with no unproductive
\* symbol, every symbol of a rule derives.
InternalGrammarOK ==
    is_precomputed =>
        LET rules == {irls[i] : i \in DOMAIN irls}
            NSYs == {irl.lhs : irl \in rules} \cup UNION {RHSOf(irl) : irl \in rules}
            terminals == {NSY_of(census, x) : x \in census.terminal}
            pieces == {irl.lhs : irl \in {i \in rules : i.virtual_lhs}}
            derives[n \in 0 .. Cardinality(NSYs)] ==
              IF n = 0 THEN {nsy \in NSYs : NSY_is_Nulling(nsy) \/ nsy \in terminals}
              ELSE LET prior == derives[n - 1]
                   IN  prior \cup {irl.lhs : irl \in {i \in rules : RHSOf(i) \subseteq prior}}
        IN  /\ \A irl \in rules : ~ NSY_is_Nulling(irl.lhs)
            /\ \A irl \in rules : \E nsy \in RHSOf(irl) : ~ NSY_is_Nulling(nsy)
            /\ \A irl \in rules : \A nsy \in RHSOf(irl) : nsy.kind # "start"
            /\ Cardinality({i \in DOMAIN irls : irls[i].lhs.kind = "start"}) <= 1
            /\ pieces \cap terminals = {}
            /\ \A irl \in rules :
                  /\ irl.lhs \in pieces => irl.virtual_lhs
                  /\ Cardinality({p \in DOMAIN irl.rhs : irl.rhs[p] \in pieces})
                       = IF irl.virtual_rhs THEN 1 ELSE 0
                  /\ irl.lhs.kind = "start" =>
                        /\ irl.virtual_lhs /\ ~ irl.virtual_rhs /\ irl.real = 1
                        /\ irl.rhs = <<NSY_of(census, irl.lhs.xsy)>> /\ irl.source = 0
                  /\ irl.lhs.kind # "start" => SourceOK(irl)
            /\ census.accessible \subseteq census.productive =>
                  NSYs \subseteq derives[Cardinality(NSYs)]

SeparatorsProductive == \A rule \in RuleSet : SeparatorOf(rule) \subseteq census.productive

\* An internal rule that derives one symbol, and nothing else.
DerivesAlone(irl, nsy) ==
    \E p \in DOMAIN irl.rhs :
       /\ irl.rhs[p] = nsy
       /\ \A q \in DOMAIN irl.rhs : NSY_is_Nulling(irl.rhs[q]) <=> q # p

\* marpa_g_has_cycle tells the truth of the internal rules: a rule that is
\* used is a loop if one of its internal rules can derive itself and nothing
\* else, and only if one can where every separator is productive: a sequence
\* with one that is not has no internal rule, and is passed through by loops.
LoopsExact ==
    is_precomputed =>
        LET n == Len(irls)
            unit == {e \in (0 .. n - 1) \X (0 .. n - 1) :
                       DerivesAlone(irls[e[1] + 1], irls[e[2] + 1].lhs)}
            cyclic == {i \in 1 .. n : <<i - 1, i - 1>> \in closure_of(unit, n)}
            loops == LoopRules(Censused, census)
        IN  /\ \A i \in cyclic : irls[i].source \in loops
            /\ SeparatorsProductive =>
                  \A r \in {q \in loops : XRL_is_Used(census, Censused.rules[q])} :
                     \E i \in cyclic : irls[i].source = r
            /\ cyclic # {} => has_cycle

\* marpa.w:3857-3858 "|A| nullifies |B| if a nulled |B| can be derived from a
\* nulled |A|": a symbol that cannot be nulled is not nullified.
NullificationSound ==
    is_precomputed =>
        \A x \in XSYs_of(Censused) : Nulled_XSYIDs_of_XSY(Censused, census)[x] \subseteq Empties
=============================================================================
