# libmarpa: verification project

libmarpa is a C library, written as a literate program (`src/work/dev/marpa.w`),
that parses with any context-free grammar: Earley's algorithm with the
Aycock-Horspool treatment of nulled symbols and Leo's treatment of right
recursion. An application builds a grammar, precomputes it, drives a recognizer
token by token, and walks the trees of the resulting forest. This directory
holds TLA+ models of it, TLC configurations that check them on small grammars,
and TLAPS proofs that hold for every grammar.

The library has no threads and no I/O. What is hard in it is order and sharing:
an application makes any sequence of calls; tokens have lengths, overlap, and
arrive in any order; a worklist is consumed while it grows; Leo items stand for
items that are not there; objects share state and reference each other.

Line numbers are those of `src/work/dev/marpa.w` unless another file is named.

## 1. The system

| Component | State | Operations | Used by | Correct if |
|---|---|---|---|---|
| Grammar construction (671-2900) | symbols, rules, flags, event declarations | `marpa_g_symbol_new`, `_rule_new`, `_sequence_new`, the `_set` calls | precomputation | nothing changes after precomputation; a failed call changes nothing |
| Census (3268-3900) | nullable, productive, accessible, nulling flags | part of `marpa_g_precompute` | rewrite | the flags are the derivability facts they name |
| Rewrite (3912-4849) | internal rules (IRLs) over internal symbols (NSYs) | part of `marpa_g_precompute` | AHMs | same language, each nulled combination derived once, no proper nullable symbol left |
| Precomputed items (4851-5789) | AHMs, predictions, right recursions, event lists | part of `marpa_g_precompute` | recognizer | the memoized relations are those of the internal grammar |
| Zero-width assertions (5791-6022) | default per assertion, lists per AHM | `marpa_g_zwa_*`, `marpa_r_zwa_default_set` | `marpa_r_start_input` | a rule is predicted only if its assertions hold |
| Recognizer input (6028-6330, 7552-8066) | input phase, earlemes, alternatives, valued status | `marpa_r_start_input`, `marpa_r_alternative` | application | the pending alternatives are the accepted tokens still to come, in order |
| Earley sets, items, links (6726-7552, 8067-8420) | items per set, source links, completion stack | `marpa_r_earleme_complete` | bocage, progress report | the sets are Earley's; each link is a step of a derivation |
| Postdot and Leo items (8658-9177) | postdot index and LIMs per set | `postdot_items_create` | completion loop, bocage, events | a LIM stands for a deterministic path; nothing that can still advance is left out |
| Recognizer events (6217-6513, 8422-8608) | active bits, active count, event stack of the grammar | `trigger_events`, the `_activate` calls | application | an active event fires if and only if an item calls for it |
| Rejection (9180-9589) | active/rejected bits | `marpa_r_clean` | application | (nothing makes a recognizer inconsistent) |
| Progress reports (9630-9889) | ordered report, traverser | `marpa_r_progress_report_*`, `marpa_r_progress_item` | application | the items of a set, Leo paths included, each once, in terms of external rules |
| Bocage (10018-11490) | or-nodes, and-nodes | `marpa_b_new` | order | the forest has the derivations of the input, no others |
| Order (11492-12018) | order and filter of and-nodes, frozen flag | `marpa_o_*` | tree | the choices that ranks leave; frozen once used |
| Tree (12019-12706) | stack of nooks, work list, or-nodes in use | `marpa_t_next` | valuator | every tree once, cycles cut |
| Valuator (12743-13418) | virtual stack, steps | `marpa_v_step` | application | the steps evaluate the tree bottom up, on a stack that fits |
| Reference counts (691-738, 6065-6119, 11425, 11507, 12127, 12881) | a count per object, one reference to its base object | `_new`, `_ref`, `_unref` | all | freed once, after all that are made from it |
| Grammar events and error state (1023-1250) | event stack, error code | read by the application | all recognizers of a grammar | see the hazards: it is shared and sticky |
| Containers (13420-14865) | bit vectors, matrixes, stacks, CILs, PSLs | | all | |
| Allocation, obstacks, AVL trees, introspection, legacy interface, Lua binding, documentation, tests | | | | outside the model: see section 7 |

Interaction is by calls within one process. Objects hold references to the
objects they need: a recognizer and a bocage to the grammar (a bocage copies
what it needs of the recognizer, and may outlive it), an order to its bocage, a
tree to its order, a valuator, by a pause, to its tree. A recognizer reads the precomputed grammar and writes the grammar's event stack
and error code. `marpa_r_alternative` only pushes on the stack of alternatives;
`marpa_r_earleme_complete` pops from it, fills one Earley set, indexes it
(postdot items, Leo items) and triggers events. The bocage reads items and
links after the fact.

Which behaviours are hard, with the line where each bites and the property that
covers it, is the list `hazards` of `PROJECT.json`; those no property covers say why.

## 2. The modules

| Module | What it is |
|---|---|
| `MarpaPrecompute` | a grammar object: the calls that build it and `marpa_g_precompute` with its refusals |
| `MarpaRewrite` | what precomputation computes: census, nullification, loops, sequences, the CHAF form, the start rule |
| `GrammarReference` | derivability and the meaning of a rule, declaratively; the properties of the two above |
| `MarpaGrammar` | the precomputed grammar as constants, and the memoizations of precomputation as operators over it |
| `MarpaRecce` | the recognizer: state machine and properties |
| `EarleyReference` | the abstract account of the chart and the events, and the properties that compare the recognizer with it |
| `MarpaProgress` | progress reports and their traverser |
| `ReportReference` | the items of an Earley set in terms of the external grammar |
| `MarpaBocage` | `marpa_b_new`: the chart turned into or-nodes and and-nodes |
| `MarpaTree` | the order of the and-nodes, and `marpa_t_next` |
| `ParseEnumeration` | the abstract promise of an order and a tree: a set of parses, each handed out once |
| `ForestReference` | splits, trees and ambiguity from the grammar and the tokens alone; the refinement mapping |
| `MarpaValue` | `marpa_v_step` and the valued status in the valuator |
| `MarpaObjects` | the objects, their references, and what one freezes in another |
| `MCRecce`, `MCForest`, `MCValue`, `MCLifecycle` | instances for TLC |
| `MarpaGrammar_proofs` | AHMs, the memoizations of precomputation, least fixed points |
| `MarpaRecce_proofs` | the type invariant of the recognizer, the stack of alternatives, exhaustion; the chart: links and Leo items, origins, causes |
| `MarpaEarley_proofs` | Earley sets against the declarative parser; valued status, active event count, events |
| `MarpaPrecompute_proofs` | the census of a grammar; the internal grammar that the rewrite makes |
| `MarpaRewrite_proofs` | what internal rules derive: loops, and the right sides a rule stands for |
| `MarpaObjects_proofs` | reference counts, snapshots |
| `MarpaForest_proofs` | the bocage: its and-nodes, and their tokens; the order, the tree iterator, the shape of the stack of nooks |
| `MarpaValue_proofs` | the valuator: the virtual stack, the tokens it reports |

What extends what: `MarpaRewrite` <- `MarpaPrecompute` <- `GrammarReference`;
`MarpaGrammar` <- `MarpaRecce` <- `MarpaBocage` <- `MarpaTree` <- `MarpaValue`,
and `MarpaRecce` <- `MarpaProgress`. The `MC` modules compose: `MCLifecycle` the
building of a grammar with the lives of its objects; `MCForest` recognizer,
reports, bocage, order and tree; `MCValue` the same with the valuator, from an
external grammar whose rewrite, by `MarpaRewrite`, is an assumption TLC
evaluates (`InternalGrammarIsRewritten`).

`MarpaGrammar`. Its constants are the internal grammar and the symbol flags,
with the assumptions precomputation guarantees (`GrammarAssumption`,
`SymbolAssumption`): every IRL has a non-nulling symbol on its right side and a
non-nulling left side, and the start symbol of the augmentation is used by the
start rule only. An AHM is a rule with a dot that stands before a non-nulling
symbol or at the end. `transitive_closure` is Warshall's algorithm, row by row,
as in the code; `PredictionMatrix`, `RightDerivations`, `LeoIRLs` and the event
lists are built on it as precomputation does.

`MarpaRecce`. One variable per field of `struct marpa_r` that the calls change
(each declaration names its field), plus `pc`, the phase of a running
`marpa_r_earleme_complete`, and `tokens`, the history of accepted tokens. Each
external call is an action taken at `pc = "idle"`, with an action of its own for
each way it can fail. A call of `marpa_r_earleme_complete` that creates an
Earley set runs through the phases of the code:

| `pc` | Step | Code |
|---|---|---|
| idle | `EarlemeCompleteBegins` (or `...Fails`, `...Exhausts`, `...Empty`) | initialization, 8130-8155, 8190-8240 |
| scan | `ScanAlternative`, `PrePopulateCompletions` | pop alternatives, scan, fill the completion stack |
| complete | `CompleteCause`, `AddPredictions` | the completion loop, Leo or not; predictions |
| postdot | `StartLIMs` | the symbols that get a Leo item |
| populate | `PopulateLIM`, `EarlemeCompleteEnds` | chains of Leo items; expected terminals, exhaustion, events |

`EarleyReference`. A declarative Earley parser, with no worklist, no Leo item
and no order: the spans of symbols as a least fixed point over the tokens, the
predicted rules, and an item for every predicted prefix that spans. It is what
the recognizer promises. The relation is not step by step (the chart matches
only when an Earley set is finished), so it is stated as invariants on the
states between calls and as an action property on the last step of a call,
not as a refinement mapping.

`MarpaPrecompute`, `MarpaRewrite`, `GrammarReference`. The external grammar is a
record that the construction calls extend, each with all its error exits.
`marpa_g_precompute` is one of three actions: refused before it begins, failed
after the census (which leaves a grammar that can not be used, `irrecoverable`),
or ended, with `CensusOf` and `Rewrite` as its result; a grammar with a loop ends
precomputed although the call returns a failure. `rhs_closure` and `closure_of`
iterate as the code does; `PieceIRLs` is the CHAF loop of 4188-4653, one piece of a
rule after another, the last with one or two nullable symbols. The reference says
what these must compute: the least sets closed under the rules, and for each
rule the right sides it stands for, with every proper nullable symbol there or
nulled.

`MarpaBocage`. `b_pc` follows `marpa_b_new`: the ur-nodes that the start item
reaches (one step, `BocageBegins`), then the Earley sets in order and their items
one by one (`CreateOrNodes`, `CreateLeoPathOrNodes`), each or-node found or
made through the table of the set, `or_by_origin_and_symi`; then the draft and-nodes, item
by item and link by link, each added unless it is a duplicate and the or-node
may have duplicates; then the final and-nodes. The table in which the code puts the nulled
symbols of a Leo path is a model of its own (`Leo_null_psl`), since it is not the
one it is read from.

`MarpaTree`. A nook is a record of its or-node, choice, parent and its four bits.
`marpa_t_next` runs in small steps: `NextAnswers` (paused, exhausted, nulling),
`InitializeIterator` or `NextIterates`; while it iterates, `NextChoice` or `PopNook`;
while it finishes, `FinishNook` (a child is claimed and pushed, or the tree given up)
and `NookIsFinished`; `TreeIsFinished` returns. The order's choices, ranked or
filtered, are `and_order_get`; `HighRankMetric` walks the first choices as 11631-11694 do.
`ForestReference` maps this to `ParseEnumeration`: the forest is the set of trees
computed from grammar and tokens when the tree is made, `parses` what was
delivered, the status that of the iterator.

`MarpaValue`. The steps of `marpa_v_step`'s state machine, and one action
`VisitNook` for a turn of "Perform evaluation steps", on the data that the step
functions return, the virtual stack and the history variables `values` (what an
application that follows the documents has on its stack) and `completed`.

`MarpaProgress`. One action per call. The items are a set with the code's order,
`Precedes`; the traverser is a position in it, and `avl_t_next` is that of the tree
library, which starts again from the first item when it has no current one.

`MarpaObjects`. An object has a class, a parent and a count; making one takes a
reference to its parent, dropping the last one frees it and drops that
reference, all the way up in one action (`Dropped`), as the nested `_unref` calls
do. A tree freezes its order, a valuator pauses its tree.

## 3. Abstractions

- Earley items are records of an AHM and an origin, per set; links are sets of
  records. The container that holds none, one or many sources is not modelled,
  only what can be found in it.
- The completion stack is a set: `CompleteCause` takes any cause. The code pops
  the last one pushed. The properties hold for every order.
- Leo items of a set are populated in any order, each after its predecessor. The
  code walks down a chain and then back up, with the same result. The code's
  branch for a cycle of Leo items is left out: in the checked grammars a chain
  that could not be populated would be a deadlock, and there is none.
- The binary search of the stack of alternatives is the count of the
  alternatives that sort before the new one. `InsertionPoint` and `InsertSorted`
  prove this is the place where the order puts it.
- The IRLs seen by `marpa_r_start_input`, with the assertions as a filter, are the
  least set closed under prediction (`Fixpoint`), instead of a loop over a bit vector.
- `returned` is the value and the error code of the last call; -2 stands for
  every failure, also for `marpa_r_alternative`, which returns the code itself.
  That the grammar's error code stays set after a later success is not modelled.
- Events are a set, as an application sees them: their order in the stack, and
  the count that comes with a threshold event, are abstracted. Arguments that
  are malformed (negative or unknown IDs) are not passed in; they change nothing.
- Setting a completion, nulled or prediction event for the grammar happens
  before precomputation, so it is given by constants.
- Active and rejected bits of items and LIMs are constant: nothing sets the field
  that makes a recognizer inconsistent, so the rest of `marpa_r_clean` is dead code.
  Called before the input starts it takes the number of an Earley set that is not
  there (9205-9206) before it checks the phase: the model has the outcome that the call goes on to
  the check and fails; a process that ends there has no further step.
- The failure at `YIM_FATAL_THRESHOLD` items is not modelled.
- The external grammar: numbers of symbols and rules from 0 and 1; names of internal
  symbols instead of numbers; events as a set. The ranks of rules are carried, those
  of the internal rules computed, but the grammars that `lifecycle` enumerates have rank 0.
- Or-nodes are records, identified by set, origin, rule and position, as the table
  identifies them; the code's numbers, and the obstacks they live in, are left out. The
  order in which the items of an Earley set are worked on, in the code that of their
  making, is any (`AnyItemOrder`) or one fixed order, a bound of the passing runs. The same
  goes for the Leo items whose or-nodes an Earley item still calls for, in the code path by
  path and up each path. The theorems are about both.
- The two arrays of and-nodes, draft and final, are one, since the second copies the first.
- A bocage has copies of the valued and locked statuses of its recognizer, a valuator of those of
  its bocage (11257-11259, 13028-13030): what reads have locked stays locked in the valuator.
- The valuator's trace mode and the legacy value types are left out.
- Reference counts do not overflow. Calls with a wrong object are undefined and not made.

Bounds. `JEARLEME_THRESHOLD` is the code's own limit on earlemes (`INT_MAX / 4`),
made small; a token that ends at it is refused as in the code, so that no
bound cuts a behaviour that the code has not. `TokenLengths` and `TokenValues`
are what the application passes. The `Toggled...` constants say which settings
it changes, so that each run spends its states on one question.

## 4. The runs

All states between and inside calls are reached: TLC explores every sequence of
calls up to the earleme threshold.

`recce_leo` (65 600 states). `S ::= X; X ::= A Y n | b; Y ::= X; A ::= a`, where
`n` is nulled. The recursion on `X` goes through a unit rule and ends before a
nulling symbol. Tokens of length 1 and 2 up to earleme 3 overlap, leave earlemes
without a set, and stay pending while sets are made. After two tokens `a` the
Leo items of `X` and `Y` form a chain through two Earley sets, and a third token
gives a link through it; a fourth would repeat the pattern. `TypeOK`; `LinksJustified` and `LimsJustified`;
`OriginsPredict`, which is what makes the unchecked dereference at 9010 safe;
`AlternativesPending`; `EarleySetsExact`, `LeoKeepsPredictors`,
`AcceptanceExact` (what Leo items leave out is exactly what they stand for, it
is completions only, and never the start rule's); `ExhaustionExact`;
`EventsExact`: the completions behind a Leo item fire their events although no
item stands for them, through two rules of one event group. The
default warning threshold is 5, so that the warning event occurs.

`recce_cyclic` (109 700 states). `S ::= S S | A; A ::= B | a; B ::= A`: ambiguous
and with a cycle, completions cause each other; `_marpa_r_is_use_leo_set` turns
Leo items on and off, and the events of `A` are activated and deactivated between any two
calls. `EarleySetsExact` and `EventsExact` again, `CausesProcessedOnce` (no
completion is processed twice, none that has something to complete is dropped),
and the liveness property `CallsReturn`.

`recce_valued` (47 400 states). `S ::= a S | b` with an assertion on the second
rule, and an inaccessible terminal. Values 0 and 1, lengths 0, 1 and 3 (3 is too
long), a symbol with locked status, one with a default, one without; expected
events, of the inaccessible symbol too, which is refused, and the assertion's default are toggled. All failures of
`marpa_r_alternative` occur but that of an earleme without an Earley set, which
`recce_leo` has. `AlternativesPending`; `LockedStatusIsFinal`: a locked status does not change. The latter says
nothing of when a status is locked: a read that is refused later in the same call, as unexpected or
too long, has locked it already (7969), which the model has and no property objects to.

`recce_trivial` (8 600 states). The null grammar: input ends where it starts, and an
expected event of a nulling symbol is refused.
Two symbols' events of three kinds are toggled. `ActiveCountCovers`.

`forest` (58 100 states). `S ::= E | F | C | n L n; E ::= E E | a; F ::= E;
C ::= D | c; D ::= C; L ::= b M | b; M ::= L`: an input of `a`s has Catalan many parses,
one of `c` is on a cycle, one of `b`s is a chain of Leo items between nulled
symbols; the empty input is parsed by a null parse. Tokens of one symbol, of length 1 and 2, up to
earleme 3: three `a`s are the shortest input with two trees that differ below the top,
and token lengths make spans that some cuts do not have. A bocage is taken at any
Earley set; its order is default, ranked by rule or high rank only; two rules have a higher
rank. `AndNodesMeet`: an and-node joins a predecessor and a cause that meet.
`BocageExact`: or-nodes have exactly the splits of the reference, each once, those of
Leo paths included. `MetricExact`: the ambiguity metric is 1 if and only if there is
one derivation. `InUseExact`: the bits that prune cycles are those of the stack.
`EnumeratesParses`: the refinement; every tree once, whatever the order, and
exhaustion when there are no more. `TreeNextReturns`: liveness. `ReportExact`: while
the input is read, reports of every Earley set have the items of the external
grammar, those on Leo paths included. A report is a set here: the order in which the
traverser gives its items, and that it gives none twice, are the AVL tree's and not covered.

`value` (101 000 states). `S ::= N Q N; Q ::= A*` separated by `s`; `A ::= N a N N;
N ::= b | `. The rules of `S` and `A` are split, with pieces of one inside pieces
of the other, and a sequence of up to two items, with or without a last separator. All
inputs up to 3 tokens, all their trees, `N` valued or not or all symbols
forced. `ArgumentsAreChildren`: a completed rule finds on the stack the values of
exactly the children that the external rule calls for, adjacent and in order.
`TokensAsRead`, `WholeParseValued` (one value at the end, of the whole input),
`VirtualStackBalanced`, and `ReportExact` for split rules and sequences.

`lifecycle` (82 431 states). Every grammar of up to three rules over three
symbols with right sides of up to two, two rules if one is a sequence or a
terminal is declared; and every rule of up to five symbols that are terminal, nulled, or
may be nulled, five being a first piece, two middle ones and a last; and one more grammar,
in which a loop passes through a sequence whose separator is unproductive. For an
error of construction one rule more is tried on grammars of up to one rule.
`CensusExact`: nullable, accessible and productive symbols are those of the reference; no nulling
symbol derives input, and one that derives none is nulling unless an unproductive symbol is reached from it, since
the code follows the rules of that one too (3674-3692); `RewriteExact`: the internal rules of a rule derive what it stands for, each in one
way; `InternalGrammarOK`: what `MarpaGrammar` assumes of its constants;
`LoopsExact`: a rule that is used loops if an internal rule of it derives itself alone, and
only if one does where every separator is productive. On the
grammar `0 ::= 2` a grammar, a recognizer, and up to four more objects, two of a class at most, are made, used
and dropped in every order, with up to one reference taken twice: `ObjectsTypeOK`,
`RefsExact`, `NothingLeft`, `SnapshotsHold`.

Deadlock is allowed in the last three: an application that has iterated all trees,
or given everything back, has nothing left to do within the bounds.

Five runs show what a document or comment says and the code does not do; TLC
finds the counterexample.

- `doc_activation`: `api.premenu` 7812 says `marpa_r_completion_symbol_activate`
  fails for a symbol that was not declared. A `return` is missing after 6409 (as
  in 1642, 6456 and the like): the error code is set, the event activated, 1 returned.
- `doc_leo_nulled_cause`: `S ::= X; X ::= a Y n | a; Y ::= X`. The or-nodes of the symbols nulled at the end of
  a rule on a Leo path are stored in the table of the Earley set worked on (10663),
  and looked up in that of the set where the path's item begins (10873, 10911);
  a draft and-node gets no cause, against the assertion at 10727. The library,
  without assertions, crashes in the iterator.
- `doc_report_wraps`: `api.premenu` 6060-6066 says `marpa_r_progress_item` fails when
  the traverser is at the end. It starts again (9873, `marpa_avl.c` 478-482).
- `doc_unvalued_args`: `api.premenu` 6938-6942 and 7043-7049 say where a rule
  step's children are on the stack. An unvalued token takes no place (13361), and
  is counted (13394, 13400): the first argument of `S ::= a` is at -1.
- `doc_nullification`: the comment at 3857-3858 says what a nulled symbol nullifies. The items of a
  sequence of minimum 0 are nullified although they cannot be nulled (3891).

Met while modelling, without a run: `api.premenu` 5519-5523 says that after
`MARPA_ERR_PARSE_EXHAUSTED` the current earleme is the furthest one; it
has been incremented (8199) and is one more. `api.premenu` 11513-11525 says the
valued status is marked the first time a symbol is read; a first read with the
symbol's default status marks nothing (7959, 7973), and a later read may have the
other one. `api.premenu` 5901 and 5994 call a progress report the items of an
Earley set; where a Leo item is in front of the predecessors of a piece of a split rule
the code leaves these out (9775, "Ignore PIM chains with Leo items in them"), which
`ReportExact` names as its limit. `api.premenu` 762-771 has no word for a separator: `S ::= item+` with one that is
unproductive makes `S` productive in the code, which then does not use the
rule (3790-3815); the loop transitions (4766-4834) are over all the rules, the unused ones too, so that
a rule can be flagged as a loop, and the grammar refused by it, though no internal rule loops. `LoopsExact`
was stated without that exception until its proof was planned. `U ::= U` is flagged nulling, though not nullable (`api.premenu` 675-679).
`marpa_b_new` at an invalid location (11290-11297) returns without giving back
the bocage it has begun, and the grammar with it; `NothingLeft` counts it.
`marpa_g_symbol_new` (1275) does not refuse to work after precomputation, when vectors of the number of symbols
have been made. Also, `api.premenu` 5472-5486 makes the
creation of an Earley set depend on tokens accepted at the current earleme, the
code (8217-8228) on tokens that end at the next; the comment at 8113-8120 says 0
is returned if the parse is exhausted, the code (8180) returns the event count;
`api.premenu` 7526-7532 and the comment at 6329-6334 restrict expected-symbol events to
terminals, the code (9166-9173) fires them for any symbol; `api.premenu` 7856-7860
says of `marpa_g_completion_symbol_event_set` with value 0 that the symbol is
declared, the code (1617) undeclares it.

## 5. Fairness

`FairSpec` adds weak fairness of the steps of `marpa_r_earleme_complete` that
are inside a running call. It is what a sequential call gives: control does not
leave the call until it returns. Nothing is assumed of the application, which
may stop at any time. `recce_cyclic` uses it, for `CallsReturn`. `MCFairSpec` of
`MCForest` adds the same for the steps inside `marpa_b_new` and `marpa_t_next`;
`forest` uses it for `TreeNextReturns`, and `doc_report_wraps` so that its
counterexample is not of an application or a call that just stops.

## 6. What is proved

The theorems hold for every grammar, threshold, set of tokens and settings that
satisfy the three named assumptions (`GrammarAssumption`, `SymbolAssumption`,
`RecceAssumption`); TLC evaluates these in every run. The theorems on forests and trees have those of `MarpaBocage` and `MarpaTree`
as well (`StartAssumption`: the start rule has one symbol; `RankAssumption`: ranks are integers),
those on the valuator `PiecesAssumption` of `MarpaValue`: the symbols that the rewrite invents for the
rest of a rule are on the left side of pieces only and once on the right side of what goes on
in one, and neither read nor nulled; and `SourcesAssumption`: a rule has the symbols of its external
rule, from where it starts to where a piece of the same rule goes on or to the end. That the rewrite gives all this is `InternalGrammarOK`,
which `lifecycle` checks and `InternalGrammarIsOK` proves of every grammar (only the precomputed ranks are not in it). The set of reachable
states of a real grammar is far beyond TLC; these are the facts about it that
later phases of the library rely on.

`MarpaGrammar_proofs`. Induction over the steps of a recursive function is done
through the set of arguments for which a statement holds (`UpTo`): an argument
outside of it has a least one (`LeastExists`), which contradicts one unfolding of the
function. With it, `ClosureIsLeast`: `transitive_closure`, pivot after pivot as in the
code, gives the least transitive relation above a relation. `FixpointIsLeast` says the
same of `Fixpoint`, by which the reference and the predictions at the start are
defined: it is closed, and contained in every closed set. From these follow what the
memoizations of precomputation mean: `PredictionMatrixType`, `RightDerivationsAre`,
`RecursionIsLeo`, `LeoIsRecursive` and, for the events, `GroupIsFull` (a list that has as
many AHMs of a group as the precomputed size of it has them all).

`MarpaRecce_proofs`, the types. `TypeSafety`: `Spec => []TypeOK`. `TypeOK` is not
inductive: to know that `current_earleme + 1` is an earleme one needs that a
running parse is not beyond the furthest token; that `NewLIM` yields a LIM
needs what its trailhead waits for. `PhasesAgree` adds what the phases of a call
have in common, and `TypeInv == TypeOK /\ PhasesAgree` is inductive. One lemma
per action or group of actions.

`MarpaRecce_proofs`, the input. `PendingExact`: `Spec => []AlternativesPending`. The
property speaks of the states between calls; `TokensAgree` says what
the stack holds inside a call, while the alternatives that end at the current
earleme are popped. `InsertSorted` shows that insertion keeps the order, from the
order being total and transitive; `InsertPlaces` says where every alternative is afterwards: the new one at its place, the others in their
order around it, none lost. `TopEndsFirst` shows that nothing on the stack
ends before its top, which is why testing the top alone tells whether an Earley
set is needed, and why `ScanPopsEnd` holds: the pops, which only test that an
alternative does not end later, take those of this earleme.
`ExhaustionIsExact`: `[]ExhaustionExact`, under two hypotheses. `NoAssertions`: no
rule has a zero-width assertion; if assertions block every rule at the start,
`marpa_r_start_input` leaves a recognizer that expects nothing and is not exhausted.
`Productive`: every symbol is a terminal, nulling, or has a rule of symbols that derive
in fewer steps, which precomputation ensures by dropping the rules that are not
productive (`InternalGrammarOK`, proved by `InternalGrammarIsOK`, has it of grammars whose accessible
symbols are productive); the exception is the
unproductive separator of section 4, where the start may expect nothing.

`MarpaRecce_proofs`, the chart. `LinksSound` and `LimsSound`: `Spec => []LinksJustified`
and `Spec => []LimsJustified`. Neither is inductive alone. A LIM's trailhead is
unique in its set only because that set is complete when the LIM is made and no
item is added to a set afterwards (`LimsAgree`: no LIM of the current set while it is being
filled; `ItemsAgree`: no items ahead of the current earleme, so
items go to the current set only, which needs `FitsAt`, an origin not beyond the
set and strictly before it for completions). A Leo link names the LIM's top and
origin, so a LIM must not change once populated, which `PopulateLIM`'s order
ensures. `ChartInv` is the conjunction; its induction uses `TypeInv` and
`InputInv`. `OriginsAwait`: `[]OriginsPredict`, with assertions or without. It is not
inductive, since a Leo item adds the top of its path, whose rule is not the one that was
completed: `OriginsInv` says that every item, and what every populated Leo item would
add, is awaited where it starts. `CausesOnce`: the action property
`CausesProcessedOnce`; `CausesInv` says that a completion on the stack has no link of
this call, and that before predictions every item of the set has a source, so that an
item that is found again is never pushed again.

`MarpaEarley_proofs`. `EarleySetsAreExact`, `PredictorsAreKept` and
`AcceptanceIsExact`: the chart is the declarative one, for every grammar without
assertions (`NoAssertions`: they are evaluated at earleme 0 only, and the reference
has none). One direction: `SoundInv` says that an item, and what a Leo item would add,
is in every account of the input, that is, for all sets of spans and predictions that are
closed under what the tokens and rules call for. The other: `DoneInv` says what has been
done for each token, completion and prediction that is behind (`TokensScanned`,
`CompletionsFinished`, `PredictionsMade`), so that the sets, with the completions behind their Leo
links (`LeoExpansion`), are closed under the steps of the reference; the reference is the
least such account. That a Leo item's path has all the completions it stands for goes by
the origins and positions of the path, which only its own
trailheads can continue (`LimsJustified`).

`MarpaEarley_proofs`, settings and events. `LockedStays`: `Spec => LockedStatusIsFinal`, an action
property; it needs that nothing is locked before input starts. `CountCovers`:
`Spec => []ActiveCountCovers`. Its premise, that only declared events start
active, is needed and is not enforced by the grammar's calls (1621-1650): with
an event that starts active undeclared, the count hides it. `EventsAreExact`: the action property
`EventsExact`, under the same premise and `NoAssertions`. The events behind Leo items are
what is hard: `CilsAgree` says that the list of a populated LIM has the event AHMs of the
trailheads on its path and no other. The code extends a list only while it is smaller than the
event group of the LIM's top; `CallsInGroup` and `GroupIsFull` show that a list of that size is
complete. `LinkedCils` then replaces the lists by the paths, and `ChartExact` the paths by the
reference. `BusyInv`: a grammar that takes input has rules, and no call completes earleme 0.

`MarpaPrecompute_proofs`, the census. `CensusIsExact`: `GrammarSpec => []CensusExact`, for any number of
symbols and rules, under no hypothesis but the types of what the application passes
(`PrecomputeAssumption`). `RhsClosureIsLeast` and `WarshallIsLeast` say what the two algorithms
of the census compute: a round that adds nothing has closed the set, one that adds
something adds a symbol, so that as many rounds as there are symbols suffice. The least sets of
the reference are then those of the census (`NullableIsLeast`, `ProductiveIsLeast`,
`AccessibleIsLeast`); a symbol that is not flagged nulling reaches a terminal, and the input comes back along the way, or
a rule on it has an unproductive symbol (`NotNullingLeadsOn`); the symbols that derive input are fewer than the code's "productive and not
nulling" would need, and the two meet in `NullingTakesNoInput` (a symbol that no terminal is
reached from derives none; here the refusal of nulling terminals is needed) and `ProductiveParts`.
The invariant `CensusInv` says that the rules of the grammar are over symbols that exist,
and, since symbols may be made later, that the census is of the grammar as it was.

`MarpaPrecompute_proofs`, the internal grammar. `InternalGrammarIsOK`: `GrammarSpec => []InternalGrammarOK`, under
`PrecomputeAssumption` alone, for rules of any length with any number of nullable symbols. It is a fact
about what the rewrite computes, so the invariant is `CensusInv`, and the work is the loop that factors a rule.
The factors are finitely many positions and can be listed in ascending order (`Enumeration`, `RuleIsFactored`).
`PieceOK(.., s, R)` says of the rules `R` made from position `s` on: each ends the external rule, with a
symbol that is not nulled, or goes on in a piece that starts in `R`; some rule starts at `s`; and any set of
symbols that is closed under `R` has the left side of the piece if it has the nulled symbols, and the symbols that the
piece stands for wherever these cannot be nulled, at least one of them not nulled. The loop goes from the first factor to the last, `PieceOK`
is shown from the last to the first: an earlier piece is in order if its own rules are and
what follows it is (`EarlierPiece`). The four cases of the loop are `PieceCase1` to `PieceCase4`,
`PiecesAreOK` puts them together. Where the test of the nullable suffix comes in is `SuffixShows`: the variant with everything nulled is made
only where a symbol that cannot be nulled follows, else it would be a nulling rule. Sequences are four or five rules
at most (`SequenceRuleOK`). That every rule is true to its source is `IRLFits`, by position
(`KindOfSymbol`, `FinalFits`, `ContinuedFits`, `SequenceFits`).
From the census it takes that a productive symbol is nulling or takes input (`InputIsTaken`, `NullingIsNullable`),
so that a used rule has something that is not nulled (`UsedTakesInput`, `UsedShows`). The last conjunct, that
every internal symbol derives when all accessible ones are productive, goes in two
stages: the accessible symbols are available, by the way the reference derives them
(`AccessibleDerives`, `AccessibleAvailable`), and then the virtual ones, by `PieceOK`;
the rounds of the property reach this closed set because they saturate after as many as there are symbols (`RoundsClose`, `AllDerived`).

`MarpaRewrite_proofs`, loops. `LoopsAreExact`: `GrammarSpec => []LoopsExact`. The code finds loops by a relation
on external rules, `LoopsExact` by the internal rules that derive one symbol alone; a path of one is of another length in the other,
since a piece that goes on is a step of the internal relation only. So it is first shown exactly what rules a piece has.
A *word* is a right side of the external rule with some of what may be nulled replaced by its nulled variant; the rules of the pieces
are a table of the words, each with one rule for each way to end or to go on (`Tables`, `PiecesAreExact`, from the last piece to the first
as before), and no two are alike (`NoneTwice`). With it the unit rules of a piece are known. From the
internal rules to the external: an internal step follows one transition, or none where it stays in the rule (`Follows`, `FollowsOn`), and
a cycle of internal rules follows at least one (`CyclicIsLoop`). The other way: a transition
is passed on by a chain of pieces, each deriving the next alone (`Leads`, `PiecesLead`), and the internal relation being closed it suffices that one step
of the external relation leads to a path of the internal one (`UnitPassesOn`,
`LoopIsCyclic`). Of Warshall's algorithm both proofs use that its result is the least transitive relation (`WarshallIsLeast`). `CycleNoted`
is the invariant that joins the two phases: has_cycle is read after the rewrite, and set before it.

`MarpaRewrite_proofs`, derivations. `RewriteIsExact`: `GrammarSpec => []RewriteExact`: the internal rules of a rule that is
used derive exactly the right sides it stands for, each by one sequence of rules, for rules of any length and sequences
of up to `MaxItems` items. Of a rule that is no sequence, the table of the words (`PiecesAreExact`) is taken from the last
position to the first once more: a word that a piece spells by a rule of its own has one expansion; one that goes on is
the beginning that the rule spells and a word of the piece that follows, and no word has both forms, or two rules of
its piece (`OneExpansion`, `TwoExpansions`, `OneIsNotTwo`, which rest on each rule being made once, `MadeOnce`). `PieceIsExpanded` is the step,
`PiecesAreExpanded` the induction, `RuleIsExpanded` what it comes to; words and the instances of the reference are
the same (`WordIsInstance`, `InstanceIsWord`). Of a sequence the expansions of k + 1 items are those of k with a separator and an item more, so that
expansions and lists of the reference agree by number of items (`EntriesGoOn`, `ItemsAreEntries`, `ListedOnce`,
`SequenceStands`).

`MarpaObjects_proofs`. For any number of objects, references and parses:
`ReferencesExact` (`[]RefsExact`), `SnapshotsStand`, `NothingStays`. A count equals
what references the object, but when an object is dropped the drop runs up
the chain of parents, so the inductive invariant `ReferencesInv` has the classes of
parents (an object's class determines how far a drop can go) and that whatever is not
alive is held and referenced by nothing. `SnapshotsInv` adds that an object held by
another is not exhausted, ranked or re-ordered. One lemma per kind of constructor and per method; `UnrefKeepsInv`, the longest, rests on
`FreedHaveNothing`: what a drop frees had no other reference.

`MarpaForest_proofs`. The specification is `ForestSpec` of `MarpaTree`: the recognizer,
one bocage that may be taken of it at any Earley set, its order and its tree; the
application may go on reading after the bocage is made. `AndNodesFit`
(`[]AndNodesMeet`), `CausesAreFound` (`[]AndNodesHaveCause`) and `ClaimsAreExact`
(`[]InUseExact`), under one hypothesis, `LeoRulesEndProper`: no rule of which Leo items
are made ends with a nulled symbol. The hypothesis is what `doc_leo_nulled_cause`
is about, where such a rule gets an and-node without a cause. Grammars with nulled
symbols anywhere else, in front or at the end of rules that are not Leo, are covered;
`MCForest` assumes, and TLC evaluates, that the grammar of `forest` is one of them and
that of the violation is not.
`BocageInv` says, per phase of `marpa_b_new`, what is made and what is pending. `PsiAgrees`:
the ur-nodes are items of the chart, closed under predecessors, causes and the trailheads of
Leo paths. `NodesMade`: the or-nodes of every ur-node behind the current one are there, those of the
Leo paths into it too unless they are still to do. `NodesAgree`: each or-node is there for an
ur-node, its drafts fit (`Meets`), and one of a nulled symbol has a single draft. `DraftsPending`: an or-node
of an earlier set has a draft; one of the current set has one too, or an item or a link left to do
will make one. `AndNodesMeet` alone is not inductive: that the or-nodes of a predecessor and of
a cause are found in the per-set tables rests on the ur-nodes being closed and their or-nodes being made
before the first draft of their set is; `ProperPredecessor`, which steps from an or-node to
its proper predecessor through first drafts, needs that those of nulled positions are as
`NodesAgree` says, and that the or-nodes of proper positions have none before their item is worked on
(`TopsApart` shows it of the or-nodes that Leo paths share). The links themselves fit by `ChartInv`;
that a Leo path ends, each Leo item on it after one other, is `PathsEnd` and `LinkPaths`.
`TreeInv` is about the stack: its nooks have or-nodes of the bocage and choices that
are on offer (`OnOffer`, from `AndNodesFit`'s invariant and `RankedIs`: ranking leaves every
or-node some and-nodes, of its own), and no two nooks have the same or-node of some length. `InUseExact`
is not inductive: a claim is made before it is known that the child has a choice
(`FinishChild`), and would stay without a nook if it had none; that every or-node
has an and-node excludes it.
`ShapeAlways` says what the stack looks like (`Shape`): each nook but the first has the or-node that the
choice of its parent leads to, once (`NooksLinked`, `OneOfEach`); a bit of the parent that says so is
right (`ChildrenThere`); a nook is followed by the nooks of its cause and then by those
of its predecessor (`Preorder`, `CauseFirst`); and nothing is missing in a tree that is returned. Popping a nook
changes the bits of its parent, a new choice makes all below it stale: it is because the top nook
has no children that both keep the shape.
`CausesAlways` follows the tokens through the bocage: the cause of an and-node, if it is a token that
was read, is one over the stretch that the and-node leaves it. It is kept while the application reads
on, since no call takes a token back (`TokensGrow`).
The theorems above are also stated for `PausedSpec`, in which the tree may be paused and resumed
between any two steps; `ForestIsPaused` gives them for `ForestSpec`, `ValuationIsPaused` for the valuator.

`MarpaValue_proofs`. The specification is `ValuationSpec` of `MarpaValue`: all of `ForestSpec`, with
progress reports and a valuator whose steps take place between any calls on the other
objects; `VirtualStackIsBalanced` is `[]VirtualStackBalanced`, under `LeoRulesEndProper`. The valuator visits the
nooks from the last to the first. What it has put on a stack belongs to the `Frontier`, the nooks that are visited and whose
parents are not. `Laid` says that each of them has a stretch of the stack, one after the other, the first
nooks on top; the children of the next nook are then the topmost, the cause above the
predecessor (`FrontierMoves`, from `ShapeAlways`), and the nook gets one stretch in
their place (`LaidOver`, `LaidVisit`). On the virtual stack a stretch is one location or none: one for a
piece of a rule that is complete and for a part of a rule that has its piece behind it
(`Counted`). `CountOnTop`: the count is on top when the code reads it, because one child
at most has one, the one at the position of the piece.
`TokenStepsAsRead` is `[]TokensAsRead`: the data of a token step are set in a visit and reported by
another step or another call; what is set is, by `CausesAlways`, of a token that was read, and start and
end of it are where the and-node's predecessor and the or-node end.

`RulesTakeTheirChildren` and `ParsesAreValuedWhole` are `[]ArgumentsAreChildren` and
`[]WholeParseValued`, the purpose of the whole library: a rule that is reported is given the values
of its own right side, and the end of the valuation is the value of the input. Neither
is inductive; `ValuesInv` adds what is on the stack of values in between. Each nook of the
frontier has a stretch of that stack, laid out as those of the virtual stack are (`Laid`
once more), and the stretch fits the or-node of the nook (`Fits`): one value of the external symbol
if the or-node completes a rule of the application, else the values of the symbols of the external rule
before the dot, pieces joined (`Spells`, `LengthFits`), and they span what the or-node does, each
starting where the one before it ends (`Run`). `ValuesLaid` ties the two stacks together: the count of
a stretch on the virtual stack is the number of values in its stretch of this one, less what it
had before its piece (`CountOf`). One visit then joins the predecessor's stretch,
the value of the symbol at the dot (`SymbolOnTop`: pushed now, or left by the cause) and, for
a piece, the values of the piece (`PartFits`), which is `NookGets`; if the rule is complete what
it takes is exactly the stretch (`RuleTakes`, from the count on top), which is replaced by one value
(`VisitFits`, `VisitKeepsValues`). That the values of pieces spell the right side of one external rule, and of a sequence
items and separators in turn, is `SymbolIsNext`, `PieceFollows` and `ItemsTakeTurns`, from `SourcesAssumption`. The
step that comes next, and `pop_arguments`, decide which of `arg_0` and `arg_n` is the top of the stack
(`ValuesTop`).

The two have one more hypothesis, `0 \notin TokenValues`: no token is read with the value 0, which the library
takes for "no value". Without it they are false of the code. An unvalued token takes no location, the
arguments of the rules around it are then other values than those of their right side, and the run
`doc_unvalued_args` exhibits it. Whether a *symbol* is valued in the valuator is left
open: an unvalued nulled symbol takes its location all the same (`Pushes`).

Only model-checked: what compares forest, tree and reports with a reference that has recursive operators, which the
prover does not take (`BocageExact`, `MetricExact`,
`ReportExact`, the refinement `EnumeratesParses`); and `CallsReturn` and
`TreeNextReturns`, liveness properties, out of the prover's reach.

## 7. Not modelled

- Several recognizers of one grammar share its event stack and error code
  (1023-1250). A call on one clears the events of another; no document says what
  an application may rely on, so there is nothing to compare with.
- Declarations of events in the grammar (1564-1740) are constants of the recognizer,
  and so is the placement of zero-width assertions (5791-6022).
- The failure at `YIM_FATAL_THRESHOLD` items, values attached to Earley sets, the container of
  source links, trace mode, trace cursors and read-only accessors.
- Memory allocation (aborts on failure), obstacks (freed as a whole), the
  balancing of the AVL trees, the legacy interface, the Lua binding, the vendored Lua,
  documents and tests.

A note on coverage. The library's own code is one literate program, `marpa.w`, of
16 600 lines with its text; nearly all definitions of the map are at its lines. The C files of
the repository are containers, the Lua interpreter and tests; of them only the
traverser's step in `marpa_avl.c` shows in a property.

## 8. Plan

Done: the recognizer; the grammar before it; forest, order, tree and values after
it; the objects; the theorems of section 6, among them every invariant that speaks of the census, the form of
the internal grammar, the recognizer, the order of and-nodes, the tree and the valuator; of what `lifecycle`
checks all is proved.
What is left is proof: the safety part of the refinement that needs no tree to be known (a tree
once closed stays closed, and delivers nothing before it is open).

## 9. Running it

`tlc -config recce_leo.cfg MCRecce` and likewise for the other configurations; `tlapm M.tla` for
each of the `_proofs` modules.
