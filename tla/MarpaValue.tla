------------------------------ MODULE MarpaValue ------------------------------
(***************************************************************************)
(* The valuator of libmarpa (struct s_value): marpa_v_step walks the nooks *)
(* of a tree from the last to the first and tells the application what to  *)
(* do with a stack of values, in terms of the external rules, so that the  *)
(* rewrite of the grammar does not show.  The call is one step per nook it *)
(* visits.  There is one valuator at a time, and it is not traced.         *)
(***************************************************************************)
EXTENDS MarpaTree, MarpaProgress

CONSTANTS
    VirtualRHS,           \* the IRLs with IRL_has_Virtual_RHS set
    Real_SYM_Count_of_IRL \* IRL -> its symbols that are of the external rule

LHS_of_XRL(r) == External.rules[r].lhs

ASSUME ValueAssumption ==
    /\ VirtualRHS \subseteq IRLs
    /\ Real_SYM_Count_of_IRL \in [IRLs -> Nat]

\* The symbols that the rewrite of the grammar invents for the rest of a rule,
\* and where they stand on a right side.
PieceNSYs == {LHSID_of_IRL[irl] : irl \in VirtualLHS}
PiecePositions(irl) == {p \in 1 .. Length_of_IRL(irl) : RHS_of_IRL[irl][p] \in PieceNSYs}

(* What the rewrite guarantees of the pieces of a rule: such a symbol is on
   the left side of pieces only, and once on the right side of what goes on in
   another piece; it is neither read nor nulled.  The start rule is a piece
   that none goes on to. *)
ASSUME PiecesAssumption ==
    /\ \A irl \in IRLs : LHSID_of_IRL[irl] \in PieceNSYs => irl \in VirtualLHS
    /\ \A irl \in VirtualRHS : \E p \in 1 .. Length_of_IRL(irl) : PiecePositions(irl) = {p}
    /\ \A irl \in IRLs \ VirtualRHS : PiecePositions(irl) = {}
    /\ PieceNSYs \cap (TerminalNSYs \cup NullingNSYs) = {}
    /\ StartIRL \in IRLs =>
          /\ StartIRL \in VirtualLHS \ VirtualRHS /\ Real_SYM_Count_of_IRL[StartIRL] = 1

\* The external rule of an internal one, where in its right side a piece of it
\* begins, how far the items of a sequence are apart, and the symbol that the
\* i-th value is of when the pieces that follow are joined to this one.
XRL_of_IRL(irl) == External.rules[Source_XRL_of_IRL[irl]]
PieceStart(irl) == IF Virtual_Start_of_IRL[irl] = -1 THEN 0 ELSE Virtual_Start_of_IRL[irl]
ItemSpacing(rule) == IF rule.separator = -1 THEN 1 ELSE 2
IsItem(rule, i) == i % ItemSpacing(rule) = 1 % ItemSpacing(rule)
SymbolFor(irl, i) ==
    LET rule == XRL_of_IRL(irl)
    IN  IF ~ rule.sequence THEN rule.rhs[PieceStart(irl) + i]
        ELSE IF IsItem(rule, i) THEN rule.rhs[1] ELSE rule.separator

(* What the rewrite guarantees of the sources of rules and symbols: a rule has
   the symbols of its external rule, from where it starts to the end if nothing
   goes on, or to where a piece of the same rule goes on; the piece of a
   sequence comes before what is added to it. *)
ASSUME SourcesAssumption ==
    /\ \A x \in XSYs : NSY_of_XSY[x] # NoNSY => Source_XSY_of_NSY[NSY_of_XSY[x]] = x
    /\ \A irl \in IRLs : Source_XRL_of_IRL[irl] = 0 <=> irl = StartIRL
    /\ StartIRL \in IRLs => Source_XSY_of_NSY[RHS_of_IRL[StartIRL][1]] = StartXSY
    /\ \A irl \in IRLs \ {StartIRL} :
          LET rule == XRL_of_IRL(irl)
              n == Length_of_IRL(irl)
          IN  /\ irl \in VirtualLHS \/ Source_XSY_of_NSY[LHSID_of_IRL[irl]] = rule.lhs
              /\ irl \in VirtualLHS \cup VirtualRHS =>
                    Real_SYM_Count_of_IRL[irl] = IF irl \in VirtualRHS THEN n - 1 ELSE n
              /\ \A p \in (1 .. n) \ PiecePositions(irl) :
                    Source_XSY_of_NSY[RHS_of_IRL[irl][p]] = SymbolFor(irl, p)
              /\ \A p \in PiecePositions(irl), q \in IRLs : LHSID_of_IRL[q] = RHS_of_IRL[irl][p] =>
                    /\ Source_XRL_of_IRL[q] = Source_XRL_of_IRL[irl]
                    /\ rule.sequence \/ PieceStart(q) = PieceStart(irl) + p - 1
              /\ IF rule.sequence
                 THEN /\ PiecePositions(irl) \subseteq {1}
                      /\ irl \in VirtualLHS \/ rule.proper => IsItem(rule, n)
                 ELSE /\ rule.rhs \in Seq(XSYs) /\ PiecePositions(irl) \subseteq {n}
                      /\ irl \in VirtualRHS \/ PieceStart(irl) + n = Len(rule.rhs)
                      /\ irl \in VirtualLHS \/ PieceStart(irl) = 0

VARIABLES
    v_pc,                 \* "none", "idle" between calls, "visit", "token", "report"
    v_next,               \* t_next_value_type
    v,                    \* the public data and t_token_type
    v_nook, virtual_stack,
    v_pop,                \* pop_arguments
    v_valued, v_locked,   \* t_xsy_is_valued, t_valued_locked
    v_rules,              \* t_xrl_is_valued
    v_step,               \* what the last marpa_v_step returned
    values,               \* history: the values on the application's stack
    completed             \* history: the last rule that took arguments, and them

history == <<values, completed>>
statuses == <<v_valued, v_locked, v_rules>>
valuator == <<v_pc, v_next, v, v_nook, virtual_stack, v_pop, statuses, v_step, history>>

NoRule == [rule |-> 0, start |-> 0, end |-> 0, arguments |-> <<>>]

NoData ==
    [symbol |-> -1, rule |-> -1, token_value |-> -1, token_type |-> "dummy", arg_0 |-> -1,
     arg_n |-> -1, result |-> -1, rule_start |-> -1, token_start |-> -1, es |-> -1]

ValueInit ==
    /\ v_pc = "none" /\ v_next = "INACTIVE" /\ v = NoData /\ v_nook = -1
    /\ virtual_stack = <<>> /\ v_pop = TRUE
    /\ v_valued = {} /\ v_locked = {} /\ v_rules = {}
    /\ v_step = "none" /\ values = <<>> /\ completed = NoRule

-----------------------------------------------------------------------------
(* The object.  A call that fails changes nothing and is left out. *)

\* marpa_v_new, which pauses the tree
ValueNew ==
    /\ v_pc = "none" /\ t_pc = "ready" /\ parse_count > 0 /\ ~ t_is_exhausted
    /\ v_pc' = "idle" /\ v_next' = "INITIAL" /\ v' = NoData /\ v_nook' = -1
    /\ virtual_stack' = <<>> /\ v_pop' = TRUE
    /\ v_valued' = b_valued /\ v_locked' = b_locked /\ v_rules' = {}
    /\ v_step' = "none" /\ values' = <<>> /\ completed' = NoRule
    /\ pause_counter' = pause_counter + 1
    /\ UNCHANGED <<t_pc, t_is_exhausted, parse_count, iterator, parses>>

\* marpa_v_unref, which ends the pause
ValueUnref ==
    /\ v_pc = "idle"
    /\ v_pc' = "none" /\ v_step' = "none" /\ v' = NoData
    /\ values' = <<>> /\ completed' = NoRule
    /\ v_next' = "INACTIVE" /\ v_nook' = -1 /\ virtual_stack' = <<>> /\ v_pop' = TRUE
    /\ v_valued' = {} /\ v_locked' = {} /\ v_rules' = {}
    /\ pause_counter' = pause_counter - 1
    /\ UNCHANGED <<t_pc, t_is_exhausted, parse_count, iterator, parses>>

\* marpa_v_symbol_is_valued_set, and marpa_v_rule_is_valued_set of a rule of x
SymbolIsValuedSet(x, value) ==
    /\ v_pc = "idle"
    /\ x \in v_locked => (x \in v_valued) = value
    /\ v_locked' = v_locked \cup {x}
    /\ v_valued' = IF value THEN v_valued \cup {x} ELSE v_valued \ {x}
    /\ UNCHANGED <<tree, v_pc, v_next, v, v_nook, virtual_stack, v_pop, v_rules, v_step, history>>

\* marpa_v_valued_force: the symbols before the one that is refused are forced.
ValuedForce ==
    LET refused == v_locked \ v_valued
        forced == {x \in XSYs : \A y \in refused : x < y}
    IN  /\ v_pc = "idle"
        /\ v_locked' = v_locked \cup forced /\ v_valued' = v_valued \cup forced
        /\ UNCHANGED <<tree, v_pc, v_next, v, v_nook, virtual_stack, v_pop, v_rules, v_step, history>>

-----------------------------------------------------------------------------
(* marpa_v_step *)

StepReturns(step) == v_pc' = "idle" /\ v_step' = step

\* Valued status is locked from the first step on.
StepInitial ==
    /\ v_pc = "idle" /\ v_next = "INITIAL" /\ ~ O_is_Nulling
    /\ v_locked' = XSYs
    /\ v_rules' = {r \in XRLs : LHS_of_XRL(r) \in v_valued}
    /\ v_nook' = Len(nook_stack)
    /\ v_pc' = "visit" /\ v_pop' = TRUE
    /\ UNCHANGED <<tree, v_next, v, virtual_stack, v_valued, v_step, history>>

StepGetData ==
    /\ v_pc = "idle" /\ v_next = "GET_DATA"
    /\ v_pc' = "visit" /\ v_pop' = TRUE
    /\ UNCHANGED <<tree, v_next, v, v_nook, virtual_stack, statuses, v_step, history>>

\* The rule of a nook whose token has been reported.
StepRule ==
    /\ v_pc = "idle" /\ v_next = "RULE"
    /\ v_pc' = "report"
    /\ UNCHANGED <<tree, v_next, v, v_nook, virtual_stack, v_pop, statuses, v_step, history>>

\* "Step through a nulling valuator"
StepNulling ==
    /\ v_pc = "idle" /\ O_is_Nulling
    /\ v' = [v EXCEPT !.symbol = StartXSY, !.token_start = 0, !.es = 0,
                      !.result = 0, !.arg_0 = 0, !.arg_n = 0]
    /\ StepReturns(IF v_next = "INITIAL" /\ StartXSY \in v_valued THEN "NULLING_SYMBOL" ELSE "INACTIVE")
    /\ v_next' = "INACTIVE"
    /\ UNCHANGED <<tree, v_nook, virtual_stack, v_pop, statuses, history>>

StepInactive ==
    /\ v_pc = "idle" /\ v_next = "INACTIVE" /\ ~ O_is_Nulling
    /\ StepReturns("INACTIVE")
    /\ UNCHANGED <<tree, v_next, v, v_nook, virtual_stack, v_pop, statuses, history>>

Put(stack, n, value) == [i \in 1 .. n + 1 |-> IF i <= n THEN stack[i] ELSE value]
Arguments(stack, arg_0, arg_n) ==
    [i \in 1 .. arg_n - arg_0 + 1 |->
        IF arg_0 + i \in DOMAIN stack THEN stack[arg_0 + i] ELSE NoData]
ValueOf(symbol, start, end) == [symbol |-> symbol, start |-> start, end |-> end]

\* Mutant: every token starts where its rule does.
TokenStart_of_rule(o, and) == o.origin

TokenStart(o, and) == IF and.predecessor # NoOR THEN and.predecessor.set ELSE o.origin

\* Mutant: a nulled symbol that is not valued takes no place on the stack.
Pushes_if_valued(cause) ==
    OR_is_Token(cause) /\ (\/ cause.type = "valued"
                           \/ cause.type = "nulling" /\ Source_XSY_of_NSY[cause.nsy] \in v_valued)

\* The tokens that take a place on the stack.
Pushes(cause) == OR_is_Token(cause) /\ cause.type \in {"valued", "nulling"}

\* The data after the token of a nook.  A token with an unvalued symbol is
\* not reported; one that was read, as opposed to nulled, is not pushed.
TokenData(o, and, popped) ==
    LET symbol == Source_XSY_of_NSY[and.cause.nsy]
        top == popped.arg_n + 1
        pushed == IF Pushes(and.cause) THEN [popped EXCEPT !.arg_0 = top, !.arg_n = top] ELSE popped
    IN  CASE OR_is_Token(and.cause) /\ and.cause.type = "valued" ->
               [pushed EXCEPT !.token_type = "valued", !.symbol = symbol,
                  !.token_value = and.cause.value, !.token_start = TokenStart(o, and)]
          [] OR_is_Token(and.cause) /\ and.cause.type = "nulling" /\ symbol \in v_valued ->
               [pushed EXCEPT !.token_type = "nulling", !.symbol = symbol, !.token_start = o.set]
          [] OTHER -> [pushed EXCEPT !.token_type = "dummy"]

\* The values after the token of a nook.
TokenValues_of(o, and, data) ==
    IF Pushes(and.cause)
    THEN Put(values, data.arg_n,
             ValueOf(Source_XSY_of_NSY[and.cause.nsy],
                     IF and.cause.type = "nulling" THEN o.set ELSE data.token_start, o.set))
    ELSE values

\* Mutant: the symbols of the last piece of a rule are left out.
RuleLength_of_top(irl) ==
    IF irl \in VirtualRHS THEN virtual_stack[Len(virtual_stack)] ELSE Length_of_IRL(irl)

\* How many values a completed rule that is no piece of another takes.
RuleLength(irl) ==
    IF irl \in VirtualRHS THEN Real_SYM_Count_of_IRL[irl] + virtual_stack[Len(virtual_stack)]
    ELSE Length_of_IRL(irl)

\* Mutant: every piece of a rule starts a count of its own.
VirtualPiece_pushed(irl) == Append(virtual_stack, Real_SYM_Count_of_IRL[irl])

\* The virtual stack after a piece of a rule, the last one or another.
VirtualPiece(irl) ==
    IF irl \in VirtualRHS
    THEN [virtual_stack EXCEPT ![Len(virtual_stack)] = @ + Real_SYM_Count_of_IRL[irl]]
    ELSE Append(virtual_stack, Real_SYM_Count_of_IRL[irl])

\* One turn of "Perform evaluation steps".
VisitNook ==
    LET nook == nook_stack[v_nook]
        o == nook.or
        and == and_order_get(o, nook.choice)
        entered == [v EXCEPT !.token_value = -1, !.rule = -1, !.es = o.set]
        popped == IF v_pop THEN [entered EXCEPT !.arg_n = v.arg_0] ELSE entered
        data == TokenData(o, and, popped)
        pushed == TokenValues_of(o, and, data)
        is_complete == o.position = Length_of_IRL(o.irl)
        is_rule == is_complete /\ o.irl \notin VirtualLHS
        rule == Source_XRL_of_IRL[o.irl]
        arg_0 == data.arg_n - RuleLength(o.irl) + 1
    IN  /\ v_pc = "visit" /\ v_nook > 0
        /\ v_nook' = v_nook - 1
        /\ v_pop' = is_rule
        /\ virtual_stack' =
              CASE is_complete /\ ~ is_rule -> VirtualPiece(o.irl)
                [] is_rule /\ o.irl \in VirtualRHS -> SubSeq(virtual_stack, 1, Len(virtual_stack) - 1)
                [] OTHER -> virtual_stack
        /\ v' = IF ~ is_rule THEN data
                ELSE IF rule \notin v_rules THEN [data EXCEPT !.arg_0 = arg_0]
                ELSE [data EXCEPT !.arg_0 = arg_0, !.rule = rule, !.rule_start = o.origin]
        /\ v_pc' = IF v'.rule >= 0 \/ data.token_type # "dummy" THEN "token" ELSE "visit"
        /\ values' = IF is_rule THEN Put(pushed, arg_0, ValueOf(LHS_of_XRL(rule), o.origin, o.set))
                     ELSE pushed
        /\ completed' = IF is_rule
                        THEN [rule |-> rule, start |-> o.origin, end |-> o.set,
                              arguments |-> Arguments(pushed, arg_0, data.arg_n)]
                        ELSE completed
        /\ UNCHANGED <<tree, v_next, statuses, v_step>>

VisitEnds ==
    /\ v_pc = "visit" /\ v_nook = 0
    /\ v' = [v EXCEPT !.token_value = -1, !.rule = -1]
    /\ v_nook' = -1 /\ v_next' = "INACTIVE" /\ StepReturns("INACTIVE")
    /\ UNCHANGED <<tree, virtual_stack, v_pop, statuses, history>>

\* What was found is reported, the token before the rule.
ReportToken ==
    /\ v_pc = "token"
    /\ v_next' = "RULE"
    /\ IF v.token_type = "dummy"
       THEN v_pc' = "report" /\ UNCHANGED <<v, v_step>>
       ELSE /\ v' = [v EXCEPT !.result = v.arg_n]
            /\ StepReturns(IF v.token_type = "nulling" THEN "NULLING_SYMBOL" ELSE "TOKEN")
    /\ UNCHANGED <<tree, v_nook, virtual_stack, v_pop, statuses, history>>

ReportRule ==
    /\ v_pc = "report"
    /\ v_next' = "GET_DATA"
    /\ IF v.rule < 0
       THEN v_pc' = "visit" /\ v_pop' = TRUE /\ UNCHANGED <<v, v_step>>
       ELSE v' = [v EXCEPT !.result = v.arg_0] /\ StepReturns("RULE") /\ UNCHANGED v_pop
    /\ UNCHANGED <<tree, v_nook, virtual_stack, statuses, history>>

-----------------------------------------------------------------------------
StepBegins == StepInitial \/ StepGetData \/ StepRule \/ StepNulling \/ StepInactive

ValueSteps == VisitNook \/ VisitEnds \/ ReportToken \/ ReportRule

-----------------------------------------------------------------------------
(* The recognizer, one bocage of it, its order and its tree, a report, and a
   valuator of the tree.  A call that has begun ends before another begins. *)

valuation == <<forest, progress, valuator>>

ValuationInit == ForestInit /\ ProgressInit /\ ValueInit

ValuatorCalls ==
    \/ ValueNew \/ ValueUnref \/ ValuedForce \/ StepBegins
    \/ \E x \in XSYs, value \in BOOLEAN : SymbolIsValuedSet(x, value)

ValuationNext ==
    \/ /\ v_pc \in {"none", "idle"} /\ ForestNext
       /\ UNCHANGED <<progress, valuator>>
    \/ /\ v_pc \in {"none", "idle"} /\ b_pc \notin {"or-nodes", "drafts"}
       /\ t_pc \in {"none", "ready"} /\ ProgressCalls
       /\ UNCHANGED <<forest, valuator>>
    \/ /\ pc = "idle" /\ (ValuatorCalls \/ ValueSteps)
       /\ UNCHANGED <<vars, progress, bocage, order, t_returned>>

ValuationSpec == ValuationInit /\ [][ValuationNext]_valuation

-----------------------------------------------------------------------------
(* Properties *)

\* The values a rule is given are those of its right side, in the order of the
\* rule, however the rule was split and whichever of its symbols were nulled;
\* those of a sequence are items with separators between them, and after them
\* if it is not proper.  They fill the stretch of the input that it spans.
SymbolsOf(arguments) == [i \in DOMAIN arguments |-> arguments[i].symbol]

SymbolsMatch(rule, symbols) ==
    IF ~ rule.sequence THEN symbols = rule.rhs
    ELSE /\ Len(symbols) >= 1
         /\ \A i \in DOMAIN symbols :
               symbols[i] = IF IsItem(rule, i) THEN rule.rhs[1] ELSE rule.separator
         /\ rule.proper => symbols[Len(symbols)] = rule.rhs[1]

ArgumentsAreChildren ==
    completed.rule # 0 =>
        LET arguments == completed.arguments
            n == Len(arguments)
        IN  /\ SymbolsMatch(External.rules[completed.rule], SymbolsOf(arguments))
            /\ arguments[1].start = completed.start /\ arguments[n].end = completed.end
            /\ \A i \in 1 .. n - 1 : arguments[i].end = arguments[i + 1].start

\* The children of a rule that is reported have their values at the stack
\* locations from arg_0 to arg_n, the first location of a stack being 0.
ChildValuesOnStack ==
    v_pc = "idle" /\ v_step = "RULE" =>
        v.arg_0 >= 0 /\ SymbolsMatch(External.rules[v.rule], SymbolsOf(completed.arguments))

\* A token step is about a token that was read: its symbol, its value, and
\* the stretch of the input that was given for it.
TokensAsRead ==
    v_pc = "idle" /\ v_step = "TOKEN" =>
        \E t \in tokens : /\ Source_XSY_of_NSY[t.nsy] = v.symbol /\ t.value = v.token_value
                          /\ t.start = v.token_start /\ t.end = v.es

\* When the steps have ended, the stack holds the one value of the start symbol
\* over the parse, where the last result was put.
Ended == v_pc = "idle" /\ v_next = "INACTIVE" /\ ~ O_is_Nulling

WholeParseValued ==
    Ended => v.arg_0 = 0 /\ values[1] = ValueOf(StartXSY, 0, b_end)

\* The virtual stack has a count to add to whenever a piece of a rule follows
\* another, and one to take when the first piece ends; at the end there is
\* only that of the start rule.
VirtualStackBalanced ==
    /\ v_pc = "visit" /\ v_nook > 0 =>
          LET o == nook_stack[v_nook].or
          IN  o.position = Length_of_IRL(o.irl) /\ o.irl \in VirtualRHS => virtual_stack # <<>>
    /\ Ended => virtual_stack = <<1>>
=============================================================================
