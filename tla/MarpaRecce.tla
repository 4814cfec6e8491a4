----------------------------- MODULE MarpaRecce -----------------------------
(***************************************************************************)
(* The recognizer of libmarpa (struct marpa_r): an Earley parser with Leo  *)
(* items that the application drives with marpa_r_start_input,             *)
(* marpa_r_alternative and marpa_r_earleme_complete.                       *)
(*                                                                         *)
(* Every external call is an action, taken when pc is "idle".  A call of   *)
(* marpa_r_earleme_complete that creates an Earley set goes through the    *)
(* phases pc names, one step per alternative scanned, per cause completed  *)
(* and per Leo item populated; the application waits until it returns.     *)
(***************************************************************************)
EXTENDS MarpaGrammar

CONSTANTS
    JEARLEME_THRESHOLD,   \* bound on earlemes and token lengths, INT_MAX/4
    YIM_FATAL_THRESHOLD,  \* bound on the items of an Earley set
    TokenValues,          \* values and lengths the application passes in
    TokenLengths,
    WarningThresholds,    \* arguments of earley_item_warning_threshold_set
    DefaultWarningThreshold,
    \* The event bits of the grammar, sets of XSYs.
    NulledEventXSYs, PredictionEventXSYs,
    CompletionStartsActive, NulledStartsActive, PredictionStartsActive,
    \* XSY_is_Valued and XSY_is_Valued_Locked, and the default of each ZWA.
    ValuedXSYs, ValuedLockedXSYs, ZWA_Defaults,
    \* The settings this application changes: the XSYs it passes to the
    \* calls that activate events, the ZWAs it passes to zwa_default_set,
    \* and whether it calls _marpa_r_is_use_leo_set.
    ToggledXSYs, ExpectedToggles, ToggledZWAs, TogglesLeo

ASSUME RecceAssumption ==
    /\ JEARLEME_THRESHOLD \in Nat \ {0} /\ YIM_FATAL_THRESHOLD \in Nat
    /\ TokenValues \subseteq Int /\ TokenLengths \subseteq Int
    /\ WarningThresholds \subseteq Int /\ DefaultWarningThreshold \in Nat
    /\ NulledEventXSYs \subseteq XSYs /\ PredictionEventXSYs \subseteq XSYs
    /\ CompletionStartsActive \subseteq XSYs /\ NulledStartsActive \subseteq XSYs
    /\ PredictionStartsActive \subseteq XSYs
    /\ ValuedXSYs \subseteq XSYs /\ ValuedLockedXSYs \subseteq XSYs
    /\ ZWA_Defaults \in [ZWAs -> BOOLEAN]
    /\ ToggledXSYs \subseteq XSYs /\ ExpectedToggles \subseteq XSYs
    /\ ToggledZWAs \subseteq ZWAs /\ TogglesLeo \in BOOLEAN

Earlemes == 0 .. JEARLEME_THRESHOLD
NoEarleme == -1

\* An Earley item, in the set yims[e]: its AHM and the earleme of its origin.
YIMs == [ahm : AHMs, origin : Earlemes]

\* An alternative: a token from the Earley set at start to earleme end.
Alternatives == [nsy : NSYs, start : Earlemes, end : Earlemes, value : Int]

\* Source links, in one set for each kind: the item they are a source of and
\* its Earley set, the predecessor item (or the transition symbol of the Leo
\* predecessor), the Earley set in the middle, and the token or the cause.
TokenLinks == [at : Earlemes, yim : YIMs, predecessor : YIMs, token : Alternatives]
CompletionLinks == [at : Earlemes, yim : YIMs, predecessor : YIMs, cause : YIMs]
LeoLinks == [at : Earlemes, yim : YIMs, predecessor : Earlemes \X NSYs, cause : YIMs]

\* A Leo item, keyed by Earley set and transition symbol.  It is unpopulated
\* while its origin is NoEarleme; a LIM without predecessor has NoLIM there.
NoLIM == <<NoEarleme, NoNSY>>
LIMs == [trailhead : YIMs, top : AHMs, origin : Earlemes \cup {NoEarleme},
         predecessor : (Earlemes \X NSYs) \cup {NoLIM}, cil : SUBSET AHMs]

\* The MARPA_ERR_ codes that these calls set.
ErrorCodes ==
    {"NONE", "RECCE_STARTED", "RECCE_NOT_ACCEPTING_INPUT", "TOKEN_LENGTH_LE_ZERO",
     "TOKEN_TOO_LONG", "TOKEN_IS_NOT_TERMINAL", "SYMBOL_VALUED_CONFLICT",
     "INACCESSIBLE_TOKEN", "NO_TOKEN_EXPECTED_HERE", "UNEXPECTED_TOKEN_ID",
     "PARSE_TOO_LONG", "DUPLICATE_TOKEN", "PARSE_EXHAUSTED", "SYMBOL_IS_NOT_EVENT",
     "SYMBOL_IS_NULLING", "SYMBOL_IS_UNUSED"}

VARIABLES
    input_phase,          \* t_input_phase: "before", "during", "after"
    is_exhausted,         \* t_is_exhausted
    current_earleme,      \* t_current_earleme
    furthest_earleme,     \* t_furthest_earleme
    earley_sets,          \* the earlemes that have an Earley set
    yims,                 \* the Earley items of each
    token_links, completion_links, leo_links,
    lims,                 \* <<earleme, nsy>> -> LIM
    alternatives,         \* t_alternatives, the stack's top last
    expected,             \* t_bv_nsyid_is_expected
    completion_stack,     \* t_completion_stack
    events,               \* the grammar's event stack, as the application reads it
    active,               \* the t_lbv_xsyid_*_event_is_active bits
    active_event_count,   \* t_active_event_count
    expected_is_event,    \* t_nsy_expected_is_event
    valued,               \* t_valued, t_unvalued, t_{un,}valued_terminal, t_valued_locked
    zwa_default,          \* Default_Value_of_ZWA
    use_leo, using_leo,   \* t_use_leo_flag, t_is_using_leo
    warning_threshold,    \* t_earley_item_warning_threshold
    returned,             \* what the last call returned, and the error it set
    pc,                   \* the phase of the running marpa_r_earleme_complete
    tokens                \* history: every alternative accepted so far

clock == <<input_phase, is_exhausted, current_earleme, furthest_earleme>>
links == <<token_links, completion_links, leo_links>>
settings == <<active, active_event_count, expected_is_event, zwa_default, use_leo,
              warning_threshold>>
input == <<alternatives, valued, tokens>>
chart == <<earley_sets, yims, links, lims, completion_stack>>
vars == <<clock, chart, expected, events, settings, using_leo, input, returned, pc>>

-----------------------------------------------------------------------------
(* Postdot items *)

\* The YIXes of t_postdot_ary, and the LIM in front of them if there is one.
PIMs(e, nsy) == {y \in yims[e] : Postdot_NSYID_of_AHM(y.ahm) = nsy}
HasLIM(e, nsy) == <<e, nsy>> \in DOMAIN lims

\* Mutant: the advanced item starts at the current Earley set.
Advance_from_here(yim) == [ahm |-> Next_AHM_of_AHM(yim.ahm), origin |-> current_earleme]

\* An item advanced over its postdot symbol, with the same origin.
Advance(yim) == [ahm |-> Next_AHM_of_AHM(yim.ahm), origin |-> yim.origin]
LHS_NSYID_of_YIM(yim) == LHSID_of_IRL[yim.ahm.irl]

\* Mutant: an item that has sources is taken for a new one.
HasNoSource_always(yim) == TRUE

\* Earley_Item_has_No_Source, for an item of the current Earley set.
HasNoSource(yim) ==
    /\ \A l \in token_links : l.at = current_earleme => l.yim # yim
    /\ \A l \in completion_links : l.at = current_earleme => l.yim # yim
    /\ \A l \in leo_links : l.at = current_earleme => l.yim # yim

(* Events *)

SymbolEvents == {"COMPLETED", "NULLED", "PREDICTED", "EXPECTED"}
Events == (SymbolEvents \X XSYs) \cup {<<"EXHAUSTED">>, <<"EARLEY_ITEM_THRESHOLD">>}

\* The AHMs that trigger events in Earley set e: those of its items, and
\* those on the Leo paths that its Leo links stand for.
EventAHMs(items, e) ==
    {y.ahm : y \in {i \in items : AHM_has_Event(i.ahm)}}
    \cup UNION {lims[l.predecessor].cil : l \in {k \in leo_links : k.at = e}}

NulledAtStart == {<<"NULLED", x>> : x \in NulledXSYs[StartXSY] \cap active.nulled}

trigger_events(items, e) ==
    LET ahms == EventAHMs(items, e)
        completed == UNION {Completion_XSYIDs_of_AHM(a) : a \in ahms}
        nulled == UNION {Nulled_XSYIDs_of_AHM(a) : a \in ahms}
        predicted == UNION {Prediction_XSYIDs_of_AHM(a) : a \in ahms}
    IN  {<<"COMPLETED", x>> : x \in completed \cap active.completion}
        \cup {<<"NULLED", x>> : x \in nulled \cap active.nulled}
        \cup {<<"PREDICTED", x>> : x \in predicted \cap active.prediction}
        \cup (IF e = 0 THEN NulledAtStart ELSE {})

\* The events of "Copy PIM workarea to postdot item array".
ExpectedEvents(items) ==
    {<<"EXPECTED", Source_XSY_of_NSY[nsy]>> :
        nsy \in {Postdot_NSYID_of_AHM(y.ahm) : y \in items} \cap expected_is_event}

PostdotTerminals(items) ==
    {Postdot_NSYID_of_AHM(y.ahm) : y \in items} \cap TerminalNSYs

Returns(v) == returned' = [value |-> v, error |-> "NONE"]
Fails(code) == returned' = [value |-> -2, error |-> code]

-----------------------------------------------------------------------------
(* marpa_r_new *)
Init ==
    /\ input_phase = "before" /\ is_exhausted = FALSE
    /\ current_earleme = NoEarleme /\ furthest_earleme = 0
    /\ earley_sets = {} /\ yims = [e \in Earlemes |-> {}]
    /\ token_links = {} /\ completion_links = {} /\ leo_links = {}
    /\ lims = [k \in {} |-> {}]
    /\ completion_stack = {} /\ alternatives = <<>> /\ expected = {}
    /\ events = {}
    /\ active = [completion |-> CompletionStartsActive, nulled |-> NulledStartsActive,
                 prediction |-> PredictionStartsActive]
    /\ active_event_count = Cardinality(CompletionEventXSYs)
          + Cardinality(NulledEventXSYs) + Cardinality(PredictionEventXSYs)
    /\ expected_is_event = {}
    /\ valued = [valued |-> {}, valued_terminal |-> {}, unvalued |-> {},
                 unvalued_terminal |-> {}, locked |-> {}]
    /\ zwa_default = ZWA_Defaults
    /\ use_leo = TRUE /\ using_leo = FALSE
    /\ warning_threshold = DefaultWarningThreshold
    /\ returned = [value |-> 0, error |-> "NONE"]
    /\ pc = "idle" /\ tokens = {}

-----------------------------------------------------------------------------
(* marpa_r_start_input *)

\* The IRLs seen at earleme 0: the least set that has the start IRL and, with
\* an IRL, those it predicts, cut wherever a zero-width assertion fails.
evaluate_zwas(irl) == \A z \in ZWA_CIL_of_IRL[irl] : zwa_default[z]

PredictedAtStart ==
    [seen \in SUBSET IRLs |->
        {irl \in IRLs :
            /\ evaluate_zwas(irl)
            /\ \E i \in seen : Postdot_NSYID_of_AHM(First_AHM_of_IRL(i)) = LHSID_of_IRL[irl]}]

IRLsSeenAtStart == Fixpoint(IRLs, PredictedAtStart, {StartIRL})

\* "Set up terminal-related boolean vectors"
InitialValued ==
    [valued |-> ValuedXSYs, valued_terminal |-> ValuedXSYs \cap TerminalXSYs,
     unvalued |-> XSYs \ ValuedXSYs, unvalued_terminal |-> TerminalXSYs \ ValuedXSYs,
     locked |-> ValuedLockedXSYs]

StartInputFails ==
    /\ pc = "idle" /\ input_phase # "before"
    /\ Fails("RECCE_STARTED")
    /\ UNCHANGED <<clock, chart, expected, events, settings, using_leo, input, pc>>

StartInputTrivial ==
    /\ pc = "idle" /\ input_phase = "before" /\ G_is_Trivial
    /\ input_phase' = "after" /\ is_exhausted' = TRUE
    /\ current_earleme' = 0 /\ earley_sets' = {0}
    /\ valued' = InitialValued
    /\ events' = NulledAtStart \cup {<<"EXHAUSTED">>}
    /\ Returns(1 + Cardinality(NulledAtStart))
    /\ UNCHANGED <<furthest_earleme, yims, links, lims, completion_stack, expected,
                   settings, using_leo, alternatives, tokens, pc>>

StartInput ==
    /\ pc = "idle" /\ input_phase = "before" /\ ~ G_is_Trivial
    /\ LET set0 == {[ahm |-> First_AHM_of_IRL(i), origin |-> 0] : i \in IRLsSeenAtStart}
       IN  /\ yims' = [yims EXCEPT ![0] = set0]
           /\ expected' = PostdotTerminals(set0)
           /\ events' = ExpectedEvents(set0) \cup trigger_events(set0, 0)
    /\ input_phase' = "during" /\ current_earleme' = 0 /\ earley_sets' = {0}
    /\ valued' = InitialValued
    /\ using_leo' = use_leo
    /\ Returns(1)
    /\ UNCHANGED <<is_exhausted, furthest_earleme, links, lims, completion_stack,
                   settings, alternatives, tokens, pc>>

-----------------------------------------------------------------------------
(* marpa_r_alternative *)

\* alternative_cmp: a sorts before b.  The major key is reversed, so that the
\* alternative with the lowest end is on the top of the stack.
SortsBefore(a, b) ==
    \/ a.end > b.end
    \/ a.end = b.end /\ a.nsy < b.nsy
    \/ a.end = b.end /\ a.nsy = b.nsy /\ a.start < b.start

SameToken(a, b) == a.end = b.end /\ a.nsy = b.nsy /\ a.start = b.start

IsDuplicate(a) == \E i \in DOMAIN alternatives : SameToken(a, alternatives[i])

\* Mutant: alternatives are pushed as they come.
alternative_insertion_point_on_top(s, a) == Len(s) + 1

\* What alternative_insertion_point finds by binary search.
alternative_insertion_point(s, a) ==
    1 + Cardinality({i \in DOMAIN s : SortsBefore(s[i], a)})

alternative_insert(s, a) ==
    LET ix == alternative_insertion_point(s, a)
    IN  [i \in 1 .. Len(s) + 1 |->
            IF i < ix THEN s[i] ELSE IF i = ix THEN a ELSE s[i - 1]]

\* The bits that let a token be read with this value.
HasValuedStatus(x, v) ==
    x \in (IF v # 0 THEN valued.valued_terminal ELSE valued.unvalued_terminal)

\* The first read of a symbol with another status than its default sets and
\* locks that status; the bits of the default one stay as they are.
LockValued(x, v) ==
    IF HasValuedStatus(x, v) THEN valued
    ELSE IF v # 0
    THEN [valued EXCEPT !.valued = @ \cup {x}, !.valued_terminal = @ \cup {x},
                        !.locked = @ \cup {x}]
    ELSE [valued EXCEPT !.unvalued = @ \cup {x}, !.unvalued_terminal = @ \cup {x},
                        !.locked = @ \cup {x}]

\* Mutant: a locked status does not stop the other one from being set.
MayChangeStatus_locked(x) == x \in TerminalXSYs

MayChangeStatus(x) == x \in TerminalXSYs /\ x \notin valued.locked

\* The initial checks, in the order of the code.
NoTokenIsRead(x, v, length, code) ==
    \/ input_phase # "during" /\ code = "RECCE_NOT_ACCEPTING_INPUT"
    \/ /\ input_phase = "during" /\ length <= 0
       /\ code = "TOKEN_LENGTH_LE_ZERO"
    \/ /\ input_phase = "during" /\ length >= JEARLEME_THRESHOLD
       /\ code = "TOKEN_TOO_LONG"
    \/ /\ input_phase = "during" /\ length \in 1 .. JEARLEME_THRESHOLD - 1
       /\ ~ HasValuedStatus(x, v) /\ x \notin TerminalXSYs
       /\ code = "TOKEN_IS_NOT_TERMINAL"
    \/ /\ input_phase = "during" /\ length \in 1 .. JEARLEME_THRESHOLD - 1
       /\ ~ HasValuedStatus(x, v) /\ x \in TerminalXSYs /\ ~ MayChangeStatus(x)
       /\ code = "SYMBOL_VALUED_CONFLICT"

AlternativeFails(x, v, length) ==
    /\ pc = "idle"
    /\ \E code \in {"RECCE_NOT_ACCEPTING_INPUT", "TOKEN_LENGTH_LE_ZERO", "TOKEN_TOO_LONG",
                    "TOKEN_IS_NOT_TERMINAL", "SYMBOL_VALUED_CONFLICT"} :
          NoTokenIsRead(x, v, length, code) /\ Fails(code)
    /\ UNCHANGED <<clock, chart, expected, events, settings, using_leo, input, pc>>

\* The call gets past the initial checks; its effect on the valued status
\* stays even if the token is then rejected.
PassesInitialChecks(x, v, length) ==
    /\ pc = "idle" /\ input_phase = "during"
    /\ length \in 1 .. JEARLEME_THRESHOLD - 1
    /\ HasValuedStatus(x, v) \/ MayChangeStatus(x)
    /\ valued' = LockValued(x, v)

\* "Set |current_earley_set|, failing if token is unexpected" and
\* "Set |target_earleme| or fail".
Unexpected(x, code) ==
    \/ NSY_of_XSY[x] = NoNSY /\ code = "INACCESSIBLE_TOKEN"
    \/ /\ NSY_of_XSY[x] # NoNSY /\ current_earleme \notin earley_sets
       /\ code = "NO_TOKEN_EXPECTED_HERE"
    \/ /\ NSY_of_XSY[x] # NoNSY /\ current_earleme \in earley_sets
       /\ PIMs(current_earleme, NSY_of_XSY[x]) = {}
       /\ code = "UNEXPECTED_TOKEN_ID"

IsExpected(x) ==
    /\ NSY_of_XSY[x] # NoNSY /\ current_earleme \in earley_sets
    /\ PIMs(current_earleme, NSY_of_XSY[x]) # {}

AlternativeRejected(x, v, length) ==
    /\ PassesInitialChecks(x, v, length)
    /\ \/ \E code \in {"INACCESSIBLE_TOKEN", "NO_TOKEN_EXPECTED_HERE", "UNEXPECTED_TOKEN_ID"} :
             Unexpected(x, code) /\ Fails(code)
       \/ /\ IsExpected(x) /\ current_earleme + length >= JEARLEME_THRESHOLD
          /\ Fails("PARSE_TOO_LONG")
    /\ UNCHANGED <<clock, chart, expected, events, settings, using_leo, alternatives,
                   tokens, pc>>

Alternative(x, v, length) ==
    LET a == [nsy |-> NSY_of_XSY[x], start |-> current_earleme,
              end |-> current_earleme + length, value |-> v]
    IN  /\ PassesInitialChecks(x, v, length)
        /\ IsExpected(x) /\ a.end < JEARLEME_THRESHOLD
        /\ furthest_earleme' = IF furthest_earleme < a.end THEN a.end ELSE furthest_earleme
        /\ \/ /\ IsDuplicate(a)
              /\ Fails("DUPLICATE_TOKEN")
              /\ UNCHANGED <<alternatives, tokens>>
           \/ /\ ~ IsDuplicate(a)
              /\ alternatives' = alternative_insert(alternatives, a)
              /\ tokens' = tokens \cup {a}
              /\ Returns(0)
        /\ UNCHANGED <<input_phase, is_exhausted, current_earleme, chart, expected, events,
                       settings, using_leo, pc>>

-----------------------------------------------------------------------------
(* marpa_r_earleme_complete *)

TopAlternative == alternatives[Len(alternatives)]

EndsHere(earleme) == alternatives # <<>> /\ TopAlternative.end = earleme

\* Mutant: an alternative that ends later is popped too.
PopsAt_any(earleme) == alternatives # <<>>

\* alternative_pop only refuses an alternative that ends later.
PopsAt(earleme) == alternatives # <<>> /\ TopAlternative.end <= earleme

EarlemeCompleteFails ==
    /\ pc = "idle" /\ input_phase # "during"
    /\ Fails("RECCE_NOT_ACCEPTING_INPUT")
    /\ UNCHANGED <<clock, chart, expected, events, settings, using_leo, input, pc>>

\* No token ends at the next earleme or later.
EarlemeCompleteExhausts ==
    /\ pc = "idle" /\ input_phase = "during"
    /\ current_earleme' = current_earleme + 1
    /\ current_earleme' > furthest_earleme
    /\ expected' = {}
    /\ is_exhausted' = TRUE /\ input_phase' = "after"
    /\ events' = {<<"EXHAUSTED">>}
    /\ Fails("PARSE_EXHAUSTED")
    /\ UNCHANGED <<furthest_earleme, chart, settings, using_leo, input, pc>>

\* Tokens end at a later earleme, but none at this one: there is no Earley set.
EarlemeCompleteEmpty ==
    /\ pc = "idle" /\ input_phase = "during"
    /\ current_earleme' = current_earleme + 1
    /\ current_earleme' <= furthest_earleme
    /\ ~ EndsHere(current_earleme')
    /\ expected' = {} /\ events' = {}
    /\ Returns(0)
    /\ UNCHANGED <<input_phase, is_exhausted, furthest_earleme, chart, settings, using_leo,
                   input, pc>>

EarlemeCompleteBegins ==
    /\ pc = "idle" /\ input_phase = "during"
    /\ current_earleme' = current_earleme + 1
    /\ current_earleme' <= furthest_earleme
    /\ EndsHere(current_earleme')
    /\ earley_sets' = earley_sets \cup {current_earleme'}
    /\ expected' = {} /\ events' = {}
    /\ pc' = "scan"
    /\ UNCHANGED <<input_phase, is_exhausted, furthest_earleme, yims, links, lims,
                   completion_stack, settings, using_leo, input, returned>>

\* alternative_pop, and "Scan an Earley item from alternative".
ScanAlternative ==
    /\ pc = "scan" /\ PopsAt(current_earleme)
    /\ LET a == TopAlternative
           predecessors == PIMs(a.start, a.nsy)
       IN  /\ yims' = [yims EXCEPT ![current_earleme] = @ \cup {Advance(p) : p \in predecessors}]
           /\ token_links' = token_links \cup
                 {[at |-> current_earleme, yim |-> Advance(p), predecessor |-> p, token |-> a] :
                     p \in predecessors}
           /\ alternatives' = SubSeq(alternatives, 1, Len(alternatives) - 1)
    /\ UNCHANGED <<clock, earley_sets, completion_links, leo_links, lims, completion_stack,
                   expected, events, settings, using_leo, valued, tokens, returned, pc>>

\* "Pre-populate the completion stack"
PrePopulateCompletions ==
    /\ pc = "scan" /\ ~ PopsAt(current_earleme)
    /\ completion_stack' = {y \in yims[current_earleme] : AHM_is_Completion(y.ahm)}
    /\ pc' = "complete"
    /\ UNCHANGED <<clock, earley_sets, yims, links, lims, expected, events, settings,
                   using_leo, input, returned>>

\* A cause whose postdot items start with a LIM: "Add effect of |leo_item|".
CompleteWithLeo(cause) ==
    LET lim == <<cause.origin, LHS_NSYID_of_YIM(cause)>>
        effect == [ahm |-> lims[lim].top, origin |-> lims[lim].origin]
    IN  /\ lim \in DOMAIN lims
        /\ yims' = [yims EXCEPT ![current_earleme] = @ \cup {effect}]
        /\ leo_links' = leo_links \cup
              {[at |-> current_earleme, yim |-> effect, predecessor |-> lim, cause |-> cause]}
        /\ completion_stack' = (completion_stack \ {cause})
              \cup (IF HasNoSource(effect) THEN {effect} ELSE {})
        /\ UNCHANGED completion_links

\* Any other cause: "Add |effect_ahm| for non-Leo |predecessor|".
CompleteWithPredecessors(cause) ==
    LET predecessors == PIMs(cause.origin, LHS_NSYID_of_YIM(cause))
        effects == {Advance(p) : p \in predecessors}
    IN  /\ ~ HasLIM(cause.origin, LHS_NSYID_of_YIM(cause))
        /\ yims' = [yims EXCEPT ![current_earleme] = @ \cup effects]
        /\ completion_links' = completion_links \cup
              {[at |-> current_earleme, yim |-> Advance(p), predecessor |-> p, cause |-> cause] :
                  p \in predecessors}
        /\ completion_stack' = (completion_stack \ {cause})
              \cup {y \in effects : AHM_is_Completion(y.ahm) /\ HasNoSource(y)}
        /\ UNCHANGED leo_links

CompleteCause ==
    /\ pc = "complete"
    /\ \E cause \in completion_stack : CompleteWithLeo(cause) \/ CompleteWithPredecessors(cause)
    /\ UNCHANGED <<clock, earley_sets, token_links, lims, expected, events, settings,
                   using_leo, input, returned, pc>>

\* "Add predictions to |current_earley_set|"
AddPredictions ==
    /\ pc = "complete" /\ completion_stack = {}
    /\ yims' = [yims EXCEPT ![current_earleme] = @ \cup
          {[ahm |-> First_AHM_of_IRL(i), origin |-> current_earleme] :
              i \in UNION {Predicted_IRLs_of_AHM(y.ahm) : y \in yims[current_earleme]}}]
    /\ pc' = "postdot"
    /\ UNCHANGED <<clock, earley_sets, links, lims, completion_stack, expected, events,
                   settings, using_leo, input, returned>>

\* "Start LIMs in PIM workarea": a symbol gets a LIM if it is postdot in just
\* one item, and advancing that item gives the completion of a Leo rule.
LeoEligible_ambiguous(nsy) ==   \* mutant: more than one item may wait for it
    \E y \in PIMs(current_earleme, nsy) :
        y.ahm.irl \in LeoIRLs /\ AHM_is_Leo_Completion(Next_AHM_of_AHM(y.ahm))

LeoEligible_anywhere(nsy) ==   \* mutant: at any position of a Leo rule
    \E y \in PIMs(current_earleme, nsy) :
        PIMs(current_earleme, nsy) = {y} /\ y.ahm.irl \in LeoIRLs

LeoEligible(nsy) ==
    \E y \in PIMs(current_earleme, nsy) :
        /\ PIMs(current_earleme, nsy) = {y}
        /\ y.ahm.irl \in LeoIRLs
        /\ AHM_is_Leo_Completion(Next_AHM_of_AHM(y.ahm))

NewLIM(nsy) ==
    LET base == CHOOSE y \in yims[current_earleme] : Postdot_NSYID_of_AHM(y.ahm) = nsy
    IN  [trailhead |-> base, top |-> Next_AHM_of_AHM(base.ahm), origin |-> NoEarleme,
         predecessor |-> NoLIM, cil |-> {}]

StartLIMs ==
    /\ pc = "postdot"
    /\ LET new == IF using_leo THEN {<<current_earleme, n>> : n \in {m \in NSYs : LeoEligible(m)}}
                  ELSE {}
       IN  lims' = [k \in DOMAIN lims \cup new |->
                       IF k \in new THEN NewLIM(k[2]) ELSE lims[k]]
    /\ pc' = "populate"
    /\ UNCHANGED <<clock, earley_sets, yims, links, completion_stack, expected, events,
                   settings, using_leo, input, returned>>

\* "Add predecessors to LIMs".  LIM_is_Populated(k), and the key of the
\* predecessor LIM of k, if any.
LIM_is_Populated(k) == lims[k].origin # NoEarleme
PredecessorKey(k) == <<lims[k].trailhead.origin, LHS_NSYID_of_YIM(lims[k].trailhead)>>
Trailhead_AHM_of_LIM(k) == Next_AHM_of_AHM(lims[k].trailhead.ahm)

\* The LIMs that are reached from those of K by Predecessor_LIM_of_LIM: the
\* Leo paths that begin with them.
LeoPathsFrom(K) ==
    Fixpoint(DOMAIN lims,
             [J \in SUBSET DOMAIN lims |-> {k \in DOMAIN lims : \E j \in J : lims[j].predecessor = k}],
             K)
Event_AHMIDs_of_AHM(ahm) == IF AHM_has_Event(ahm) THEN {ahm} ELSE {}

PopulateFromBase(k) ==
    /\ PredecessorKey(k) \notin DOMAIN lims
    /\ lims' = [lims EXCEPT ![k] =
          [@ EXCEPT !.origin = lims[k].trailhead.origin,
                    !.cil = Event_AHMIDs_of_AHM(Trailhead_AHM_of_LIM(k))]]

\* Mutant: the end of the chain gives the top, but not the origin.
PopulateFromPredecessor_own_origin(k) ==
    LET p == PredecessorKey(k)
    IN  /\ p \in DOMAIN lims
        /\ LIM_is_Populated(p)
        /\ lims' = [lims EXCEPT ![k] =
              [@ EXCEPT !.origin = lims[k].trailhead.origin, !.top = lims[p].top,
                        !.predecessor = p]]

\* The predecessor's CIL is extended only while it is smaller than the event
\* group of its top AHM.
PopulateFromPredecessor(k) ==
    LET p == PredecessorKey(k)
    IN  /\ p \in DOMAIN lims
        /\ LIM_is_Populated(p)
        /\ lims' = [lims EXCEPT ![k] =
              [@ EXCEPT !.origin = lims[p].origin, !.top = lims[p].top, !.predecessor = p,
                        !.cil = lims[p].cil \cup
                            IF Event_Group_Size_of_AHM(lims[p].top) > Cardinality(lims[p].cil)
                            THEN Event_AHMIDs_of_AHM(Trailhead_AHM_of_LIM(k)) ELSE {}]]

PopulateLIM ==
    /\ pc = "populate"
    /\ \E k \in DOMAIN lims :
          /\ ~ LIM_is_Populated(k)
          /\ PopulateFromBase(k) \/ PopulateFromPredecessor(k)
    /\ UNCHANGED <<clock, earley_sets, yims, links, completion_stack, expected, events,
                   settings, using_leo, input, returned, pc>>

\* Mutant: pending alternatives do not keep the parse going.
NothingAhead_but_pending(items) == PostdotTerminals(items) = {}

\* "we can make no further progress"
NothingAhead(items) == PostdotTerminals(items) = {} /\ alternatives = <<>>

\* The rest of postdot_items_create and of marpa_r_earleme_complete.
EarlemeCompleteEnds ==
    LET items == yims[current_earleme]
        exhausted == NothingAhead(items)
    IN  /\ pc = "populate" /\ \A k \in DOMAIN lims : LIM_is_Populated(k)
        /\ expected' = PostdotTerminals(items)
        /\ is_exhausted' = (is_exhausted \/ exhausted)
        /\ input_phase' = IF exhausted THEN "after" ELSE input_phase
        /\ events' = ExpectedEvents(items)
              \cup (IF exhausted THEN {<<"EXHAUSTED">>} ELSE {})
              \cup (IF Cardinality(items) >= warning_threshold
                    THEN {<<"EARLEY_ITEM_THRESHOLD">>} ELSE {})
              \cup (IF active_event_count > 0
                    THEN trigger_events(items, current_earleme) ELSE {})
        /\ Returns(Cardinality(events'))
        /\ pc' = "idle"
        /\ UNCHANGED <<current_earleme, furthest_earleme, chart, settings, using_leo, input>>

-----------------------------------------------------------------------------
(* The other mutators of the recognizer *)

\* marpa_r_clean.  No operation makes a recognizer inconsistent, so there is
\* never anything to clean.  Before the input starts it takes the number of the
\* latest Earley set, which is NULL, ahead of the check that fails: the steps
\* are those of a process that survives it, and one that does not takes none.
CleanFails ==
    /\ pc = "idle" /\ input_phase # "during"
    /\ Fails("RECCE_NOT_ACCEPTING_INPUT")
    /\ UNCHANGED <<clock, chart, expected, events, settings, using_leo, input, pc>>

Clean ==
    /\ pc = "idle" /\ input_phase = "during"
    /\ events' = {}
    /\ Returns(0)
    /\ UNCHANGED <<clock, chart, expected, settings, using_leo, input, pc>>

\* marpa_r_{completion,nulled,prediction}_symbol_activate.  A symbol not set
\* up for the event is reported as an error, and activated all the same.
IsEvent(kind) ==
    CASE kind = "completion" -> CompletionEventXSYs
      [] kind = "nulled" -> NulledEventXSYs
      [] kind = "prediction" -> PredictionEventXSYs


\* Mutant: the count goes down whether or not the bit was set.
IsActive_always(kind, x) == TRUE

IsActive(kind, x) == x \in active[kind]

SymbolActivate(kind, x) ==
    /\ pc = "idle"
    /\ active' = [active EXCEPT ![kind] = @ \cup {x}]
    /\ active_event_count' = active_event_count + (IF IsActive(kind, x) THEN 0 ELSE 1)
    /\ returned' = [value |-> 1,
                    error |-> IF x \in IsEvent(kind) THEN "NONE" ELSE "SYMBOL_IS_NOT_EVENT"]
    /\ UNCHANGED <<clock, chart, expected, events, expected_is_event, zwa_default, use_leo,
                   warning_threshold, using_leo, input, pc>>

SymbolDeactivate(kind, x) ==
    /\ pc = "idle"
    /\ active' = [active EXCEPT ![kind] = @ \ {x}]
    /\ active_event_count' = active_event_count - (IF IsActive(kind, x) THEN 1 ELSE 0)
    /\ Returns(0)
    /\ UNCHANGED <<clock, chart, expected, events, expected_is_event, zwa_default, use_leo,
                   warning_threshold, using_leo, input, pc>>

\* marpa_r_expected_symbol_event_set.  A symbol without an internal one is
\* inaccessible or unproductive; for one that is nulling besides, the code's
\* error is that it is nulling.
ExpectedSymbolEventSet(x, on) ==
    /\ pc = "idle"
    /\ \/ /\ NSY_of_XSY[x] \notin NullingNSYs \cup {NoNSY}
          /\ expected_is_event' = IF on THEN expected_is_event \cup {NSY_of_XSY[x]}
                                  ELSE expected_is_event \ {NSY_of_XSY[x]}
          /\ Returns(IF on THEN 1 ELSE 0)
       \/ /\ NSY_of_XSY[x] \in NullingNSYs
          /\ Fails("SYMBOL_IS_NULLING")
          /\ UNCHANGED expected_is_event
       \/ /\ NSY_of_XSY[x] = NoNSY
          /\ Fails("SYMBOL_IS_UNUSED")
          /\ UNCHANGED expected_is_event
    /\ UNCHANGED <<clock, chart, expected, events, active, active_event_count, zwa_default,
                   use_leo, warning_threshold, using_leo, input, pc>>

\* marpa_r_zwa_default_set
ZWADefaultSet(z, default_value) ==
    /\ pc = "idle"
    /\ zwa_default' = [zwa_default EXCEPT ![z] = default_value]
    /\ Returns(IF zwa_default[z] THEN 1 ELSE 0)
    /\ UNCHANGED <<clock, chart, expected, events, active, active_event_count,
                   expected_is_event, use_leo, warning_threshold, using_leo, input, pc>>

\* _marpa_r_is_use_leo_set
IsUseLeoSet(value) ==
    /\ pc = "idle" /\ TogglesLeo
    /\ \/ /\ input_phase = "before"
          /\ use_leo' = value
          /\ Returns(IF value THEN 1 ELSE 0)
       \/ /\ input_phase # "before"
          /\ Fails("RECCE_STARTED")
          /\ UNCHANGED use_leo
    /\ UNCHANGED <<clock, chart, expected, events, active, active_event_count,
                   expected_is_event, zwa_default, warning_threshold, using_leo, input, pc>>

\* marpa_r_earley_item_warning_threshold_set
WarningThresholdSet(threshold) ==
    /\ pc = "idle"
    /\ warning_threshold' = IF threshold <= 0 THEN YIM_FATAL_THRESHOLD ELSE threshold
    /\ Returns(warning_threshold')
    /\ UNCHANGED <<clock, chart, expected, events, active, active_event_count,
                   expected_is_event, zwa_default, use_leo, using_leo, input, pc>>

-----------------------------------------------------------------------------
EarlemeCompleteSteps ==
    \/ ScanAlternative \/ PrePopulateCompletions \/ CompleteCause \/ AddPredictions
    \/ StartLIMs \/ PopulateLIM \/ EarlemeCompleteEnds

Reads ==
    \/ StartInputFails \/ StartInputTrivial \/ StartInput
    \/ \E x \in XSYs, v \in TokenValues, length \in TokenLengths :
          \/ AlternativeFails(x, v, length)
          \/ AlternativeRejected(x, v, length)
          \/ Alternative(x, v, length)
    \/ EarlemeCompleteFails \/ EarlemeCompleteExhausts \/ EarlemeCompleteEmpty
    \/ EarlemeCompleteBegins
    \/ CleanFails \/ Clean

Settings ==
    \/ \E kind \in {"completion", "nulled", "prediction"}, x \in ToggledXSYs :
          SymbolActivate(kind, x) \/ SymbolDeactivate(kind, x)
    \/ \E x \in ExpectedToggles, on \in BOOLEAN : ExpectedSymbolEventSet(x, on)
    \/ \E z \in ToggledZWAs, default_value \in BOOLEAN : ZWADefaultSet(z, default_value)
    \/ \E value \in BOOLEAN : IsUseLeoSet(value)
    \/ \E threshold \in WarningThresholds : WarningThresholdSet(threshold)

Next == EarlemeCompleteSteps \/ Reads \/ Settings

Spec == Init /\ [][Next]_vars

\* A call that has begun runs to its end.
FairSpec == Spec /\ WF_vars(EarlemeCompleteSteps)

-----------------------------------------------------------------------------
(* Properties *)

ClockTypeOK ==
    /\ input_phase \in {"before", "during", "after"} /\ is_exhausted \in BOOLEAN
    /\ current_earleme \in Earlemes \cup {NoEarleme}
    /\ furthest_earleme \in Earlemes /\ furthest_earleme < JEARLEME_THRESHOLD

ChartTypeOK ==
    /\ earley_sets \subseteq Earlemes /\ yims \in [Earlemes -> SUBSET YIMs]
    /\ token_links \subseteq TokenLinks /\ completion_links \subseteq CompletionLinks
    /\ leo_links \subseteq LeoLinks
    /\ DOMAIN lims \subseteq Earlemes \X NSYs /\ lims \in [DOMAIN lims -> LIMs]
    /\ completion_stack \subseteq YIMs

InputTypeOK ==
    /\ alternatives \in Seq(Alternatives) /\ tokens \subseteq Alternatives
    /\ valued \in [{"valued", "valued_terminal", "unvalued", "unvalued_terminal", "locked"}
                     -> SUBSET XSYs]

SettingsTypeOK ==
    /\ active \in [{"completion", "nulled", "prediction"} -> SUBSET XSYs]
    /\ active_event_count \in Int /\ expected_is_event \subseteq NSYs
    /\ zwa_default \in [ZWAs -> BOOLEAN]
    /\ use_leo \in BOOLEAN /\ warning_threshold \in Nat

ReportTypeOK ==
    /\ expected \subseteq TerminalNSYs /\ events \subseteq Events
    /\ using_leo \in BOOLEAN
    /\ returned \in [value : Int, error : ErrorCodes]
    /\ pc \in {"idle", "scan", "complete", "postdot", "populate"}

\* Every variable holds what its C type and the code's use of it allow.
TypeOK ==
    /\ ClockTypeOK /\ ChartTypeOK /\ InputTypeOK /\ SettingsTypeOK /\ ReportTypeOK

\* Every source link joins a predecessor and a token or cause that meet where
\* they should: the token or the cause is what the predecessor waits for, it
\* starts where the predecessor ends, and it ends in the link's Earley set.
\* The bocage is built from these links alone.
TokenLinkJustified(l) ==
    /\ l.token \in tokens /\ l.token.end = l.at
    /\ l.predecessor \in PIMs(l.token.start, l.token.nsy)
    /\ l.yim = Advance(l.predecessor) /\ l.yim \in yims[l.at]

CompletionLinkJustified(l) ==
    /\ l.cause \in yims[l.at] /\ AHM_is_Completion(l.cause.ahm)
    /\ l.cause.origin < l.at
    /\ l.predecessor \in PIMs(l.cause.origin, LHS_NSYID_of_YIM(l.cause))
    /\ l.yim = Advance(l.predecessor) /\ l.yim \in yims[l.at]

LeoLinkJustified(l) ==
    /\ l.cause \in yims[l.at] /\ AHM_is_Completion(l.cause.ahm)
    /\ l.cause.origin < l.at
    /\ l.predecessor = <<l.cause.origin, LHS_NSYID_of_YIM(l.cause)>>
    /\ l.predecessor \in DOMAIN lims
    /\ l.yim = [ahm |-> lims[l.predecessor].top, origin |-> lims[l.predecessor].origin]
    /\ l.yim \in yims[l.at]

LinksJustified ==
    /\ \A l \in token_links : TokenLinkJustified(l)
    /\ \A l \in completion_links : CompletionLinkJustified(l)
    /\ \A l \in leo_links : LeoLinkJustified(l)

\* A Leo item memoizes a path that is still deterministic: its trailhead is
\* the only item of its set that waits for its symbol, and a populated one
\* agrees with its predecessor, or with its trailhead where the path ends.
LimJustified(k) ==
    /\ k[1] \in earley_sets /\ lims[k].trailhead \in yims[k[1]]
    /\ PIMs(k[1], k[2]) = {lims[k].trailhead}
    /\ AHM_is_Completion(Trailhead_AHM_of_LIM(k))
    /\ LIM_is_Populated(k) =>
          IF lims[k].predecessor = NoLIM
          THEN /\ lims[k].top = Trailhead_AHM_of_LIM(k)
               /\ lims[k].origin = lims[k].trailhead.origin
          ELSE LET p == PredecessorKey(k)
               IN  /\ lims[k].predecessor = p /\ p \in DOMAIN lims /\ LIM_is_Populated(p)
                   /\ lims[k].top = lims[p].top /\ lims[k].origin = lims[p].origin

LimsJustified == \A k \in DOMAIN lims : LimJustified(k)

\* Every item but those of the start rule has a postdot item for its LHS in
\* its origin's Earley set.  "Find predecessor LIM" dereferences that postdot
\* item unchecked, in the current set through a workarea never cleared.
OriginsPredict ==
    \A e \in earley_sets : pc \in {"idle", "postdot", "populate"} =>
        \A y \in yims[e] : y.ahm.irl # StartIRL => PIMs(y.origin, LHS_NSYID_of_YIM(y)) # {}

\* The alternatives pending between calls are exactly the tokens accepted
\* that end later than the current earleme, each once, on a stack that pops
\* them in the order in which the earlemes come.
AlternativesPending ==
    /\ pc = "idle" =>
          {alternatives[i] : i \in DOMAIN alternatives} = {t \in tokens : t.end > current_earleme}
    /\ \A i, j \in DOMAIN alternatives : i < j => SortsBefore(alternatives[i], alternatives[j])

\* Between calls, a recognizer that was started is exhausted if and only if
\* no terminal is expected and no alternative is pending; it goes on taking
\* input if and only if it is not exhausted.
ExhaustionExact ==
    pc = "idle" /\ input_phase # "before" =>
        /\ is_exhausted <=> (expected = {} /\ alternatives = <<>>)
        /\ is_exhausted <=> input_phase = "after"

\* Every completion is processed once: each step of the completion loop takes
\* a cause that no link of this Earley set has yet, and links it, so that the
\* chart enters no derivation twice.  Only the start rule has nothing to link.
LinkedCauses ==
    {l.cause : l \in {k \in completion_links : k.at = current_earleme}}
    \cup {l.cause : l \in {k \in leo_links : k.at = current_earleme}}

CausesProcessedOnce ==
    [][pc = "complete" /\ pc' = "complete" =>
          \E cause \in completion_stack \ completion_stack' :
             /\ cause \notin LinkedCauses
             /\ LinkedCauses' = LinkedCauses \cup
                   (IF cause.ahm.irl = StartIRL THEN {} ELSE {cause})]_vars

\* A symbol whose valued status is locked keeps it for the whole parse.
LockedStatusIsFinal ==
    [][\A x \in valued.locked :
          /\ x \in valued.valued_terminal <=> x \in valued'.valued_terminal
          /\ x \in valued.unvalued_terminal <=> x \in valued'.unvalued_terminal
          /\ x \in valued'.locked]_vars

\* trigger_events is skipped when no event counts as active.  As long as only
\* declared events start out active, no sequence of activations makes the
\* count hide an event that is active.
ActiveCountCovers ==
    /\ CompletionStartsActive \subseteq CompletionEventXSYs
    /\ NulledStartsActive \subseteq NulledEventXSYs
    /\ PredictionStartsActive \subseteq PredictionEventXSYs
    => active_event_count >= Cardinality(active.completion) + Cardinality(active.nulled)
                                + Cardinality(active.prediction)

\* marpa_r_earleme_complete returns: the completion loop and the Leo chains
\* of every Earley set end, in cyclic grammars too.
CallsReturn == pc # "idle" ~> pc = "idle"

-----------------------------------------------------------------------------
(* What the documentation says of the recognizer, and the code does not do. *)

\* api.premenu, marpa_r_completion_symbol_activate: hard fails if the symbol
\* was not declared for completion events, so that no other is ever active.
OnlyDeclaredActive == active.completion \subseteq CompletionEventXSYs
=============================================================================
