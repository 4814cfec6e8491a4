-------------------------- MODULE EarleyReference --------------------------
(***************************************************************************)
(* What the recognizer promises: a declarative account of the Earley sets  *)
(* of an input, with which the chart the recognizer builds is compared.    *)
(* A symbol spans a stretch of input if a token does or if the right side  *)
(* of one of its rules does; an item belongs to an Earley set if what is   *)
(* before its dot spans the stretch from its origin and its rule is        *)
(* predicted there.  No worklist, no Leo item, no order of processing.     *)
(***************************************************************************)
EXTENDS MarpaRecce

-----------------------------------------------------------------------------
(* Spans *)

Identity == {<<e, e>> : e \in Earlemes}

Spans(S, nsy) ==
    IF nsy \in NullingNSYs THEN Identity ELSE {<<s[2], s[3]>> : s \in {t \in S : t[1] = nsy}}

Compose(R, S) ==
    {<<p[1][1], p[2][2]>> : p \in {q \in R \X S : q[1][2] = q[2][1]}}

\* The stretches that the first d symbols of an IRL span.
PrefixSpans(S, irl, d) ==
    LET prefix[k \in 0 .. Len(RHS_of_IRL[irl])] ==
          IF k = 0 THEN Identity
          ELSE Compose(prefix[k - 1], Spans(S, RHS_of_IRL[irl][k]))
    IN  prefix[d]

RuleSpans(S) ==
    UNION {{<<LHSID_of_IRL[i], p[1], p[2]>> :
               p \in PrefixSpans(S, i, Len(RHS_of_IRL[i]))} : i \in IRLs}

SymbolSpans == NSYs \X Earlemes \X Earlemes

\* The stretches spanned in the input read up to the current earleme.
TokenSpans == {<<t.nsy, t.start, t.end>> : t \in {u \in tokens : u.end <= current_earleme}}

InputSpans == Fixpoint(SymbolSpans, [S \in SUBSET SymbolSpans |-> RuleSpans(S)], TokenSpans)

(* Predicted rules, as pairs of an IRL and an earleme. *)
Predictions == IRLs \X Earlemes

PredictedNext(S, P) ==
    UNION {{j \in IRLs : LHSID_of_IRL[j] = Postdot_NSYID_of_AHM(a)}
              \X {p[2] : p \in {q \in PrefixSpans(S, a.irl, a.dot) : <<a.irl, q[1]>> \in P}} :
           a \in AHMs}

PredictedFrom(S, P) ==
    Fixpoint(Predictions, [Q \in SUBSET Predictions |-> PredictedNext(S, Q)], P)

\* The items of Earley set e, given the spans and predictions.
ItemsAt(S, P, e) ==
    {y \in YIMs : /\ <<y.ahm.irl, y.origin>> \in P
                  /\ <<y.origin, e>> \in PrefixSpans(S, y.ahm.irl, y.ahm.dot)}

ReferenceItems(e) ==
    LET S == InputSpans
    IN  ItemsAt(S, PredictedFrom(S, {<<StartIRL, 0>>}), e)

-----------------------------------------------------------------------------
(* Leo items stand for completions that are not in the Earley set: those of
   the trailheads from the LIM of a Leo link up to the LIM without
   predecessor, whose completion is the effect of the link. *)
TrailheadCompletion(k) ==
    [ahm |-> Trailhead_AHM_of_LIM(k), origin |-> lims[k].trailhead.origin]

LeoExpansion(e) ==
    {TrailheadCompletion(k) :
        k \in LeoPathsFrom({l.predecessor : l \in {m \in leo_links : m.at = e}})}

\* The item sets of the reference account at the current earleme.
FullEarleySet == ReferenceItems(current_earleme)

HasEarleySet == pc = "idle" /\ ~ G_is_Trivial /\ current_earleme \in earley_sets

-----------------------------------------------------------------------------
(* Properties *)

\* The chart is exactly that of the reference account: with the completions
\* that its Leo links stand for, an Earley set has every item it should have,
\* and no other.  (postdot_items_create and the two "Add effect" sections
\* decide, symbol by symbol, which completions may be left out.)
EarleySetsExact ==
    HasEarleySet =>
        yims[current_earleme] \cup LeoExpansion(current_earleme) = FullEarleySet

\* Leo items leave out completions only: whatever can still advance, and so
\* whatever input can still be read, is there with or without them.
LeoKeepsPredictors ==
    HasEarleySet =>
        \A y \in FullEarleySet : ~ AHM_is_Completion(y.ahm) => y \in yims[current_earleme]

\* The input is recognized at the current earleme if and only if the start
\* rule's completion is in the Earley set, which is what marpa_b_new looks
\* for: no Leo item ever leaves that completion out.
StartCompletion == [ahm |-> [irl |-> StartIRL, dot |-> Len(RHS_of_IRL[StartIRL])], origin |-> 0]

AcceptanceExact ==
    HasEarleySet =>
        (StartCompletion \in yims[current_earleme] <=> StartCompletion \in FullEarleySet)

\* When an Earley set is done, a symbol's active events are triggered if and
\* only if the full Earley set has an item that calls for them: a completion
\* behind a Leo item triggers its events although it is not in the set, and
\* a Leo item brings no event of a completion that is not in the full set.
CalledFor(items) ==
    {<<"COMPLETED", x>> : x \in active.completion
        \cap UNION {Completion_XSYIDs_of_AHM(y.ahm) : y \in items}}
    \cup {<<"NULLED", x>> : x \in active.nulled
        \cap UNION {Nulled_XSYIDs_of_AHM(y.ahm) : y \in items}}
    \cup {<<"PREDICTED", x>> : x \in active.prediction
        \cap UNION {Prediction_XSYIDs_of_AHM(y.ahm) : y \in items}}

EventsExactWhenDone ==
    pc = "populate" /\ pc' = "idle" =>
        events' \cap ({"COMPLETED", "NULLED", "PREDICTED"} \X XSYs) = CalledFor(FullEarleySet)

EventsExact == [][EventsExactWhenDone]_vars
=============================================================================
