--------------------------- MODULE ReportReference ---------------------------
(***************************************************************************)
(* What a progress report promises: the Earley items of the external       *)
(* grammar, from its rules and the tokens alone.  No internal rule, no     *)
(* piece of a rule, no Earley item and no Leo item is looked at.           *)
(***************************************************************************)
EXTENDS MarpaProgress, EarleyReference

SpansOf(S, x) == {<<s[2], s[3]>> : s \in {t \in S : t[1] = x}}

\* The stretches that the first p symbols of a BNF rule span.
BeforeDot(S, rule, p) ==
    LET before[k \in 0 .. p] ==
          IF k = 0 THEN Identity ELSE Compose(before[k - 1], SpansOf(S, rule.rhs[k]))
    IN  before[p]

\* The stretches that one or more items of a sequence span, and those after
\* which another item is to come.
ItemLists(S, rule) ==
    LET items == SpansOf(S, rule.rhs[1])
        Separated(R) == IF rule.separator = -1 THEN R ELSE Compose(R, SpansOf(S, rule.separator))
        lists[n \in 0 .. JEARLEME_THRESHOLD] ==
          IF n = 0 THEN items
          ELSE LET prior == lists[n - 1] IN prior \cup Compose(Separated(prior), items)
        all == lists[JEARLEME_THRESHOLD]
    IN  [closed |-> IF rule.proper THEN all ELSE all \cup Separated(all), open |-> Separated(all)]

SpansOfRule(S, rule) ==
    IF ~ rule.sequence THEN BeforeDot(S, rule, Len(rule.rhs))
    ELSE ItemLists(S, rule).closed \cup (IF rule.min = 0 THEN Identity ELSE {})

RECURSIVE ExternalSpans(_)
ExternalSpans(S) ==
    LET more == S \cup UNION {{<<External.rules[r].lhs, p[1], p[2]>> :
                                  p \in SpansOfRule(S, External.rules[r])} : r \in XRLs}
    IN  IF more = S THEN S ELSE ExternalSpans(more)

\* The places of a rule from which a symbol is predicted: the symbol, and the
\* stretch before it.
Expectations(S, rule) ==
    IF ~ rule.sequence
    THEN UNION {{rule.rhs[p]} \X BeforeDot(S, rule, p - 1) : p \in DOMAIN rule.rhs}
    ELSE ({rule.rhs[1]} \X (Identity \cup ItemLists(S, rule).open))
         \cup (({rule.separator} \ {-1}) \X ItemLists(S, rule).closed)

RECURSIVE ExternalPredictions(_, _)
ExternalPredictions(S, P) ==
    LET Expected(r) == {x \in Expectations(S, External.rules[r]) : <<r, x[2][1]>> \in P}
        more == P \cup UNION {UNION {{r \in XRLs : External.rules[r].lhs = x[1]} \X {x[2][2]} :
                                       x \in Expected(q)} : q \in XRLs}
    IN  IF more = P THEN P ELSE ExternalPredictions(S, more)

\* The dot never stands before a symbol that is always nulled; a rule that
\* spans nothing is not reported as complete.
ExternalItems(e) ==
    LET S == ExternalSpans({<<Source_XSY_of_NSY[t.nsy], t.start, t.end>> :
                               t \in {u \in tokens : u.end <= current_earleme}})
        P == ExternalPredictions(S, {r \in XRLs : External.rules[r].lhs = StartXSY} \X {0})
        Dotted(r, o) ==
          LET rule == External.rules[r]
          IN  IF rule.sequence THEN IF o = e THEN {0} ELSE {}
              ELSE {p \in 0 .. Len(rule.rhs) - 1 :
                      /\ NSY_of_XSY[rule.rhs[p + 1]] \notin NullingNSYs
                      /\ <<o, e>> \in BeforeDot(S, rule, p)}
        Ended(r, o) == IF o # e /\ <<o, e>> \in SpansOfRule(S, External.rules[r]) THEN {-1} ELSE {}
    IN  UNION {{[rule |-> i[1], position |-> p, origin |-> i[2]] :
                   p \in Dotted(i[1], i[2]) \cup Ended(i[1], i[2])} : i \in P}

-----------------------------------------------------------------------------
(* Properties *)

\* A progress report has exactly the items of the external grammar, however
\* rules were split and whatever completions the Earley set leaves to its Leo
\* items.  (Not so where a Leo item is in front of the predecessors of a piece
\* of a rule, which the checked grammars have not: the code leaves out the
\* items of that piece.)
ReportExact ==
    report # NoReport /\ report.past = {} => report.items = ExternalItems(report.set)
=============================================================================
