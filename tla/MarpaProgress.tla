---------------------------- MODULE MarpaProgress ----------------------------
(***************************************************************************)
(* The progress report of a recognizer: the items of one Earley set in     *)
(* terms of the external rules, those that its Leo items stand for         *)
(* included, in an AVL tree that the application walks with a traverser.   *)
(* A recognizer has one report at a time.  Earley sets are named by their  *)
(* earlemes.                                                               *)
(***************************************************************************)
EXTENDS MarpaRecce

CONSTANTS
    External,             \* the external grammar, as MarpaRewrite has it
    Source_XRL_of_IRL,    \* IRL -> the number of its rule, 0 for the start rule
    Virtual_Start_of_IRL  \* IRL -> where its rule's piece starts, -1 if not split

XRLs == DOMAIN External.rules
XRL_is_Sequence(r) == External.rules[r].sequence

ASSUME ProgressAssumption ==
    /\ Source_XRL_of_IRL \in [IRLs -> XRLs \cup {0}]
    /\ \A irl \in IRLs : Source_XRL_of_IRL[irl] = 0 => irl \in VirtualLHS
    /\ Virtual_Start_of_IRL \in [IRLs -> Nat \cup {-1}]

VARIABLES
    report,               \* the tree, its Earley set, and the items that the
                          \* traverser is past; none of them at its null node
    p_returned            \* what the last of these calls returned, and its error

progress == <<report, p_returned>>

NoReport == [set |-> NoEarleme, items |-> {}, past |-> {}]
NoItem == [rule |-> 0, position |-> -2, origin |-> NoEarleme]
P_Returns(value) == p_returned' = [value |-> value, item |-> NoItem, error |-> "NONE"]
P_Fails(value, code) == p_returned' = [value |-> value, item |-> NoItem, error |-> code]

ProgressInit ==
    /\ report = NoReport
    /\ p_returned = [value |-> 1, item |-> NoItem, error |-> "NONE"]

-----------------------------------------------------------------------------
(* The items of a report *)

\* Mutant: the start of a piece is not added.
XRL_Position_of_AHM_in_piece(ahm) ==
    CASE AHM_is_Completion(ahm) -> -1
      [] ~ AHM_is_Completion(ahm) /\ XRL_is_Sequence(Source_XRL_of_IRL[ahm.irl]) ->
           IF ahm.dot = 0 THEN 0 ELSE -1
      [] OTHER -> ahm.dot

\* The dot position in the rule; -1 is the end, and anywhere in a sequence
\* that has begun.
XRL_Position_of_AHM(ahm) ==
    LET start == Virtual_Start_of_IRL[ahm.irl]
    IN  CASE AHM_is_Completion(ahm) -> -1
          [] ~ AHM_is_Completion(ahm) /\ XRL_is_Sequence(Source_XRL_of_IRL[ahm.irl]) ->
               IF ahm.dot = 0 THEN 0 ELSE -1
          [] OTHER -> IF start >= 0 THEN ahm.dot + start ELSE ahm.dot

\* The items whose pieces come before that of an item: its predecessors in its
\* origin, unless a Leo item is in front of them.
PiecesBefore(yim) ==
    LET lhs == LHS_NSYID_of_YIM(yim)
    IN  IF yim.ahm.irl \notin VirtualLHS \/ HasLIM(yim.origin, lhs) THEN {}
        ELSE PIMs(yim.origin, lhs)

\* Where the rule began whose piece an item is.
OriginsOfRule(yim) ==
    LET grow == [S \in SUBSET YIMs |-> UNION {PiecesBefore(y) : y \in S}]
    IN  {y.origin : y \in {z \in Fixpoint(YIMs, grow, {yim}) : z.ahm.irl \notin VirtualLHS}}

\* progress_report_items_insert
ReportItems(ahm, yim) ==
    LET rule == Source_XRL_of_IRL[ahm.irl]
    IN  IF rule = 0 \/ (yim.ahm.irl \in VirtualLHS /\ XRL_is_Sequence(rule)) THEN {}
        ELSE {[rule |-> rule, position |-> XRL_Position_of_AHM(ahm), origin |-> origin] :
                 origin \in OriginsOfRule(yim)}

\* Mutant: only the first Leo item of a path is looked at.
LIMsFrom_first(k) == {k}

\* The Leo items of a path, from the one of a Leo link to the top.
LIMsFrom(k) == LeoPathsFrom({k})

\* "Do the progress report for earley_item", for the items of a set.
ProgressReport(e) ==
    UNION {ReportItems(yim.ahm, yim) : yim \in yims[e]}
    \cup UNION {UNION {ReportItems(Trailhead_AHM_of_LIM(k), lims[k].trailhead) :
                          k \in LIMsFrom(l.predecessor)} : l \in {m \in leo_links : m.at = e}}

-----------------------------------------------------------------------------
(* The calls *)

\* All calls that need a report fail alike while there is none.
ReportFails ==
    /\ pc = "idle"
    /\ \/ input_phase = "before" /\ P_Fails(-2, "RECCE_NOT_STARTED")
       \/ input_phase # "before" /\ report = NoReport /\ P_Fails(-2, "PROGRESS_REPORT_NOT_STARTED")
    /\ UNCHANGED report

\* A new report takes the place of an old one; there is none for an Earley
\* set that does not exist, and then the old one stays.
ProgressReportStart(e) ==
    /\ pc = "idle" /\ input_phase # "before"
    /\ IF e \in earley_sets
       THEN /\ report' = [set |-> e, items |-> ProgressReport(e), past |-> {}]
            /\ P_Returns(Cardinality(report'.items))
       ELSE P_Fails(-2, "NO_EARLEY_SET_AT_LOCATION") /\ UNCHANGED report

ProgressReportReset ==
    /\ pc = "idle" /\ report # NoReport
    /\ report' = [report EXCEPT !.past = {}]
    /\ P_Returns(1)

\* report_item_cmp
Precedes(a, b) ==
    \/ a.position < b.position
    \/ a.position = b.position /\ a.rule < b.rule
    \/ a.position = b.position /\ a.rule = b.rule /\ a.origin < b.origin

\* _marpa_avl_t_next: the next item in order, or none after the last one; the
\* traverser is at its null node then, where it started.
avl_t_next ==
    IF report.past = report.items THEN NoItem
    ELSE CHOOSE item \in report.items \ report.past :
            \A other \in report.items \ (report.past \cup {item}) : Precedes(item, other)

ProgressItem ==
    /\ pc = "idle" /\ report # NoReport /\ avl_t_next # NoItem
    /\ report' = [report EXCEPT !.past = @ \cup {avl_t_next}]
    /\ p_returned' = [value |-> avl_t_next.rule, item |-> avl_t_next, error |-> "NONE"]

ProgressReportExhausted ==
    /\ pc = "idle" /\ report # NoReport /\ avl_t_next = NoItem
    /\ report' = [report EXCEPT !.past = {}]
    /\ P_Fails(-1, "PROGRESS_REPORT_EXHAUSTED")

ProgressReportFinish ==
    /\ pc = "idle" /\ report # NoReport
    /\ report' = NoReport
    /\ P_Returns(1)

ProgressCalls ==
    \/ ReportFails \/ ProgressReportReset \/ ProgressItem \/ ProgressReportExhausted
    \/ ProgressReportFinish
    \/ \E e \in Earlemes : ProgressReportStart(e)

-----------------------------------------------------------------------------
(* Properties *)

\* When the traverser has reached the end, marpa_r_progress_item goes on to
\* say so, until the application resets the report or starts another.
ReportStaysExhausted ==
    [][p_returned.error = "PROGRESS_REPORT_EXHAUSTED" => p_returned'.item = NoItem]_p_returned
=============================================================================
