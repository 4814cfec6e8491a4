--------------------------- MODULE ForestReference ---------------------------
(***************************************************************************)
(* The parses of an input, from the grammar and the tokens alone: which    *)
(* ways there are to split a stretch that a dotted rule spans, and which   *)
(* trees these make.  No Earley item, no link, no or-node is looked at.    *)
(* The bocage and the tree iterator are compared with it.                  *)
(***************************************************************************)
EXTENDS MarpaTree, EarleyReference

VARIABLE
    promised              \* history: the parses there were when the tree was made

-----------------------------------------------------------------------------
(* A place is a dotted rule over a stretch of input, with the dot after its
   first symbol at least; a split is a place with the middle and the cause. *)

Place(o) == [irl |-> o.irl, position |-> o.position, origin |-> o.origin, set |-> o.set]

Causes(S, nsy, middle, end) ==
    IF nsy \in NullingNSYs
    THEN {<<"token", nsy>> : e \in {middle} \cap {end}}
    ELSE {<<"token", t.nsy>> : t \in {u \in tokens : u.nsy = nsy /\ u.start = middle /\ u.end = end}}
         \cup {<<"rule", irl>> : irl \in {i \in IRLs : /\ LHSID_of_IRL[i] = nsy
                     /\ <<middle, end>> \in PrefixSpans(S, i, Len(RHS_of_IRL[i]))}}

Splits(S, place) ==
    {[irl |-> place.irl, position |-> place.position, origin |-> place.origin,
      set |-> place.set, middle |-> p[2], cause |-> cause] : <<p, cause>> \in
        UNION {{q} \X Causes(S, RHS_of_IRL[place.irl][place.position], q[2], place.set) :
                 q \in {r \in PrefixSpans(S, place.irl, place.position - 1) :
                          r[1] = place.origin}}}

Rank_of_Cause(cause) == IF cause[1] = "token" THEN Rank_of_NSY[cause[2]] ELSE Rank_of_IRL[cause[2]]

\* What the order leaves: all, or the splits of the highest rank.
Allowed(splits) ==
    IF O_is_Default \/ high_rank_count = 0 THEN splits
    ELSE {s \in splits : \A t \in splits : Rank_of_Cause(t.cause) <= Rank_of_Cause(s.cause)}

\* The trees of a place below those on the path: a place of some length is
\* not derived from itself.
RECURSIVE TreesOf(_, _, _)
TreesOf(S, place, path) ==
    IF place \in path /\ place.origin # place.set THEN {}
    ELSE LET Before(s) ==
               IF place.position = 1 THEN {{}}
               ELSE TreesOf(S, [place EXCEPT !.position = @ - 1, !.set = s.middle],
                            path \cup {place})
             Below(s) ==
               IF s.cause[1] = "token" THEN {{}}
               ELSE TreesOf(S, [irl |-> s.cause[2], position |-> Len(RHS_of_IRL[s.cause[2]]),
                                origin |-> s.middle, set |-> place.set],
                            path \cup {place})
         IN  UNION {{{s} \cup a \cup b : <<a, b>> \in Before(s) \X Below(s)} :
                      s \in Allowed(Splits(S, place))}

WholeParse == [irl |-> StartIRL, position |-> 1, origin |-> 0, set |-> b_end]

Forest ==
    IF b_pc = "nulling" THEN {{}} ELSE TreesOf(InputSpans, WholeParse, {})

PromiseInit == promised = {}
Promises == promised' = IF t_pc = "none" /\ t_pc' = "ready" THEN Forest ELSE promised

-----------------------------------------------------------------------------
(* Properties *)

\* When marpa_b_new returns, each of its or-nodes has exactly the and-nodes
\* for which the input has a derivation, each once: the and-nodes that stand
\* for Leo paths, which the chart does not hold, are there, and an and-node
\* that two overlapping Leo paths both call for is not there twice.
BocageExact ==
    b_pc = "built" /\ ~ o_is_frozen =>
        LET S == InputSpans
        IN  \A o \in or_nodes :
              /\ {SplitOf(o, dands[o][i]) : i \in DOMAIN dands[o]} = Splits(S, Place(o))
              /\ Len(dands[o]) = Cardinality(Splits(S, Place(o)))

\* The order and the tree iterator implement the enumeration of the parses:
\* marpa_t_next never repeats one, never makes one up, and returns -1 only
\* when all of them were returned, the cyclic ones and those that the high
\* rank order drops excepted.
Enumeration ==
    INSTANCE ParseEnumeration WITH
        forest <- promised,
        delivered <- parses,
        count <- parse_count,
        status <- IF t_pc = "none" THEN "unopened"
                  ELSE IF t_is_exhausted THEN "closed" ELSE "open"

EnumeratesParses == Enumeration!Spec

\* The ambiguity metric of an order is 1 if and only if there is exactly one
\* derivation left, one that goes through no choice: a choice between a tree
\* and a cycle counts as an ambiguity.
ReferencePlaces ==
    LET S == InputSpans
        BelowIn(s) == {[irl |-> s.cause[2], position |-> Len(RHS_of_IRL[s.cause[2]]),
                        origin |-> s.middle, set |-> s.set] : c \in {s.cause[1]} \cap {"rule"}}
        BeforeIn(s) == {[irl |-> s.irl, position |-> s.position - 1, origin |-> s.origin,
                         set |-> s.middle] : p \in {s.position} \ {1}}
        reach[n \in 0 .. Cardinality(or_nodes)] ==
          IF n = 0 THEN {WholeParse}
          ELSE LET prior == reach[n - 1]
               IN  prior \cup UNION {UNION {BelowIn(s) \cup BeforeIn(s) :
                                        s \in Allowed(Splits(S, p))} : p \in prior}
    IN  reach[Cardinality(or_nodes)]

MetricExact ==
    o_metric # -1 /\ b_pc = "built" =>
        (o_metric = 1 <=>
            \A p \in ReferencePlaces : Cardinality(Allowed(Splits(InputSpans, p))) <= 1)
=============================================================================
