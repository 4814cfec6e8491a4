------------------------------ MODULE MarpaObjects ------------------------------
(***************************************************************************)
(* The objects of libmarpa and how long they live.  A recognizer holds a   *)
(* reference to its grammar, a bocage too (not to the recognizer it was    *)
(* made from), an order one to its bocage, a tree one to its order, and a  *)
(* valuator pauses its tree, which holds a reference to it as well.  The   *)
(* application counts its own references with the ref and unref calls, and *)
(* calls a method of an object only while it holds one to it.              *)
(* A call that returns an error changes nothing here and is left out,      *)
(* except the one that loses a bocage.                                     *)
(***************************************************************************)
EXTENDS Integers, FiniteSets

CONSTANTS
    Objects,             \* the addresses that the library's objects can have
    NoObject,            \* NULL
    MaxRefs,             \* bound: the references an application holds
    MaxParses            \* bound: the parses that a tree delivers

ASSUME ObjectsAssumption ==
    NoObject \notin Objects /\ MaxRefs \in Nat /\ MaxParses \in Nat

Kinds == {"G", "R", "B", "O", "T", "V"}
Parent_of_Kind == [R |-> "G", B |-> "G", O |-> "B", T |-> "O", V |-> "T"]

Orderings == [high_rank_count : {0, 1}, ranked : {"no", "by rule", "high only"}]

VARIABLES
    kind,                \* object -> its class, "none" before it is made
    parent,              \* object -> the object that it references
    alive,               \* the objects that are not freed
    refs,                \* t_ref_count
    held,                \* the references of the application
    leaked,              \* objects that nothing points to and nobody frees
    started,             \* the recognizers whose input began
    ordering,            \* order -> what was set in it
    frozen,              \* the orders with O_is_Frozen set
    parse_count,         \* tree -> t_parse_count
    exhausted,           \* the trees with T_is_Exhausted set
    pause_counter,       \* tree -> t_pause_counter
    seen_ordering,       \* history: tree -> the ordering it was made for
    seen_parse           \* history: valuator -> the parse it was made for

object_vars == <<kind, parent, alive, refs, held, leaked>>
order_vars == <<ordering, frozen, seen_ordering>>
tree_vars == <<parse_count, exhausted, pause_counter, seen_parse>>
lifetime_vars == <<object_vars, started, order_vars, tree_vars>>

ObjectsInit ==
    /\ kind = [x \in Objects |-> "none"] /\ parent = [x \in Objects |-> NoObject]
    /\ alive = {} /\ leaked = {} /\ started = {} /\ frozen = {} /\ exhausted = {}
    /\ refs = [x \in Objects |-> 0] /\ held = [x \in Objects |-> 0]
    /\ ordering = [x \in Objects |-> [high_rank_count |-> 1, ranked |-> "no"]]
    /\ seen_ordering = ordering
    /\ parse_count = [x \in Objects |-> 0] /\ pause_counter = [x \in Objects |-> 0]
    /\ seen_parse = [x \in Objects |-> 0]

\* The objects the application can call the methods of.
Held(k) == {x \in alive : kind[x] = k /\ held[x] > 0}

Children(x) == {c \in alive : parent[c] = x}

-----------------------------------------------------------------------------
(* Constructors.  A new object has a count of 1, for the application. *)

\* Mutant: the new object takes no reference to its parent.
New_unreferenced(x, k, p, refs_of_app) ==
    /\ x \in Objects /\ kind[x] = "none"
    /\ kind' = [kind EXCEPT ![x] = k] /\ parent' = [parent EXCEPT ![x] = p]
    /\ alive' = alive \cup {x}
    /\ refs' = [refs EXCEPT ![x] = 1]
    /\ held' = [held EXCEPT ![x] = refs_of_app]

New(x, k, p, refs_of_app) ==
    /\ x \in Objects /\ kind[x] = "none"
    /\ kind' = [kind EXCEPT ![x] = k] /\ parent' = [parent EXCEPT ![x] = p]
    /\ alive' = alive \cup {x}
    /\ refs' = [y \in Objects |-> IF y = x THEN 1 ELSE IF y = p THEN refs[y] + 1 ELSE refs[y]]
    /\ held' = [held EXCEPT ![x] = refs_of_app]

GrammarNew(x) ==
    /\ New(x, "G", NoObject, 1)
    /\ UNCHANGED <<leaked, started, order_vars, tree_vars>>

RecceNew(x, g, is_precomputed) ==
    /\ is_precomputed
    /\ New(x, "R", g, 1)
    /\ UNCHANGED <<leaked, started, order_vars, tree_vars>>

StartInput(r) ==
    /\ started' = started \cup {r}
    /\ UNCHANGED <<object_vars, order_vars, tree_vars>>

BocageNew(x, r) ==
    /\ r \in started
    /\ New(x, "B", parent[r], 1)
    /\ UNCHANGED <<leaked, started, order_vars, tree_vars>>

\* The early return for an Earley set that does not exist leaves the bocage
\* behind, which holds its reference to the grammar.
BocageNewInvalidLocation(x, r) ==
    /\ r \in started
    /\ New(x, "B", parent[r], 0)
    /\ leaked' = leaked \cup {x}
    /\ UNCHANGED <<started, order_vars, tree_vars>>

OrderNew(x, b) ==
    /\ New(x, "O", b, 1)
    /\ UNCHANGED <<leaked, started, order_vars, tree_vars>>

\* Mutant: the order is not frozen.
Freeze_never(o) == frozen' = frozen

Freeze(o) == frozen' = frozen \cup {o}

TreeNew(x, o) ==
    /\ New(x, "T", o, 1)
    /\ Freeze(o)
    /\ seen_ordering' = [seen_ordering EXCEPT ![x] = ordering[o]]
    /\ UNCHANGED <<leaked, started, ordering, tree_vars>>

\* tree_pause
ValueNew(x, t) ==
    /\ parse_count[t] > 0 /\ t \notin exhausted
    /\ New(x, "V", t, 1)
    /\ pause_counter' = [pause_counter EXCEPT ![t] = @ + 1]
    /\ seen_parse' = [seen_parse EXCEPT ![x] = parse_count[t]]
    /\ UNCHANGED <<leaked, started, order_vars, parse_count, exhausted>>

-----------------------------------------------------------------------------
(* Methods *)

HighRankOnlySet(o, count) ==
    /\ o \notin frozen
    /\ ordering' = [ordering EXCEPT ![o].high_rank_count = count]
    /\ UNCHANGED <<object_vars, started, frozen, seen_ordering, tree_vars>>

\* A ranking that changes nothing leaves the order at its default.
Rank(o) ==
    /\ o \notin frozen
    /\ \E ranked \in {"no", IF ordering[o].high_rank_count = 1 THEN "high only" ELSE "by rule"} :
          ordering' = [ordering EXCEPT ![o].ranked = ranked]
    /\ Freeze(o)
    /\ UNCHANGED <<object_vars, started, seen_ordering, tree_vars>>

AmbiguityMetric(o) ==
    /\ Freeze(o)
    /\ UNCHANGED <<object_vars, started, ordering, seen_ordering, tree_vars>>

Paused(t) == pause_counter[t] > 0

TreeNext(t) ==
    /\ ~ Paused(t) /\ t \notin exhausted
    /\ \/ /\ parse_count[t] < MaxParses
          /\ parse_count' = [parse_count EXCEPT ![t] = @ + 1] /\ UNCHANGED exhausted
       \/ exhausted' = exhausted \cup {t} /\ UNCHANGED parse_count
    /\ UNCHANGED <<object_vars, started, order_vars, pause_counter, seen_parse>>

Ref(x) ==
    /\ held[x] < MaxRefs
    /\ refs' = [refs EXCEPT ![x] = @ + 1] /\ held' = [held EXCEPT ![x] = @ + 1]
    /\ UNCHANGED <<kind, parent, alive, leaked, started, order_vars, tree_vars>>

\* Mutant: an object that is freed does not give back its reference.
Dropped_by_application(x, freed, y) == IF y = x THEN 1 ELSE 0

\* The references to y that go when the application drops one to x and the
\* objects of freed are freed: each gives back the one it holds.
Dropped(x, freed, y) ==
    Cardinality({c \in freed : parent[c] = y}) + (IF y = x THEN 1 ELSE 0)

\* An object, the one that it references, and so on up to the grammar.
Above(x) ==
    LET up[n \in 0 .. Cardinality(Kinds)] ==
          IF n = 0 THEN {x}
          ELSE LET below == up[n - 1] IN below \cup {parent[y] : y \in below \cap alive}
    IN  up[Cardinality(Kinds)]

\* An object is freed when its count drops to 0.
Unref(x) ==
    \E freed \in SUBSET (alive \cap Above(x)) :
       /\ freed = {y \in alive : Dropped(x, freed, y) > 0 /\ refs[y] <= Dropped(x, freed, y)}
       /\ alive' = alive \ freed
       /\ refs' = [y \in Objects |-> refs[y] - Dropped(x, freed, y)]
       /\ held' = [held EXCEPT ![x] = @ - 1]
       /\ pause_counter' =             \* tree_unpause
            [t \in Objects |->
                pause_counter[t] - Cardinality({v \in freed : parent[v] = t /\ kind[v] = "V"})]
       /\ UNCHANGED <<kind, parent, leaked, started, order_vars, parse_count, exhausted, seen_parse>>

-----------------------------------------------------------------------------
Constructors(x, is_precomputed) ==
    \/ GrammarNew(x)
    \/ \E g \in Held("G") : RecceNew(x, g, is_precomputed)
    \/ \E r \in Held("R") : BocageNew(x, r) \/ BocageNewInvalidLocation(x, r)
    \/ \E b \in Held("B") : OrderNew(x, b)
    \/ \E o \in Held("O") : TreeNew(x, o)
    \/ \E t \in Held("T") : ValueNew(x, t)

Methods ==
    \/ \E r \in Held("R") : StartInput(r)
    \/ \E o \in Held("O") : Rank(o) \/ AmbiguityMetric(o) \/ \E count \in {0, 1} : HighRankOnlySet(o, count)
    \/ \E t \in Held("T") : TreeNext(t)
    \/ \E x \in UNION {Held(k) : k \in Kinds} : Ref(x) \/ Unref(x)

ObjectsNext ==
    \/ \E x \in Objects, is_precomputed \in BOOLEAN : Constructors(x, is_precomputed)
    \/ Methods

ObjectsSpec == ObjectsInit /\ [][ObjectsNext]_lifetime_vars

-----------------------------------------------------------------------------
(* Properties *)

ObjectsTypeOK ==
    /\ kind \in [Objects -> Kinds \cup {"none"}]
    /\ parent \in [Objects -> Objects \cup {NoObject}]
    /\ alive \subseteq {x \in Objects : kind[x] # "none"}
    /\ refs \in [Objects -> Nat] /\ held \in [Objects -> Nat]
    /\ leaked \subseteq alive /\ started \subseteq Objects
    /\ frozen \subseteq Objects /\ exhausted \subseteq Objects
    /\ ordering \in [Objects -> Orderings] /\ seen_ordering \in [Objects -> Orderings]
    /\ parse_count \in [Objects -> Nat] /\ pause_counter \in [Objects -> Nat]
    /\ seen_parse \in [Objects -> Nat]

\* The count of an object that is not freed is positive, and exactly that of
\* the application's references and of the objects that need it: none of these
\* ever outlives what it references, in whatever order all are given back.
RefsExact ==
    /\ \A x \in alive :
          /\ refs[x] > 0
          /\ refs[x] = held[x] + Cardinality(Children(x)) + (IF x \in leaked THEN 1 ELSE 0)
          /\ kind[x] # "G" => parent[x] \in alive /\ kind[parent[x]] = Parent_of_Kind[kind[x]]
    /\ \A x \in Objects \ alive : held[x] = 0

\* When the application has given back all of its references, nothing is left
\* but what the failed marpa_b_new calls lost, and the grammars these hold.
NothingLeft ==
    (\A x \in Objects : held[x] = 0) =>
        alive = leaked \cup {parent[x] : x \in leaked}

\* A tree is paused by as many valuators as there are, each for the parse at
\* which the tree still is, and a tree has the ordering that it was made for.
SnapshotsHold ==
    \A x \in alive :
       /\ kind[x] = "T" => /\ pause_counter[x] = Cardinality(Children(x))
                           /\ seen_ordering[x] = ordering[parent[x]]
       /\ kind[x] = "V" => /\ parent[x] \notin exhausted
                           /\ seen_parse[x] = parse_count[parent[x]]
=============================================================================
