------------------------------ MODULE MCLifecycle ------------------------------
(***************************************************************************)
(* The life of one grammar: an application builds and precomputes it, then *)
(* makes objects from it, uses them and gives back its references in every *)
(* order.  It builds any small grammar, and grammars with one long rule    *)
(* over symbols that may be nulled, for the CHAF form.                     *)
(***************************************************************************)
EXTENDS GrammarReference, MarpaObjects

CONSTANTS
    LongestRule,         \* bound: the symbols of a long rule
    LongestGrammar,      \* bound: the rules of a small grammar
    ManyCalls            \* bound: the rules of a grammar while failing calls and
                         \* declarations are tried on it

ASSUME LongestRule \in Nat /\ LongestGrammar \in Nat /\ ManyCalls \in Nat

\* A long rule is of symbols that are proper nullable, nulling and terminal.
LongBase == <<BNF(1, <<4>>), BNF(1, <<>>), BNF(2, <<>>)>>
LongRightSides ==
    UNION {[1 .. n -> {1, 2, 4}] : n \in 3 .. LongestRule - 1} \cup [1 .. LongestRule -> {1, 4}]
SmallRightSides == UNION {[1 .. n -> 0 .. 2] : n \in 0 .. 2}

MC_RightSides == SmallRightSides \cup LongRightSides \cup {<<4>>}
MC_SequenceArguments ==
    ({1} \X {NoXSY, 0, 2} \X {0, 1} \X BOOLEAN) \cup {<<1, 2, 2, FALSE>>, <<2, 2, 1, FALSE>>, <<6, 1, 1, TRUE>>,
                                           <<1, 6, 1, TRUE>>, <<0, 2, 1, FALSE>>}

\* Small grammars have three symbols, and their rules come in the order of
\* their LHSes and lengths; a sequence or a declared terminal makes them shorter.
IsSmall(e) ==
    /\ e.symbols = 3
    /\ \A r \in XRLs_of(e) : e.rules[r].lhs \in {0, 1} /\ e.rules[r].rhs \in SmallRightSides
    /\ \A r \in XRLs_of(e) :
          r > 1 => \/ e.rules[r - 1].lhs < e.rules[r].lhs
                   \/ /\ e.rules[r - 1].lhs = e.rules[r].lhs
                      /\ Len(e.rules[r - 1].rhs) <= Len(e.rules[r].rhs)
    /\ Len(e.rules) > ManyCalls => e.start = 0
    /\ Len(e.rules) <= IF e.locked # {} \/ counted(e) # {} THEN 2 ELSE LongestGrammar
IsLong(e) ==
    /\ e.symbols = 5 /\ e.locked = {} /\ e.start = 0
    /\ \/ Len(e.rules) <= 3 /\ e.rules = SubSeq(LongBase, 1, Len(e.rules))
       \/ /\ Len(e.rules) = 4 /\ SubSeq(e.rules, 1, 3) = LongBase
          /\ e.rules[4].lhs = 0 /\ e.rules[4].rhs \in LongRightSides

\* A loop through a sequence whose separator derives nothing.
UnproductiveBase == <<BNF(0, <<1>>), BNF(0, <<4>>), SequenceOf(1, 0, 2, 1, FALSE), BNF(2, <<2>>)>>
IsUnproductive(e) ==
    /\ e.symbols = 5 /\ e.locked = {} /\ e.start = 0
    /\ e.rules = SubSeq(UnproductiveBase, 1, Len(e.rules))

\* The grammar whose objects are followed: 0 ::= 2.
HasObjects == is_precomputed /\ external.rules = <<BNF(0, <<2>>)>> /\ external.symbols = 3
              /\ external.locked = {} /\ g_error = "NONE"

-----------------------------------------------------------------------------
MCInit == GrammarInit /\ ObjectsInit

Bounded ==
    /\ external'.symbols # external.symbols => external.rules = <<>> \/ is_precomputed
    /\ external'.rules # external.rules =>
          g_error = "NONE" /\ (IsSmall(external') \/ IsLong(external') \/ IsUnproductive(external'))
    /\ external'.start # external.start => external'.start \in {0, 2} /\ external.locked = {}
    /\ external'.locked # external.locked => external'.locked = {1} \/ external'.locked = {0}
    /\ (external'.start # external.start \/ external'.locked # external.locked \/ g_error' # g_error)
          => Len(external.rules) <= ManyCalls \/ is_precomputed' # is_precomputed
             \/ irrecoverable' # irrecoverable

\* Calls go on after an error, and after precomputation, on few grammars.
Building ==
    /\ is_precomputed => Len(external.rules) <= ManyCalls
    /\ g_error \in {"NONE", "GRAMMAR_HAS_CYCLE"} \/ external.rules = <<>>
    /\ Len(external.rules) < IF external.symbols = 3 THEN LongestGrammar ELSE 4

GrammarCalls ==
    /\ alive # {} /\ alive = Held("G")
    /\ ~ irrecoverable
    /\ (Building /\ ConstructionCalls) \/ PrecomputeCalls
    /\ Bounded
    /\ UNCHANGED lifetime_vars

\* The addresses of objects are taken in turn, by one grammar and one
\* recognizer at most, and at most two objects of another class.
MostOfKind(k) == IF k \in {"G", "R"} THEN 1 ELSE 2

ObjectCalls ==
    /\ \/ \E x \in Objects :
            /\ \A y \in Objects : y < x => kind[y] # "none"
            /\ \/ (\A y \in Objects : kind[y] = "none") /\ GrammarNew(x)
               \/ /\ HasObjects /\ Constructors(x, is_precomputed)
                  /\ kind'[x] # "G"
                  /\ \A k \in Kinds : Cardinality({y \in Objects : kind'[y] = k}) <= MostOfKind(k)
       \/ HasObjects /\ Methods
    /\ UNCHANGED g_vars

MCNext == GrammarCalls \/ ObjectCalls

MCSpec == MCInit /\ [][MCNext]_<<g_vars, lifetime_vars>>
=============================================================================
