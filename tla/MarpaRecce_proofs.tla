------------------------- MODULE MarpaRecce_proofs -------------------------
(***************************************************************************)
(* The recognizer, for every grammar, every setting and every sequence of  *)
(* calls: its type invariant, and that the stack of the alternatives holds *)
(* the tokens still to come, in order, so that marpa_r_earleme_complete    *)
(* can pop the tokens of an earleme without searching.                     *)
(*                                                                         *)
(* And the chart it builds: every source link joins a predecessor and a    *)
(* token or cause that meet, the Leo items memoize deterministic paths,    *)
(* and an item's origin is an Earley set in which its rule is awaited.     *)
(***************************************************************************)
EXTENDS MarpaRecce, MarpaGrammar_proofs, FiniteSetTheorems, SequenceTheorems

-----------------------------------------------------------------------------
(* What the phases of a call have in common. *)

\* A running parse is at an earleme that some token has reached; a call of
\* marpa_r_earleme_complete works on an Earley set of a running parse, and
\* leaves no Leo item unpopulated; a Leo item's trailhead waits for its symbol.
PhasesAgree ==
    /\ input_phase = "before" => current_earleme = NoEarleme /\ pc = "idle"
    /\ input_phase = "during" =>
          current_earleme \in Earlemes /\ current_earleme <= furthest_earleme
    /\ pc # "idle" => input_phase = "during" /\ current_earleme \in earley_sets
    /\ pc # "populate" => \A k \in DOMAIN lims : LIM_is_Populated(k)
    /\ \A k \in DOMAIN lims : Postdot_NSYID_of_AHM(lims[k].trailhead.ahm) = k[2]

TypeInv == TypeOK /\ PhasesAgree

-----------------------------------------------------------------------------
\* The events of a recognizer are finitely many, so that its event count is a
\* number.
LEMMA EventsFinite ==
    ASSUME NEW S, S \subseteq Events
    PROVE  Cardinality(S) \in Nat
<1>1. IsFiniteSet(SymbolEvents)
  <2>1. IsFiniteSet({}) /\ IsFiniteSet({"COMPLETED"})
    BY FS_EmptySet, FS_Singleton
  <2>2. IsFiniteSet({"COMPLETED"} \cup {"NULLED"})
    BY <2>1, FS_AddElement
  <2>3. IsFiniteSet(({"COMPLETED"} \cup {"NULLED"}) \cup {"PREDICTED"})
    BY <2>2, FS_AddElement
  <2>4. IsFiniteSet((({"COMPLETED"} \cup {"NULLED"}) \cup {"PREDICTED"}) \cup {"EXPECTED"})
    BY <2>3, FS_AddElement
  <2>5. SymbolEvents = (({"COMPLETED"} \cup {"NULLED"}) \cup {"PREDICTED"}) \cup {"EXPECTED"}
    BY DEF SymbolEvents
  <2> QED
    BY <2>4, <2>5
<1>2. IsFiniteSet(XSYs)
  BY SymbolAssumption
<1>3. IsFiniteSet(SymbolEvents \X XSYs)
  BY <1>1, <1>2, FS_Product
<1>4. IsFiniteSet((SymbolEvents \X XSYs) \cup {<<"EXHAUSTED">>})
  BY <1>3, FS_AddElement
<1>5. IsFiniteSet(((SymbolEvents \X XSYs) \cup {<<"EXHAUSTED">>})
                     \cup {<<"EARLEY_ITEM_THRESHOLD">>})
  BY <1>4, FS_AddElement
<1>6. Events = ((SymbolEvents \X XSYs) \cup {<<"EXHAUSTED">>})
                     \cup {<<"EARLEY_ITEM_THRESHOLD">>}
  BY DEF Events
<1>7. IsFiniteSet(S)
  BY <1>5, <1>6, FS_Subset
<1> QED
  BY <1>7, FS_CardinalityType

\* Sets of external symbols have a size too.
LEMMA SymbolSetsFinite ==
    ASSUME NEW S, S \subseteq XSYs
    PROVE  IsFiniteSet(S) /\ Cardinality(S) \in Nat
  BY SymbolAssumption, FS_Subset, FS_CardinalityType

\* An item with a postdot symbol can be advanced, with the same origin.
LEMMA AdvanceType ==
    ASSUME NEW yim \in YIMs, Postdot_NSYID_of_AHM(yim.ahm) \in NSYs
    PROVE  /\ Advance(yim) \in YIMs
           /\ Advance(yim).origin = yim.origin
<1>1. yim.ahm \in AHMs /\ yim.origin \in Earlemes
  BY DEF YIMs
<1>2. Next_AHM_of_AHM(yim.ahm) \in AHMs
  BY <1>1, PostdotMeansNext, NextAHM
<1> QED
  BY <1>1, <1>2 DEF Advance, YIMs

\* The first AHM of a rule makes an item of any Earley set.
LEMMA PredictionType ==
    ASSUME NEW irl \in IRLs, NEW e \in Earlemes
    PROVE  [ahm |-> First_AHM_of_IRL(irl), origin |-> e] \in YIMs
  BY FirstAHM DEF YIMs

\* The left side of an item's rule is a symbol.
LEMMA LHSType ==
    ASSUME NEW yim \in YIMs
    PROVE  LHS_NSYID_of_YIM(yim) \in NSYs
<1>1. yim.ahm.irl \in IRLs
  BY AHMParts DEF YIMs
<1> QED
  BY <1>1, GrammarAssumption DEF LHS_NSYID_of_YIM

\* A token is inserted at some place of the stack of the alternatives, and what
\* is then there are alternatives: the new one and old ones.
LEMMA InsertType ==
    ASSUME NEW s \in Seq(Alternatives), NEW a \in Alternatives
    PROVE  /\ alternative_insertion_point(s, a) \in 1 .. Len(s) + 1
           /\ alternative_insert(s, a) \in Seq(Alternatives)
           /\ \A i \in DOMAIN alternative_insert(s, a) :
                 \/ alternative_insert(s, a)[i] = a
                 \/ \E j \in DOMAIN s : alternative_insert(s, a)[i] = s[j]
<1> DEFINE Lower == {i \in DOMAIN s : SortsBefore(s[i], a)}
<1> DEFINE ix == alternative_insertion_point(s, a)
<1> DEFINE t == alternative_insert(s, a)
<1>1. Len(s) \in Nat /\ DOMAIN s = 1 .. Len(s)
  OBVIOUS
<1>2. Cardinality(Lower) \in 0 .. Len(s)
  <2>1. IsFiniteSet(1 .. Len(s)) /\ Cardinality(1 .. Len(s)) = Len(s)
    BY <1>1, FS_Interval
  <2>2. Lower \subseteq 1 .. Len(s)
    BY <1>1
  <2>3. IsFiniteSet(Lower) /\ Cardinality(Lower) <= Cardinality(1 .. Len(s))
    BY <2>1, <2>2, FS_Subset
  <2>4. Cardinality(Lower) \in Nat
    BY <2>3, FS_CardinalityType
  <2> QED
    BY <1>1, <2>1, <2>3, <2>4
<1>3. ix \in 1 .. Len(s) + 1
  BY <1>1, <1>2 DEF alternative_insertion_point
<1> HIDE DEF ix
<1>4. t = [i \in 1 .. Len(s) + 1 |->
              IF i < ix THEN s[i] ELSE IF i = ix THEN a ELSE s[i - 1]]
  BY DEF alternative_insert, ix
<1>5. ASSUME NEW i \in 1 .. Len(s) + 1
      PROVE  /\ t[i] = a \/ \E j \in DOMAIN s : t[i] = s[j]
             /\ t[i] \in Alternatives
  <2>1. CASE i < ix
    BY <1>1, <1>3, <1>4, <2>1
  <2>2. CASE i = ix
    BY <1>4, <2>2
  <2>3. CASE i > ix
    <3>1. t[i] = s[i - 1] /\ i - 1 \in DOMAIN s
      BY <1>1, <1>3, <1>4, <2>3
    <3> QED
      BY <3>1
  <2> QED
    BY <1>3, <2>1, <2>2, <2>3
<1>6. DOMAIN t = 1 .. Len(s) + 1 /\ t \in [1 .. Len(s) + 1 -> Alternatives]
  BY <1>4, <1>5
<1>7. t \in Seq(Alternatives)
  BY <1>1, <1>6, SeqDef
<1> QED
  BY <1>3, <1>5, <1>6, <1>7 DEF ix

\* Reading a token loses no other one: the new alternative is at its insertion
\* point, those before it are where they were and the others one place up, so
\* that all are there, in their order, with the new one and nothing else.
LEMMA InsertPlaces ==
    ASSUME NEW s \in Seq(Alternatives), NEW a \in Alternatives
    PROVE  /\ Len(alternative_insert(s, a)) = Len(s) + 1
           /\ alternative_insert(s, a)[alternative_insertion_point(s, a)] = a
           /\ \A i \in 1 .. Len(s) :
                 alternative_insert(s, a)
                    [IF i < alternative_insertion_point(s, a) THEN i ELSE i + 1] = s[i]
<1>1. PICK ix : ix = alternative_insertion_point(s, a)
  OBVIOUS
<1>2. PICK t : t = alternative_insert(s, a)
  OBVIOUS
<1>3. Len(s) \in Nat /\ ix \in 1 .. Len(s) + 1 /\ t \in Seq(Alternatives)
  BY <1>1, <1>2, InsertType
<1>4. t = [i \in 1 .. Len(s) + 1 |->
              IF i < ix THEN s[i] ELSE IF i = ix THEN a ELSE s[i - 1]]
  BY <1>1, <1>2 DEF alternative_insert
<1>5. Len(t) = Len(s) + 1
  <2>1. DOMAIN t = 1 .. Len(s) + 1
    BY <1>4
  <2> QED
    BY <1>3, <2>1
<1>6. t[ix] = a
  BY <1>3, <1>4
<1>7. ASSUME NEW i \in 1 .. Len(s)
      PROVE  t[IF i < ix THEN i ELSE i + 1] = s[i]
  <2>1. CASE i < ix
    BY <1>3, <1>4, <2>1
  <2>2. CASE ~ i < ix
    <3>1. i + 1 \in 1 .. Len(s) + 1 /\ ~ i + 1 < ix /\ i + 1 # ix /\ (i + 1) - 1 = i
      BY <1>3, <2>2
    <3> QED
      BY <1>4, <2>2, <3>1
  <2> QED
    BY <2>1, <2>2
<1> QED
  BY <1>1, <1>2, <1>5, <1>6, <1>7

-----------------------------------------------------------------------------
(* TypeInv holds at the start, and every action preserves it. *)

\* What a call reports is a number and an error.
LEMMA ReturnsType ==
    /\ \A v \in Int : Returns(v) => returned' \in [value : Int, error : ErrorCodes]
    /\ \A code \in ErrorCodes : Fails(code) => returned' \in [value : Int, error : ErrorCodes]
  BY DEF Returns, Fails, ErrorCodes

\* marpa_r_new leaves every variable in its type, in no phase of a call.
LEMMA InitType == Init => TypeInv
<1> SUFFICES ASSUME Init PROVE TypeInv
  OBVIOUS
<1>1. ClockTypeOK
  <2>1. is_exhausted \in BOOLEAN
    BY Zenon DEF Init
  <2> QED
    BY <2>1, RecceAssumption DEF Init, ClockTypeOK, Earlemes, NoEarleme
<1>2. ChartTypeOK
  BY DEF Init, ChartTypeOK
<1>3. InputTypeOK
  BY DEF Init, InputTypeOK
<1>4. SettingsTypeOK
  <2>1. active_event_count \in Int
    <3>1. /\ Cardinality(CompletionEventXSYs) \in Nat /\ Cardinality(NulledEventXSYs) \in Nat
          /\ Cardinality(PredictionEventXSYs) \in Nat
      BY SymbolAssumption, RecceAssumption, SymbolSetsFinite
    <3> QED
      BY <3>1 DEF Init
  <2> QED
    BY <2>1, RecceAssumption DEF Init, SettingsTypeOK
<1>5. ReportTypeOK
  <2>1. using_leo \in BOOLEAN
    BY Zenon DEF Init
  <2> QED
    BY <2>1 DEF Init, ReportTypeOK, ErrorCodes
<1>6. PhasesAgree
  BY DEF Init, PhasesAgree
<1> QED
  BY <1>1, <1>2, <1>3, <1>4, <1>5, <1>6 DEF TypeInv, TypeOK

\* The settings calls change the settings and nothing that TypeInv relates to
\* the phases.
LEMMA SettingsType ==
    ASSUME TypeInv, Settings
    PROVE  TypeInv'
<1> USE DEF TypeInv, TypeOK
<1>1. /\ ClockTypeOK' /\ ChartTypeOK' /\ InputTypeOK' /\ PhasesAgree'
  <2>1. UNCHANGED <<clock, chart, input, pc>>
    BY DEF Settings, SymbolActivate, SymbolDeactivate, ExpectedSymbolEventSet, ZWADefaultSet,
           IsUseLeoSet, WarningThresholdSet
  <2>2. ClockTypeOK' /\ InputTypeOK'
    BY <2>1 DEF clock, input, ClockTypeOK, InputTypeOK
  <2>3. ChartTypeOK'
    BY <2>1 DEF chart, links, ChartTypeOK
  <2>4. PhasesAgree'
    BY <2>1 DEF clock, chart, PhasesAgree, LIM_is_Populated
  <2> QED
    BY <2>2, <2>3, <2>4
<1>2. SettingsTypeOK'
  <2>1. ASSUME NEW kind \in {"completion", "nulled", "prediction"}, NEW x \in ToggledXSYs,
               SymbolActivate(kind, x) \/ SymbolDeactivate(kind, x)
        PROVE  SettingsTypeOK'
    <3>1. x \in XSYs
      BY RecceAssumption
    <3> QED
      BY <2>1, <3>1 DEF SymbolActivate, SymbolDeactivate, SettingsTypeOK
  <2>2. ASSUME NEW x \in ExpectedToggles, NEW on \in BOOLEAN, ExpectedSymbolEventSet(x, on)
        PROVE  SettingsTypeOK'
    <3>1. NSY_of_XSY[x] # NoNSY => NSY_of_XSY[x] \in NSYs
      BY RecceAssumption, SymbolAssumption
    <3> QED
      BY <2>2, <3>1 DEF ExpectedSymbolEventSet, SettingsTypeOK
  <2>3. ASSUME NEW z \in ToggledZWAs, NEW default_value \in BOOLEAN,
               ZWADefaultSet(z, default_value)
        PROVE  SettingsTypeOK'
    BY <2>3, RecceAssumption DEF ZWADefaultSet, SettingsTypeOK
  <2>4. ASSUME NEW value \in BOOLEAN, IsUseLeoSet(value)
        PROVE  SettingsTypeOK'
    BY <2>4 DEF IsUseLeoSet, SettingsTypeOK
  <2>5. ASSUME NEW threshold \in WarningThresholds, WarningThresholdSet(threshold)
        PROVE  SettingsTypeOK'
    BY <2>5, RecceAssumption DEF WarningThresholdSet, SettingsTypeOK
  <2> QED
    BY <2>1, <2>2, <2>3, <2>4, <2>5 DEF Settings
<1>3. ReportTypeOK'
  <2>1. UNCHANGED <<expected, events, using_leo, pc>>
    BY DEF Settings, SymbolActivate, SymbolDeactivate, ExpectedSymbolEventSet, ZWADefaultSet,
           IsUseLeoSet, WarningThresholdSet
  <2>2. returned' \in [value : Int, error : ErrorCodes]
    <3>1. \A kind, x : SymbolActivate(kind, x) \/ SymbolDeactivate(kind, x)
             => returned' \in [value : Int, error : ErrorCodes]
      BY ReturnsType DEF SymbolActivate, SymbolDeactivate, ErrorCodes
    <3>2. \A x, on : ExpectedSymbolEventSet(x, on) => returned' \in [value : Int, error : ErrorCodes]
      BY ReturnsType DEF ExpectedSymbolEventSet, ErrorCodes
    <3>3. \A z, on : ZWADefaultSet(z, on) => returned' \in [value : Int, error : ErrorCodes]
      BY ReturnsType DEF ZWADefaultSet
    <3>4. \A value : IsUseLeoSet(value) => returned' \in [value : Int, error : ErrorCodes]
      BY ReturnsType DEF IsUseLeoSet, ErrorCodes
    <3>5. \A threshold \in WarningThresholds :
             WarningThresholdSet(threshold) => returned' \in [value : Int, error : ErrorCodes]
      BY ReturnsType, RecceAssumption DEF WarningThresholdSet
    <3> QED
      BY <3>1, <3>2, <3>3, <3>4, <3>5 DEF Settings
  <2> QED
    BY <2>1, <2>2 DEF ReportTypeOK
<1> QED
  BY <1>1, <1>2, <1>3

\* Groups of variables that an action leaves alone keep their types.
LEMMA StableTypes ==
    /\ ClockTypeOK /\ UNCHANGED clock => ClockTypeOK'
    /\ ChartTypeOK /\ UNCHANGED chart => ChartTypeOK'
    /\ InputTypeOK /\ UNCHANGED input => InputTypeOK'
    /\ SettingsTypeOK /\ UNCHANGED settings => SettingsTypeOK'
<1>1. ClockTypeOK /\ UNCHANGED clock => ClockTypeOK'
  BY DEF ClockTypeOK, clock
<1>2. ChartTypeOK /\ UNCHANGED chart => ChartTypeOK'
  BY DEF ChartTypeOK, chart, links
<1>3. InputTypeOK /\ UNCHANGED input => InputTypeOK'
  BY DEF InputTypeOK, input
<1>4. SettingsTypeOK /\ UNCHANGED settings => SettingsTypeOK'
  BY DEF SettingsTypeOK, settings
<1> QED
  BY <1>1, <1>2, <1>3, <1>4

\* Whatever the items, the events are those of external symbols.
LEMMA TriggeredType ==
    ASSUME TypeOK, NEW items, NEW e
    PROVE  /\ NulledAtStart \subseteq Events
           /\ trigger_events(items, e) \subseteq Events
           /\ ExpectedEvents(items) \subseteq Events
           /\ PostdotTerminals(items) \subseteq TerminalNSYs
<1>1. /\ active.completion \subseteq XSYs /\ active.nulled \subseteq XSYs
      /\ active.prediction \subseteq XSYs /\ expected_is_event \subseteq NSYs
  BY DEF TypeOK, SettingsTypeOK
<1>2. /\ {<<"COMPLETED", x>> : x \in XSYs} \subseteq Events
      /\ {<<"NULLED", x>> : x \in XSYs} \subseteq Events
      /\ {<<"PREDICTED", x>> : x \in XSYs} \subseteq Events
      /\ {<<"EXPECTED", x>> : x \in XSYs} \subseteq Events
  BY DEF Events, SymbolEvents
<1>3. NulledAtStart \subseteq Events
  BY <1>1, <1>2 DEF NulledAtStart
<1>4. trigger_events(items, e) \subseteq Events
  BY <1>1, <1>2, <1>3 DEF trigger_events
<1>5. ExpectedEvents(items) \subseteq Events
  BY <1>1, <1>2, SymbolAssumption DEF ExpectedEvents
<1> QED
  BY <1>3, <1>4, <1>5 DEF PostdotTerminals

\* A call that fails, or that only empties the events, keeps all types.
LEMMA NoChangeType ==
    ASSUME TypeInv,
           UNCHANGED <<clock, chart, expected, settings, using_leo, input, pc>>,
           events' \subseteq Events, returned' \in [value : Int, error : ErrorCodes]
    PROVE  TypeInv'
<1>1. ClockTypeOK' /\ ChartTypeOK' /\ InputTypeOK' /\ SettingsTypeOK'
  BY StableTypes DEF TypeInv, TypeOK
<1>2. ReportTypeOK'
  BY DEF TypeInv, TypeOK, ReportTypeOK
<1>3. PhasesAgree'
  BY DEF TypeInv, PhasesAgree, LIM_is_Populated, clock, chart
<1> QED
  BY <1>1, <1>2, <1>3 DEF TypeInv, TypeOK

\* What marpa_r_start_input predicts: the start rule and whatever the predicted
\* rules predict at once, unless an assertion holds it back, and nothing else.
LEMMA SeenAtStart ==
    ASSUME ~ G_is_Trivial
    PROVE  /\ StartIRL \in IRLs /\ StartIRL \in IRLsSeenAtStart
           /\ IRLsSeenAtStart \in SUBSET IRLs
           /\ PredictedAtStart[IRLsSeenAtStart] \subseteq IRLsSeenAtStart
           /\ \A C \in SUBSET IRLs :
                 StartIRL \in C /\ PredictedAtStart[C] \subseteq C => IRLsSeenAtStart \subseteq C
<1>1. StartIRL \in IRLs
  BY GrammarAssumption DEF G_is_Trivial
<1>2. IsFiniteSet(IRLs)
  <2>1. 0 \in Int /\ IRL_Count - 1 \in Int
    BY GrammarAssumption
  <2> QED
    BY <2>1, FS_Interval DEF IRLs
<1>3. PredictedAtStart \in [SUBSET IRLs -> SUBSET IRLs]
  BY DEF PredictedAtStart
<1>4. IsMonotone(IRLs, PredictedAtStart)
  BY DEF IsMonotone, PredictedAtStart
<1>5. /\ {StartIRL} \subseteq IRLsSeenAtStart
      /\ IsClosed(IRLs, PredictedAtStart, IRLsSeenAtStart)
      /\ \A C : IsClosed(IRLs, PredictedAtStart, C) /\ {StartIRL} \subseteq C =>
             IRLsSeenAtStart \subseteq C
  BY <1>1, <1>2, <1>3, <1>4, FixpointIsLeast DEF IRLsSeenAtStart
<1> QED
  BY <1>1, <1>5 DEF IsClosed

\* marpa_r_start_input, failing or not, keeps the types and the phases.
LEMMA StartType ==
    ASSUME TypeInv, StartInputFails \/ StartInputTrivial \/ StartInput
    PROVE  TypeInv'
<1> USE DEF TypeInv, TypeOK
<1>1. CASE StartInputFails
  BY <1>1, NoChangeType, ReturnsType DEF StartInputFails, ErrorCodes, ReportTypeOK
<1>2. InitialValued \in [{"valued", "valued_terminal", "unvalued", "unvalued_terminal",
                         "locked"} -> SUBSET XSYs]
  BY RecceAssumption, SymbolAssumption DEF InitialValued
<1>3. 0 \in Earlemes
  BY RecceAssumption DEF Earlemes
<1>4. CASE StartInputTrivial
  <2>1. ClockTypeOK'
    <3>1. is_exhausted' \in BOOLEAN
      BY <1>4, Zenon DEF StartInputTrivial
    <3> QED
      BY <1>3, <1>4, <3>1 DEF StartInputTrivial, ClockTypeOK
  <2>2. ChartTypeOK'
    BY <1>3, <1>4 DEF StartInputTrivial, ChartTypeOK, links
  <2>3. InputTypeOK' /\ SettingsTypeOK'
    BY <1>2, <1>4, StableTypes DEF StartInputTrivial, InputTypeOK
  <2>4. ReportTypeOK'
    <3>1. NulledAtStart \subseteq Events /\ Cardinality(NulledAtStart) \in Nat
      BY TriggeredType, EventsFinite
    <3>2. events' \subseteq Events
      BY <1>4, <3>1 DEF StartInputTrivial, Events
    <3>3. returned' \in [value : Int, error : ErrorCodes]
      BY <1>4, <3>1, ReturnsType DEF StartInputTrivial
    <3> QED
      BY <1>4, <3>2, <3>3 DEF StartInputTrivial, ReportTypeOK
  <2>5. PhasesAgree'
    BY <1>4 DEF StartInputTrivial, PhasesAgree, LIM_is_Populated
  <2> QED
    BY <2>1, <2>2, <2>3, <2>4, <2>5
<1>5. CASE StartInput
  <2> DEFINE set0 == {[ahm |-> First_AHM_of_IRL(i), origin |-> 0] : i \in IRLsSeenAtStart}
  <2>1. set0 \subseteq YIMs
    BY <1>3, <1>5, PredictionType, SeenAtStart DEF StartInput
  <2>2. ChartTypeOK'
    BY <1>3, <1>5, <2>1 DEF StartInput, ChartTypeOK, links
  <2>3. InputTypeOK' /\ SettingsTypeOK'
    BY <1>2, <1>5, StableTypes DEF StartInput, InputTypeOK
  <2>4. ReportTypeOK'
    <3>1. expected' = PostdotTerminals(set0)
          /\ events' = ExpectedEvents(set0) \cup trigger_events(set0, 0)
      BY <1>5 DEF StartInput
    <3>2. expected' \subseteq TerminalNSYs /\ events' \subseteq Events
      BY <3>1, TriggeredType
    <3>3. returned' \in [value : Int, error : ErrorCodes]
      BY <1>5, ReturnsType DEF StartInput
    <3>4. using_leo' \in BOOLEAN
      BY <1>5, Zenon DEF StartInput, SettingsTypeOK
    <3> QED
      BY <1>5, <3>2, <3>3, <3>4 DEF StartInput, ReportTypeOK
  <2>5. ClockTypeOK'
    BY <1>3, <1>5 DEF StartInput, ClockTypeOK
  <2>6. PhasesAgree'
    BY <1>3, <1>5 DEF StartInput, PhasesAgree, LIM_is_Populated, ClockTypeOK, Earlemes
  <2> QED
    BY <2>2, <2>3, <2>4, <2>5, <2>6
<1> QED
  BY <1>1, <1>4, <1>5

\* The valued status of a symbol changes within the sets of symbols.
LEMMA LockType ==
    ASSUME InputTypeOK, NEW x \in XSYs, NEW v
    PROVE  LockValued(x, v) \in [{"valued", "valued_terminal", "unvalued",
                                 "unvalued_terminal", "locked"} -> SUBSET XSYs]
  BY DEF LockValued, InputTypeOK

\* The alternative that a token accepted at the current earleme becomes.
LEMMA NewAlternativeType ==
    ASSUME TypeInv, NEW x \in XSYs, NEW v \in TokenValues, NEW length \in TokenLengths,
           PassesInitialChecks(x, v, length), IsExpected(x),
           current_earleme + length < JEARLEME_THRESHOLD
    PROVE  /\ [nsy |-> NSY_of_XSY[x], start |-> current_earleme,
               end |-> current_earleme + length, value |-> v] \in Alternatives
           /\ current_earleme \in Earlemes /\ current_earleme + length \in Earlemes
           /\ current_earleme < current_earleme + length
<1>1. current_earleme \in Earlemes /\ NSY_of_XSY[x] \in NSYs
  BY SymbolAssumption DEF IsExpected, TypeInv, TypeOK, ChartTypeOK
<1>2. length \in Nat /\ length > 0
  BY RecceAssumption DEF PassesInitialChecks
<1>3. current_earleme + length \in Earlemes /\ current_earleme < current_earleme + length
  BY <1>1, <1>2, RecceAssumption DEF Earlemes
<1> QED
  BY <1>1, <1>3, RecceAssumption DEF Alternatives

\* So does marpa_r_alternative: the tokens it accepts end after the current
\* earleme and below the threshold.
LEMMA AlternativeType ==
    ASSUME TypeInv, NEW x \in XSYs, NEW v \in TokenValues, NEW length \in TokenLengths,
           \/ AlternativeFails(x, v, length) \/ AlternativeRejected(x, v, length)
           \/ Alternative(x, v, length)
    PROVE  TypeInv'
<1> USE DEF TypeInv, TypeOK
<1>1. CASE AlternativeFails(x, v, length)
  <2>1. returned' \in [value : Int, error : ErrorCodes]
    BY <1>1, ReturnsType DEF AlternativeFails, ErrorCodes
  <2> QED
    BY <1>1, <2>1, NoChangeType DEF AlternativeFails, ReportTypeOK
<1>2. CASE AlternativeRejected(x, v, length)
  <2>1. returned' \in [value : Int, error : ErrorCodes]
    BY <1>2, ReturnsType DEF AlternativeRejected, ErrorCodes
  <2>2. ClockTypeOK' /\ ChartTypeOK' /\ SettingsTypeOK'
    BY <1>2, StableTypes DEF AlternativeRejected
  <2>3. InputTypeOK'
    BY <1>2, LockType DEF AlternativeRejected, PassesInitialChecks, InputTypeOK
  <2>4. ReportTypeOK'
    BY <1>2, <2>1 DEF AlternativeRejected, ReportTypeOK
  <2>5. PhasesAgree'
    BY <1>2 DEF AlternativeRejected, PhasesAgree, LIM_is_Populated, clock, chart
  <2> QED
    BY <2>2, <2>3, <2>4, <2>5
<1>3. CASE Alternative(x, v, length)
  <2> DEFINE a == [nsy |-> NSY_of_XSY[x], start |-> current_earleme,
                   end |-> current_earleme + length, value |-> v]
  <2>1. a \in Alternatives /\ a.end = current_earleme + length
        /\ current_earleme + length \in Earlemes /\ a.end < JEARLEME_THRESHOLD
    BY <1>3, NewAlternativeType DEF Alternative
  <2>2. ChartTypeOK' /\ SettingsTypeOK'
    BY <1>3, StableTypes DEF Alternative
  <2>3. furthest_earleme' \in Earlemes /\ furthest_earleme' < JEARLEME_THRESHOLD
        /\ furthest_earleme <= furthest_earleme'
    BY <1>3, <2>1 DEF Alternative, ClockTypeOK, Earlemes
  <2>4. ClockTypeOK'
    BY <1>3, <2>3 DEF Alternative, ClockTypeOK
  <2>5. InputTypeOK'
    <3>1. alternatives' = alternatives \/ alternatives' = alternative_insert(alternatives, a)
      BY <1>3 DEF Alternative
    <3>2. alternatives' \in Seq(Alternatives)
      BY <2>1, <3>1, InsertType DEF InputTypeOK
    <3>3. tokens' \subseteq Alternatives
      BY <1>3, <2>1 DEF Alternative, InputTypeOK
    <3> QED
      BY <1>3, <3>2, <3>3, LockType DEF Alternative, PassesInitialChecks, InputTypeOK
  <2>6. ReportTypeOK'
    <3>1. returned' \in [value : Int, error : ErrorCodes]
      BY <1>3, ReturnsType DEF Alternative, ErrorCodes
    <3> QED
      BY <1>3, <3>1 DEF Alternative, ReportTypeOK
  <2>7. PhasesAgree'
    BY <1>3, <2>3 DEF Alternative, PhasesAgree, LIM_is_Populated, chart, ClockTypeOK, Earlemes
  <2> QED
    BY <2>2, <2>4, <2>5, <2>6, <2>7
<1> QED
  BY <1>1, <1>2, <1>3

\* The calls of marpa_r_earleme_complete that create no Earley set, the start
\* of the others, and marpa_r_clean.
LEMMA EarlemeCompleteType ==
    ASSUME TypeInv,
           \/ EarlemeCompleteFails \/ EarlemeCompleteExhausts \/ EarlemeCompleteEmpty
           \/ EarlemeCompleteBegins \/ CleanFails \/ Clean
    PROVE  TypeInv'
<1> USE DEF TypeInv, TypeOK
<1>1. CASE EarlemeCompleteFails \/ CleanFails
  <2>1. returned' \in [value : Int, error : ErrorCodes]
    BY <1>1, ReturnsType DEF EarlemeCompleteFails, CleanFails, ErrorCodes
  <2> QED
    BY <1>1, <2>1, NoChangeType DEF EarlemeCompleteFails, CleanFails, ReportTypeOK
<1>2. CASE Clean
  <2>1. returned' \in [value : Int, error : ErrorCodes]
    BY <1>2, ReturnsType DEF Clean
  <2> QED
    BY <1>2, <2>1, NoChangeType DEF Clean
<1>3. ASSUME input_phase = "during", current_earleme' = current_earleme + 1
      PROVE  /\ current_earleme' \in Earlemes
             /\ current_earleme' > furthest_earleme => current_earleme' = furthest_earleme + 1
  BY <1>3, RecceAssumption DEF PhasesAgree, ClockTypeOK, Earlemes
<1>4. CASE EarlemeCompleteExhausts
  <2>1. is_exhausted' \in BOOLEAN
    BY <1>4, Zenon DEF EarlemeCompleteExhausts
  <2>2. ClockTypeOK'
    BY <1>3, <1>4, <2>1 DEF EarlemeCompleteExhausts, ClockTypeOK
  <2>3. ChartTypeOK' /\ InputTypeOK' /\ SettingsTypeOK'
    BY <1>4, StableTypes DEF EarlemeCompleteExhausts
  <2>4. ReportTypeOK'
    <3>1. returned' \in [value : Int, error : ErrorCodes] /\ events' \subseteq Events
      BY <1>4, ReturnsType DEF EarlemeCompleteExhausts, ErrorCodes, Events
    <3> QED
      BY <1>4, <3>1 DEF EarlemeCompleteExhausts, ReportTypeOK
  <2>5. PhasesAgree'
    BY <1>4 DEF EarlemeCompleteExhausts, PhasesAgree, LIM_is_Populated, chart
  <2> QED
    BY <2>2, <2>3, <2>4, <2>5
<1>5. CASE EarlemeCompleteEmpty
  <2>1. ClockTypeOK'
    BY <1>3, <1>5 DEF EarlemeCompleteEmpty, ClockTypeOK
  <2>2. ChartTypeOK' /\ InputTypeOK' /\ SettingsTypeOK'
    BY <1>5, StableTypes DEF EarlemeCompleteEmpty
  <2>3. ReportTypeOK'
    <3>1. returned' \in [value : Int, error : ErrorCodes]
      BY <1>5, ReturnsType DEF EarlemeCompleteEmpty
    <3> QED
      BY <1>5, <3>1 DEF EarlemeCompleteEmpty, ReportTypeOK
  <2>4. PhasesAgree'
    BY <1>3, <1>5 DEF EarlemeCompleteEmpty, PhasesAgree, LIM_is_Populated, chart
  <2> QED
    BY <2>1, <2>2, <2>3, <2>4
<1>6. CASE EarlemeCompleteBegins
  <2>1. ClockTypeOK'
    BY <1>3, <1>6 DEF EarlemeCompleteBegins, ClockTypeOK
  <2>2. ChartTypeOK'
    BY <1>3, <1>6 DEF EarlemeCompleteBegins, ChartTypeOK, links
  <2>3. InputTypeOK' /\ SettingsTypeOK'
    BY <1>6, StableTypes DEF EarlemeCompleteBegins
  <2>4. ReportTypeOK'
    BY <1>6 DEF EarlemeCompleteBegins, ReportTypeOK
  <2>5. PhasesAgree'
    BY <1>3, <1>6 DEF EarlemeCompleteBegins, PhasesAgree, LIM_is_Populated
  <2> QED
    BY <2>1, <2>2, <2>3, <2>4, <2>5
<1> QED
  BY <1>1, <1>2, <1>4, <1>5, <1>6

\* The token on the top of the stack, and the stack without it.
LEMMA PopType ==
    ASSUME InputTypeOK, alternatives # <<>>
    PROVE  /\ TopAlternative \in Alternatives
           /\ Len(alternatives) \in DOMAIN alternatives
           /\ SubSeq(alternatives, 1, Len(alternatives) - 1) \in Seq(Alternatives)
           /\ DOMAIN SubSeq(alternatives, 1, Len(alternatives) - 1)
                 = 1 .. Len(alternatives) - 1
           /\ \A i \in 1 .. Len(alternatives) - 1 :
                 SubSeq(alternatives, 1, Len(alternatives) - 1)[i] = alternatives[i]
<1> DEFINE n == Len(alternatives)
<1>1. alternatives \in Seq(Alternatives)
  BY DEF InputTypeOK
<1>2. n \in Nat /\ n > 0 /\ DOMAIN alternatives = 1 .. n
  BY <1>1
<1>3. alternatives[n] \in Alternatives
  BY <1>1, <1>2
<1>4. SubSeq(alternatives, 1, n - 1) = [i \in 1 .. n - 1 |-> alternatives[i]]
  BY <1>1, <1>2
<1>5. SubSeq(alternatives, 1, n - 1) \in Seq(Alternatives)
  BY <1>1, <1>2
<1> QED
  BY <1>2, <1>3, <1>4, <1>5 DEF TopAlternative

\* The postdot items of a symbol are items that can be advanced over it.
LEMMA PIMsType ==
    ASSUME TypeOK, NEW e \in Earlemes, NEW nsy \in NSYs, NEW p \in PIMs(e, nsy)
    PROVE  /\ p \in YIMs /\ p \in yims[e]
           /\ Advance(p) \in YIMs /\ Advance(p).origin = p.origin
<1>1. p \in YIMs /\ p \in yims[e] /\ Postdot_NSYID_of_AHM(p.ahm) = nsy
  BY DEF PIMs, TypeOK, ChartTypeOK
<1> QED
  BY <1>1, AdvanceType

\* Outside of "Add predecessors to LIMs", a Leo item that is there can be used.
LEMMA EffectType ==
    ASSUME TypeInv, pc # "populate", NEW k \in DOMAIN lims
    PROVE  /\ [ahm |-> lims[k].top, origin |-> lims[k].origin] \in YIMs
           /\ k \in Earlemes \X NSYs
<1>1. lims[k] \in LIMs /\ lims[k].origin # NoEarleme /\ k \in Earlemes \X NSYs
  BY DEF TypeInv, TypeOK, ChartTypeOK, PhasesAgree, LIM_is_Populated
<1>2. lims[k].top \in AHMs /\ lims[k].origin \in Earlemes
  BY <1>1 DEF LIMs
<1> QED
  BY <1>1, <1>2 DEF YIMs

\* A scanned alternative advances items that exist, in a set that exists.
LEMMA ScanType ==
    ASSUME TypeInv, ScanAlternative
    PROVE  TypeInv'
<1> USE DEF TypeInv, TypeOK
<1> DEFINE a == TopAlternative
<1> DEFINE predecessors == PIMs(a.start, a.nsy)
<1>1. alternatives # <<>> /\ current_earleme \in Earlemes
  BY DEF ScanAlternative, PopsAt, PhasesAgree, ChartTypeOK
<1>2. a \in Alternatives /\ a.start \in Earlemes /\ a.nsy \in NSYs
  BY <1>1, PopType DEF Alternatives
<1> HIDE DEF a
<1>3. \A p \in predecessors : p \in YIMs /\ Advance(p) \in YIMs
  BY <1>2, PIMsType
<1>4. ChartTypeOK'
  <2>1. yims' \in [Earlemes -> SUBSET YIMs]
    BY <1>1, <1>3 DEF ScanAlternative, ChartTypeOK, a
  <2>2. token_links' \subseteq TokenLinks
    BY <1>1, <1>2, <1>3 DEF ScanAlternative, ChartTypeOK, TokenLinks, a
  <2> QED
    BY <2>1, <2>2 DEF ScanAlternative, ChartTypeOK
<1>5. ClockTypeOK' /\ SettingsTypeOK'
  BY StableTypes DEF ScanAlternative
<1>6. InputTypeOK'
  BY <1>1, PopType DEF ScanAlternative, InputTypeOK
<1>7. ReportTypeOK'
  BY DEF ScanAlternative, ReportTypeOK
<1>8. PhasesAgree'
  BY DEF ScanAlternative, PhasesAgree, LIM_is_Populated, clock
<1> QED
  BY <1>4, <1>5, <1>6, <1>7, <1>8

\* The completion stack starts with items of the current Earley set.
LEMMA PrePopulateType ==
    ASSUME TypeInv, PrePopulateCompletions
    PROVE  TypeInv'
<1> USE DEF TypeInv, TypeOK
<1>1. current_earleme \in Earlemes
  BY DEF PrePopulateCompletions, PhasesAgree, ChartTypeOK
<1>2. ChartTypeOK'
  BY <1>1 DEF PrePopulateCompletions, ChartTypeOK, links
<1>3. ClockTypeOK' /\ InputTypeOK' /\ SettingsTypeOK'
  BY StableTypes DEF PrePopulateCompletions
<1>4. ReportTypeOK'
  BY DEF PrePopulateCompletions, ReportTypeOK
<1>5. PhasesAgree'
  BY DEF PrePopulateCompletions, PhasesAgree, LIM_is_Populated, clock
<1> QED
  BY <1>2, <1>3, <1>4, <1>5

\* The effects of a cause are items, and the stack keeps to items of the set.
LEMMA CompleteType ==
    ASSUME TypeInv, CompleteCause
    PROVE  TypeInv'
<1> USE DEF TypeInv, TypeOK
<1>1. current_earleme \in Earlemes
  BY DEF CompleteCause, PhasesAgree, ChartTypeOK
<1>2. PICK cause \in completion_stack :
         CompleteWithLeo(cause) \/ CompleteWithPredecessors(cause)
  BY DEF CompleteCause
<1>3. cause \in YIMs /\ cause.origin \in Earlemes /\ LHS_NSYID_of_YIM(cause) \in NSYs
  BY LHSType DEF ChartTypeOK, YIMs
<1>4. ChartTypeOK'
  <2>1. CASE CompleteWithLeo(cause)
    <3> DEFINE lim == <<cause.origin, LHS_NSYID_of_YIM(cause)>>
    <3> DEFINE effect == [ahm |-> lims[lim].top, origin |-> lims[lim].origin]
    <3>1. lim \in DOMAIN lims /\ pc # "populate"
      BY <2>1 DEF CompleteWithLeo, CompleteCause
    <3>2. effect \in YIMs /\ lim \in Earlemes \X NSYs
      BY <3>1, EffectType
    <3>3. yims' \in [Earlemes -> SUBSET YIMs]
      BY <1>1, <2>1, <3>2 DEF CompleteWithLeo, ChartTypeOK
    <3>4. leo_links' \subseteq LeoLinks
      BY <1>1, <1>3, <2>1, <3>2 DEF CompleteWithLeo, ChartTypeOK, LeoLinks
    <3>5. completion_stack' \subseteq YIMs
      BY <2>1, <3>2 DEF CompleteWithLeo, ChartTypeOK
    <3> QED
      BY <2>1, <3>3, <3>4, <3>5 DEF CompleteWithLeo, CompleteCause, ChartTypeOK
  <2>2. CASE CompleteWithPredecessors(cause)
    <3> DEFINE predecessors == PIMs(cause.origin, LHS_NSYID_of_YIM(cause))
    <3>1. \A p \in predecessors : p \in YIMs /\ Advance(p) \in YIMs
      BY <1>3, PIMsType
    <3>2. yims' \in [Earlemes -> SUBSET YIMs]
      BY <1>1, <2>2, <3>1 DEF CompleteWithPredecessors, ChartTypeOK
    <3>3. completion_links' \subseteq CompletionLinks
      BY <1>1, <1>3, <2>2, <3>1 DEF CompleteWithPredecessors, ChartTypeOK, CompletionLinks
    <3>4. completion_stack' \subseteq YIMs
      BY <2>2, <3>1 DEF CompleteWithPredecessors, ChartTypeOK
    <3> QED
      BY <2>2, <3>2, <3>3, <3>4 DEF CompleteWithPredecessors, CompleteCause, ChartTypeOK
  <2> QED
    BY <1>2, <2>1, <2>2
<1>5. ClockTypeOK' /\ InputTypeOK' /\ SettingsTypeOK'
  BY StableTypes DEF CompleteCause
<1>6. ReportTypeOK'
  BY DEF CompleteCause, ReportTypeOK
<1>7. PhasesAgree'
  BY DEF CompleteCause, PhasesAgree, LIM_is_Populated, clock
<1> QED
  BY <1>4, <1>5, <1>6, <1>7

\* The predictions are items of the current Earley set.
LEMMA PredictType ==
    ASSUME TypeInv, AddPredictions
    PROVE  TypeInv'
<1> USE DEF TypeInv, TypeOK
<1>1. current_earleme \in Earlemes
  BY DEF AddPredictions, PhasesAgree, ChartTypeOK
<1>2. \A ahm : Predicted_IRLs_of_AHM(ahm) \subseteq IRLs
  BY DEF Predicted_IRLs_of_AHM
<1>3. \A i \in IRLs : [ahm |-> First_AHM_of_IRL(i), origin |-> current_earleme] \in YIMs
  BY <1>1, PredictionType
<1>4. yims' \in [Earlemes -> SUBSET YIMs]
  BY <1>1, <1>2, <1>3 DEF AddPredictions, ChartTypeOK
<1>5. ChartTypeOK'
  BY <1>4 DEF AddPredictions, ChartTypeOK, links
<1>6. ClockTypeOK' /\ InputTypeOK' /\ SettingsTypeOK'
  BY StableTypes DEF AddPredictions
<1>7. ReportTypeOK'
  BY DEF AddPredictions, ReportTypeOK
<1>8. PhasesAgree'
  BY DEF AddPredictions, PhasesAgree, LIM_is_Populated, clock
<1> QED
  BY <1>5, <1>6, <1>7, <1>8

\* The Leo item of an eligible symbol starts at the one item that waits for it.
LEMMA NewLIMType ==
    ASSUME TypeOK, current_earleme \in Earlemes, NEW nsy \in NSYs, LeoEligible(nsy)
    PROVE  /\ NewLIM(nsy) \in LIMs
           /\ NewLIM(nsy).trailhead \in yims[current_earleme]
           /\ PIMs(current_earleme, nsy) = {NewLIM(nsy).trailhead}
           /\ NewLIM(nsy).top = Next_AHM_of_AHM(NewLIM(nsy).trailhead.ahm)
           /\ AHM_is_Completion(NewLIM(nsy).top)
           /\ NewLIM(nsy).origin = NoEarleme /\ NewLIM(nsy).predecessor = NoLIM
<1> DEFINE base == CHOOSE y \in yims[current_earleme] : Postdot_NSYID_of_AHM(y.ahm) = nsy
<1>1. PICK y \in PIMs(current_earleme, nsy) :
         /\ PIMs(current_earleme, nsy) = {y}
         /\ AHM_is_Completion(Next_AHM_of_AHM(y.ahm))
  BY DEF LeoEligible, AHM_is_Leo_Completion
<1>2. base \in yims[current_earleme] /\ Postdot_NSYID_of_AHM(base.ahm) = nsy
  BY <1>1 DEF PIMs
<1>3. base = y
  BY <1>1, <1>2 DEF PIMs
<1>4. base \in YIMs
  BY <1>1, <1>3, PIMsType
<1>5. Next_AHM_of_AHM(base.ahm) \in AHMs
  BY <1>2, <1>4, PostdotMeansNext, NextAHM DEF YIMs
<1>6. NewLIM(nsy) = [trailhead |-> base, top |-> Next_AHM_of_AHM(base.ahm),
                     origin |-> NoEarleme, predecessor |-> NoLIM, cil |-> {}]
  BY DEF NewLIM
<1> HIDE DEF base
<1>7. NewLIM(nsy) \in LIMs
  BY <1>4, <1>5, <1>6 DEF LIMs
<1> QED
  BY <1>1, <1>2, <1>3, <1>6, <1>7

\* The new Leo items are unpopulated ones of the current Earley set.
LEMMA StartLIMsType ==
    ASSUME TypeInv, StartLIMs
    PROVE  TypeInv'
<1> USE DEF TypeInv, TypeOK
<1> DEFINE new == IF using_leo
                  THEN {<<current_earleme, n>> : n \in {m \in NSYs : LeoEligible(m)}} ELSE {}
<1>1. current_earleme \in Earlemes
  BY DEF StartLIMs, PhasesAgree, ChartTypeOK
<1>2. lims' = [k \in DOMAIN lims \cup new |-> IF k \in new THEN NewLIM(k[2]) ELSE lims[k]]
  BY DEF StartLIMs
<1>3. new \subseteq Earlemes \X NSYs /\ \A k \in new : NewLIM(k[2]) \in LIMs
  BY <1>1, NewLIMType
<1> HIDE DEF new
<1>4. /\ DOMAIN lims' = DOMAIN lims \cup new
      /\ DOMAIN lims' \subseteq Earlemes \X NSYs
      /\ \A k \in DOMAIN lims' : lims'[k] \in LIMs
  BY <1>2, <1>3 DEF ChartTypeOK
<1>5. ChartTypeOK'
  BY <1>2, <1>4 DEF StartLIMs, ChartTypeOK, links
<1>6. ClockTypeOK' /\ InputTypeOK' /\ SettingsTypeOK'
  BY StableTypes DEF StartLIMs
<1>7. ReportTypeOK'
  BY DEF StartLIMs, ReportTypeOK
<1>8. PhasesAgree'
  <2>1. \A k \in new : k[2] \in NSYs /\ LeoEligible(k[2])
    BY DEF new
  <2>2. \A k \in new : Postdot_NSYID_of_AHM(lims'[k].trailhead.ahm) = k[2]
    BY <1>1, <1>2, <2>1, NewLIMType DEF PIMs
  <2>3. \A k \in DOMAIN lims' : Postdot_NSYID_of_AHM(lims'[k].trailhead.ahm) = k[2]
    BY <1>2, <1>4, <2>2 DEF PhasesAgree
  <2> QED
    BY <2>3 DEF StartLIMs, PhasesAgree, clock
<1> QED
  BY <1>5, <1>6, <1>7, <1>8

\* Populating a Leo item keeps its trailhead, and gives it an origin and a top.
LEMMA PopulateType ==
    ASSUME TypeInv, PopulateLIM
    PROVE  TypeInv'
<1> USE DEF TypeInv, TypeOK
<1>1. PICK k \in DOMAIN lims : PopulateFromBase(k) \/ PopulateFromPredecessor(k)
  BY DEF PopulateLIM
<1>3. /\ DOMAIN lims' = DOMAIN lims /\ lims' \in [DOMAIN lims -> LIMs]
      /\ \A j \in DOMAIN lims : lims'[j].trailhead = lims[j].trailhead
  <2>1. /\ lims[k] \in LIMs /\ lims[k].trailhead \in YIMs
        /\ lims[k].trailhead.ahm \in AHMs /\ lims[k].trailhead.origin \in Earlemes
        /\ k[2] \in NSYs
    BY DEF ChartTypeOK, LIMs, YIMs
  <2>2. Trailhead_AHM_of_LIM(k) \in AHMs
    BY <2>1, PostdotMeansNext, NextAHM DEF PhasesAgree, Trailhead_AHM_of_LIM
  <2>3. Event_AHMIDs_of_AHM(Trailhead_AHM_of_LIM(k)) \subseteq AHMs
    BY <2>2 DEF Event_AHMIDs_of_AHM
  <2>4. CASE PopulateFromBase(k)
    BY <2>1, <2>3, <2>4 DEF PopulateFromBase, ChartTypeOK, LIMs
  <2>5. CASE PopulateFromPredecessor(k)
    <3> DEFINE p == PredecessorKey(k)
    <3> DEFINE more == IF Event_Group_Size_of_AHM(lims[p].top) > Cardinality(lims[p].cil)
                       THEN Event_AHMIDs_of_AHM(Trailhead_AHM_of_LIM(k)) ELSE {}
    <3>1. p \in DOMAIN lims /\ p \in Earlemes \X NSYs /\ lims[p] \in LIMs
      BY <2>5 DEF PopulateFromPredecessor, ChartTypeOK
    <3>2. more \subseteq AHMs
      BY <2>3
    <3>3. lims' = [lims EXCEPT ![k] =
              [@ EXCEPT !.origin = lims[p].origin, !.top = lims[p].top, !.predecessor = p,
                        !.cil = lims[p].cil \cup more]]
      BY <2>5 DEF PopulateFromPredecessor
    <3> HIDE DEF p, more
    <3> QED
      BY <2>1, <3>1, <3>2, <3>3 DEF ChartTypeOK, LIMs
  <2> QED
    BY <1>1, <2>4, <2>5
<1>5. ChartTypeOK'
  BY <1>3 DEF PopulateLIM, ChartTypeOK, links
<1>6. ClockTypeOK' /\ InputTypeOK' /\ SettingsTypeOK'
  BY StableTypes DEF PopulateLIM
<1>7. ReportTypeOK'
  BY DEF PopulateLIM, ReportTypeOK
<1>8. PhasesAgree'
  BY <1>3 DEF PopulateLIM, PhasesAgree, clock
<1> QED
  BY <1>5, <1>6, <1>7, <1>8

\* The end of a call leaves no unpopulated Leo item, and reports as many events
\* as there are.
LEMMA EndsType ==
    ASSUME TypeInv, EarlemeCompleteEnds
    PROVE  TypeInv'
<1> USE DEF TypeInv, TypeOK
<1> DEFINE items == yims[current_earleme]
<1>1. expected' \subseteq TerminalNSYs
  BY TriggeredType DEF EarlemeCompleteEnds
<1>2. events' \subseteq Events
  <2>1. ExpectedEvents(items) \subseteq Events /\ trigger_events(items, current_earleme) \subseteq Events
    BY TriggeredType
  <2>2. <<"EXHAUSTED">> \in Events /\ <<"EARLEY_ITEM_THRESHOLD">> \in Events
    BY DEF Events
  <2> HIDE DEF items
  <2> QED
    BY <2>1, <2>2 DEF EarlemeCompleteEnds, items
<1>3. returned' \in [value : Int, error : ErrorCodes]
  BY <1>2, EventsFinite, ReturnsType DEF EarlemeCompleteEnds
<1>4. ReportTypeOK'
  BY <1>1, <1>2, <1>3 DEF EarlemeCompleteEnds, ReportTypeOK
<1>5. ClockTypeOK'
  <2>1. is_exhausted' \in BOOLEAN
    BY Zenon DEF EarlemeCompleteEnds, ClockTypeOK
  <2>2. input_phase' \in {"before", "during", "after"}
    BY DEF EarlemeCompleteEnds, ClockTypeOK
  <2> QED
    BY <2>1, <2>2 DEF EarlemeCompleteEnds, ClockTypeOK
<1>6. ChartTypeOK' /\ InputTypeOK' /\ SettingsTypeOK'
  BY StableTypes DEF EarlemeCompleteEnds
<1>7. PhasesAgree'
  <2>1. input_phase' \in {input_phase, "after"} /\ input_phase = "during" /\ pc' = "idle"
    BY DEF EarlemeCompleteEnds, PhasesAgree
  <2>2. UNCHANGED <<current_earleme, furthest_earleme, lims>>
    BY DEF EarlemeCompleteEnds, chart
  <2>3. \A k \in DOMAIN lims' : LIM_is_Populated(k)'
    BY <2>2 DEF EarlemeCompleteEnds, LIM_is_Populated
  <2> QED
    BY <2>1, <2>2, <2>3 DEF PhasesAgree
<1> QED
  BY <1>4, <1>5, <1>6, <1>7

\* Every step of the recognizer keeps the types and the phases.
LEMMA NextType == TypeInv /\ [Next]_vars => TypeInv'
<1> SUFFICES ASSUME TypeInv, [Next]_vars PROVE TypeInv'
  OBVIOUS
<1>1. CASE EarlemeCompleteSteps
  BY <1>1, ScanType, PrePopulateType, CompleteType, PredictType, StartLIMsType, PopulateType,
     EndsType DEF EarlemeCompleteSteps
<1>2. CASE Reads
  BY <1>2, StartType, AlternativeType, EarlemeCompleteType DEF Reads
<1>3. CASE Settings
  BY <1>3, SettingsType
<1>4. CASE UNCHANGED vars
  BY <1>4, NoChangeType DEF vars, TypeInv, TypeOK, ReportTypeOK
<1> QED
  BY <1>1, <1>2, <1>3, <1>4 DEF Next

\* The types hold in every state of every parse.
THEOREM TypeCorrect == Spec => []TypeInv
  BY InitType, NextType, PTL DEF Spec

\* Every variable of the recognizer holds what its C type and the code's use of
\* it allow: earlemes stay below JEARLEME_THRESHOLD however long the parse.
THEOREM TypeSafety == Spec => []TypeOK
<1>1. TypeInv => TypeOK
  BY DEF TypeInv
<1> QED
  BY <1>1, TypeCorrect, PTL


-----------------------------------------------------------------------------
(* The order of the stack. *)

Sorted(s) == \A i, j \in DOMAIN s : i < j => SortsBefore(s[i], s[j])

\* alternative_cmp is a total order of the tokens that are not the same.
LEMMA SortsTotal ==
    ASSUME NEW a \in Alternatives, NEW b \in Alternatives
    PROVE  /\ SortsBefore(a, b) \/ SortsBefore(b, a) \/ SameToken(a, b)
           /\ SortsBefore(a, b) => b.end <= a.end
<1>1. /\ a.end \in Int /\ a.start \in Int /\ a.nsy \in Int
      /\ b.end \in Int /\ b.start \in Int /\ b.nsy \in Int
  BY GrammarAssumption DEF Alternatives, Earlemes, NSYs
<1> QED
  BY <1>1 DEF SortsBefore, SameToken

\* It is transitive.
LEMMA SortsTransitive ==
    ASSUME NEW a \in Alternatives, NEW b \in Alternatives, NEW c \in Alternatives,
           SortsBefore(a, b), SortsBefore(b, c)
    PROVE  SortsBefore(a, c)
<1>1. /\ a.end \in Int /\ a.start \in Int /\ a.nsy \in Int
      /\ b.end \in Int /\ b.start \in Int /\ b.nsy \in Int
      /\ c.end \in Int /\ c.start \in Int /\ c.nsy \in Int
  BY GrammarAssumption DEF Alternatives, Earlemes, NSYs
<1> QED
  BY <1>1 DEF SortsBefore

\* In a sorted stack, the insertion point has before it just those that sort
\* before the new alternative.
LEMMA InsertionPoint ==
    ASSUME NEW s \in Seq(Alternatives), NEW a \in Alternatives, Sorted(s)
    PROVE  \A i \in DOMAIN s : i < alternative_insertion_point(s, a) <=> SortsBefore(s[i], a)
<1> DEFINE Lower == {i \in DOMAIN s : SortsBefore(s[i], a)}
<1> DEFINE Rest == {i \in 1 .. Len(s) + 1 : i \notin Lower}
<1>1. Len(s) \in Nat /\ DOMAIN s = 1 .. Len(s)
  OBVIOUS
<1>2. Rest \subseteq Nat /\ Len(s) + 1 \in Rest
  BY <1>1
<1> DEFINE least == Least(Rest)
<1>3. least \in Rest /\ \A m \in Rest : least <= m
  BY <1>2, LeastExists
<1> HIDE DEF least
<1>4. ASSUME NEW i \in DOMAIN s
      PROVE  i < least <=> i \in Lower
  <2>1. CASE i < least
    BY <1>1, <1>3, <2>1
  <2>2. CASE i = least
    BY <1>3, <2>2
  <2>3. CASE i > least
    <3>1. SUFFICES ASSUME i \in Lower PROVE FALSE
      BY <1>1, <1>3, <2>3
    <3>2. least \in DOMAIN s /\ least < i
      BY <1>1, <1>3, <2>3
    <3>3. SortsBefore(s[least], s[i]) /\ SortsBefore(s[i], a)
      BY <3>1, <3>2 DEF Sorted
    <3>4. s[least] \in Alternatives /\ s[i] \in Alternatives
      BY <3>2
    <3>5. SortsBefore(s[least], a)
      BY <3>3, <3>4, SortsTransitive
    <3> QED
      BY <1>3, <3>2, <3>5
  <2> QED
    BY <1>1, <1>3, <2>1, <2>2, <2>3
<1>5. Lower \subseteq DOMAIN s /\ least \in 1 .. Len(s) + 1
  BY <1>3
<1> HIDE DEF Lower
<1>6. Lower = 1 .. least - 1
  <2>1. ASSUME NEW i
        PROVE  i \in Lower <=> i \in 1 .. least - 1
    <3>1. CASE i \in Lower
      <4>1. i \in 1 .. Len(s) /\ i < least
        BY <1>1, <1>4, <1>5, <3>1
      <4> QED
        BY <1>1, <1>5, <3>1, <4>1
    <3>2. CASE i \in 1 .. least - 1
      <4>1. i \in DOMAIN s /\ i < least
        BY <1>1, <1>5, <3>2
      <4> QED
        BY <1>4, <3>2, <4>1
    <3> QED
      BY <3>1, <3>2
  <2> QED
    BY <2>1
<1>7. Cardinality(1 .. least - 1) = least - 1
  <2>1. 1 \in Int /\ least - 1 \in Int
    BY <1>1, <1>5
  <2>2. Cardinality(1 .. least - 1) = IF 1 > least - 1 THEN 0 ELSE (least - 1) - 1 + 1
    BY <2>1, FS_Interval
  <2> QED
    BY <1>1, <1>5, <2>1, <2>2
<1>8. alternative_insertion_point(s, a) = 1 + Cardinality(Lower)
  BY DEF alternative_insertion_point, Lower
<1>9. alternative_insertion_point(s, a) = least
  BY <1>1, <1>5, <1>6, <1>7, <1>8
<1>10. \A i \in DOMAIN s : i \in Lower <=> SortsBefore(s[i], a)
  BY DEF Lower
<1> QED
  BY <1>4, <1>9, <1>10

\* Inserting a new token keeps the stack sorted, and everything on it.
LEMMA InsertSorted ==
    ASSUME NEW s \in Seq(Alternatives), NEW a \in Alternatives, Sorted(s),
           \A i \in DOMAIN s : ~ SameToken(a, s[i])
    PROVE  /\ Sorted(alternative_insert(s, a))
           /\ \E i \in DOMAIN alternative_insert(s, a) : alternative_insert(s, a)[i] = a
           /\ \A j \in DOMAIN s : \E i \in DOMAIN alternative_insert(s, a) :
                 alternative_insert(s, a)[i] = s[j]
<1> DEFINE ix == alternative_insertion_point(s, a)
<1> DEFINE t == alternative_insert(s, a)
<1>1. Len(s) \in Nat /\ DOMAIN s = 1 .. Len(s)
  OBVIOUS
<1>2. ix \in 1 .. Len(s) + 1
  BY InsertType
<1>3. \A i \in DOMAIN s : i < ix <=> SortsBefore(s[i], a)
  BY InsertionPoint
<1>4. \A i \in DOMAIN s : ~ (i < ix) => SortsBefore(a, s[i])
  <2> SUFFICES ASSUME NEW i \in DOMAIN s, ~ (i < ix) PROVE SortsBefore(a, s[i])
    OBVIOUS
  <2>1. ~ SortsBefore(s[i], a) /\ ~ SameToken(a, s[i]) /\ s[i] \in Alternatives
    BY <1>3
  <2> QED
    BY <2>1, SortsTotal
<1>5. t = [i \in 1 .. Len(s) + 1 |->
              IF i < ix THEN s[i] ELSE IF i = ix THEN a ELSE s[i - 1]]
  BY DEF alternative_insert
<1> HIDE DEF ix, t
<1>6. DOMAIN t = 1 .. Len(s) + 1
  BY <1>5
<1>7. Sorted(t)
  <2> SUFFICES ASSUME NEW i \in 1 .. Len(s) + 1, NEW j \in 1 .. Len(s) + 1, i < j
               PROVE  SortsBefore(t[i], t[j])
    BY <1>6 DEF Sorted
  <2>1. CASE j < ix
    BY <1>1, <1>2, <1>5, <2>1 DEF Sorted
  <2>2. CASE j = ix
    BY <1>1, <1>2, <1>3, <1>5, <2>2
  <2>3. CASE j > ix /\ i < ix
    <3>1. t[i] = s[i] /\ t[j] = s[j - 1] /\ i \in DOMAIN s /\ j - 1 \in DOMAIN s /\ i < j - 1
      BY <1>1, <1>2, <1>5, <2>3
    <3> QED
      BY <3>1 DEF Sorted
  <2>4. CASE j > ix /\ i = ix
    <3>1. t[i] = a /\ t[j] = s[j - 1] /\ j - 1 \in DOMAIN s /\ ~ (j - 1 < ix)
      BY <1>1, <1>2, <1>5, <2>4
    <3> QED
      BY <1>4, <3>1
  <2>5. CASE j > ix /\ i > ix
    <3>1. /\ t[i] = s[i - 1] /\ t[j] = s[j - 1] /\ i - 1 < j - 1
          /\ i - 1 \in DOMAIN s /\ j - 1 \in DOMAIN s
      BY <1>1, <1>2, <1>5, <2>5
    <3> QED
      BY <3>1 DEF Sorted
  <2> QED
    BY <1>2, <2>1, <2>2, <2>3, <2>4, <2>5
<1>8. t[ix] = a /\ ix \in DOMAIN t
  BY <1>1, <1>2, <1>5, <1>6
<1>9. ASSUME NEW j \in DOMAIN s
      PROVE  \E i \in DOMAIN t : t[i] = s[j]
  <2>1. CASE j < ix
    <3>1. j \in DOMAIN t /\ t[j] = s[j]
      BY <1>1, <1>5, <1>6, <2>1
    <3> QED
      BY <3>1
  <2>2. CASE ~ (j < ix)
    <3>1. j + 1 \in DOMAIN t /\ t[j + 1] = s[j]
      BY <1>1, <1>2, <1>5, <1>6, <2>2
    <3> QED
      BY <3>1
  <2> QED
    BY <2>1, <2>2
<1> QED
  BY <1>7, <1>8, <1>9 DEF t

-----------------------------------------------------------------------------
(* The inductive invariant. *)

\* No token ends beyond the furthest earleme, and none is read before input
\* starts; what is on the stack was read and is not behind the current earleme,
\* nor at it once its alternatives are scanned; what ends later is on the stack.
TokensAgree ==
    /\ \A t \in tokens : t.end <= furthest_earleme
    /\ input_phase = "before" => tokens = {}
    /\ \A i \in DOMAIN alternatives :
          /\ alternatives[i] \in tokens /\ alternatives[i].end >= current_earleme
          /\ pc # "scan" => alternatives[i].end > current_earleme
    /\ \A t \in tokens : t.end > current_earleme =>
          \E i \in DOMAIN alternatives : alternatives[i] = t

InputInv == Sorted(alternatives) /\ TokensAgree

\* The invariant says what AlternativesPending says.
LEMMA InputPending == InputInv => AlternativesPending
<1> SUFFICES ASSUME InputInv PROVE AlternativesPending
  OBVIOUS
<1>1. pc = "idle" =>
         {alternatives[i] : i \in DOMAIN alternatives} = {t \in tokens : t.end > current_earleme}
  BY DEF InputInv, TokensAgree
<1> QED
  BY <1>1 DEF InputInv, Sorted, AlternativesPending

\* The integers that the steps compare.
LEMMA InputNumbers ==
    ASSUME TypeInv
    PROVE  /\ current_earleme \in Int /\ furthest_earleme \in Int
           /\ alternatives \in Seq(Alternatives) /\ tokens \subseteq Alternatives
           /\ \A t \in Alternatives : t.end \in Int
  BY DEF TypeInv, TypeOK, ClockTypeOK, InputTypeOK, Alternatives, Earlemes, NoEarleme

\* The top of the stack ends first.
LEMMA TopEndsFirst ==
    ASSUME TypeInv, InputInv, alternatives # <<>>
    PROVE  /\ TopAlternative \in Alternatives
           /\ \A i \in DOMAIN alternatives : TopAlternative.end <= alternatives[i].end
<1>1. TopAlternative \in Alternatives /\ Len(alternatives) \in DOMAIN alternatives
  BY PopType DEF TypeInv, TypeOK
<1>2. ASSUME NEW i \in DOMAIN alternatives
      PROVE  TopAlternative.end <= alternatives[i].end
  <2>1. alternatives[i] \in Alternatives /\ alternatives \in Seq(Alternatives)
    BY InputNumbers
  <2>2. CASE i = Len(alternatives)
    BY <1>1, <2>2, InputNumbers DEF TopAlternative
  <2>3. CASE i < Len(alternatives)
    <3>1. SortsBefore(alternatives[i], TopAlternative)
      BY <1>1, <2>3 DEF InputInv, Sorted, TopAlternative
    <3> QED
      BY <1>1, <2>1, <3>1, SortsTotal
  <2> QED
    BY <2>1, <2>2, <2>3
<1> QED
  BY <1>1, <1>2

\* What alternative_pop takes while the current earleme is scanned ends there,
\* although it only tests that it does not end later.
LEMMA ScanPopsEnd ==
    ASSUME TypeInv, InputInv, ScanAlternative
    PROVE  alternatives # <<>> /\ TopAlternative.end = current_earleme
<1>1. alternatives # <<>> /\ TopAlternative.end <= current_earleme
  BY DEF ScanAlternative, PopsAt
<1>2. TopAlternative.end >= current_earleme
  BY <1>1, PopType DEF TypeInv, TypeOK, InputInv, TokensAgree, TopAlternative
<1>3. TopAlternative.end \in Int /\ current_earleme \in Int
  BY <1>1, TopEndsFirst, InputNumbers
<1> QED
  BY <1>1, <1>2, <1>3

-----------------------------------------------------------------------------
(* The steps. *)

\* Steps that leave the input and the current earleme alone.
LEMMA InputStays ==
    ASSUME InputInv, UNCHANGED <<alternatives, tokens, current_earleme, furthest_earleme>>,
           input_phase' = "before" => input_phase = "before",
           pc = "scan" => pc' = "scan"
    PROVE  InputInv'
  BY DEF InputInv, Sorted, TokensAgree, SortsBefore

\* Most calls and steps are of this kind.
LEMMA OtherSteps ==
    ASSUME TypeInv, InputInv,
           \/ StartInputFails \/ EarlemeCompleteFails \/ CleanFails \/ Clean \/ Settings
           \/ CompleteCause \/ AddPredictions \/ StartLIMs \/ PopulateLIM
           \/ EarlemeCompleteEnds \/ UNCHANGED vars
           \/ \E x \in XSYs, v \in TokenValues, length \in TokenLengths :
                 AlternativeFails(x, v, length) \/ AlternativeRejected(x, v, length)
    PROVE  InputInv'
<1>1. CASE \/ CompleteCause \/ AddPredictions \/ StartLIMs \/ PopulateLIM \/ EarlemeCompleteEnds
  BY <1>1, InputStays DEF CompleteCause, AddPredictions, StartLIMs, PopulateLIM,
     EarlemeCompleteEnds, TypeInv, PhasesAgree, clock, input
<1>2. CASE Settings
  <2>1. UNCHANGED <<clock, input, pc>>
    BY <1>2 DEF Settings, SymbolActivate, SymbolDeactivate, ExpectedSymbolEventSet,
                ZWADefaultSet, IsUseLeoSet, WarningThresholdSet
  <2> QED
    BY <2>1, InputStays DEF clock, input
<1>3. CASE \/ StartInputFails \/ EarlemeCompleteFails \/ CleanFails \/ Clean \/ UNCHANGED vars
  <2>1. UNCHANGED <<clock, input, pc>>
    BY <1>3 DEF StartInputFails, EarlemeCompleteFails, CleanFails, Clean, vars
  <2> QED
    BY <2>1, InputStays DEF clock, input
<1>4. CASE \E x \in XSYs, v \in TokenValues, length \in TokenLengths :
              AlternativeFails(x, v, length) \/ AlternativeRejected(x, v, length)
  <2>1. UNCHANGED <<clock, alternatives, tokens, pc>>
    BY <1>4 DEF AlternativeFails, AlternativeRejected, input
  <2> QED
    BY <2>1, InputStays DEF clock
<1> QED
  BY <1>1, <1>2, <1>3, <1>4

\* marpa_r_alternative adds its token to the stack, unless it is there.
LEMMA AlternativeInput ==
    ASSUME TypeInv, InputInv,
           NEW x \in XSYs, NEW v \in TokenValues, NEW length \in TokenLengths,
           Alternative(x, v, length)
    PROVE  InputInv'
<1> DEFINE a == [nsy |-> NSY_of_XSY[x], start |-> current_earleme,
                 end |-> current_earleme + length, value |-> v]
<1>1. a \in Alternatives /\ a.end \in Int /\ a.end > current_earleme
  BY NewAlternativeType, InputNumbers DEF Alternative
<1>2. /\ UNCHANGED <<current_earleme, input_phase, pc>> /\ pc = "idle" /\ input_phase = "during"
      /\ furthest_earleme' = IF furthest_earleme < a.end THEN a.end ELSE furthest_earleme
  BY DEF Alternative, PassesInitialChecks
<1>3. \/ UNCHANGED <<alternatives, tokens>>
      \/ /\ \A i \in DOMAIN alternatives : ~ SameToken(a, alternatives[i])
         /\ alternatives' = alternative_insert(alternatives, a)
         /\ tokens' = tokens \cup {a}
  BY DEF Alternative, IsDuplicate
<1> HIDE DEF a
<1>4. /\ current_earleme \in Int /\ furthest_earleme \in Int /\ furthest_earleme' \in Int
      /\ furthest_earleme <= furthest_earleme' /\ a.end <= furthest_earleme'
  BY <1>1, <1>2, InputNumbers
<1>5. \A t \in tokens : t.end <= furthest_earleme'
  BY <1>4, InputNumbers DEF InputInv, TokensAgree
<1>6. CASE UNCHANGED <<alternatives, tokens>>
  BY <1>2, <1>5, <1>6 DEF InputInv, Sorted, TokensAgree, SortsBefore
<1>7. CASE /\ \A i \in DOMAIN alternatives : ~ SameToken(a, alternatives[i])
           /\ alternatives' = alternative_insert(alternatives, a)
           /\ tokens' = tokens \cup {a}
  <2>1. /\ Sorted(alternatives') /\ \E i \in DOMAIN alternatives' : alternatives'[i] = a
        /\ \A j \in DOMAIN alternatives : \E i \in DOMAIN alternatives' :
              alternatives'[i] = alternatives[j]
    BY <1>1, <1>7, InsertSorted, InputNumbers DEF InputInv
  <2>2. \A i \in DOMAIN alternatives' :
           alternatives'[i] = a \/ \E j \in DOMAIN alternatives : alternatives'[i] = alternatives[j]
    BY <1>1, <1>7, InsertType, InputNumbers
  <2>3. \A i \in DOMAIN alternatives' :
           alternatives'[i] \in tokens' /\ alternatives'[i].end > current_earleme
    BY <1>1, <1>2, <1>7, <2>2 DEF InputInv, TokensAgree
  <2>4. \A t \in tokens' : t.end > current_earleme =>
           \E i \in DOMAIN alternatives' : alternatives'[i] = t
    BY <1>7, <2>1 DEF InputInv, TokensAgree
  <2>5. \A t \in tokens' : t.end <= furthest_earleme'
    BY <1>4, <1>5, <1>7
  <2>6. \A i \in DOMAIN alternatives' : alternatives'[i].end >= current_earleme
    BY <1>1, <1>4, <1>7, <2>2, <2>3, InputNumbers DEF InputInv, TokensAgree
  <2> QED
    BY <1>2, <2>1, <2>3, <2>4, <2>5, <2>6 DEF InputInv, TokensAgree, Sorted, SortsBefore
<1> QED
  BY <1>3, <1>6, <1>7

\* The current earleme advances by one: no pending token is left behind, since
\* the call looks at the one that ends first.
LEMMA EarlemeCompleteInput ==
    ASSUME TypeInv, InputInv,
           EarlemeCompleteExhausts \/ EarlemeCompleteEmpty \/ EarlemeCompleteBegins
    PROVE  InputInv'
<1>1. /\ UNCHANGED <<alternatives, tokens, furthest_earleme>> /\ pc = "idle"
      /\ current_earleme' = current_earleme + 1 /\ input_phase' # "before"
  BY DEF EarlemeCompleteExhausts, EarlemeCompleteEmpty, EarlemeCompleteBegins, input
<1>2. /\ current_earleme \in Int /\ furthest_earleme \in Int
      /\ \A i \in DOMAIN alternatives :
            /\ alternatives[i] \in tokens /\ alternatives[i].end \in Int
            /\ alternatives[i].end >= current_earleme + 1
            /\ alternatives[i].end <= furthest_earleme
      /\ \A t \in tokens : t.end \in Int
  BY <1>1, InputNumbers DEF InputInv, TokensAgree
<1>3. \A t \in tokens : t.end > current_earleme' =>
         \E i \in DOMAIN alternatives : alternatives[i] = t
  BY <1>1, <1>2 DEF InputInv, TokensAgree
<1>4. ASSUME pc' # "scan", NEW i \in DOMAIN alternatives
      PROVE  alternatives[i].end > current_earleme'
  <2>1. CASE EarlemeCompleteExhausts
    <3>1. current_earleme + 1 > furthest_earleme
      BY <2>1 DEF EarlemeCompleteExhausts
    <3> QED
      BY <1>2, <3>1
  <2>2. CASE EarlemeCompleteEmpty
    <3>1. alternatives # <<>>
      OBVIOUS
    <3>2. /\ TopAlternative.end # current_earleme + 1 /\ TopAlternative.end \in Int
          /\ TopAlternative.end <= alternatives[i].end
      BY <1>1, <2>2, <3>1, TopEndsFirst, InputNumbers DEF EarlemeCompleteEmpty, EndsHere
    <3>3. TopAlternative.end >= current_earleme + 1
      BY <1>2, <3>1, PopType DEF TypeInv, TypeOK, TopAlternative
    <3> QED
      BY <1>1, <1>2, <3>2, <3>3
  <2>3. CASE EarlemeCompleteBegins
    BY <1>4, <2>3 DEF EarlemeCompleteBegins
  <2> QED
    BY <2>1, <2>2, <2>3
<1> QED
  BY <1>1, <1>2, <1>3, <1>4 DEF InputInv, Sorted, TokensAgree, SortsBefore

\* Popping the top leaves the alternatives that end later, and the scan ends
\* when there are no others.
LEMMA ScanInput ==
    ASSUME TypeInv, InputInv, ScanAlternative \/ PrePopulateCompletions
    PROVE  InputInv'
<1>1. /\ UNCHANGED <<tokens, furthest_earleme, current_earleme, input_phase>> /\ pc = "scan"
      /\ current_earleme \in Int /\ \A t \in tokens : t.end \in Int
  BY InputNumbers DEF ScanAlternative, PrePopulateCompletions, clock, input
<1>2. CASE ScanAlternative
  <2>1. /\ alternatives' = SubSeq(alternatives, 1, Len(alternatives) - 1) /\ pc' = "scan"
    BY <1>2 DEF ScanAlternative
  <2>2. /\ alternatives # <<>> /\ TopAlternative.end = current_earleme
        /\ Len(alternatives) \in DOMAIN alternatives /\ alternatives \in Seq(Alternatives)
        /\ DOMAIN alternatives' = 1 .. Len(alternatives) - 1
        /\ \A i \in DOMAIN alternatives' : alternatives'[i] = alternatives[i]
    BY <1>2, <2>1, ScanPopsEnd, PopType, InputNumbers DEF TypeInv, TypeOK
  <2>3. /\ DOMAIN alternatives' \subseteq DOMAIN alternatives
        /\ \A i \in DOMAIN alternatives : i # Len(alternatives) => i \in DOMAIN alternatives'
    <3>1. DOMAIN alternatives = 1 .. Len(alternatives) /\ Len(alternatives) \in Nat
      BY InputNumbers
    <3> HIDE DEF InputInv
    <3> QED
      BY <2>2, <3>1
  <2>4. \A t \in tokens : t.end > current_earleme =>
           \E i \in DOMAIN alternatives' : alternatives'[i] = t
    <3> SUFFICES ASSUME NEW t \in tokens, t.end > current_earleme
                 PROVE  \E i \in DOMAIN alternatives' : alternatives'[i] = t
      OBVIOUS
    <3>1. PICK i \in DOMAIN alternatives : alternatives[i] = t
      BY DEF InputInv, TokensAgree
    <3>2. i # Len(alternatives)
      BY <1>1, <2>2, <3>1 DEF TopAlternative
    <3> QED
      BY <2>2, <2>3, <3>1, <3>2
  <2>5. Sorted(alternatives')
    <3>1. \A i, j \in DOMAIN alternatives : i < j => SortsBefore(alternatives[i], alternatives[j])
      BY DEF InputInv, Sorted
    <3> SUFFICES ASSUME NEW i \in DOMAIN alternatives', NEW j \in DOMAIN alternatives', i < j
                 PROVE  SortsBefore(alternatives'[i], alternatives'[j])
      BY DEF Sorted
    <3> QED
      BY <2>2, <2>3, <3>1
  <2>6. \A i \in DOMAIN alternatives' :
           alternatives'[i] \in tokens /\ alternatives'[i].end >= current_earleme
    BY <2>2, <2>3 DEF InputInv, TokensAgree
  <2>7. TokensAgree'
    BY <1>1, <2>1, <2>4, <2>6 DEF InputInv, TokensAgree
  <2> QED
    BY <2>5, <2>7 DEF InputInv
<1>3. CASE PrePopulateCompletions
  <2>1. UNCHANGED alternatives /\ ~ PopsAt(current_earleme)
    BY <1>3 DEF PrePopulateCompletions, input
  <2>2. ASSUME NEW i \in DOMAIN alternatives
        PROVE  alternatives[i].end > current_earleme
    <3>1. alternatives # <<>>
      OBVIOUS
    <3>2. /\ TopAlternative.end <= alternatives[i].end /\ TopAlternative.end \in Int
          /\ ~ (TopAlternative.end <= current_earleme)
      BY <2>1, <3>1, TopEndsFirst, InputNumbers DEF PopsAt
    <3>3. alternatives[i].end \in Int
      BY InputNumbers
    <3> QED
      BY <1>1, <3>2, <3>3
  <2> QED
    BY <1>1, <2>1, <2>2 DEF InputInv, Sorted, TokensAgree, SortsBefore
<1> QED
  BY <1>2, <1>3

\* Before input starts there are no tokens, and starting it reads none.
LEMMA StartInputKeeps ==
    ASSUME TypeInv, InputInv, StartInputTrivial \/ StartInput
    PROVE  InputInv'
<1>1. /\ tokens = {} /\ UNCHANGED <<tokens, alternatives>> /\ input_phase' # "before"
  BY DEF StartInputTrivial, StartInput, InputInv, TokensAgree
<1>2. DOMAIN alternatives = {}
  BY <1>1 DEF InputInv, TokensAgree
<1> QED
  BY <1>1, <1>2 DEF InputInv, Sorted, TokensAgree

\* Every step of the recognizer keeps the stack in order.
LEMMA NextInput == TypeInv /\ InputInv /\ [Next]_vars => InputInv'
<1> SUFFICES ASSUME TypeInv, InputInv, [Next]_vars PROVE InputInv'
  OBVIOUS
<1>1. CASE EarlemeCompleteSteps
  BY <1>1, ScanInput, OtherSteps DEF EarlemeCompleteSteps
<1>2. CASE Reads
  <2>1. ASSUME NEW x \in XSYs, NEW v \in TokenValues, NEW length \in TokenLengths,
               \/ AlternativeFails(x, v, length) \/ AlternativeRejected(x, v, length)
               \/ Alternative(x, v, length)
        PROVE  InputInv'
    BY <2>1, AlternativeInput, OtherSteps
  <2>2. CASE StartInputFails \/ EarlemeCompleteFails \/ CleanFails \/ Clean
    BY <2>2, OtherSteps
  <2>3. CASE StartInputTrivial \/ StartInput
    BY <2>3, StartInputKeeps
  <2>4. CASE EarlemeCompleteExhausts \/ EarlemeCompleteEmpty \/ EarlemeCompleteBegins
    BY <2>4, EarlemeCompleteInput
  <2> QED
    BY <1>2, <2>1, <2>2, <2>3, <2>4 DEF Reads
<1>3. CASE Settings \/ UNCHANGED vars
  BY <1>3, OtherSteps
<1> QED
  BY <1>1, <1>2, <1>3 DEF Next

\* The invariant of the input holds in every state of every parse.
THEOREM InputCorrect == Spec => []InputInv
<1>1. Init => InputInv
  BY DEF Init, InputInv, Sorted, TokensAgree
<1> QED
  BY <1>1, NextInput, TypeCorrect, PTL DEF Spec

\* Between calls the stack holds exactly the tokens that are still to come, in
\* the order in which their earlemes do, however tokens of different lengths
\* overlap: no token is lost and none is read twice.
THEOREM PendingExact == Spec => []AlternativesPending
  BY InputCorrect, InputPending, PTL

-----------------------------------------------------------------------------
(* Exhaustion *)

\* The precomputed grammar has no zero-width assertions.
NoAssertions == \A irl \in IRLs : ZWA_CIL_of_IRL[irl] = {}

\* Every symbol of the precomputed grammar derives tokens or nothing, which is
\* what precomputation makes sure of: a symbol that is neither a terminal nor
\* nulling has a rule of symbols that derive in fewer steps.
Productive ==
    \E steps \in [NSYs -> Nat] : \A nsy \in NSYs :
        \/ nsy \in TerminalNSYs \/ nsy \in NullingNSYs
        \/ \E irl \in IRLs : /\ LHSID_of_IRL[irl] = nsy
                             /\ \A k \in 1 .. Len(RHS_of_IRL[irl]) :
                                   steps[RHS_of_IRL[irl][k]] < steps[nsy]

\* Input that starts expects a terminal: where a rule waits for a symbol, its
\* rules are seen too, down to one that waits for a terminal.
LEMMA StartExpects ==
    ASSUME NoAssertions, Productive, ~ G_is_Trivial
    PROVE  PostdotTerminals({[ahm |-> First_AHM_of_IRL(i), origin |-> 0] : i \in IRLsSeenAtStart}) # {}
<1> DEFINE item(i) == [ahm |-> First_AHM_of_IRL(i), origin |-> 0]
           postdot(i) == Postdot_NSYID_of_AHM(First_AHM_of_IRL(i))
           seen == IRLsSeenAtStart
<1>1. PICK steps \in [NSYs -> Nat] : \A nsy \in NSYs :
        \/ nsy \in TerminalNSYs \/ nsy \in NullingNSYs
        \/ \E irl \in IRLs : /\ LHSID_of_IRL[irl] = nsy
                             /\ \A k \in 1 .. Len(RHS_of_IRL[irl]) :
                                   steps[RHS_of_IRL[irl][k]] < steps[nsy]
  BY DEF Productive
<1>2. StartIRL \in seen /\ seen \in SUBSET IRLs /\ PredictedAtStart[seen] \subseteq seen
  BY SeenAtStart
<1>3. \A i \in IRLs : postdot(i) \in NSYs \ NullingNSYs
  BY FirstAHM, NextAHM
<1> DEFINE S == {steps[postdot(i)] : i \in seen}
<1>4. S \subseteq Nat /\ S # {}
  BY <1>1, <1>2, <1>3
<1>5. PICK m \in S : \A n \in S : m <= n
  <2> HIDE DEF S
  <2> QED
    BY <1>4, LeastExists
<1>6. PICK i \in seen : steps[postdot(i)] = m
  BY <1>5
<1> DEFINE nsy == postdot(i)
<1>7. nsy \in TerminalNSYs
  <2> SUFFICES ASSUME nsy \notin TerminalNSYs PROVE FALSE
    OBVIOUS
  <2>1. nsy \in NSYs /\ nsy \notin NullingNSYs
    BY <1>2, <1>3
  <2>2. PICK j \in IRLs : /\ LHSID_of_IRL[j] = nsy
                          /\ \A k \in 1 .. Len(RHS_of_IRL[j]) : steps[RHS_of_IRL[j][k]] < steps[nsy]
    BY <1>1, <2>1
  <2>3. j \in seen
    <3>1. evaluate_zwas(j)
      BY DEF evaluate_zwas, NoAssertions
    <3> QED
      BY <1>2, <2>2, <3>1 DEF PredictedAtStart
  <2>4. \E k \in 1 .. Len(RHS_of_IRL[j]) : postdot(j) = RHS_of_IRL[j][k]
    <3> DEFINE a == First_AHM_of_IRL(j)
    <3>1. a \in AHMs /\ ~ AHM_is_Completion(a) /\ a.irl = j
      BY FirstAHM DEF First_AHM_of_IRL
    <3> HIDE DEF a
    <3>2. a.dot \in 0 .. Len(RHS_of_IRL[j]) /\ a.dot # Len(RHS_of_IRL[j]) /\ Len(RHS_of_IRL[j]) \in Nat
      BY <3>1, AHMParts, PositionsRange DEF AHM_is_Completion
    <3>3. a.dot + 1 \in 1 .. Len(RHS_of_IRL[j])
      BY <3>2
    <3>4. Postdot_NSYID_of_AHM(a) = RHS_of_IRL[j][a.dot + 1]
      BY <3>1 DEF Postdot_NSYID_of_AHM
    <3> QED
      BY <3>3, <3>4 DEF a
  <2>5. steps[postdot(j)] < steps[nsy]
    BY <2>2, <2>4
  <2>6. steps[postdot(j)] \in S
    BY <2>3
  <2>7. steps[postdot(j)] \in Nat /\ steps[nsy] \in Nat
    BY <1>1, <1>3, <2>1
  <2> HIDE DEF S, postdot, seen
  <2> QED
    BY <1>5, <1>6, <2>5, <2>6, <2>7
<1>8. item(i) \in {item(j) : j \in seen} /\ Postdot_NSYID_of_AHM(item(i).ahm) = nsy
  BY <1>6
<1> QED
  BY <1>7, <1>8 DEF PostdotTerminals

\* The furthest earleme is where a token ends.
FurthestIsEnd == furthest_earleme = 0 \/ \E t \in tokens : t.end = furthest_earleme

ExhaustionInv ==
    /\ FurthestIsEnd
    /\ is_exhausted <=> input_phase = "after"
    /\ input_phase = "before" => expected = {}
    /\ pc = "idle" /\ input_phase # "before" =>
          (is_exhausted <=> expected = {} /\ alternatives = <<>>)

\* Before input starts no alternative is pending.
LEMMA NothingPending ==
    ASSUME TypeInv, InputInv, \A t \in tokens : ~ (t.end > current_earleme), pc # "scan"
    PROVE  alternatives = <<>>
<1>1. alternatives \in Seq(Alternatives)
  BY InputNumbers
<1>2. DOMAIN alternatives = {}
  BY DEF InputInv, TokensAgree
<1> QED
  BY <1>1, <1>2

LEMMA StartExhaustion ==
    ASSUME NoAssertions, Productive,
           TypeInv, InputInv, ExhaustionInv, StartInputTrivial \/ StartInput
    PROVE  ExhaustionInv'
<1>1. tokens = {} /\ alternatives = <<>> /\ pc # "scan" /\ input_phase = "before"
  <2>1. tokens = {} /\ pc # "scan" /\ input_phase = "before"
    BY DEF StartInputTrivial, StartInput, InputInv, TokensAgree
  <2> QED
    BY <2>1, NothingPending
<1>2. CASE StartInputTrivial
  BY <1>1, <1>2 DEF StartInputTrivial, ExhaustionInv, FurthestIsEnd
<1>3. CASE StartInput
  <2>1. expected' # {}
    BY <1>3, StartExpects DEF StartInput
  <2> QED
    BY <1>1, <1>3, <2>1 DEF StartInput, ExhaustionInv, FurthestIsEnd
<1> QED
  BY <1>2, <1>3

\* An alternative that is read is pending.
LEMMA AlternativeExhaustion ==
    ASSUME TypeInv, InputInv, ExhaustionInv,
           NEW x \in XSYs, NEW v \in TokenValues, NEW length \in TokenLengths,
           Alternative(x, v, length)
    PROVE  ExhaustionInv'
<1> DEFINE a == [nsy |-> NSY_of_XSY[x], start |-> current_earleme,
                 end |-> current_earleme + length, value |-> v]
<1>1. /\ PassesInitialChecks(x, v, length) /\ IsExpected(x)
      /\ furthest_earleme' = IF furthest_earleme < a.end THEN a.end ELSE furthest_earleme
      /\ UNCHANGED <<is_exhausted, input_phase, expected, pc>> /\ input_phase = "during"
  BY DEF Alternative, PassesInitialChecks
<1>2. CASE IsDuplicate(a) /\ UNCHANGED <<alternatives, tokens>>
  <2>1. PICK i \in DOMAIN alternatives : SameToken(a, alternatives[i])
    BY <1>2 DEF IsDuplicate
  <2>2. alternatives[i] \in tokens /\ alternatives[i].end = a.end
    BY <2>1 DEF InputInv, TokensAgree, SameToken
  <2> HIDE DEF a
  <2>3. FurthestIsEnd'
    BY <1>1, <1>2, <2>2 DEF FurthestIsEnd, ExhaustionInv
  <2> QED
    BY <1>1, <1>2, <2>3 DEF ExhaustionInv
<1>3. CASE alternatives' = alternative_insert(alternatives, a) /\ tokens' = tokens \cup {a}
  <2>1. a \in Alternatives
    BY <1>1, NewAlternativeType DEF Alternative
  <2> HIDE DEF a
  <2>2. FurthestIsEnd'
    BY <1>1, <1>3 DEF FurthestIsEnd, ExhaustionInv
  <2>3. alternatives \in Seq(Alternatives)
    BY InputNumbers
  <2>4. alternatives' # <<>>
    <3>1. alternative_insertion_point(alternatives, a) \in 1 .. Len(alternatives) + 1
      BY <2>1, <2>3, InsertType
    <3>2. 1 \in DOMAIN alternatives'
      BY <1>3, <2>3, <3>1 DEF alternative_insert
    <3> QED
      BY <3>2
  <2> QED
    BY <1>1, <2>2, <2>4 DEF ExhaustionInv
<1> QED
  BY <1>2, <1>3 DEF Alternative

\* An earleme that ends at no token's end exhausts the parse if and only if no
\* token ends later.
LEMMA EarlemeExhaustion ==
    ASSUME TypeInv, InputInv, ExhaustionInv,
           EarlemeCompleteExhausts \/ EarlemeCompleteEmpty \/ EarlemeCompleteBegins
    PROVE  ExhaustionInv'
<1>1. /\ pc = "idle" /\ input_phase = "during" /\ current_earleme' = current_earleme + 1
      /\ UNCHANGED <<alternatives, tokens, furthest_earleme>>
  BY DEF EarlemeCompleteExhausts, EarlemeCompleteEmpty, EarlemeCompleteBegins, input
<1>2. /\ current_earleme \in Int /\ current_earleme >= 0 /\ furthest_earleme \in Int
      /\ \A t \in tokens : t.end \in Int
  BY <1>1, InputNumbers DEF TypeInv, PhasesAgree, Earlemes
<1>3. FurthestIsEnd'
  BY <1>1 DEF ExhaustionInv, FurthestIsEnd
<1>4. CASE EarlemeCompleteExhausts
  <2>1. current_earleme + 1 > furthest_earleme
    BY <1>1, <1>4 DEF EarlemeCompleteExhausts
  <2>2. \A t \in tokens : ~ (t.end > current_earleme)
    BY <1>2, <2>1 DEF InputInv, TokensAgree
  <2>3. alternatives = <<>>
    BY <1>1, <2>2, NothingPending
  <2> QED
    BY <1>1, <1>3, <1>4, <2>3 DEF EarlemeCompleteExhausts, ExhaustionInv
<1>5. CASE EarlemeCompleteEmpty
  <2>1. current_earleme + 1 <= furthest_earleme
    BY <1>1, <1>5 DEF EarlemeCompleteEmpty
  <2>2. PICK t \in tokens : t.end = furthest_earleme
    BY <1>2, <2>1 DEF ExhaustionInv, FurthestIsEnd
  <2>3. alternatives # <<>>
    BY <1>2, <2>1, <2>2 DEF InputInv, TokensAgree
  <2> QED
    BY <1>1, <1>3, <1>5, <2>3 DEF EarlemeCompleteEmpty, ExhaustionInv
<1>6. CASE EarlemeCompleteBegins
  BY <1>1, <1>3, <1>6 DEF EarlemeCompleteBegins, ExhaustionInv
<1> QED
  BY <1>4, <1>5, <1>6

LEMMA NextExhaustion ==
    ASSUME NoAssertions, Productive, TypeInv, InputInv, ExhaustionInv, [Next]_vars
    PROVE  ExhaustionInv'
<1>1. CASE UNCHANGED <<clock, alternatives, tokens, expected, pc>>
  BY <1>1 DEF ExhaustionInv, FurthestIsEnd, clock
<1>2. CASE EarlemeCompleteSteps
  <2>1. CASE ScanAlternative \/ PrePopulateCompletions \/ CompleteCause \/ AddPredictions
             \/ StartLIMs \/ PopulateLIM
    <3>1. /\ UNCHANGED <<clock, tokens, expected>> /\ pc' # "idle"
      BY <2>1 DEF ScanAlternative, PrePopulateCompletions, CompleteCause, AddPredictions,
                  StartLIMs, PopulateLIM, input
    <3> QED
      BY <3>1 DEF ExhaustionInv, FurthestIsEnd, clock
  <2>2. CASE EarlemeCompleteEnds
    <3>1. input_phase = "during" /\ ~ is_exhausted
      BY <2>2 DEF EarlemeCompleteEnds, TypeInv, PhasesAgree, ExhaustionInv
    <3>2. /\ UNCHANGED <<furthest_earleme, tokens, alternatives>>
          /\ expected' = PostdotTerminals(yims[current_earleme])
          /\ is_exhausted' = (is_exhausted \/ NothingAhead(yims[current_earleme]))
          /\ input_phase' = IF NothingAhead(yims[current_earleme]) THEN "after" ELSE input_phase
      BY <2>2 DEF EarlemeCompleteEnds, input
    <3> QED
      BY <3>1, <3>2 DEF ExhaustionInv, FurthestIsEnd, NothingAhead
  <2> QED
    BY <1>2, <2>1, <2>2 DEF EarlemeCompleteSteps
<1>3. CASE Reads
  <2>1. ASSUME NEW x \in XSYs, NEW v \in TokenValues, NEW length \in TokenLengths,
               \/ AlternativeFails(x, v, length) \/ AlternativeRejected(x, v, length)
               \/ Alternative(x, v, length)
        PROVE  ExhaustionInv'
    <3>1. CASE AlternativeFails(x, v, length) \/ AlternativeRejected(x, v, length)
      BY <1>1, <3>1 DEF AlternativeFails, AlternativeRejected, input
    <3> QED
      BY <2>1, <3>1, AlternativeExhaustion
  <2>2. CASE StartInputFails \/ EarlemeCompleteFails \/ CleanFails \/ Clean
    BY <1>1, <2>2 DEF StartInputFails, EarlemeCompleteFails, CleanFails, Clean, input
  <2>3. CASE StartInputTrivial \/ StartInput
    BY <2>3, StartExhaustion
  <2>4. CASE EarlemeCompleteExhausts \/ EarlemeCompleteEmpty \/ EarlemeCompleteBegins
    BY <2>4, EarlemeExhaustion
  <2> QED
    BY <1>3, <2>1, <2>2, <2>3, <2>4 DEF Reads
<1>4. CASE Settings
  <2>1. UNCHANGED <<clock, input, expected, pc>>
    BY <1>4 DEF Settings, SymbolActivate, SymbolDeactivate, ExpectedSymbolEventSet, ZWADefaultSet,
                IsUseLeoSet, WarningThresholdSet
  <2> QED
    BY <1>1, <2>1 DEF input
<1>5. CASE UNCHANGED vars
  BY <1>1, <1>5 DEF vars, input
<1> QED
  BY <1>2, <1>3, <1>4, <1>5 DEF Next

\* Between calls a recognizer that has started is exhausted if and only if no
\* token can be read and none that was read is pending, and it goes on taking
\* input if and only if it is not exhausted.  A zero-width assertion that fails
\* at the start of input may leave no terminal expected though the recognizer
\* takes input, and an unproductive grammar would: such grammars are excluded.
THEOREM ExhaustionIsExact ==
    ASSUME NoAssertions, Productive
    PROVE  Spec => []ExhaustionExact
<1>1. Init => ExhaustionInv
  BY DEF Init, ExhaustionInv, FurthestIsEnd
<1>2. TypeInv /\ InputInv /\ ExhaustionInv /\ [Next]_vars => ExhaustionInv'
  BY NextExhaustion
<1>3. ExhaustionInv => ExhaustionExact
  BY DEF ExhaustionInv, ExhaustionExact
<1> QED
  BY <1>1, <1>2, <1>3, TypeCorrect, InputCorrect, PTL DEF Spec

-----------------------------------------------------------------------------
(* The inductive invariant. *)

\* What the stacks hold when the code pops them.
StacksAgree ==
    /\ \A i \in DOMAIN alternatives : alternatives[i] \in tokens
    /\ \A t \in tokens : t.start < t.end
    /\ pc = "complete" =>
          \A y \in completion_stack : y \in yims[current_earleme] /\ AHM_is_Completion(y.ahm)

\* An item may be in the Earley set e: it starts no later than e, and before e
\* if it is a completion.
FitsAt(y, e) == y.origin <= e /\ (AHM_is_Completion(y.ahm) => y.origin < e)

\* There are no items beyond the current earleme, and the others fit.
ItemsAgree ==
    \A e \in Earlemes :
        /\ e > current_earleme => yims[e] = {}
        /\ \A y \in yims[e] : FitsAt(y, e)

\* While an Earley set is filled it has no Leo items; a Leo item starts no
\* later than its Earley set, and is its trailhead's until it is populated.
LimAgrees(k) ==
    /\ pc \in {"scan", "complete", "postdot"} => k[1] < current_earleme
    /\ lims[k].origin <= k[1] /\ AHM_is_Completion(lims[k].top)
    /\ ~ LIM_is_Populated(k) =>
          lims[k].predecessor = NoLIM /\ lims[k].top = Trailhead_AHM_of_LIM(k)

LimsAgree == \A k \in DOMAIN lims : LimAgrees(k)

ChartInv == StacksAgree /\ ItemsAgree /\ LimsAgree /\ LinksJustified /\ LimsJustified

-----------------------------------------------------------------------------
\* A Leo item is at the current earleme or before it.
LEMMA LimsBehind ==
    ASSUME TypeInv, ChartInv, NEW k \in DOMAIN lims
    PROVE  /\ k[1] \in Earlemes /\ k[2] \in NSYs /\ k = <<k[1], k[2]>>
           /\ k[1] <= current_earleme /\ lims[k] \in LIMs
<1>1. k \in Earlemes \X NSYs /\ lims[k] \in LIMs
  BY DEF TypeInv, TypeOK, ChartTypeOK
<1>2. lims[k].trailhead \in yims[k[1]]
  BY DEF ChartInv, LimsJustified, LimJustified
<1>3. current_earleme \in Int
  BY DEF TypeInv, TypeOK, ClockTypeOK, Earlemes, NoEarleme
<1>4. ~ (k[1] > current_earleme)
  BY <1>1, <1>2 DEF ChartInv, ItemsAgree
<1> QED
  BY <1>1, <1>3, <1>4 DEF Earlemes

\* Before input starts, the chart is empty.
LEMMA BeforeInput ==
    ASSUME TypeInv, ChartInv, input_phase = "before"
    PROVE  /\ \A e \in Earlemes : yims[e] = {}
           /\ token_links = {} /\ completion_links = {} /\ leo_links = {}
           /\ DOMAIN lims = {}
<1>1. \A e \in Earlemes : yims[e] = {}
  BY DEF TypeInv, PhasesAgree, ChartInv, ItemsAgree, Earlemes, NoEarleme
<1>2. token_links = {}
  BY <1>1 DEF TypeInv, TypeOK, ChartTypeOK, TokenLinks, ChartInv, LinksJustified,
              TokenLinkJustified
<1>3. completion_links = {}
  BY <1>1 DEF TypeInv, TypeOK, ChartTypeOK, CompletionLinks, ChartInv, LinksJustified,
              CompletionLinkJustified
<1>4. leo_links = {}
  <2>1. \A l \in leo_links : l.at \in Earlemes /\ l.cause \in yims[l.at]
    BY DEF TypeInv, TypeOK, ChartTypeOK, LeoLinks, ChartInv, LinksJustified, LeoLinkJustified
  <2> QED
    BY <1>1, <2>1
<1>5. DOMAIN lims = {}
  BY <1>1, LimsBehind DEF ChartInv, LimsJustified, LimJustified
<1> QED
  BY <1>1, <1>2, <1>3, <1>4, <1>5

\* Links stay justified when items and tokens are added and the Leo items that
\* they go through stay as they are.
LEMMA LinksStay ==
    ASSUME TypeInv, ChartInv, tokens \subseteq tokens',
           \A e \in Earlemes : yims[e] \subseteq yims'[e],
           \A k \in DOMAIN lims : LIM_is_Populated(k) =>
               /\ k \in DOMAIN lims'
               /\ lims'[k].top = lims[k].top /\ lims'[k].origin = lims[k].origin
    PROVE  /\ \A l \in token_links : TokenLinkJustified(l)'
           /\ \A l \in completion_links : CompletionLinkJustified(l)'
           /\ \A l \in leo_links : LeoLinkJustified(l)'
<1> USE DEF TypeInv, TypeOK, ChartTypeOK, ChartInv, LinksJustified
<1>1. ASSUME NEW l \in token_links
      PROVE  TokenLinkJustified(l)'
  <2>1. l \in TokenLinks /\ TokenLinkJustified(l)
    OBVIOUS
  <2>2. l.at \in Earlemes /\ l.token.start \in Earlemes
    BY <2>1 DEF TokenLinks, Alternatives
  <2> QED
    BY <2>1, <2>2 DEF TokenLinkJustified, PIMs, Advance
<1>2. ASSUME NEW l \in completion_links
      PROVE  CompletionLinkJustified(l)'
  <2>1. l \in CompletionLinks /\ CompletionLinkJustified(l)
    OBVIOUS
  <2>2. l.at \in Earlemes /\ l.cause.origin \in Earlemes
    BY <2>1 DEF CompletionLinks, YIMs
  <2> QED
    BY <2>1, <2>2 DEF CompletionLinkJustified, PIMs, Advance, LHS_NSYID_of_YIM
<1>3. ASSUME NEW l \in leo_links
      PROVE  LeoLinkJustified(l)'
  <2>1. l \in LeoLinks /\ LeoLinkJustified(l)
    OBVIOUS
  <2>2. l.at \in Earlemes /\ l.yim.origin \in Earlemes
    BY <2>1 DEF LeoLinks, YIMs
  <2>3. l.predecessor \in DOMAIN lims /\ l.yim.origin = lims[l.predecessor].origin
    BY <2>1 DEF LeoLinkJustified
  <2>4. LIM_is_Populated(l.predecessor)
    BY <2>2, <2>3 DEF LIM_is_Populated, Earlemes, NoEarleme
  <2> QED
    BY <2>1, <2>2, <2>3, <2>4 DEF LeoLinkJustified, LHS_NSYID_of_YIM
<1> QED
  BY <1>1, <1>2, <1>3

\* Leo items stay justified when their Earley sets stay as they are.
LEMMA LimsStay ==
    ASSUME TypeInv, ChartInv, UNCHANGED lims, earley_sets \subseteq earley_sets',
           \A k \in DOMAIN lims : yims'[k[1]] = yims[k[1]]
    PROVE  LimsJustified'
<1> SUFFICES ASSUME NEW k \in DOMAIN lims
             PROVE  LimJustified(k)'
  BY DEF LimsJustified
<1>1. LimJustified(k)
  BY DEF ChartInv, LimsJustified
<1> QED
  BY <1>1 DEF LimJustified, PIMs, Trailhead_AHM_of_LIM, LIM_is_Populated, PredecessorKey,
              LHS_NSYID_of_YIM

-----------------------------------------------------------------------------
(* Steps that leave the chart alone. *)

\* A step that adds nothing to the chart keeps it sound, as the earlemes advance.
LEMMA QuietStep ==
    ASSUME TypeInv, ChartInv, UNCHANGED <<yims, links, lims, completion_stack>>,
           earley_sets \subseteq earley_sets',
           current_earleme' \in Int, current_earleme <= current_earleme',
           \/ pc' = "idle"
           \/ pc' = "scan" /\ current_earleme < current_earleme'
           \/ pc' = pc /\ current_earleme' = current_earleme,
           tokens \subseteq tokens', \A i \in DOMAIN alternatives' : alternatives'[i] \in tokens',
           \A t \in tokens' : t.start < t.end
    PROVE  ChartInv'
<1>1. current_earleme \in Int
  BY DEF TypeInv, TypeOK, ClockTypeOK, Earlemes, NoEarleme
<1>2. StacksAgree'
  BY DEF ChartInv, StacksAgree
<1>3. ItemsAgree'
  BY <1>1 DEF ChartInv, ItemsAgree, Earlemes, FitsAt
<1>4. LimsAgree'
  <2> SUFFICES ASSUME NEW k \in DOMAIN lims
               PROVE  LimAgrees(k)'
    BY DEF LimsAgree
  <2>1. LimAgrees(k) /\ k[1] <= current_earleme /\ k[1] \in Int
    BY LimsBehind DEF ChartInv, LimsAgree, Earlemes
  <2>2. pc' \in {"scan", "complete", "postdot"} => k[1] < current_earleme'
    BY <1>1, <2>1 DEF LimAgrees
  <2> QED
    BY <2>1, <2>2 DEF LimAgrees, LIM_is_Populated, Trailhead_AHM_of_LIM
<1>5. LinksJustified'
  BY LinksStay DEF LinksJustified, links
<1>6. LimsJustified'
  BY LimsStay
<1> QED
  BY <1>2, <1>3, <1>4, <1>5, <1>6 DEF ChartInv

\* The start of input and the other calls that only read the chart.
LEMMA ReadsChart ==
    ASSUME TypeInv, TypeInv', ChartInv, Reads \/ Settings \/ EarlemeCompleteEnds \/ UNCHANGED vars
    PROVE  ChartInv'
<1>1. /\ tokens \subseteq Alternatives /\ \A t \in tokens : t.start < t.end
      /\ \A i \in DOMAIN alternatives : alternatives[i] \in tokens
      /\ current_earleme \in Int /\ current_earleme' \in Int
  BY DEF TypeInv, TypeOK, InputTypeOK, ClockTypeOK, ChartInv, StacksAgree, Earlemes, NoEarleme
<1>2. CASE /\ UNCHANGED <<clock, chart, alternatives, tokens>>
           /\ pc' = pc \/ pc' = "idle"
  <2>1. UNCHANGED <<current_earleme, earley_sets, yims, links, lims, completion_stack>>
    BY <1>2 DEF clock, chart
  <2> QED
    BY <1>1, <1>2, <2>1, QuietStep
<1>3. CASE StartInputTrivial
  <2>1. /\ \A e \in Earlemes : yims'[e] = {}
        /\ token_links' = {} /\ completion_links' = {} /\ leo_links' = {}
        /\ DOMAIN lims' = {} /\ UNCHANGED <<tokens, alternatives>> /\ pc' = "idle"
    BY <1>3, BeforeInput DEF StartInputTrivial, links
  <2> QED
    BY <1>1, <2>1 DEF ChartInv, StacksAgree, ItemsAgree, LimsAgree, LinksJustified, LimsJustified
<1>4. CASE StartInput
  <2> DEFINE set0 == {[ahm |-> First_AHM_of_IRL(i), origin |-> 0] : i \in IRLsSeenAtStart}
  <2>1. /\ token_links' = {} /\ completion_links' = {} /\ leo_links' = {}
        /\ DOMAIN lims' = {} /\ UNCHANGED <<tokens, alternatives>> /\ pc' = "idle"
        /\ current_earleme' = 0
    BY <1>4, BeforeInput DEF StartInput, links
  <2>2. \A e \in Earlemes : yims'[e] = IF e = 0 THEN set0 ELSE {}
    BY <1>4, BeforeInput DEF StartInput, TypeInv, TypeOK, ChartTypeOK
  <2>3. \A y \in set0 : FitsAt(y, 0)
    BY <1>4, FirstAHM, SeenAtStart DEF FitsAt, StartInput
  <2> HIDE DEF set0
  <2>4. ItemsAgree'
    BY <2>1, <2>2, <2>3 DEF ItemsAgree, FitsAt, Earlemes
  <2> QED
    BY <1>1, <2>1, <2>4 DEF ChartInv, StacksAgree, LimsAgree, LinksJustified, LimsJustified
<1>5. ASSUME NEW x \in XSYs, NEW v \in TokenValues, NEW length \in TokenLengths,
             Alternative(x, v, length)
      PROVE  ChartInv'
  <2> DEFINE a == [nsy |-> NSY_of_XSY[x], start |-> current_earleme,
                   end |-> current_earleme + length, value |-> v]
  <2>1. a \in Alternatives /\ a.start < a.end
    BY <1>5, NewAlternativeType DEF Alternative
  <2>2. alternatives \in Seq(Alternatives)
    BY DEF TypeInv, TypeOK, InputTypeOK
  <2>3. \/ UNCHANGED <<alternatives, tokens>>
        \/ /\ alternatives' = alternative_insert(alternatives, a)
           /\ tokens' = tokens \cup {a}
    BY <1>5 DEF Alternative
  <2> HIDE DEF a
  <2>4. /\ tokens \subseteq tokens' /\ \A t \in tokens' : t.start < t.end
        /\ \A i \in DOMAIN alternatives' : alternatives'[i] \in tokens'
    BY <1>1, <2>1, <2>2, <2>3, InsertType
  <2>5. UNCHANGED <<current_earleme, earley_sets, yims, links, lims, completion_stack, pc>>
    BY <1>5 DEF Alternative, chart
  <2> QED
    BY <1>1, <2>4, <2>5, QuietStep
<1>6. CASE EarlemeCompleteExhausts \/ EarlemeCompleteEmpty \/ EarlemeCompleteBegins
  <2>1. /\ UNCHANGED <<yims, links, lims, completion_stack, alternatives, tokens>>
        /\ earley_sets \subseteq earley_sets'
        /\ current_earleme' = current_earleme + 1 /\ pc' \in {"idle", "scan"}
    BY <1>6 DEF EarlemeCompleteExhausts, EarlemeCompleteEmpty, EarlemeCompleteBegins, chart, input
  <2> QED
    BY <1>1, <2>1, QuietStep
<1>7. CASE \E x \in XSYs, v \in TokenValues, length \in TokenLengths :
             AlternativeFails(x, v, length) \/ AlternativeRejected(x, v, length)
  <2>1. UNCHANGED <<clock, chart, alternatives, tokens, pc>>
    BY <1>7 DEF AlternativeFails, AlternativeRejected, input
  <2> QED
    BY <1>2, <2>1
<1>8. CASE \/ StartInputFails \/ EarlemeCompleteFails \/ CleanFails \/ Clean
           \/ Settings \/ EarlemeCompleteEnds \/ UNCHANGED vars
  <2>1. CASE EarlemeCompleteEnds
    <3>1. UNCHANGED <<current_earleme, chart, alternatives, tokens>> /\ pc' = "idle"
      BY <2>1 DEF EarlemeCompleteEnds, input
    <3>2. UNCHANGED <<earley_sets, yims, links, lims, completion_stack>>
      BY <3>1 DEF chart
    <3> QED
      BY <1>1, <3>1, <3>2, QuietStep
  <2>2. CASE Settings
    <3>1. UNCHANGED <<clock, chart, input, pc>>
      BY <2>2 DEF Settings, SymbolActivate, SymbolDeactivate, ExpectedSymbolEventSet,
                  ZWADefaultSet, IsUseLeoSet, WarningThresholdSet
    <3> QED
      BY <1>2, <3>1 DEF input
  <2>3. CASE \/ StartInputFails \/ EarlemeCompleteFails \/ CleanFails \/ Clean \/ UNCHANGED vars
    <3>1. UNCHANGED <<clock, chart, input, pc>>
      BY <2>3 DEF StartInputFails, EarlemeCompleteFails, CleanFails, Clean, vars
    <3> QED
      BY <1>2, <3>1 DEF input
  <2> QED
    BY <1>8, <2>1, <2>2, <2>3
<1> QED
  BY <1>3, <1>4, <1>5, <1>6, <1>7, <1>8 DEF Reads

-----------------------------------------------------------------------------
(* Steps that add items to the current Earley set. *)

\* Adding items that fit breaks nothing that was there: the Leo items are all
\* in earlier Earley sets.
LEMMA GrowStep ==
    ASSUME TypeInv, ChartInv, pc \in {"scan", "complete"},
           NEW new, \A y \in new : FitsAt(y, current_earleme),
           yims' = [yims EXCEPT ![current_earleme] = @ \cup new],
           UNCHANGED <<clock, earley_sets, lims, tokens>>,
           pc' \in {"scan", "complete", "postdot"}
    PROVE  /\ ItemsAgree' /\ LimsAgree' /\ LimsJustified'
           /\ \A e \in Earlemes : yims[e] \subseteq yims'[e]
           /\ \A l \in token_links : TokenLinkJustified(l)'
           /\ \A l \in completion_links : CompletionLinkJustified(l)'
           /\ \A l \in leo_links : LeoLinkJustified(l)'
<1>1. /\ yims \in [Earlemes -> SUBSET YIMs] /\ current_earleme \in Earlemes
      /\ current_earleme' = current_earleme
  BY DEF TypeInv, TypeOK, ChartTypeOK, PhasesAgree, clock
<1>2. \A e \in Earlemes :
         yims'[e] = IF e = current_earleme THEN yims[e] \cup new ELSE yims[e]
  BY <1>1
<1>3. ItemsAgree'
  <2> SUFFICES ASSUME NEW e \in Earlemes
               PROVE  (e > current_earleme => yims[e] = {})' /\ \A y \in yims'[e] : FitsAt(y, e)'
    BY DEF ItemsAgree
  <2>1. (e > current_earleme => yims[e] = {}) /\ \A y \in yims[e] : FitsAt(y, e)
    BY DEF ChartInv, ItemsAgree
  <2>2. CASE e = current_earleme
    BY <1>1, <1>2, <2>1, <2>2 DEF FitsAt, Earlemes
  <2>3. CASE e # current_earleme
    BY <1>1, <1>2, <2>1, <2>3 DEF FitsAt
  <2> QED
    BY <2>2, <2>3
<1>4. \A k \in DOMAIN lims : LimAgrees(k) /\ k[1] \in Earlemes /\ k[1] < current_earleme
  BY LimsBehind DEF ChartInv, LimsAgree, LimAgrees
<1>5. LimsAgree'
  BY <1>1, <1>4 DEF LimsAgree, LimAgrees, LIM_is_Populated, Trailhead_AHM_of_LIM
<1>6. LimsJustified'
  <2>1. \A k \in DOMAIN lims : yims'[k[1]] = yims[k[1]]
    BY <1>1, <1>2, <1>4 DEF Earlemes
  <2> QED
    BY <2>1, LimsStay
<1>7. \A e \in Earlemes : yims[e] \subseteq yims'[e]
  BY <1>2
<1> QED
  BY <1>3, <1>5, <1>6, <1>7, LinksStay

\* The items and token links that a scanned alternative adds are sound.
LEMMA ScanChart ==
    ASSUME TypeInv, TypeInv', InputInv, ChartInv, ScanAlternative
    PROVE  ChartInv'
<1> DEFINE a == TopAlternative
<1> DEFINE predecessors == PIMs(a.start, a.nsy)
<1> DEFINE new == {Advance(p) : p \in predecessors}
<1>1. /\ alternatives \in Seq(Alternatives) /\ alternatives # <<>>
      /\ current_earleme \in Earlemes /\ a.end = current_earleme
  BY ScanPopsEnd DEF TypeInv, TypeOK, InputTypeOK, ChartTypeOK, PhasesAgree, ScanAlternative
<1>2. a \in Alternatives /\ a \in tokens /\ a.start < a.end
  BY <1>1, PopType DEF TypeInv, TypeOK, ChartInv, StacksAgree, TopAlternative
<1>3. a.start \in Earlemes /\ a.nsy \in NSYs
  BY <1>2 DEF Alternatives
<1> HIDE DEF a
<1>4. \A p \in predecessors : p \in YIMs /\ p \in yims[a.start] /\ Advance(p).origin = p.origin
  BY <1>3, PIMsType DEF TypeInv
<1>5. \A p \in predecessors : FitsAt(Advance(p), current_earleme)
  BY <1>1, <1>2, <1>3, <1>4 DEF ChartInv, ItemsAgree, FitsAt, YIMs, Earlemes
<1>6. yims' = [yims EXCEPT ![current_earleme] = @ \cup new]
  BY DEF ScanAlternative, a
<1>7. /\ ItemsAgree' /\ LimsAgree' /\ LimsJustified'
      /\ \A e \in Earlemes : yims[e] \subseteq yims'[e]
      /\ \A l \in token_links : TokenLinkJustified(l)'
      /\ \A l \in completion_links : CompletionLinkJustified(l)'
      /\ \A l \in leo_links : LeoLinkJustified(l)'
  <2>1. /\ UNCHANGED <<clock, earley_sets, lims, tokens>> /\ pc = "scan" /\ pc' = "scan"
        /\ \A y \in new : FitsAt(y, current_earleme)
    BY <1>5 DEF ScanAlternative
  <2> QED
    BY <1>6, <2>1, GrowStep
<1>8. \A l \in token_links' : TokenLinkJustified(l)'
  <2> SUFFICES ASSUME NEW l, NEW p \in predecessors,
                      l = [at |-> current_earleme, yim |-> Advance(p),
                           predecessor |-> p, token |-> a]
               PROVE  TokenLinkJustified(l)'
    BY <1>7 DEF ScanAlternative, a
  <2>1. l.yim = Advance(p) /\ l.yim \in yims'[l.at]
    BY <1>1, <1>6 DEF TypeInv, TypeOK, ChartTypeOK
  <2>2. p \in yims'[a.start] /\ Postdot_NSYID_of_AHM(p.ahm) = a.nsy
    BY <1>3, <1>7 DEF PIMs
  <2>3. tokens' = tokens /\ l.token = a /\ l.predecessor = p /\ l.at = current_earleme
    BY DEF ScanAlternative
  <2> QED
    BY <1>1, <1>2, <2>1, <2>2, <2>3 DEF TokenLinkJustified, Advance, PIMs
<1>9. LinksJustified'
  BY <1>7, <1>8 DEF ScanAlternative, LinksJustified
<1>10. StacksAgree'
  <2>1. \A i \in DOMAIN alternatives' : i \in DOMAIN alternatives /\ alternatives'[i] = alternatives[i]
    BY <1>1, PopType DEF ScanAlternative, TypeInv, TypeOK
  <2> QED
    BY <2>1 DEF ScanAlternative, ChartInv, StacksAgree
<1> QED
  BY <1>7, <1>9, <1>10 DEF ChartInv

\* Pre-populating the completion stack takes completions of the set only.
LEMMA PrePopulateChart ==
    ASSUME TypeInv, ChartInv, PrePopulateCompletions
    PROVE  ChartInv'
<1>1. current_earleme \in Earlemes /\ yims \in [Earlemes -> SUBSET YIMs]
  BY DEF PrePopulateCompletions, TypeInv, TypeOK, ChartTypeOK, PhasesAgree
<1>2. /\ pc = "scan" /\ UNCHANGED <<clock, earley_sets, lims, tokens, yims, links, alternatives>>
      /\ pc' = "complete" /\ current_earleme' = current_earleme
      /\ completion_stack' = {y \in yims[current_earleme] : AHM_is_Completion(y.ahm)}
  BY DEF PrePopulateCompletions, input, clock
<1> DEFINE new == {}
<1>3. /\ yims' = [yims EXCEPT ![current_earleme] = @ \cup new]
      /\ \A y \in new : FitsAt(y, current_earleme)
  BY <1>1, <1>2
<1> HIDE DEF new
<1>4. /\ ItemsAgree' /\ LimsAgree' /\ LimsJustified'
      /\ \A l \in token_links : TokenLinkJustified(l)'
      /\ \A l \in completion_links : CompletionLinkJustified(l)'
      /\ \A l \in leo_links : LeoLinkJustified(l)'
  BY <1>2, <1>3, GrowStep
<1>5. LinksJustified'
  BY <1>2, <1>4 DEF LinksJustified, links
<1>6. StacksAgree'
  BY <1>2 DEF ChartInv, StacksAgree
<1> QED
  BY <1>4, <1>5, <1>6 DEF ChartInv

\* A prediction starts in the current Earley set, and waits at its first symbol.
LEMMA PredictChart ==
    ASSUME TypeInv, ChartInv, AddPredictions
    PROVE  ChartInv'
<1> DEFINE new == {[ahm |-> First_AHM_of_IRL(i), origin |-> current_earleme] :
                      i \in UNION {Predicted_IRLs_of_AHM(y.ahm) : y \in yims[current_earleme]}}
<1>1. current_earleme \in Earlemes
  BY DEF AddPredictions, TypeInv, TypeOK, ChartTypeOK, PhasesAgree
<1>2. /\ UNCHANGED <<clock, earley_sets, lims, tokens, links, alternatives>>
      /\ pc = "complete" /\ pc' = "postdot"
      /\ yims' = [yims EXCEPT ![current_earleme] = @ \cup new]
  BY DEF AddPredictions, input
<1>3. \A y \in new : FitsAt(y, current_earleme)
  <2>1. \A ahm : Predicted_IRLs_of_AHM(ahm) \subseteq IRLs
    BY DEF Predicted_IRLs_of_AHM
  <2>2. \A i \in IRLs : FitsAt([ahm |-> First_AHM_of_IRL(i), origin |-> current_earleme],
                               current_earleme)
    BY <1>1, FirstAHM DEF FitsAt, Earlemes
  <2> QED
    BY <2>1, <2>2
<1> HIDE DEF new
<1>4. /\ ItemsAgree' /\ LimsAgree' /\ LimsJustified'
      /\ \A l \in token_links : TokenLinkJustified(l)'
      /\ \A l \in completion_links : CompletionLinkJustified(l)'
      /\ \A l \in leo_links : LeoLinkJustified(l)'
  BY <1>2, <1>3, GrowStep
<1>5. LinksJustified'
  BY <1>2, <1>4 DEF LinksJustified, links
<1>6. StacksAgree'
  BY <1>2 DEF ChartInv, StacksAgree
<1> QED
  BY <1>4, <1>5, <1>6 DEF ChartInv

\* A completion on the stack is in the current Earley set and starts earlier.
LEMMA CauseFits ==
    ASSUME TypeInv, ChartInv, pc = "complete", NEW cause \in completion_stack
    PROVE  /\ cause \in yims[current_earleme] /\ AHM_is_Completion(cause.ahm)
           /\ cause.origin \in Earlemes /\ current_earleme \in Earlemes
           /\ cause.origin < current_earleme
           /\ LHS_NSYID_of_YIM(cause) \in NSYs
<1>1. current_earleme \in Earlemes /\ cause \in YIMs
  BY DEF TypeInv, TypeOK, ChartTypeOK, PhasesAgree
<1>2. cause \in yims[current_earleme] /\ AHM_is_Completion(cause.ahm)
  BY DEF ChartInv, StacksAgree
<1>3. cause.origin < current_earleme
  BY <1>1, <1>2 DEF ChartInv, ItemsAgree, FitsAt
<1> QED
  BY <1>1, <1>2, <1>3, LHSType DEF YIMs

\* A cause meets the predecessors that wait for it in its origin's Earley set.
LEMMA CompleteWithPredecessorsChart ==
    ASSUME TypeInv, ChartInv, CompleteCause,
           NEW cause \in completion_stack, CompleteWithPredecessors(cause)
    PROVE  ChartInv'
<1> DEFINE lhs == LHS_NSYID_of_YIM(cause)
<1> DEFINE predecessors == PIMs(cause.origin, lhs)
<1> DEFINE new == {Advance(p) : p \in predecessors}
<1>1. /\ pc = "complete" /\ pc' = "complete"
      /\ UNCHANGED <<clock, earley_sets, lims, tokens, token_links, leo_links, alternatives>>
      /\ yims' = [yims EXCEPT ![current_earleme] = @ \cup new]
  BY DEF CompleteCause, CompleteWithPredecessors, input
<1>2. /\ cause \in yims[current_earleme] /\ AHM_is_Completion(cause.ahm)
      /\ cause.origin \in Earlemes /\ current_earleme \in Earlemes
      /\ cause.origin < current_earleme /\ lhs \in NSYs
  BY <1>1, CauseFits
<1>3. \A p \in predecessors :
         /\ p \in yims[cause.origin] /\ p.origin \in Earlemes
         /\ Advance(p).origin = p.origin /\ p.origin <= cause.origin
  BY <1>2, PIMsType DEF TypeInv, ChartInv, ItemsAgree, FitsAt, YIMs
<1>4. \A y \in new : FitsAt(y, current_earleme)
  BY <1>2, <1>3 DEF FitsAt, Earlemes
<1>5. /\ ItemsAgree' /\ LimsAgree' /\ LimsJustified'
      /\ \A e \in Earlemes : yims[e] \subseteq yims'[e]
      /\ \A l \in token_links : TokenLinkJustified(l)'
      /\ \A l \in completion_links : CompletionLinkJustified(l)'
      /\ \A l \in leo_links : LeoLinkJustified(l)'
  BY <1>1, <1>4, GrowStep
<1>6. new \subseteq yims'[current_earleme]
  BY <1>1, <1>2 DEF TypeInv, TypeOK, ChartTypeOK
<1>7. \A l \in completion_links' : CompletionLinkJustified(l)'
  <2> SUFFICES ASSUME NEW l, NEW p \in predecessors,
                      l = [at |-> current_earleme, yim |-> Advance(p),
                           predecessor |-> p, cause |-> cause]
               PROVE  CompletionLinkJustified(l)'
    BY <1>5 DEF CompleteWithPredecessors
  <2>1. /\ l.yim = Advance(p) /\ l.yim \in yims'[l.at] /\ l.cause = cause
        /\ l.predecessor = p /\ l.at = current_earleme /\ l.cause \in yims'[l.at]
    BY <1>2, <1>5, <1>6
  <2>2. p \in yims'[cause.origin] /\ Postdot_NSYID_of_AHM(p.ahm) = lhs
    BY <1>2, <1>5 DEF PIMs
  <2> QED
    BY <1>2, <2>1, <2>2 DEF CompletionLinkJustified, Advance, PIMs, LHS_NSYID_of_YIM
<1>8. LinksJustified'
  BY <1>1, <1>5, <1>7 DEF LinksJustified
<1>9. StacksAgree'
  <2>1. \A y \in completion_stack' : y \in yims'[current_earleme] /\ AHM_is_Completion(y.ahm)
    BY <1>1, <1>2, <1>5, <1>6 DEF CompleteWithPredecessors, ChartInv, StacksAgree
  <2> QED
    BY <1>1, <2>1 DEF ChartInv, StacksAgree, clock
<1> QED
  BY <1>5, <1>8, <1>9 DEF ChartInv

\* The effect of a Leo item is a completion that starts no later than its cause.
LEMMA CompleteWithLeoChart ==
    ASSUME TypeInv, ChartInv, CompleteCause,
           NEW cause \in completion_stack, CompleteWithLeo(cause)
    PROVE  ChartInv'
<1> DEFINE lim == <<cause.origin, LHS_NSYID_of_YIM(cause)>>
<1> DEFINE effect == [ahm |-> lims[lim].top, origin |-> lims[lim].origin]
<1> DEFINE new == {effect}
<1>1. /\ pc = "complete" /\ pc' = "complete" /\ lim \in DOMAIN lims
      /\ UNCHANGED <<clock, earley_sets, lims, tokens, token_links, completion_links,
                     alternatives>>
      /\ yims' = [yims EXCEPT ![current_earleme] = @ \cup new]
  BY DEF CompleteCause, CompleteWithLeo, input
<1>2. /\ cause \in yims[current_earleme] /\ AHM_is_Completion(cause.ahm)
      /\ cause.origin \in Earlemes /\ current_earleme \in Earlemes
      /\ cause.origin < current_earleme
  BY <1>1, CauseFits
<1>3. effect \in YIMs /\ effect.origin = lims[lim].origin /\ effect.ahm = lims[lim].top
  BY <1>1, EffectType
<1>4. effect.origin \in Earlemes /\ effect.origin < current_earleme
  <2>1. lims[lim].origin <= cause.origin
    BY <1>1 DEF ChartInv, LimsAgree, LimAgrees
  <2> QED
    BY <1>2, <1>3, <2>1 DEF YIMs, Earlemes
<1>5. \A y \in new : FitsAt(y, current_earleme)
  BY <1>2, <1>4 DEF FitsAt, Earlemes
<1>6. /\ ItemsAgree' /\ LimsAgree' /\ LimsJustified'
      /\ \A e \in Earlemes : yims[e] \subseteq yims'[e]
      /\ \A l \in token_links : TokenLinkJustified(l)'
      /\ \A l \in completion_links : CompletionLinkJustified(l)'
      /\ \A l \in leo_links : LeoLinkJustified(l)'
  <2> HIDE DEF new
  <2> QED
    BY <1>1, <1>5, GrowStep
<1>7. effect \in yims'[current_earleme]
  BY <1>1, <1>2 DEF TypeInv, TypeOK, ChartTypeOK
<1>8. \A l \in leo_links' : LeoLinkJustified(l)'
  <2> SUFFICES ASSUME NEW l, l = [at |-> current_earleme, yim |-> effect,
                                  predecessor |-> lim, cause |-> cause]
               PROVE  LeoLinkJustified(l)'
    BY <1>6 DEF CompleteWithLeo
  <2>1. /\ l.yim = effect /\ l.yim \in yims'[l.at] /\ l.cause = cause
        /\ l.predecessor = lim /\ l.at = current_earleme /\ l.cause \in yims'[l.at]
    BY <1>2, <1>6, <1>7
  <2> QED
    BY <1>1, <1>2, <2>1 DEF LeoLinkJustified, LHS_NSYID_of_YIM
<1>9. LinksJustified'
  BY <1>1, <1>6, <1>8 DEF LinksJustified
<1>10. AHM_is_Completion(effect.ahm)
  BY <1>1, <1>3 DEF ChartInv, LimsAgree, LimAgrees
<1>11. StacksAgree'
  <2>1. \A y \in completion_stack' : y \in yims'[current_earleme] /\ AHM_is_Completion(y.ahm)
    BY <1>1, <1>2, <1>6, <1>7, <1>10 DEF CompleteWithLeo, ChartInv, StacksAgree
  <2> QED
    BY <1>1, <2>1 DEF ChartInv, StacksAgree, clock
<1> QED
  BY <1>6, <1>9, <1>11 DEF ChartInv

-----------------------------------------------------------------------------
(* Steps that start and populate Leo items. *)

\* A new Leo item's trailhead is the one item that waits for its symbol.
LEMMA StartLIMsChart ==
    ASSUME TypeInv, ChartInv, StartLIMs
    PROVE  ChartInv'
<1> DEFINE new == IF using_leo
                  THEN {<<current_earleme, n>> : n \in {m \in NSYs : LeoEligible(m)}} ELSE {}
<1>1. current_earleme \in earley_sets /\ current_earleme \in Earlemes
  BY DEF StartLIMs, TypeInv, TypeOK, PhasesAgree, ChartTypeOK
<1>2. /\ pc = "postdot" /\ pc' = "populate"
      /\ UNCHANGED <<current_earleme, earley_sets, yims, links, alternatives, tokens>>
      /\ UNCHANGED <<token_links, completion_links, leo_links>>
      /\ lims' = [k \in DOMAIN lims \cup new |-> IF k \in new THEN NewLIM(k[2]) ELSE lims[k]]
  BY DEF StartLIMs, clock, input, links
<1>3. \A k \in new : k[1] = current_earleme /\ k[2] \in NSYs /\ LeoEligible(k[2])
  OBVIOUS
<1> HIDE DEF new
<1>4. \A k \in DOMAIN lims :
         /\ k \notin new /\ k[1] < current_earleme /\ LIM_is_Populated(k)
         /\ LimAgrees(k) /\ LimJustified(k)
  BY <1>1, <1>2, <1>3, LimsBehind
     DEF ChartInv, LimsAgree, LimAgrees, LimsJustified, TypeInv, PhasesAgree, Earlemes
<1>5. DOMAIN lims' = DOMAIN lims \cup new /\ \A k \in DOMAIN lims : lims'[k] = lims[k]
  BY <1>2, <1>4
<1>6. ASSUME NEW k \in new
      PROVE  /\ lims'[k].trailhead \in yims[k[1]]
             /\ PIMs(k[1], k[2]) = {lims'[k].trailhead}
             /\ lims'[k].top = Next_AHM_of_AHM(lims'[k].trailhead.ahm)
             /\ AHM_is_Completion(lims'[k].top)
             /\ lims'[k].origin = NoEarleme /\ lims'[k].predecessor = NoLIM
  <2>1. lims'[k] = NewLIM(k[2]) /\ k[1] = current_earleme /\ k[2] \in NSYs /\ LeoEligible(k[2])
    BY <1>2, <1>3
  <2> QED
    BY <1>1, <2>1, NewLIMType DEF TypeInv
<1>7. LimsAgree'
  <2> SUFFICES ASSUME NEW k \in DOMAIN lims'
               PROVE  LimAgrees(k)'
    BY DEF LimsAgree
  <2>1. CASE k \in new
    BY <1>1, <1>2, <1>3, <1>6, <2>1 DEF LimAgrees, Trailhead_AHM_of_LIM, Earlemes, NoEarleme
  <2>2. CASE k \in DOMAIN lims
    BY <1>2, <1>4, <1>5, <2>2 DEF LimAgrees, LIM_is_Populated
  <2> QED
    BY <1>5, <2>1, <2>2
<1>8. LimsJustified'
  <2> SUFFICES ASSUME NEW k \in DOMAIN lims'
               PROVE  LimJustified(k)'
    BY DEF LimsJustified
  <2>1. CASE k \in new
    BY <1>1, <1>2, <1>3, <1>6, <2>1 DEF LimJustified, Trailhead_AHM_of_LIM, LIM_is_Populated, PIMs
  <2>2. CASE k \in DOMAIN lims
    BY <1>2, <1>4, <1>5, <2>2 DEF LimJustified, Trailhead_AHM_of_LIM, LIM_is_Populated, PIMs,
                                 PredecessorKey, LHS_NSYID_of_YIM
  <2> QED
    BY <1>5, <2>1, <2>2
<1>9. LinksJustified'
  BY <1>2, <1>5, LinksStay DEF LinksJustified
<1>10. StacksAgree' /\ ItemsAgree'
  BY <1>2 DEF ChartInv, StacksAgree, ItemsAgree, FitsAt
<1> QED
  BY <1>7, <1>8, <1>9, <1>10 DEF ChartInv

\* Populating a Leo item makes it agree with its predecessor or its trailhead.
LEMMA PopulateChart ==
    ASSUME TypeInv, ChartInv, PopulateLIM
    PROVE  ChartInv'
<1>1. PICK k \in DOMAIN lims :
         ~ LIM_is_Populated(k) /\ (PopulateFromBase(k) \/ PopulateFromPredecessor(k))
  BY DEF PopulateLIM
<1>2. /\ pc = "populate" /\ pc' = "populate"
      /\ UNCHANGED <<current_earleme, earley_sets, yims, alternatives, tokens>>
      /\ UNCHANGED <<token_links, completion_links, leo_links>>
  BY DEF PopulateLIM, clock, input, links
<1>3. /\ lims \in [DOMAIN lims -> LIMs] /\ lims[k] \in LIMs /\ k \in Earlemes \X NSYs
      /\ LimAgrees(k) /\ LimJustified(k)
  BY DEF TypeInv, TypeOK, ChartTypeOK, ChartInv, LimsAgree, LimsJustified
<1>4. /\ lims[k].trailhead.origin \in Earlemes /\ lims[k].trailhead.origin <= k[1]
  BY <1>3 DEF LIMs, YIMs, LimJustified, ChartInv, ItemsAgree, FitsAt
<1>5. /\ DOMAIN lims' = DOMAIN lims
      /\ \A j \in DOMAIN lims : j # k => lims'[j] = lims[j]
      /\ lims'[k].trailhead = lims[k].trailhead
  <2>1. CASE PopulateFromBase(k)
    BY <1>3, <2>1 DEF PopulateFromBase, LIMs
  <2>2. CASE PopulateFromPredecessor(k)
    BY <1>3, <2>2 DEF PopulateFromPredecessor, LIMs
  <2> QED
    BY <1>1, <2>1, <2>2
<1>6. \/ /\ lims'[k].origin = lims[k].trailhead.origin
         /\ lims'[k].top = lims[k].top /\ lims'[k].predecessor = NoLIM
      \/ /\ PredecessorKey(k) \in DOMAIN lims /\ LIM_is_Populated(PredecessorKey(k))
         /\ lims'[k].origin = lims[PredecessorKey(k)].origin
         /\ lims'[k].top = lims[PredecessorKey(k)].top
         /\ lims'[k].predecessor = PredecessorKey(k)
  <2>1. CASE PopulateFromBase(k)
    BY <1>1, <1>3, <2>1 DEF PopulateFromBase, LIMs, LimAgrees
  <2>2. CASE PopulateFromPredecessor(k)
    BY <1>3, <2>2 DEF PopulateFromPredecessor, LIMs
  <2> QED
    BY <1>1, <2>1, <2>2
<1>7. LimAgrees(k)'
  <2>1. CASE lims'[k].origin = lims[k].trailhead.origin /\ lims'[k].top = lims[k].top
    BY <1>2, <1>3, <1>4, <2>1 DEF LimAgrees, LIM_is_Populated, Earlemes, NoEarleme
  <2>2. CASE /\ PredecessorKey(k) \in DOMAIN lims /\ LIM_is_Populated(PredecessorKey(k))
             /\ lims'[k].origin = lims[PredecessorKey(k)].origin
             /\ lims'[k].top = lims[PredecessorKey(k)].top
    <3> DEFINE p == PredecessorKey(k)
    <3>1. /\ LimAgrees(p) /\ lims[p] \in LIMs /\ p[1] = lims[k].trailhead.origin
      BY <1>3, <2>2 DEF ChartInv, LimsAgree, PredecessorKey
    <3>2. lims[p].origin \in Earlemes /\ lims[p].origin <= p[1] /\ AHM_is_Completion(lims[p].top)
      BY <2>2, <3>1 DEF LimAgrees, LIMs, LIM_is_Populated
    <3> QED
      BY <1>2, <1>3, <1>4, <2>2, <3>1, <3>2 DEF LimAgrees, LIM_is_Populated, Earlemes, NoEarleme
  <2> QED
    BY <1>6, <2>1, <2>2
<1>8. LimsAgree'
  <2> SUFFICES ASSUME NEW j \in DOMAIN lims, j # k
               PROVE  LimAgrees(j)'
    BY <1>5, <1>7 DEF LimsAgree
  <2>1. LimAgrees(j) /\ lims'[j] = lims[j]
    BY <1>5 DEF ChartInv, LimsAgree
  <2> QED
    BY <1>2, <2>1 DEF LimAgrees, LIM_is_Populated, Trailhead_AHM_of_LIM
<1>9. LimsJustified'
  <2> SUFFICES ASSUME NEW j \in DOMAIN lims
               PROVE  LimJustified(j)'
    BY <1>5 DEF LimsJustified
  <2>1. LimJustified(j)
    BY DEF ChartInv, LimsJustified
  <2>2. \A m \in DOMAIN lims : LIM_is_Populated(m) => m # k /\ lims'[m] = lims[m]
    BY <1>1, <1>5
  <2>3. CASE j # k
    <3>1. CASE LIM_is_Populated(j)
      BY <1>2, <1>5, <2>1, <2>2, <2>3, <3>1
         DEF LimJustified, LIM_is_Populated, PIMs, Trailhead_AHM_of_LIM, PredecessorKey,
             LHS_NSYID_of_YIM
    <3>2. CASE ~ LIM_is_Populated(j)
      BY <1>2, <1>5, <2>1, <2>3, <3>2
         DEF LimJustified, LIM_is_Populated, PIMs, Trailhead_AHM_of_LIM
    <3> QED
      BY <3>1, <3>2
  <2>4. CASE j = k
    <3>1. /\ PredecessorKey(k)' = PredecessorKey(k)
          /\ Trailhead_AHM_of_LIM(k)' = Trailhead_AHM_of_LIM(k)
      BY <1>5 DEF PredecessorKey, Trailhead_AHM_of_LIM, LHS_NSYID_of_YIM
    <3>2. PredecessorKey(k) # NoLIM
      BY <1>4 DEF PredecessorKey, NoLIM, Earlemes, NoEarleme
    <3>3. lims[k].top = Trailhead_AHM_of_LIM(k)
      BY <1>1, <1>3 DEF LimAgrees
    <3>4. /\ k[1] \in earley_sets' /\ lims'[k].trailhead \in yims'[k[1]]
          /\ PIMs(k[1], k[2])' = {lims'[k].trailhead}
      BY <1>2, <1>3, <1>5 DEF LimJustified, PIMs
    <3>5. AHM_is_Completion(Trailhead_AHM_of_LIM(k))'
      BY <1>3, <1>5 DEF LimJustified, AHM_is_Completion, Trailhead_AHM_of_LIM
    <3> DEFINE p == PredecessorKey(k)
    <3>6. IF lims'[k].predecessor = NoLIM
          THEN /\ lims'[k].top = Trailhead_AHM_of_LIM(k)
               /\ lims'[k].origin = lims'[k].trailhead.origin
          ELSE /\ lims'[k].predecessor = p /\ p \in DOMAIN lims' /\ LIM_is_Populated(p)'
               /\ lims'[k].top = lims'[p].top /\ lims'[k].origin = lims'[p].origin
      BY <1>5, <1>6, <2>2, <3>1, <3>2, <3>3 DEF LIM_is_Populated
    <3> QED
      BY <2>4, <3>1, <3>4, <3>5, <3>6 DEF LimJustified
  <2> QED
    BY <2>3, <2>4
<1>10. LinksJustified'
  <2>1. \A m \in DOMAIN lims : LIM_is_Populated(m) => lims'[m] = lims[m]
    BY <1>1, <1>5
  <2> QED
    BY <1>2, <1>5, <2>1, LinksStay DEF LinksJustified
<1>11. StacksAgree' /\ ItemsAgree'
  BY <1>2 DEF ChartInv, StacksAgree, ItemsAgree, FitsAt
<1> QED
  BY <1>8, <1>9, <1>10, <1>11 DEF ChartInv

-----------------------------------------------------------------------------
\* The chart of a new recognizer is empty.
LEMMA InitChart == Init => ChartInv
  BY DEF Init, ChartInv, StacksAgree, ItemsAgree, LimsAgree, LinksJustified, LimsJustified,
         Earlemes, NoEarleme, FitsAt

\* Every step of the recognizer keeps the chart sound.
LEMMA NextChart ==
    TypeInv /\ TypeInv' /\ InputInv /\ ChartInv /\ [Next]_vars => ChartInv'
<1> SUFFICES ASSUME TypeInv, TypeInv', InputInv, ChartInv, [Next]_vars PROVE ChartInv'
  OBVIOUS
<1>1. CASE CompleteCause
  <2>1. PICK cause \in completion_stack :
           CompleteWithLeo(cause) \/ CompleteWithPredecessors(cause)
    BY <1>1 DEF CompleteCause
  <2> QED
    BY <1>1, <2>1, CompleteWithLeoChart, CompleteWithPredecessorsChart
<1>2. CASE EarlemeCompleteSteps /\ ~ CompleteCause
  BY <1>2, ScanChart, PrePopulateChart, PredictChart, StartLIMsChart, PopulateChart, ReadsChart
     DEF EarlemeCompleteSteps
<1>3. CASE Reads \/ Settings \/ UNCHANGED vars
  BY <1>3, ReadsChart
<1> QED
  BY <1>1, <1>2, <1>3 DEF Next

\* The chart is sound in every state of every parse.
THEOREM ChartSound == Spec => []ChartInv
<1>1. Init => ChartInv
  BY InitChart
<1>2. TypeInv /\ TypeInv' /\ InputInv /\ ChartInv /\ [Next]_vars => ChartInv'
  BY NextChart
<1> QED
  BY <1>1, <1>2, TypeCorrect, InputCorrect, PTL DEF Spec

\* The source links of every parse are sound: marpa_b_new builds its or-nodes
\* and and-nodes from nothing else.
THEOREM LinksSound == Spec => []LinksJustified
<1>1. ChartInv => LinksJustified
  BY DEF ChartInv
<1> QED
  BY <1>1, ChartSound, PTL

\* The Leo items of every parse stand for deterministic paths.
THEOREM LimsSound == Spec => []LimsJustified
<1>1. ChartInv => LimsJustified
  BY DEF ChartInv
<1> QED
  BY <1>1, ChartSound, PTL

-----------------------------------------------------------------------------
(* Every item was called for. *)

\* Something waits for the left side of the item where it starts.
IsAwaited(y) == y.ahm.irl # StartIRL => PIMs(y.origin, LHS_NSYID_of_YIM(y)) # {}

\* What a Leo item adds to an Earley set.
LeoEffect(k) == [ahm |-> lims[k].top, origin |-> lims[k].origin]

OriginsInv ==
    /\ \A e \in Earlemes : \A y \in yims[e] : IsAwaited(y)
    /\ \A k \in DOMAIN lims : LIM_is_Populated(k) => IsAwaited(LeoEffect(k))

\* An item is awaited for good.
LEMMA AwaitedStays ==
    ASSUME \A e \in Earlemes : yims[e] \subseteq yims'[e], NEW y, y.origin \in Earlemes, IsAwaited(y)
    PROVE  IsAwaited(y)'
  BY DEF IsAwaited, PIMs, LHS_NSYID_of_YIM

\* An item that is advanced is awaited as before.
LEMMA AdvanceAwaited ==
    ASSUME NEW p \in YIMs, Postdot_NSYID_of_AHM(p.ahm) \in NSYs, IsAwaited(p)
    PROVE  IsAwaited(Advance(p))
<1>1. p.ahm \in AHMs /\ ~ AHM_is_Completion(p.ahm)
  BY PostdotMeansNext DEF YIMs
<1>2. Advance(p).ahm = Next_AHM_of_AHM(p.ahm) /\ Advance(p).origin = p.origin
  BY DEF Advance
<1>3. Advance(p).ahm.irl = p.ahm.irl
  BY <1>1, <1>2, NextAHM
<1> QED
  BY <1>2, <1>3 DEF IsAwaited, LHS_NSYID_of_YIM

\* Awaited items may be added to the current Earley set, and others that are
\* awaited once they are there.
LEMMA OriginsGrow ==
    ASSUME TypeInv, OriginsInv, UNCHANGED lims, current_earleme \in Earlemes,
           NEW new, yims' = [yims EXCEPT ![current_earleme] = @ \cup new],
           \A y \in new : (IsAwaited(y) /\ y.origin \in Earlemes) \/ IsAwaited(y)'
    PROVE  OriginsInv'
<1>1. \A e \in Earlemes :
         yims'[e] = IF e = current_earleme THEN yims[e] \cup new ELSE yims[e]
  BY DEF TypeInv, TypeOK, ChartTypeOK
<1>2. \A e \in Earlemes : yims[e] \subseteq yims'[e]
  BY <1>1
<1>3. ASSUME NEW e \in Earlemes, NEW y \in yims'[e]
      PROVE  IsAwaited(y)'
  <2>1. CASE y \in yims[e]
    <3>1. y.origin \in Earlemes /\ IsAwaited(y)
      BY <2>1 DEF OriginsInv, TypeInv, TypeOK, ChartTypeOK, YIMs
    <3> QED
      BY <1>2, <3>1, AwaitedStays
  <2>2. CASE y \in new
    BY <1>2, <2>2, AwaitedStays
  <2> QED
    BY <1>1, <2>1, <2>2
<1>4. ASSUME NEW k \in DOMAIN lims, LIM_is_Populated(k)
      PROVE  IsAwaited(LeoEffect(k))'
  <2> DEFINE y == LeoEffect(k)
  <2>1. LeoEffect(k)' = y
    BY DEF LeoEffect
  <2>2. IsAwaited(y)
    BY <1>4 DEF OriginsInv
  <2>3. y.origin \in Earlemes
    BY <1>4 DEF LeoEffect, LIM_is_Populated, TypeInv, TypeOK, ChartTypeOK, LIMs
  <2>4. \A z : z = y => IsAwaited(z)'
    BY <1>2, <2>2, <2>3, AwaitedStays
  <2> QED
    BY <2>1, <2>4
<1> QED
  BY <1>3, <1>4 DEF OriginsInv, LIM_is_Populated

\* The items of the start of input: a rule is seen there because the start
\* rule is, or because a rule that has been seen waits for its left side.
LEMMA StartInputOrigins ==
    ASSUME TypeInv, ChartInv, StartInput
    PROVE  OriginsInv'
<1>1. 0 \in Earlemes
  BY RecceAssumption DEF Earlemes
<1>2. /\ ~ G_is_Trivial /\ DOMAIN lims' = {}
      /\ yims' = [yims EXCEPT ![0] =
            {[ahm |-> First_AHM_of_IRL(i), origin |-> 0] : i \in IRLsSeenAtStart}]
      /\ \A e \in Earlemes : yims[e] = {}
  BY BeforeInput DEF StartInput
<1> DEFINE item(i) == [ahm |-> First_AHM_of_IRL(i), origin |-> 0]
           C == {i \in IRLsSeenAtStart : IsAwaited(item(i))'}
<1>3. IRLsSeenAtStart \in SUBSET IRLs /\ PredictedAtStart[IRLsSeenAtStart] \subseteq IRLsSeenAtStart
  BY <1>2, SeenAtStart
<1>4. yims'[0] = {item(i) : i \in IRLsSeenAtStart}
  BY <1>1, <1>2 DEF TypeInv, TypeOK, ChartTypeOK
<1>5. \A i \in IRLs : item(i).ahm = First_AHM_of_IRL(i) /\ item(i).ahm.irl = i /\ item(i).origin = 0
  BY DEF First_AHM_of_IRL
<1> HIDE DEF item
<1>6. StartIRL \in C
  BY <1>2, <1>5, SeenAtStart DEF IsAwaited
<1>7. PredictedAtStart[C] \subseteq C
  <2> SUFFICES ASSUME NEW j \in PredictedAtStart[C]
               PROVE  j \in C
    OBVIOUS
  <2>1. C \in SUBSET IRLs
    BY <1>3
  <2>2. /\ j \in IRLs /\ evaluate_zwas(j)
        /\ \E i \in C : Postdot_NSYID_of_AHM(First_AHM_of_IRL(i)) = LHSID_of_IRL[j]
    BY <2>1 DEF PredictedAtStart
  <2>3. PICK i \in C : Postdot_NSYID_of_AHM(First_AHM_of_IRL(i)) = LHSID_of_IRL[j]
    BY <2>2
  <2>4. j \in IRLsSeenAtStart
    BY <1>3, <2>2, <2>3 DEF PredictedAtStart
  <2>5. item(i) \in yims'[0] /\ Postdot_NSYID_of_AHM(item(i).ahm) = LHSID_of_IRL[j]
    BY <1>3, <1>4, <1>5, <2>3
  <2>6. item(i) \in PIMs(item(j).origin, LHS_NSYID_of_YIM(item(j)))'
    BY <1>5, <2>2, <2>5 DEF PIMs, LHS_NSYID_of_YIM
  <2> QED
    BY <2>4, <2>6 DEF IsAwaited
<1>8. IRLsSeenAtStart \subseteq C
  <2> HIDE DEF C
  <2>1. C \in SUBSET IRLs
    BY <1>3 DEF C
  <2> QED
    BY <1>2, <1>6, <1>7, <2>1, SeenAtStart
<1>9. ASSUME NEW e \in Earlemes, NEW y \in yims'[e]
      PROVE  IsAwaited(y)'
  <2>1. e = 0
    BY <1>2, <1>9 DEF TypeInv, TypeOK, ChartTypeOK
  <2>2. PICK i \in IRLsSeenAtStart : y = item(i)
    BY <1>4, <1>9, <2>1
  <2>3. IsAwaited(item(i))'
    BY <1>8, <2>2
  <2> QED
    BY <2>2, <2>3, Zenon
<1> QED
  BY <1>2, <1>9 DEF OriginsInv

\* The items that a token advances are awaited.
LEMMA ScanOrigins ==
    ASSUME TypeInv, InputInv, ChartInv, OriginsInv, ScanAlternative
    PROVE  OriginsInv'
<1> DEFINE a == TopAlternative
           new == {Advance(p) : p \in PIMs(a.start, a.nsy)}
<1>1. alternatives # <<>> /\ current_earleme \in Earlemes
  BY ScanPopsEnd DEF TypeInv, TypeOK, ChartTypeOK, PhasesAgree, ScanAlternative
<1>2. a \in Alternatives
  BY <1>1, PopType DEF TypeInv, TypeOK, TopAlternative
<1>3. a.start \in Earlemes /\ a.nsy \in NSYs
  BY <1>2 DEF Alternatives
<1>4. UNCHANGED lims /\ yims' = [yims EXCEPT ![current_earleme] = @ \cup new]
  BY DEF ScanAlternative
<1> HIDE DEF a
<1>5. ASSUME NEW p \in PIMs(a.start, a.nsy)
      PROVE  IsAwaited(Advance(p)) /\ Advance(p).origin \in Earlemes
  <2>1. /\ p \in YIMs /\ p \in yims[a.start] /\ Postdot_NSYID_of_AHM(p.ahm) = a.nsy
        /\ Advance(p).origin = p.origin
    BY <1>3, PIMsType DEF PIMs, TypeInv
  <2> QED
    BY <1>3, <2>1, AdvanceAwaited DEF OriginsInv, YIMs
<1>6. \A y \in new : IsAwaited(y) /\ y.origin \in Earlemes
  BY <1>5
<1> HIDE DEF new
<1> QED
  BY <1>1, <1>4, <1>6, OriginsGrow

\* So are the items that a completion advances, and the effect of a Leo item.
LEMMA CompleteOrigins ==
    ASSUME TypeInv, ChartInv, OriginsInv, CompleteCause
    PROVE  OriginsInv'
<1>1. PICK cause \in completion_stack :
         CompleteWithLeo(cause) \/ CompleteWithPredecessors(cause)
  BY DEF CompleteCause
<1> DEFINE lhs == LHS_NSYID_of_YIM(cause)
<1>2. pc = "complete" /\ UNCHANGED lims
  BY DEF CompleteCause
<1>3. cause.origin \in Earlemes /\ current_earleme \in Earlemes /\ lhs \in NSYs
  BY <1>2, CauseFits
<1> HIDE DEF lhs
<1>4. CASE CompleteWithLeo(cause)
  <2> DEFINE k == <<cause.origin, lhs>>
             new == {LeoEffect(k)}
  <2>1. k \in DOMAIN lims /\ yims' = [yims EXCEPT ![current_earleme] = @ \cup new]
    BY <1>4 DEF CompleteWithLeo, LeoEffect, lhs
  <2> HIDE DEF k
  <2>2. IsAwaited(LeoEffect(k)) /\ LeoEffect(k).origin \in Earlemes
    BY <1>2, <2>1, EffectType DEF OriginsInv, TypeInv, PhasesAgree, LeoEffect, YIMs
  <2>3. \A y \in new : IsAwaited(y) /\ y.origin \in Earlemes
    BY <2>2
  <2> HIDE DEF new
  <2> QED
    BY <1>2, <1>3, <2>1, <2>3, OriginsGrow
<1>5. CASE CompleteWithPredecessors(cause)
  <2> DEFINE new == {Advance(p) : p \in PIMs(cause.origin, lhs)}
  <2>1. yims' = [yims EXCEPT ![current_earleme] = @ \cup new]
    BY <1>5 DEF CompleteWithPredecessors, lhs
  <2>2. ASSUME NEW p \in PIMs(cause.origin, lhs)
        PROVE  IsAwaited(Advance(p)) /\ Advance(p).origin \in Earlemes
    <3>1. /\ p \in YIMs /\ p \in yims[cause.origin] /\ Postdot_NSYID_of_AHM(p.ahm) = lhs
          /\ Advance(p).origin = p.origin
      BY <1>3, PIMsType DEF PIMs, TypeInv
    <3> QED
      BY <1>3, <3>1, AdvanceAwaited DEF OriginsInv, YIMs
  <2>3. \A y \in new : IsAwaited(y) /\ y.origin \in Earlemes
    BY <2>2
  <2> HIDE DEF new
  <2> QED
    BY <1>2, <1>3, <2>1, <2>3, OriginsGrow
<1> QED
  BY <1>1, <1>4, <1>5

\* A predicted rule is awaited by an item that was there, or by the first item
\* of another rule that is predicted with it.
LEMMA PredictOrigins ==
    ASSUME TypeInv, OriginsInv, AddPredictions
    PROVE  OriginsInv'
<1> DEFINE items == yims[current_earleme]
           predicted == UNION {Predicted_IRLs_of_AHM(y.ahm) : y \in items}
           item(i) == [ahm |-> First_AHM_of_IRL(i), origin |-> current_earleme]
           new == {item(i) : i \in predicted}
<1>1. /\ current_earleme \in Earlemes /\ UNCHANGED <<lims, current_earleme>>
      /\ yims' = [yims EXCEPT ![current_earleme] = @ \cup new]
  BY DEF AddPredictions, TypeInv, TypeOK, ChartTypeOK, PhasesAgree, clock
<1>2. yims'[current_earleme] = items \cup new
  BY <1>1 DEF TypeInv, TypeOK, ChartTypeOK
<1>3. ASSUME NEW i \in predicted
      PROVE  IsAwaited(item(i))'
  <2>1. PICK y \in items : i \in Predicted_IRLs_of_AHM(y.ahm)
    OBVIOUS
  <2>2. i \in IRLs /\ <<Postdot_NSYID_of_AHM(y.ahm), LHSID_of_IRL[i]>> \in PredictionMatrix
    BY <2>1 DEF Predicted_IRLs_of_AHM
  <2>3. Postdot_NSYID_of_AHM(y.ahm) \in NSYs /\ LHSID_of_IRL[i] \in NSYs
    BY <2>2, PredictionMatrixType
  <2>4. item(i)' = item(i) /\ item(i).ahm.irl = i /\ item(i).origin = current_earleme
    BY <1>1 DEF First_AHM_of_IRL
  <2>5. \E z \in items \cup new : Postdot_NSYID_of_AHM(z.ahm) = LHSID_of_IRL[i]
    <3>1. CASE Postdot_NSYID_of_AHM(y.ahm) = LHSID_of_IRL[i]
      BY <3>1
    <3>2. CASE \E j \in IRLs :
                  /\ <<Postdot_NSYID_of_AHM(y.ahm), LHSID_of_IRL[j]>> \in PredictionMatrix
                  /\ LHSID_of_IRL[i] = Postdot_NSYID_of_AHM(First_AHM_of_IRL(j))
      <4>1. PICK j \in IRLs :
                  /\ <<Postdot_NSYID_of_AHM(y.ahm), LHSID_of_IRL[j]>> \in PredictionMatrix
                  /\ LHSID_of_IRL[i] = Postdot_NSYID_of_AHM(First_AHM_of_IRL(j))
        BY <3>2
      <4>2. j \in Predicted_IRLs_of_AHM(y.ahm)
        BY <4>1 DEF Predicted_IRLs_of_AHM
      <4>3. item(j) \in new /\ item(j).ahm = First_AHM_of_IRL(j)
        BY <4>2
      <4> QED
        BY <4>1, <4>3
    <3> QED
      BY <2>2, <2>3, <3>1, <3>2, PredictionStep
  <2>6. PICK z \in yims'[current_earleme] : Postdot_NSYID_of_AHM(z.ahm) = LHSID_of_IRL[i]
    BY <1>2, <2>5
  <2> HIDE DEF item, new, predicted
  <2>7. PIMs(item(i).origin, LHS_NSYID_of_YIM(item(i)))' # {}
    BY <1>1, <2>4, <2>6 DEF PIMs, LHS_NSYID_of_YIM
  <2> QED
    BY <2>7 DEF IsAwaited
<1>4. \A y \in new : IsAwaited(y)'
  <2> SUFFICES ASSUME NEW i \in predicted, NEW y, y = item(i)
               PROVE  IsAwaited(y)'
    OBVIOUS
  <2> HIDE DEF new, predicted, items
  <2>1. IsAwaited(item(i))'
    BY <1>3
  <2>2. item(i)' = item(i)
    BY <1>1
  <2> HIDE DEF item
  <2> QED
    BY <2>1, <2>2, Zenon
<1> HIDE DEF new
<1> QED
  BY <1>1, <1>4, OriginsGrow

\* New Leo items have no effect until they are populated.
LEMMA StartLIMsOrigins ==
    ASSUME TypeInv, OriginsInv, StartLIMs
    PROVE  OriginsInv'
<1> DEFINE new == IF using_leo
                  THEN {<<current_earleme, n>> : n \in {m \in NSYs : LeoEligible(m)}} ELSE {}
<1>1. /\ UNCHANGED yims
      /\ lims' = [k \in DOMAIN lims \cup new |-> IF k \in new THEN NewLIM(k[2]) ELSE lims[k]]
  BY DEF StartLIMs
<1>2. \A k \in new : NewLIM(k[2]).origin = NoEarleme
  BY DEF NewLIM
<1> HIDE DEF new
<1>3. \A e \in Earlemes : \A y \in yims'[e] : IsAwaited(y)'
  BY <1>1 DEF OriginsInv, IsAwaited, PIMs, LHS_NSYID_of_YIM
<1>4. ASSUME NEW k \in DOMAIN lims', LIM_is_Populated(k)'
      PROVE  IsAwaited(LeoEffect(k))'
  <2>1. k \notin new
    BY <1>1, <1>2, <1>4 DEF LIM_is_Populated
  <2>2. k \in DOMAIN lims /\ lims'[k] = lims[k]
    BY <1>1, <2>1
  <2>3. LIM_is_Populated(k) /\ LeoEffect(k)' = LeoEffect(k)
    BY <1>4, <2>2 DEF LIM_is_Populated, LeoEffect
  <2> QED
    BY <1>1, <2>2, <2>3 DEF OriginsInv, IsAwaited, PIMs, LHS_NSYID_of_YIM
<1> QED
  BY <1>3, <1>4 DEF OriginsInv

\* The effect of a Leo item is the trailhead advanced, or its predecessor's
\* effect, which are awaited.
LEMMA PopulateOrigins ==
    ASSUME TypeInv, ChartInv, OriginsInv, PopulateLIM
    PROVE  OriginsInv'
<1>1. PICK k \in DOMAIN lims :
         ~ LIM_is_Populated(k) /\ (PopulateFromBase(k) \/ PopulateFromPredecessor(k))
  BY DEF PopulateLIM
<1>2. UNCHANGED yims
  BY DEF PopulateLIM
<1>3. /\ k[1] \in Earlemes /\ k[2] \in NSYs /\ lims[k] \in LIMs
  BY LimsBehind
<1>4. /\ LimJustified(k) /\ LimAgrees(k)
  BY DEF ChartInv, LimsJustified, LimsAgree
<1> DEFINE p == lims[k].trailhead
<1>5. /\ p \in YIMs /\ p \in yims[k[1]] /\ Postdot_NSYID_of_AHM(p.ahm) = k[2]
  BY <1>3, <1>4 DEF LimJustified, LIMs, TypeInv, PhasesAgree
<1>6. lims[k].top = Next_AHM_of_AHM(p.ahm)
  BY <1>1, <1>4 DEF LimAgrees, Trailhead_AHM_of_LIM
<1>7. /\ DOMAIN lims' = DOMAIN lims /\ \A j \in DOMAIN lims : j # k => lims'[j] = lims[j]
      /\ \/ lims'[k].top = lims[k].top /\ lims'[k].origin = p.origin
         \/ /\ PredecessorKey(k) \in DOMAIN lims /\ LIM_is_Populated(PredecessorKey(k))
            /\ lims'[k].top = lims[PredecessorKey(k)].top
            /\ lims'[k].origin = lims[PredecessorKey(k)].origin
  <2>1. CASE PopulateFromBase(k)
    BY <1>3, <2>1 DEF PopulateFromBase, LIMs
  <2>2. CASE PopulateFromPredecessor(k)
    BY <1>3, <2>2 DEF PopulateFromPredecessor, LIMs
  <2> QED
    BY <1>1, <2>1, <2>2
<1>8. \A y : IsAwaited(y) => IsAwaited(y)'
  BY <1>2 DEF IsAwaited, PIMs, LHS_NSYID_of_YIM
<1>9. IsAwaited(LeoEffect(k)')
  <2>1. CASE lims'[k].top = lims[k].top /\ lims'[k].origin = p.origin
    <3>1. LeoEffect(k)' = Advance(p)
      BY <1>6, <2>1 DEF LeoEffect, Advance
    <3>2. IsAwaited(Advance(p))
      BY <1>3, <1>5, AdvanceAwaited DEF OriginsInv
    <3> QED
      BY <3>1, <3>2
  <2>2. CASE /\ PredecessorKey(k) \in DOMAIN lims /\ LIM_is_Populated(PredecessorKey(k))
             /\ lims'[k].top = lims[PredecessorKey(k)].top
             /\ lims'[k].origin = lims[PredecessorKey(k)].origin
    <3>1. LeoEffect(k)' = LeoEffect(PredecessorKey(k))
      BY <2>2 DEF LeoEffect
    <3>2. IsAwaited(LeoEffect(PredecessorKey(k)))
      BY <2>2 DEF OriginsInv
    <3> QED
      BY <3>1, <3>2
  <2> QED
    BY <1>7, <2>1, <2>2
<1>10. ASSUME NEW j \in DOMAIN lims', LIM_is_Populated(j)'
       PROVE  IsAwaited(LeoEffect(j))'
  <2>1. IsAwaited(LeoEffect(j)')
    <3>1. CASE j = k
      BY <1>9, <3>1
    <3>2. CASE j # k
      <4>1. j \in DOMAIN lims /\ LeoEffect(j)' = LeoEffect(j) /\ LIM_is_Populated(j)
        BY <1>7, <1>10, <3>2 DEF LeoEffect, LIM_is_Populated
      <4> QED
        BY <4>1 DEF OriginsInv
    <3> QED
      BY <3>1, <3>2
  <2> QED
    BY <1>2, <2>1 DEF IsAwaited, PIMs, LHS_NSYID_of_YIM
<1> QED
  BY <1>2, <1>8, <1>10 DEF OriginsInv

\* The calls that leave the items alone.
LEMMA ReadsOrigins ==
    ASSUME TypeInv, ChartInv, OriginsInv,
           Reads \/ Settings \/ PrePopulateCompletions \/ EarlemeCompleteEnds \/ UNCHANGED vars
    PROVE  OriginsInv'
<1>1. CASE UNCHANGED <<yims, lims>>
  BY <1>1 DEF OriginsInv, IsAwaited, PIMs, LHS_NSYID_of_YIM, LeoEffect, LIM_is_Populated
<1>2. CASE StartInput
  BY <1>2, StartInputOrigins
<1>3. CASE Settings \/ PrePopulateCompletions \/ EarlemeCompleteEnds \/ UNCHANGED vars
  <2>1. UNCHANGED <<yims, lims>>
    BY <1>3 DEF Settings, SymbolActivate, SymbolDeactivate, ExpectedSymbolEventSet, ZWADefaultSet,
                IsUseLeoSet, WarningThresholdSet, PrePopulateCompletions, EarlemeCompleteEnds,
                chart, vars
  <2> QED
    BY <1>1, <2>1
<1>4. CASE \E x \in XSYs, v \in TokenValues, length \in TokenLengths :
             \/ AlternativeFails(x, v, length) \/ AlternativeRejected(x, v, length)
             \/ Alternative(x, v, length)
  <2>1. UNCHANGED <<yims, lims>>
    BY <1>4 DEF AlternativeFails, AlternativeRejected, Alternative, chart
  <2> QED
    BY <1>1, <2>1
<1>5. CASE \/ StartInputFails \/ StartInputTrivial \/ EarlemeCompleteFails
           \/ EarlemeCompleteExhausts \/ EarlemeCompleteEmpty \/ EarlemeCompleteBegins
           \/ CleanFails \/ Clean
  <2>1. UNCHANGED <<yims, lims>>
    BY <1>5 DEF StartInputFails, StartInputTrivial, EarlemeCompleteFails, EarlemeCompleteExhausts,
                EarlemeCompleteEmpty, EarlemeCompleteBegins, CleanFails, Clean, chart
  <2> QED
    BY <1>1, <2>1
<1> QED
  BY <1>2, <1>3, <1>4, <1>5 DEF Reads

LEMMA NextOrigins ==
    TypeInv /\ InputInv /\ ChartInv /\ OriginsInv /\ [Next]_vars => OriginsInv'
<1> SUFFICES ASSUME TypeInv, InputInv, ChartInv, OriginsInv, [Next]_vars PROVE OriginsInv'
  OBVIOUS
<1>1. CASE EarlemeCompleteSteps
  BY <1>1, ScanOrigins, CompleteOrigins, PredictOrigins, StartLIMsOrigins, PopulateOrigins,
     ReadsOrigins DEF EarlemeCompleteSteps
<1>2. CASE Reads \/ Settings \/ UNCHANGED vars
  BY <1>2, ReadsOrigins
<1> QED
  BY <1>1, <1>2 DEF Next

LEMMA OriginsAlways == Spec => []OriginsInv
<1>1. Init => OriginsInv
  BY DEF Init, OriginsInv
<1> QED
  BY <1>1, NextOrigins, TypeCorrect, InputCorrect, ChartSound, PTL DEF Spec

\* "Find predecessor LIM", and marpa_b_new with it, may take for granted that
\* the Earley set where an item starts has postdot items for its left side,
\* whatever the grammar, the assertions that fail and the calls made.
THEOREM OriginsAwait == Spec => []OriginsPredict
<1>1. TypeInv /\ OriginsInv => OriginsPredict
  BY DEF OriginsInv, OriginsPredict, IsAwaited, TypeInv, TypeOK, ChartTypeOK
<1> QED
  BY <1>1, TypeCorrect, OriginsAlways, PTL

-----------------------------------------------------------------------------
(* Every completion is used once. *)

\* While an Earley set is filled, its items have sources; the completions that
\* are still on the stack have not been used.
CausesInv ==
    /\ pc = "scan" => LinkedCauses = {}
    /\ pc \in {"scan", "complete"} => \A y \in yims[current_earleme] : ~ HasNoSource(y)
    /\ pc = "complete" => \A y \in completion_stack : y \notin LinkedCauses

\* No Earley set later than the current one has links.
LEMMA NoLinksAhead ==
    ASSUME TypeInv, ChartInv, current_earleme' = current_earleme + 1, current_earleme' \in Earlemes,
           UNCHANGED <<completion_links, leo_links>>
    PROVE  LinkedCauses' = {}
<1>1. yims[current_earleme'] = {}
  BY DEF ChartInv, ItemsAgree, TypeInv, TypeOK, ClockTypeOK, Earlemes, NoEarleme
<1>2. \A l \in completion_links \cup leo_links : l.cause \in yims[l.at]
  BY DEF ChartInv, LinksJustified, CompletionLinkJustified, LeoLinkJustified
<1> QED
  BY <1>1, <1>2 DEF LinkedCauses

\* An item with a source keeps it.
LEMMA SourcesStay ==
    ASSUME UNCHANGED current_earleme, token_links \subseteq token_links',
           completion_links \subseteq completion_links', leo_links \subseteq leo_links',
           NEW y, ~ HasNoSource(y)
    PROVE  ~ HasNoSource(y)'
  BY DEF HasNoSource

LEMMA ScanCauses ==
    ASSUME TypeInv, CausesInv, ScanAlternative
    PROVE  CausesInv'
<1> DEFINE a == TopAlternative
           predecessors == PIMs(a.start, a.nsy)
           new == {Advance(p) : p \in predecessors}
<1>1. /\ pc = "scan" /\ pc' = "scan" /\ UNCHANGED <<current_earleme, completion_links, leo_links>>
      /\ yims' = [yims EXCEPT ![current_earleme] = @ \cup new]
      /\ token_links' = token_links \cup
            {[at |-> current_earleme, yim |-> Advance(p), predecessor |-> p, token |-> a] :
                p \in predecessors}
  BY DEF ScanAlternative, clock
<1> HIDE DEF a
<1>2. yims'[current_earleme] = yims[current_earleme] \cup new
  BY <1>1 DEF TypeInv, TypeOK, ChartTypeOK, PhasesAgree
<1>3. ASSUME NEW y \in yims'[current_earleme]
      PROVE  ~ HasNoSource(y)'
  <2>1. CASE y \in yims[current_earleme]
    BY <1>1, <2>1, SourcesStay DEF CausesInv
  <2>2. CASE y \in new
    <3>1. PICK p \in predecessors : y = Advance(p)
      BY <2>2
    <3> DEFINE l == [at |-> current_earleme, yim |-> Advance(p), predecessor |-> p, token |-> a]
    <3>2. l \in token_links' /\ l.at = current_earleme /\ l.yim = y
      BY <1>1, <3>1
    <3> QED
      BY <1>1, <3>2 DEF HasNoSource
  <2> QED
    BY <1>2, <2>1, <2>2
<1>4. LinkedCauses' = LinkedCauses
  BY <1>1 DEF LinkedCauses
<1> QED
  BY <1>1, <1>3, <1>4 DEF CausesInv

\* A completion that a step takes from the stack is linked, unless it is the
\* start rule's; whatever the step puts on the stack is new to the set.
LEMMA CauseUsed ==
    ASSUME TypeInv, ChartInv, OriginsInv, CausesInv, CompleteCause
    PROVE  /\ CausesInv'
           /\ \E cause \in completion_stack \ completion_stack' :
                 /\ cause \notin LinkedCauses
                 /\ LinkedCauses' = LinkedCauses \cup
                       (IF cause.ahm.irl = StartIRL THEN {} ELSE {cause})
<1>1. PICK cause \in completion_stack :
         CompleteWithLeo(cause) \/ CompleteWithPredecessors(cause)
  BY DEF CompleteCause
<1> DEFINE lhs == LHS_NSYID_of_YIM(cause)
<1>2. /\ pc = "complete" /\ pc' = "complete" /\ UNCHANGED <<current_earleme, token_links>>
  BY DEF CompleteCause, clock
<1>3. /\ cause \in yims[current_earleme] /\ cause.origin \in Earlemes
      /\ current_earleme \in Earlemes /\ lhs \in NSYs /\ cause \in YIMs
  BY <1>2, CauseFits DEF TypeInv, TypeOK, ChartTypeOK
<1>4. cause \notin LinkedCauses /\ ~ HasNoSource(cause)
  BY <1>2, <1>3 DEF CausesInv
<1>5. LinkedCauses \subseteq yims[current_earleme]
  BY DEF ChartInv, LinksJustified, CompletionLinkJustified, LeoLinkJustified, LinkedCauses
<1>6. cause.ahm.irl = StartIRL <=> PIMs(cause.origin, lhs) = {}
  <2>1. cause.ahm.irl = StartIRL => PIMs(cause.origin, lhs) = {}
    <3> SUFFICES ASSUME cause.ahm.irl = StartIRL, NEW p \in PIMs(cause.origin, lhs) PROVE FALSE
      OBVIOUS
    <3>1. p \in YIMs /\ Postdot_NSYID_of_AHM(p.ahm) = lhs
      BY <1>3, PIMsType DEF TypeInv, PIMs
    <3>2. StartIRL \in IRLs /\ lhs = LHSID_of_IRL[StartIRL]
      BY <1>3, AHMParts DEF YIMs, LHS_NSYID_of_YIM
    <3> QED
      BY <3>1, <3>2, StartNotPostdot DEF YIMs
  <2>2. IsAwaited(cause)
    BY <1>3 DEF OriginsInv
  <2> QED
    BY <2>1, <2>2 DEF IsAwaited
<1> HIDE DEF lhs
<1>7. ASSUME NEW new, NEW newLinks,
             yims' = [yims EXCEPT ![current_earleme] = @ \cup new],
             \A y \in new : ~ HasNoSource(y)',
             completion_links \subseteq completion_links', leo_links \subseteq leo_links',
             \A y \in completion_stack' : y \in completion_stack \ {cause} \/ HasNoSource(y),
             LinkedCauses' = LinkedCauses \cup newLinks,
             newLinks = IF PIMs(cause.origin, lhs) = {} THEN {} ELSE {cause}
      PROVE  /\ CausesInv'
             /\ \E c \in completion_stack \ completion_stack' :
                   /\ c \notin LinkedCauses
                   /\ LinkedCauses' = LinkedCauses \cup (IF c.ahm.irl = StartIRL THEN {} ELSE {c})
  <2>1. yims'[current_earleme] = yims[current_earleme] \cup new
    BY <1>3, <1>7 DEF TypeInv, TypeOK, ChartTypeOK
  <2>2. \A y \in yims'[current_earleme] : ~ HasNoSource(y)'
    BY <1>2, <1>7, <2>1, SourcesStay DEF CausesInv
  <2>3. \A y \in completion_stack' : y \notin LinkedCauses'
    <3>1. \A y \in completion_stack : y \notin LinkedCauses
      BY <1>2 DEF CausesInv
    <3>2. \A y \in LinkedCauses \cup {cause} : ~ HasNoSource(y)
      BY <1>2, <1>4, <1>5 DEF CausesInv
    <3> QED
      BY <1>7, <3>1, <3>2
  <2>4. cause \notin completion_stack'
    BY <1>4, <1>7
  <2> QED
    BY <1>1, <1>2, <1>4, <1>6, <1>7, <2>2, <2>3, <2>4 DEF CausesInv
<1>8. CASE CompleteWithLeo(cause)
  <2> DEFINE k == <<cause.origin, lhs>>
  <2>1. PICK effect : effect = LeoEffect(k)
    OBVIOUS
  <2> DEFINE l == [at |-> current_earleme, yim |-> effect, predecessor |-> k, cause |-> cause]
             new == {effect}
  <2>2. /\ k \in DOMAIN lims /\ yims' = [yims EXCEPT ![current_earleme] = @ \cup new]
        /\ leo_links' = leo_links \cup {l} /\ UNCHANGED completion_links
        /\ completion_stack' = (completion_stack \ {cause})
              \cup (IF HasNoSource(effect) THEN {effect} ELSE {})
    BY <1>8, <2>1 DEF CompleteWithLeo, LeoEffect, lhs
  <2>3. l.at = current_earleme /\ l.yim = effect /\ l.cause = cause
    OBVIOUS
  <2>4. PIMs(cause.origin, lhs) # {}
    <3>1. k[1] = cause.origin /\ k[2] = lhs
      OBVIOUS
    <3> HIDE DEF k
    <3>2. LimJustified(k)
      BY <2>2 DEF ChartInv, LimsJustified
    <3> QED
      BY <3>1, <3>2 DEF LimJustified
  <2> HIDE DEF l
  <2>5. LinkedCauses' = LinkedCauses \cup {cause}
    BY <1>2, <2>2, <2>3 DEF LinkedCauses
  <2>6. ~ HasNoSource(effect)'
    BY <1>2, <2>2, <2>3 DEF HasNoSource
  <2>7. \A y \in new : ~ HasNoSource(y)'
    BY <2>6
  <2>8. \A y \in completion_stack' : y \in completion_stack \ {cause} \/ HasNoSource(y)
    BY <2>2
  <2> HIDE DEF new
  <2> QED
    BY <1>7, <2>2, <2>4, <2>5, <2>7, <2>8
<1>9. CASE CompleteWithPredecessors(cause)
  <2> DEFINE predecessors == PIMs(cause.origin, lhs)
             new == {Advance(p) : p \in predecessors}
             link(p) == [at |-> current_earleme, yim |-> Advance(p), predecessor |-> p, cause |-> cause]
  <2>1. /\ yims' = [yims EXCEPT ![current_earleme] = @ \cup new]
        /\ completion_links' = completion_links \cup {link(p) : p \in predecessors}
        /\ UNCHANGED leo_links
        /\ completion_stack' = (completion_stack \ {cause})
              \cup {y \in new : AHM_is_Completion(y.ahm) /\ HasNoSource(y)}
    BY <1>9 DEF CompleteWithPredecessors, lhs
  <2>2. \A p : link(p).at = current_earleme /\ link(p).yim = Advance(p) /\ link(p).cause = cause
    OBVIOUS
  <2> HIDE DEF link
  <2>3. ASSUME NEW y \in new
        PROVE  ~ HasNoSource(y)'
    <3>1. PICK p \in predecessors : y = Advance(p)
      OBVIOUS
    <3>2. link(p) \in completion_links' /\ link(p).at = current_earleme' /\ link(p).yim = y
      BY <1>2, <2>1, <2>2, <3>1
    <3> QED
      BY <3>2 DEF HasNoSource
  <2>4. LinkedCauses' = LinkedCauses \cup (IF predecessors = {} THEN {} ELSE {cause})
    BY <1>2, <2>1, <2>2 DEF LinkedCauses
  <2>5. \A y \in completion_stack' : y \in completion_stack \ {cause} \/ HasNoSource(y)
    BY <2>1
  <2> HIDE DEF new
  <2> QED
    BY <1>7, <2>1, <2>3, <2>4, <2>5
<1> QED
  BY <1>1, <1>8, <1>9

\* The steps that are not part of the completion loop.
LEMMA OtherCauses ==
    ASSUME TypeInv, TypeInv', ChartInv, CausesInv, [Next]_vars, ~ CompleteCause
    PROVE  CausesInv' /\ (pc = "complete" /\ pc' = "complete" => UNCHANGED vars)
<1>1. CASE UNCHANGED vars
  BY <1>1 DEF vars, chart, clock, links, CausesInv, LinkedCauses, HasNoSource
<1>2. CASE ScanAlternative
  BY <1>2, ScanCauses DEF ScanAlternative
<1>3. CASE PrePopulateCompletions
  BY <1>3 DEF PrePopulateCompletions, clock, links, CausesInv, LinkedCauses, HasNoSource
<1>4. CASE EarlemeCompleteBegins
  <2>1. current_earleme' \in Earlemes /\ yims'[current_earleme'] = {}
    BY <1>4 DEF EarlemeCompleteBegins, ChartInv, ItemsAgree, TypeInv, TypeOK, ChartTypeOK,
                ClockTypeOK, PhasesAgree, Earlemes, NoEarleme
  <2>2. LinkedCauses' = {}
    BY <1>4, <2>1, NoLinksAhead DEF EarlemeCompleteBegins, links
  <2> QED
    BY <1>4, <2>1, <2>2 DEF EarlemeCompleteBegins, CausesInv
<1>5. CASE AddPredictions \/ StartLIMs \/ PopulateLIM \/ EarlemeCompleteEnds
  <2>1. pc' \notin {"scan", "complete"}
    BY <1>5 DEF AddPredictions, StartLIMs, PopulateLIM, EarlemeCompleteEnds
  <2> QED
    BY <2>1 DEF CausesInv
<1>6. CASE Settings \/ (Reads /\ ~ EarlemeCompleteBegins)
  <2>1. pc' = "idle"
    <3>1. CASE Settings
      BY <3>1 DEF Settings, SymbolActivate, SymbolDeactivate, ExpectedSymbolEventSet,
                  ZWADefaultSet, IsUseLeoSet, WarningThresholdSet
    <3>2. CASE \E x \in XSYs, v \in TokenValues, length \in TokenLengths :
                 \/ AlternativeFails(x, v, length) \/ AlternativeRejected(x, v, length)
                 \/ Alternative(x, v, length)
      BY <3>2 DEF AlternativeFails, AlternativeRejected, Alternative, PassesInitialChecks
    <3>3. CASE \/ StartInputFails \/ StartInputTrivial \/ StartInput \/ EarlemeCompleteFails
               \/ EarlemeCompleteExhausts \/ EarlemeCompleteEmpty \/ CleanFails \/ Clean
      BY <3>3 DEF StartInputFails, StartInputTrivial, StartInput, EarlemeCompleteFails,
                  EarlemeCompleteExhausts, EarlemeCompleteEmpty, CleanFails, Clean
    <3> QED
      BY <1>6, <3>1, <3>2, <3>3 DEF Reads
  <2> QED
    BY <2>1 DEF CausesInv
<1> QED
  <2>1. \/ ScanAlternative \/ PrePopulateCompletions \/ CompleteCause \/ AddPredictions
        \/ StartLIMs \/ PopulateLIM \/ EarlemeCompleteEnds \/ Reads \/ Settings \/ UNCHANGED vars
    BY DEF Next, EarlemeCompleteSteps
  <2>2. ScanAlternative \/ PrePopulateCompletions \/ EarlemeCompleteBegins
        => ~ (pc = "complete" /\ pc' = "complete")
    BY DEF ScanAlternative, PrePopulateCompletions, EarlemeCompleteBegins
  <2>3. AddPredictions \/ StartLIMs \/ PopulateLIM \/ EarlemeCompleteEnds => pc' # "complete"
    BY DEF AddPredictions, StartLIMs, PopulateLIM, EarlemeCompleteEnds
  <2> QED
    BY <1>1, <1>2, <1>3, <1>4, <1>5, <1>6, <2>1, <2>2, <2>3

\* No completion of an Earley set is used twice: a source link is added once
\* for each derivation, however many ways lead to the completion, and though
\* the completion loop does not look for duplicates among the links.
THEOREM CausesOnce == Spec => CausesProcessedOnce
<1>1. Init => CausesInv
  BY DEF Init, CausesInv
<1>2. TypeInv /\ TypeInv' /\ ChartInv /\ OriginsInv /\ CausesInv /\ [Next]_vars => CausesInv'
  BY CauseUsed, OtherCauses
<1>3. Spec => []CausesInv
  BY <1>1, <1>2, TypeCorrect, ChartSound, OriginsAlways, PTL DEF Spec
<1> DEFINE Used ==
      \E cause \in completion_stack \ completion_stack' :
         /\ cause \notin LinkedCauses
         /\ LinkedCauses' = LinkedCauses \cup (IF cause.ahm.irl = StartIRL THEN {} ELSE {cause})
<1>4. TypeInv /\ TypeInv' /\ ChartInv /\ OriginsInv /\ CausesInv /\ [Next]_vars
      => [pc = "complete" /\ pc' = "complete" => Used]_vars
  BY CauseUsed, OtherCauses
<1>5. CausesProcessedOnce <=> [][pc = "complete" /\ pc' = "complete" => Used]_vars
  BY DEF CausesProcessedOnce
<1> HIDE DEF Used
<1> QED
  BY <1>3, <1>4, <1>5, TypeCorrect, ChartSound, OriginsAlways, PTL DEF Spec
=============================================================================
