------------------------- MODULE MarpaObjects_proofs -------------------------
(***************************************************************************)
(* The reference counts, for any number of objects and references: no object *)
(* is freed while another needs it, and when the application has given back *)
(* what it holds nothing is left but the leaked bocages and their grammars; *)
(* valuators and trees stand on what does not change.                      *)
(***************************************************************************)
EXTENDS MarpaObjects, FiniteSetTheorems, TLAPS

-----------------------------------------------------------------------------
(* The references of the objects: the inductive invariant *)

Leak(x) == IF x \in leaked THEN 1 ELSE 0

\* Each count is that of the references there are, and there is one at least.
CountsInv ==
    /\ IsFiniteSet(alive)
    /\ \A x \in alive : refs[x] > 0 /\ refs[x] = held[x] + Cardinality(Children(x)) + Leak(x)

\* What an object references is alive, and of the right class.
ParentsInv ==
    \A x \in alive :
       /\ kind[x] = "G" => parent[x] = NoObject
       /\ kind[x] # "G" => parent[x] \in alive /\ kind[parent[x]] = Parent_of_Kind[kind[x]]

\* The application holds no freed object, and no leaked one, which therefore
\* stays without children.
HeldInv ==
    /\ \A x \in Objects \ alive : held[x] = 0
    /\ \A x \in leaked : kind[x] = "B" /\ held[x] = 0 /\ Children(x) = {}

ReferencesInv == ObjectsTypeOK /\ CountsInv /\ ParentsInv /\ HeldInv

\* A tree is made from a frozen order, and an address that was never used has
\* not been paused.
SnapshotsInv ==
    /\ SnapshotsHold
    /\ \A x \in alive : kind[x] = "T" => parent[x] \in frozen
    /\ \A x \in Objects : kind[x] = "none" => pause_counter[x] = 0

ObjectsInv == ReferencesInv /\ SnapshotsInv

-----------------------------------------------------------------------------
LEMMA ParentKinds ==
    /\ Parent_of_Kind["R"] = "G" /\ Parent_of_Kind["B"] = "G" /\ Parent_of_Kind["O"] = "B"
    /\ Parent_of_Kind["T"] = "O" /\ Parent_of_Kind["V"] = "T"
BY DEF Parent_of_Kind

\* No class of objects is its own parent class, and none has valuators for it.
LEMMA ParentKindIsProper ==
    ASSUME NEW k \in Kinds, k # "G"
    PROVE  /\ Parent_of_Kind[k] \in {"G", "B", "O", "T"}
           /\ Parent_of_Kind[k] = "T" => k = "V"
           /\ Parent_of_Kind[k] = "O" => k = "T"
           /\ Parent_of_Kind[k] = "B" => k = "O"
BY ParentKinds DEF Kinds

LEMMA ChildrenFinite ==
    ASSUME IsFiniteSet(alive), NEW y
    PROVE  IsFiniteSet(Children(y)) /\ Cardinality(Children(y)) \in Nat
<1>1. Children(y) \in SUBSET alive
  BY DEF Children
<1> QED
  BY <1>1, FS_Subset, FS_CardinalityType

\* The part of a finite set that is taken away and the part that is left.
LEMMA CardinalityOfRest ==
    ASSUME NEW S, NEW T, IsFiniteSet(S), T \subseteq S
    PROVE  /\ IsFiniteSet(T) /\ Cardinality(T) \in Nat
           /\ Cardinality(S \ T) \in Nat
           /\ Cardinality(S \ T) = Cardinality(S) - Cardinality(T)
           /\ T # S => Cardinality(T) < Cardinality(S)
<1>1. IsFiniteSet(T) /\ Cardinality(T) <= Cardinality(S) /\ (Cardinality(S) = Cardinality(T) => S = T)
  BY FS_Subset
<1>2. Cardinality(S) \in Nat /\ Cardinality(T) \in Nat
  BY <1>1, FS_CardinalityType
<1>3. IsFiniteSet(S \ T) /\ Cardinality(S \ T) \in Nat
  BY FS_Subset, FS_CardinalityType, S \ T \in SUBSET S
<1>4. (S \ T) \cup T = S /\ (S \ T) \cap T = {}
  OBVIOUS
<1>5. Cardinality(S) = Cardinality(S \ T) + Cardinality(T) - Cardinality({})
  BY <1>1, <1>3, <1>4, FS_Union
<1> QED
  BY <1>1, <1>2, <1>3, <1>5, FS_EmptySet

-----------------------------------------------------------------------------
(* Making an object *)

\* The parent of a new object is alive, and not one that was lost.
MayBeMade(k, p, refs_of_app) ==
    /\ k \in Kinds /\ refs_of_app \in {0, 1}
    /\ IF k = "G" THEN p = NoObject
       ELSE p \in alive \ leaked /\ kind[p] = Parent_of_Kind[k]
    /\ refs_of_app = 0 => k = "B"

LEMMA NewChildren ==
    ASSUME ReferencesInv, NEW x, NEW k, NEW p, NEW refs_of_app,
           New(x, k, p, refs_of_app), MayBeMade(k, p, refs_of_app)
    PROVE  /\ x \in Objects \ alive /\ p # x
           /\ Children(x)' = {}
           /\ p \in alive => Children(p)' = Children(p) \cup {x} /\ x \notin Children(p)
           /\ \A y \in alive \ {p} : Children(y)' = Children(y)
<1>1. x \in Objects /\ x \notin alive /\ kind[x] = "none"
  BY DEF New, ReferencesInv, ObjectsTypeOK
<1>2. \A c \in alive : parent[c] # x /\ parent'[c] = parent[c]
  <2>1. SUFFICES ASSUME NEW c \in alive PROVE parent[c] # x /\ parent'[c] = parent[c]
    OBVIOUS
  <2>2. parent[c] # x
    BY <1>1, ObjectsAssumption DEF ReferencesInv, ParentsInv
  <2> QED
    BY <1>1, <2>2 DEF New, ReferencesInv, ObjectsTypeOK
<1>3. p # x
  BY <1>1, ObjectsAssumption DEF MayBeMade
<1>4. alive' = alive \cup {x} /\ parent'[x] = p
  BY <1>1 DEF New, ReferencesInv, ObjectsTypeOK
<1> QED
  BY <1>1, <1>2, <1>3, <1>4 DEF Children

\* What a constructor writes, and that it stays within the types.
LEMMA NewUpdates ==
    ASSUME ReferencesInv, NEW x, NEW k, NEW p, NEW refs_of_app,
           New(x, k, p, refs_of_app), MayBeMade(k, p, refs_of_app)
    PROVE  /\ alive' = alive \cup {x}
           /\ \A y \in Objects : y # x => /\ kind'[y] = kind[y] /\ parent'[y] = parent[y]
                                          /\ held'[y] = held[y]
                                          /\ refs'[y] = IF y = p THEN refs[y] + 1 ELSE refs[y]
           /\ kind'[x] = k /\ parent'[x] = p /\ held'[x] = refs_of_app /\ refs'[x] = 1
           /\ kind' \in [Objects -> Kinds \cup {"none"}]
           /\ parent' \in [Objects -> Objects \cup {NoObject}]
           /\ alive' \subseteq {y \in Objects : kind'[y] # "none"}
           /\ refs' \in [Objects -> Nat] /\ held' \in [Objects -> Nat]
<1> USE DEF ReferencesInv
<1>1. x \in Objects \ alive /\ p # x
  BY NewChildren
<1>2. /\ alive' = alive \cup {x}
      /\ \A y \in Objects : y # x => /\ kind'[y] = kind[y] /\ parent'[y] = parent[y]
                                     /\ held'[y] = held[y]
                                     /\ refs'[y] = IF y = p THEN refs[y] + 1 ELSE refs[y]
      /\ kind'[x] = k /\ parent'[x] = p /\ held'[x] = refs_of_app /\ refs'[x] = 1
  BY <1>1 DEF New, ObjectsTypeOK
<1>3. kind' \in [Objects -> Kinds \cup {"none"}] /\ parent' \in [Objects -> Objects \cup {NoObject}]
  BY <1>1 DEF New, ObjectsTypeOK, MayBeMade
<1>4. alive' \subseteq {y \in Objects : kind'[y] # "none"}
  BY <1>1, <1>2 DEF ObjectsTypeOK, MayBeMade, Kinds
<1>5. refs' \in [Objects -> Nat] /\ held' \in [Objects -> Nat]
  BY <1>1 DEF New, ObjectsTypeOK, MayBeMade
<1> QED
  BY <1>2, <1>3, <1>4, <1>5

LEMMA NewKeepsReferences ==
    ASSUME ReferencesInv, NEW x, NEW k, NEW p, NEW refs_of_app,
           New(x, k, p, refs_of_app), MayBeMade(k, p, refs_of_app),
           leaked' = IF refs_of_app = 1 THEN leaked ELSE leaked \cup {x}
    PROVE  CountsInv' /\ ParentsInv' /\ HeldInv'
<1> USE DEF ReferencesInv
<1>1. /\ x \in Objects \ alive /\ p # x
      /\ Children(x)' = {}
      /\ p \in alive => Children(p)' = Children(p) \cup {x} /\ x \notin Children(p)
      /\ \A y \in alive \ {p} : Children(y)' = Children(y)
  BY NewChildren
<1>2. /\ alive' = alive \cup {x}
      /\ \A y \in Objects : y # x => /\ kind'[y] = kind[y] /\ parent'[y] = parent[y]
                                     /\ held'[y] = held[y]
                                     /\ refs'[y] = IF y = p THEN refs[y] + 1 ELSE refs[y]
      /\ kind'[x] = k /\ parent'[x] = p /\ held'[x] = refs_of_app /\ refs'[x] = 1
  BY NewUpdates
<1>3. alive \subseteq Objects /\ leaked \subseteq alive
  BY DEF ObjectsTypeOK
<1>4. CountsInv'
  <2>1. IsFiniteSet(alive')
    BY <1>2, FS_AddElement DEF CountsInv
  <2>2. refs'[x] > 0 /\ refs'[x] = held'[x] + Cardinality(Children(x)') + Leak(x)'
    <3>1. Leak(x)' = IF refs_of_app = 1 THEN 0 ELSE 1
      BY <1>1, <1>3 DEF Leak
    <3> QED
      BY <1>1, <1>2, <3>1, FS_EmptySet DEF MayBeMade
  <2>3. ASSUME NEW y \in alive, y # p
        PROVE  refs'[y] > 0 /\ refs'[y] = held'[y] + Cardinality(Children(y)') + Leak(y)'
    <3>1. y # x /\ Leak(y)' = Leak(y) /\ Children(y)' = Children(y) /\ y \in Objects
      BY <1>1, <1>3, <2>3 DEF Leak
    <3> QED
      BY <1>2, <2>3, <3>1 DEF CountsInv
  <2>4. ASSUME p \in alive
        PROVE  refs'[p] > 0 /\ refs'[p] = held'[p] + Cardinality(Children(p)') + Leak(p)'
    <3>1. Leak(p)' = Leak(p) /\ p \in Objects
      BY <1>1, <1>3, <2>4 DEF Leak
    <3>2. IsFiniteSet(Children(p)) /\ Cardinality(Children(p)) \in Nat
      BY ChildrenFinite DEF CountsInv
    <3>3. Cardinality(Children(p)') = Cardinality(Children(p)) + 1
      BY <1>1, <2>4, <3>2, FS_AddElement
    <3>4. refs[p] > 0 /\ refs[p] = held[p] + Cardinality(Children(p)) + Leak(p)
      BY <2>4 DEF CountsInv
    <3>5. refs'[p] = refs[p] + 1 /\ held'[p] = held[p] /\ held[p] \in Nat /\ refs[p] \in Nat
      BY <1>1, <1>2, <3>1 DEF ObjectsTypeOK
    <3>6. Leak(p) \in Nat
      BY DEF Leak
    <3> QED
      BY <3>1, <3>2, <3>3, <3>4, <3>5, <3>6
  <2> QED
    BY <1>2, <2>1, <2>2, <2>3, <2>4 DEF CountsInv
<1>5. ParentsInv'
  <2>1. ASSUME NEW y \in alive
        PROVE  /\ kind'[y] = "G" => parent'[y] = NoObject
               /\ kind'[y] # "G" =>
                     parent'[y] \in alive' /\ kind'[parent'[y]] = Parent_of_Kind[kind'[y]]
    <3>1. y # x /\ y \in Objects
      BY <1>1, <1>3
    <3>2. kind'[y] = kind[y] /\ parent'[y] = parent[y]
      BY <1>2, <3>1
    <3>3. kind[y] # "G" => parent[y] \in alive /\ kind'[parent[y]] = kind[parent[y]]
      BY <1>1, <1>2, <1>3 DEF ParentsInv
    <3> QED
      BY <1>2, <3>2, <3>3 DEF ParentsInv
  <2>2. /\ kind'[x] = "G" => parent'[x] = NoObject
        /\ kind'[x] # "G" =>
              parent'[x] \in alive' /\ kind'[parent'[x]] = Parent_of_Kind[kind'[x]]
    BY <1>1, <1>2, <1>3 DEF MayBeMade
  <2> QED
    BY <1>2, <2>1, <2>2 DEF ParentsInv
<1>6. HeldInv'
  <2>1. \A y \in Objects \ alive' : held'[y] = 0
    BY <1>2 DEF HeldInv
  <2>2. ASSUME NEW y \in leaked
        PROVE  kind'[y] = "B" /\ held'[y] = 0 /\ Children(y)' = {}
    <3>1. y # x /\ y \in alive /\ y \in Objects
      BY <1>1, <1>3
    <3>2. y # p
      BY <2>2, <3>1, ObjectsAssumption DEF MayBeMade
    <3> QED
      BY <1>1, <1>2, <3>1, <3>2 DEF HeldInv
  <2>3. ASSUME x \in leaked'
        PROVE  kind'[x] = "B" /\ held'[x] = 0 /\ Children(x)' = {}
    BY <1>1, <1>2, <1>3, <2>3 DEF MayBeMade
  <2> QED
    BY <2>1, <2>2, <2>3 DEF HeldInv
<1> QED
  BY <1>4, <1>5, <1>6

-----------------------------------------------------------------------------
(* Giving back a reference *)

FreedBy(x, freed) ==
    freed = {y \in alive : Dropped(x, freed, y) > 0 /\ refs[y] <= Dropped(x, freed, y)}

FreedChildren(freed, y) == {c \in freed : parent[c] = y}
Own(x, y) == IF y = x THEN 1 ELSE 0

\* How many references to an object go: never more than there are.
LEMMA DroppedBounds ==
    ASSUME ReferencesInv, NEW x \in alive, held[x] > 0, NEW freed \in SUBSET alive,
           NEW y \in Objects
    PROVE  /\ FreedChildren(freed, y) \subseteq Children(y)
           /\ Cardinality(FreedChildren(freed, y)) \in Nat
           /\ Dropped(x, freed, y) = Cardinality(FreedChildren(freed, y)) + Own(x, y)
           /\ held[y] >= Own(x, y)
           /\ Cardinality(Children(y)) >= Cardinality(FreedChildren(freed, y))
           /\ Cardinality(Children(y) \ FreedChildren(freed, y))
                 = Cardinality(Children(y)) - Cardinality(FreedChildren(freed, y))
           /\ FreedChildren(freed, y) # Children(y)
                 => Cardinality(Children(y)) > Cardinality(FreedChildren(freed, y))
           /\ y \notin alive => Dropped(x, freed, y) = 0
<1> USE DEF ReferencesInv
<1>1. FreedChildren(freed, y) \subseteq Children(y)
  BY DEF FreedChildren, Children
<1>2. IsFiniteSet(Children(y)) /\ Cardinality(Children(y)) \in Nat
  BY ChildrenFinite DEF CountsInv
<1>3. /\ Cardinality(FreedChildren(freed, y)) \in Nat
      /\ Cardinality(Children(y) \ FreedChildren(freed, y)) \in Nat
      /\ Cardinality(Children(y) \ FreedChildren(freed, y))
            = Cardinality(Children(y)) - Cardinality(FreedChildren(freed, y))
      /\ FreedChildren(freed, y) # Children(y)
            => Cardinality(FreedChildren(freed, y)) < Cardinality(Children(y))
  BY <1>1, <1>2, CardinalityOfRest
<1>4. Dropped(x, freed, y) = Cardinality(FreedChildren(freed, y)) + Own(x, y)
  BY DEF Dropped, FreedChildren, Own
<1>5. held[y] >= Own(x, y)
  BY DEF Own, ObjectsTypeOK
<1>6. y \notin alive => Dropped(x, freed, y) = 0
  <2>1. ASSUME y \notin alive PROVE Children(y) = {}
    <3>1. \A c \in alive : parent[c] = NoObject \/ parent[c] \in alive
      BY DEF ParentsInv
    <3> QED
      BY <2>1, <3>1, ObjectsAssumption DEF Children
  <2>2. ASSUME y \notin alive PROVE FreedChildren(freed, y) = {}
    BY <1>1, <2>1, <2>2
  <2>3. ASSUME y \notin alive PROVE Dropped(x, freed, y) = 0
    BY <1>4, <2>2, <2>3, FS_EmptySet DEF Own
  <2> QED
    BY <2>3
<1> QED
  BY <1>1, <1>2, <1>3, <1>4, <1>5, <1>6

\* An object that is freed has lost all of its children and all of the
\* application's references, and was not leaked.
LEMMA FreedHaveNothing ==
    ASSUME ReferencesInv, NEW x \in alive, held[x] > 0, NEW freed \in SUBSET alive,
           FreedBy(x, freed), NEW y \in freed
    PROVE  /\ Children(y) \subseteq freed
           /\ held[y] = Own(x, y)
           /\ y \notin leaked
<1> USE DEF ReferencesInv
<1>1. y \in alive /\ y \in Objects /\ held[y] \in Nat
  BY DEF ObjectsTypeOK
<1>2. refs[y] <= Dropped(x, freed, y)
  BY DEF FreedBy
<1>3. refs[y] = held[y] + Cardinality(Children(y)) + Leak(y)
  BY <1>1 DEF CountsInv
<1>4. /\ FreedChildren(freed, y) \subseteq Children(y)
      /\ Cardinality(FreedChildren(freed, y)) \in Nat
      /\ Dropped(x, freed, y) = Cardinality(FreedChildren(freed, y)) + Own(x, y)
      /\ held[y] >= Own(x, y)
      /\ Cardinality(Children(y)) >= Cardinality(FreedChildren(freed, y))
      /\ FreedChildren(freed, y) # Children(y)
            => Cardinality(Children(y)) > Cardinality(FreedChildren(freed, y))
  BY <1>1, DroppedBounds
<1>5. Leak(y) \in {0, 1} /\ Own(x, y) \in {0, 1} /\ (y \in leaked => Leak(y) = 1)
  BY DEF Leak, Own
<1>6. IsFiniteSet(Children(y)) /\ Cardinality(Children(y)) \in Nat
  BY ChildrenFinite DEF CountsInv
<1>7. /\ ~ Cardinality(Children(y)) > Cardinality(FreedChildren(freed, y))
      /\ held[y] = Own(x, y) /\ Leak(y) = 0
  BY <1>1, <1>2, <1>3, <1>4, <1>5, <1>6
<1>8. FreedChildren(freed, y) = Children(y)
  BY <1>4, <1>7
<1> QED
  BY <1>5, <1>7, <1>8 DEF FreedChildren

LEMMA UnrefKeepsInv ==
    ASSUME ObjectsInv, NEW x \in alive, held[x] > 0, Unref(x)
    PROVE  ObjectsInv'
<1> USE DEF ObjectsInv, ReferencesInv
<1>1. PICK freed \in SUBSET alive :
         /\ FreedBy(x, freed)
         /\ alive' = alive \ freed
         /\ refs' = [y \in Objects |-> refs[y] - Dropped(x, freed, y)]
         /\ held' = [held EXCEPT ![x] = @ - 1]
         /\ pause_counter' =
              [t \in Objects |->
                  pause_counter[t] - Cardinality({v \in freed : parent[v] = t /\ kind[v] = "V"})]
         /\ UNCHANGED <<kind, parent, leaked, started, order_vars, parse_count, exhausted, seen_parse>>
  BY DEF Unref, FreedBy
<1>2. x \in Objects /\ alive \subseteq Objects
  BY DEF ObjectsTypeOK
<1>3. \A y \in freed : /\ Children(y) \subseteq freed /\ held[y] = Own(x, y) /\ y \notin leaked
  BY <1>1, FreedHaveNothing
<1>4. \A y \in Objects : held'[y] = held[y] - Own(x, y) /\ held'[y] \in Nat
  <2>1. SUFFICES ASSUME NEW y \in Objects PROVE held'[y] = held[y] - Own(x, y) /\ held'[y] \in Nat
    OBVIOUS
  <2>2. held[y] \in Nat /\ held[x] \in Nat
    BY <1>2 DEF ObjectsTypeOK
  <2> QED
    BY <1>1, <1>2, <2>2 DEF Own, ObjectsTypeOK
<1>5. ASSUME NEW y \in Objects
      PROVE  Children(y)' = Children(y) \ FreedChildren(freed, y)
  BY <1>1 DEF Children, FreedChildren
<1>6. ASSUME NEW y \in alive \ freed
      PROVE  /\ refs'[y] > 0 /\ refs'[y] = held'[y] + Cardinality(Children(y)') + Leak(y)'
             /\ refs'[y] \in Nat
  <2>1. y \in Objects /\ y \in alive /\ refs[y] \in Nat
    BY <1>2 DEF ObjectsTypeOK
  <2>2. /\ Cardinality(FreedChildren(freed, y)) \in Nat
        /\ Dropped(x, freed, y) = Cardinality(FreedChildren(freed, y)) + Own(x, y)
        /\ Cardinality(Children(y) \ FreedChildren(freed, y))
              = Cardinality(Children(y)) - Cardinality(FreedChildren(freed, y))
    BY <2>1, DroppedBounds
  <2>3. ~ (Dropped(x, freed, y) > 0 /\ refs[y] <= Dropped(x, freed, y))
    BY <1>1, <2>1 DEF FreedBy
  <2>4. refs[y] > 0 /\ refs[y] = held[y] + Cardinality(Children(y)) + Leak(y)
    BY <2>1 DEF CountsInv
  <2>5. Leak(y)' = Leak(y) /\ Leak(y) \in {0, 1} /\ Own(x, y) \in {0, 1}
    BY <1>1 DEF Leak, Own
  <2>6. refs'[y] = refs[y] - Dropped(x, freed, y)
    BY <1>1, <2>1
  <2>7. Cardinality(Children(y)) \in Nat /\ held[y] \in Nat
    BY <2>1, ChildrenFinite DEF CountsInv, ObjectsTypeOK
  <2>8. held'[y] = held[y] - Own(x, y) /\ Children(y)' = Children(y) \ FreedChildren(freed, y)
    BY <1>4, <1>5, <2>1
  <2> QED
    BY <2>1, <2>2, <2>3, <2>4, <2>5, <2>6, <2>7, <2>8
<1>7. CountsInv'
  <2>1. IsFiniteSet(alive')
    BY <1>1, FS_Subset DEF CountsInv
  <2> QED
    BY <1>1, <1>6, <2>1 DEF CountsInv
<1>8. ParentsInv'
  <2>1. ASSUME NEW c \in alive \ freed, kind[c] # "G" PROVE parent[c] \in alive \ freed
    <3>1. parent[c] \in alive /\ c \in Children(parent[c])
      BY <2>1 DEF ParentsInv, Children
    <3> QED
      BY <1>3, <3>1
  <2> QED
    BY <1>1, <2>1 DEF ParentsInv
<1>9. HeldInv'
  <2>1. ASSUME NEW y \in Objects \ alive' PROVE held'[y] = 0
    <3>1. CASE y \in freed
      <4>1. held[y] = Own(x, y) /\ Own(x, y) \in {0, 1}
        BY <1>3, <3>1 DEF Own
      <4> QED
        BY <1>4, <4>1
    <3>2. CASE y \notin freed
      <4>1. y # x /\ held[y] = 0
        BY <1>1, <2>1, <3>2 DEF HeldInv
      <4> QED
        BY <1>4, <4>1 DEF Own
    <3> QED
      BY <3>1, <3>2
  <2>2. ASSUME NEW y \in leaked PROVE kind[y] = "B" /\ held'[y] = 0 /\ Children(y)' = {}
    <3>1. y \in Objects /\ y # x /\ held[y] = 0 /\ kind[y] = "B" /\ Children(y) = {}
      BY <1>2 DEF HeldInv, ObjectsTypeOK
    <3> QED
      BY <1>4, <1>5, <3>1 DEF Own
  <2> QED
    BY <1>1, <2>1, <2>2 DEF HeldInv
<1>10. ASSUME NEW t \in Objects
       PROVE  /\ pause_counter'[t] \in Nat
              /\ kind[t] = "none" => pause_counter'[t] = 0
              /\ t \in alive' /\ kind[t] = "T" => pause_counter'[t] = Cardinality(Children(t)')
  <2> DEFINE valuators == {v \in freed : parent[v] = t /\ kind[v] = "V"}
  <2>1. pause_counter[t] \in Nat /\ pause_counter'[t] = pause_counter[t] - Cardinality(valuators)
    BY <1>1 DEF ObjectsTypeOK
  <2>2. CASE t \in alive /\ kind[t] = "T"
    <3>1. \A c \in Children(t) : kind[c] = "V"
      <4>1. SUFFICES ASSUME NEW c \in Children(t) PROVE kind[c] = "V"
        OBVIOUS
      <4>2. c \in alive /\ parent[c] = t /\ c \in Objects /\ kind[c] \in Kinds
        BY <1>2 DEF Children, ObjectsTypeOK
      <4>3. kind[c] # "G" /\ Parent_of_Kind[kind[c]] = "T"
        BY <2>2, <4>2, ObjectsAssumption DEF ParentsInv
      <4> QED
        BY <4>2, <4>3, ParentKindIsProper
    <3>2. FreedChildren(freed, t) \subseteq Children(t)
      BY DroppedBounds
    <3>3. valuators = FreedChildren(freed, t)
      BY <3>1, <3>2 DEF FreedChildren
    <3>4. pause_counter[t] = Cardinality(Children(t))
      BY <2>2 DEF SnapshotsInv, SnapshotsHold
    <3>5. Cardinality(Children(t)') = Cardinality(Children(t)) - Cardinality(FreedChildren(freed, t))
      BY <1>5, DroppedBounds
    <3>6. pause_counter'[t] = Cardinality(Children(t)')
      BY <2>1, <3>3, <3>4, <3>5
    <3>7. Cardinality(Children(t)') \in Nat
      BY <1>5, ChildrenFinite, CardinalityOfRest, <3>2 DEF CountsInv
    <3> QED
      BY <2>2, <3>6, <3>7
  <2>3. CASE ~ (t \in alive /\ kind[t] = "T")
    <3>1. valuators = {}
      <4>1. SUFFICES ASSUME NEW v \in freed, parent[v] = t, kind[v] = "V" PROVE FALSE
        OBVIOUS
      <4>2. t \in alive /\ kind[t] = Parent_of_Kind["V"]
        BY <4>1 DEF ParentsInv
      <4> QED
        BY <2>3, <4>2, ParentKinds
    <3>2. Cardinality(valuators) = 0
      BY <3>1, FS_EmptySet
    <3>3. pause_counter'[t] = pause_counter[t]
      <4> HIDE DEF valuators
      <4> QED
        BY <2>1, <3>2
    <3> QED
      BY <1>1, <2>1, <2>3, <3>3 DEF SnapshotsInv
  <2> QED
    BY <2>2, <2>3
<1>11. refs' \in [Objects -> Nat]
  <2>1. SUFFICES ASSUME NEW y \in Objects PROVE refs'[y] \in Nat
    BY <1>1
  <2>2. CASE y \in alive \ freed
    BY <1>6, <2>2
  <2>3. CASE y \in freed
    <3>1. /\ Dropped(x, freed, y) = Cardinality(FreedChildren(freed, y)) + Own(x, y)
          /\ Cardinality(FreedChildren(freed, y)) \in Nat
      BY DroppedBounds
    <3>2. FreedChildren(freed, y) = Children(y) /\ held[y] = Own(x, y) /\ Leak(y) = 0
      BY <1>3, <2>3 DEF FreedChildren, Children, Leak
    <3>3. refs[y] = held[y] + Cardinality(Children(y)) + Leak(y)
      BY <2>3 DEF CountsInv
    <3>4. refs[y] \in Nat /\ refs'[y] = refs[y] - Dropped(x, freed, y) /\ Own(x, y) \in Nat
      BY <1>1 DEF ObjectsTypeOK, Own
    <3> QED
      BY <3>1, <3>2, <3>3, <3>4
  <2>4. CASE y \notin alive
    <3>1. Dropped(x, freed, y) = 0 /\ refs[y] \in Nat
      BY <2>4, DroppedBounds DEF ObjectsTypeOK
    <3> QED
      BY <1>1, <3>1
  <2> QED
    BY <2>2, <2>3, <2>4
<1>12. ObjectsTypeOK'
  <2>1. held' \in [Objects -> Nat]
    BY <1>1, <1>4 DEF ObjectsTypeOK
  <2>2. pause_counter' \in [Objects -> Nat]
    BY <1>1, <1>10
  <2>3. alive' \subseteq alive /\ leaked' \subseteq alive'
    BY <1>1, <1>3 DEF ObjectsTypeOK
  <2> QED
    BY <1>1, <1>11, <2>1, <2>2, <2>3 DEF ObjectsTypeOK, order_vars
<1>13. SnapshotsInv'
  <2>1. SnapshotsHold'
    <3>1. ASSUME NEW y \in alive'
          PROVE  /\ kind'[y] = "T" => /\ pause_counter'[y] = Cardinality(Children(y)')
                                     /\ seen_ordering'[y] = ordering'[parent'[y]]
                 /\ kind'[y] = "V" => /\ parent'[y] \notin exhausted'
                                     /\ seen_parse'[y] = parse_count'[parent'[y]]
      <4>1. y \in alive /\ y \in Objects
        BY <1>1, <1>2
      <4> QED
        BY <1>1, <1>10, <4>1 DEF SnapshotsInv, SnapshotsHold, order_vars
    <3> QED
      BY <3>1 DEF SnapshotsHold
  <2>2. \A y \in alive' : kind'[y] = "T" => parent'[y] \in frozen'
    BY <1>1 DEF SnapshotsInv, order_vars
  <2>3. \A y \in Objects : kind'[y] = "none" => pause_counter'[y] = 0
    BY <1>1, <1>10
  <2> QED
    BY <2>1, <2>2, <2>3 DEF SnapshotsInv
<1> QED
  BY <1>7, <1>8, <1>9, <1>12, <1>13

-----------------------------------------------------------------------------
(* The other steps *)

\* The constructors of what is neither a tree nor a valuator.
LEMMA SimpleNewKeepsInv ==
    ASSUME ObjectsInv, NEW x, NEW k, NEW p, NEW refs_of_app,
           New(x, k, p, refs_of_app), MayBeMade(k, p, refs_of_app), k \notin {"T", "V"},
           leaked' = IF refs_of_app = 1 THEN leaked ELSE leaked \cup {x},
           UNCHANGED <<started, order_vars, tree_vars>>
    PROVE  ObjectsInv'
<1> USE DEF ObjectsInv
<1>1. ReferencesInv
  OBVIOUS
<1>2. CountsInv' /\ ParentsInv' /\ HeldInv'
  BY NewKeepsReferences
<1>3. /\ x \in Objects \ alive
      /\ \A y \in alive \ {p} : Children(y)' = Children(y)
  BY NewChildren
<1>4. /\ alive' = alive \cup {x}
      /\ \A y \in Objects : y # x => kind'[y] = kind[y] /\ parent'[y] = parent[y]
      /\ kind'[x] = k
  BY NewUpdates
<1>5. ObjectsTypeOK'
  <2>1. /\ kind' \in [Objects -> Kinds \cup {"none"}]
        /\ parent' \in [Objects -> Objects \cup {NoObject}]
        /\ alive' \subseteq {y \in Objects : kind'[y] # "none"}
        /\ refs' \in [Objects -> Nat] /\ held' \in [Objects -> Nat]
    BY NewUpdates
  <2>2. leaked' \subseteq alive'
    BY <1>4 DEF ReferencesInv, ObjectsTypeOK
  <2> QED
    BY <2>1, <2>2 DEF ReferencesInv, ObjectsTypeOK, order_vars, tree_vars
<1>6. ASSUME NEW y \in alive', kind'[y] \in {"T", "V"}
      PROVE  /\ y \in alive /\ y \in Objects /\ kind'[y] = kind[y] /\ parent'[y] = parent[y]
             /\ kind[y] = "T" => Children(y)' = Children(y)
  <2>1. y \in alive /\ y \in Objects /\ kind'[y] = kind[y] /\ parent'[y] = parent[y]
    BY <1>3, <1>4, <1>6 DEF ReferencesInv, ObjectsTypeOK
  <2>2. ASSUME kind[y] = "T" PROVE y # p
    BY <2>1, <2>2, ParentKindIsProper, ObjectsAssumption DEF MayBeMade
  <2> QED
    BY <1>3, <2>1, <2>2
<1>7. SnapshotsInv'
  <2>1. SnapshotsHold'
    BY <1>6 DEF SnapshotsInv, SnapshotsHold, order_vars, tree_vars
  <2>2. \A y \in alive' : kind'[y] = "T" => parent'[y] \in frozen'
    BY <1>6 DEF SnapshotsInv, order_vars
  <2>3. \A y \in Objects : kind'[y] = "none" => pause_counter'[y] = 0
    BY <1>4 DEF SnapshotsInv, tree_vars, MayBeMade, Kinds
  <2> QED
    BY <2>1, <2>2, <2>3 DEF SnapshotsInv
<1> QED
  BY <1>2, <1>5, <1>7 DEF ReferencesInv

LEMMA TreeNewKeepsInv ==
    ASSUME ObjectsInv, NEW x, NEW o, TreeNew(x, o), o \in alive, held[o] > 0, kind[o] = "O"
    PROVE  ObjectsInv'
<1> USE DEF ObjectsInv
<1>1. ReferencesInv /\ New(x, "T", o, 1) /\ MayBeMade("T", o, 1)
  BY ParentKinds DEF TreeNew, MayBeMade, Kinds, ReferencesInv, HeldInv
<1>2. CountsInv' /\ ParentsInv' /\ HeldInv'
  BY <1>1, NewKeepsReferences DEF TreeNew
<1>3. /\ x \in Objects \ alive /\ Children(x)' = {}
      /\ \A y \in alive \ {o} : Children(y)' = Children(y)
  BY <1>1, NewChildren
<1>4. /\ alive' = alive \cup {x}
      /\ \A y \in Objects : y # x => kind'[y] = kind[y] /\ parent'[y] = parent[y]
      /\ kind'[x] = "T" /\ parent'[x] = o
  BY <1>1, NewUpdates
<1>5. /\ leaked' = leaked /\ started' = started /\ ordering' = ordering
      /\ frozen' = frozen \cup {o}
      /\ seen_ordering' = [seen_ordering EXCEPT ![x] = ordering[o]]
      /\ UNCHANGED <<parse_count, exhausted, pause_counter, seen_parse>>
  BY DEF TreeNew, Freeze, tree_vars
<1>6. o \in Objects /\ kind[x] = "none"
  BY <1>1, <1>3 DEF ReferencesInv, ObjectsTypeOK, New
<1>7. ObjectsTypeOK'
  <2>1. /\ kind' \in [Objects -> Kinds \cup {"none"}]
        /\ parent' \in [Objects -> Objects \cup {NoObject}]
        /\ alive' \subseteq {y \in Objects : kind'[y] # "none"}
        /\ refs' \in [Objects -> Nat] /\ held' \in [Objects -> Nat]
    BY <1>1, NewUpdates
  <2>2. leaked' \subseteq alive' /\ frozen' \subseteq Objects
    BY <1>4, <1>5, <1>6 DEF ReferencesInv, ObjectsTypeOK
  <2>3. seen_ordering' \in [Objects -> Orderings]
    BY <1>5, <1>6 DEF ReferencesInv, ObjectsTypeOK
  <2> QED
    BY <1>5, <2>1, <2>2, <2>3 DEF ReferencesInv, ObjectsTypeOK
<1>8. ASSUME NEW y \in alive', y # x
      PROVE  /\ y \in alive /\ y \in Objects /\ kind'[y] = kind[y] /\ parent'[y] = parent[y]
             /\ seen_ordering'[y] = seen_ordering[y]
             /\ kind[y] = "T" => Children(y)' = Children(y)
  BY <1>3, <1>4, <1>5, <1>8 DEF ReferencesInv, ObjectsTypeOK
<1>9. SnapshotsInv'
  <2>1. /\ pause_counter'[x] = Cardinality(Children(x)')
        /\ seen_ordering'[x] = ordering'[parent'[x]]
        /\ parent'[x] \in frozen'
    BY <1>3, <1>4, <1>5, <1>6, FS_EmptySet DEF SnapshotsInv, ReferencesInv, ObjectsTypeOK
  <2>2. SnapshotsHold'
    BY <1>4, <1>5, <1>8, <2>1 DEF SnapshotsInv, SnapshotsHold
  <2>3. \A y \in alive' : kind'[y] = "T" => parent'[y] \in frozen'
    BY <1>5, <1>8, <2>1 DEF SnapshotsInv
  <2>4. \A y \in Objects : kind'[y] = "none" => pause_counter'[y] = 0
    BY <1>4, <1>5 DEF SnapshotsInv
  <2> QED
    BY <2>2, <2>3, <2>4 DEF SnapshotsInv
<1> QED
  BY <1>2, <1>7, <1>9 DEF ReferencesInv

LEMMA ValueNewKeepsInv ==
    ASSUME ObjectsInv, NEW x, NEW t, ValueNew(x, t), t \in alive, held[t] > 0, kind[t] = "T"
    PROVE  ObjectsInv'
<1> USE DEF ObjectsInv
<1>1. ReferencesInv /\ New(x, "V", t, 1) /\ MayBeMade("V", t, 1)
  BY ParentKinds DEF ValueNew, MayBeMade, Kinds, ReferencesInv, HeldInv
<1>2. CountsInv' /\ ParentsInv' /\ HeldInv'
  BY <1>1, NewKeepsReferences DEF ValueNew
<1>3. /\ x \in Objects \ alive
      /\ Children(t)' = Children(t) \cup {x} /\ x \notin Children(t)
      /\ \A y \in alive \ {t} : Children(y)' = Children(y)
  BY <1>1, NewChildren
<1>4. /\ alive' = alive \cup {x}
      /\ \A y \in Objects : y # x => kind'[y] = kind[y] /\ parent'[y] = parent[y]
      /\ kind'[x] = "V" /\ parent'[x] = t
  BY <1>1, NewUpdates
<1>5. /\ t \notin exhausted
      /\ pause_counter' = [pause_counter EXCEPT ![t] = @ + 1]
      /\ seen_parse' = [seen_parse EXCEPT ![x] = parse_count[t]]
      /\ UNCHANGED <<leaked, started, order_vars, parse_count, exhausted>>
  BY DEF ValueNew
<1>6. t \in Objects /\ pause_counter[t] \in Nat /\ parse_count[t] \in Nat
  BY DEF ReferencesInv, ObjectsTypeOK
<1>7. ObjectsTypeOK'
  <2>1. /\ kind' \in [Objects -> Kinds \cup {"none"}]
        /\ parent' \in [Objects -> Objects \cup {NoObject}]
        /\ alive' \subseteq {y \in Objects : kind'[y] # "none"}
        /\ refs' \in [Objects -> Nat] /\ held' \in [Objects -> Nat]
    BY <1>1, NewUpdates
  <2>2. leaked' \subseteq alive'
    BY <1>4, <1>5 DEF ReferencesInv, ObjectsTypeOK
  <2>3. pause_counter' \in [Objects -> Nat] /\ seen_parse' \in [Objects -> Nat]
    <3>1. pause_counter \in [Objects -> Nat] /\ seen_parse \in [Objects -> Nat]
      BY DEF ReferencesInv, ObjectsTypeOK
    <3>2. pause_counter' \in [Objects -> Nat]
      BY <1>5, <1>6, <3>1
    <3> QED
      BY <1>5, <1>6, <3>1, <3>2
  <2> QED
    BY <1>5, <2>1, <2>2, <2>3 DEF ReferencesInv, ObjectsTypeOK, order_vars
<1>8. ASSUME NEW y \in alive', y # x
      PROVE  /\ y \in alive /\ y \in Objects /\ kind'[y] = kind[y] /\ parent'[y] = parent[y]
             /\ seen_parse'[y] = seen_parse[y]
             /\ kind[y] = "T" => pause_counter'[y] = Cardinality(Children(y)')
  <2>1. y \in alive /\ y \in Objects /\ kind'[y] = kind[y] /\ parent'[y] = parent[y]
        /\ seen_parse'[y] = seen_parse[y]
    BY <1>4, <1>5, <1>8 DEF ReferencesInv, ObjectsTypeOK
  <2>2. CASE y = t
    <3>1. pause_counter[t] = Cardinality(Children(t))
      BY <2>1, <2>2 DEF SnapshotsInv, SnapshotsHold
    <3>2. IsFiniteSet(Children(t))
      BY ChildrenFinite DEF ReferencesInv, CountsInv
    <3>3. Cardinality(Children(t)') = Cardinality(Children(t)) + 1
      BY <1>3, <3>2, FS_AddElement
    <3>4. pause_counter'[t] = pause_counter[t] + 1
      BY <1>5, <1>6 DEF ReferencesInv, ObjectsTypeOK
    <3> QED
      BY <2>1, <2>2, <3>1, <3>3, <3>4
  <2>3. CASE y # t
    BY <1>3, <1>5, <2>1, <2>3 DEF SnapshotsInv, SnapshotsHold, ReferencesInv, ObjectsTypeOK
  <2> QED
    BY <2>1, <2>2, <2>3
<1>9. SnapshotsInv'
  <2>1. parent'[x] \notin exhausted' /\ seen_parse'[x] = parse_count'[parent'[x]]
    BY <1>3, <1>4, <1>5 DEF ReferencesInv, ObjectsTypeOK
  <2>2. SnapshotsHold'
    BY <1>4, <1>5, <1>8, <2>1 DEF SnapshotsInv, SnapshotsHold, order_vars
  <2>3. \A y \in alive' : kind'[y] = "T" => parent'[y] \in frozen'
    BY <1>4, <1>5, <1>8 DEF SnapshotsInv, order_vars
  <2>4. \A y \in Objects : kind'[y] = "none" => pause_counter'[y] = 0
    <3>1. SUFFICES ASSUME NEW y \in Objects, kind'[y] = "none" PROVE pause_counter'[y] = 0
      OBVIOUS
    <3>2. y # x /\ kind[y] = "none" /\ y # t
      BY <1>4, <3>1
    <3> QED
      BY <1>5, <3>2 DEF SnapshotsInv, ReferencesInv, ObjectsTypeOK
  <2> QED
    BY <2>2, <2>3, <2>4 DEF SnapshotsInv
<1> QED
  BY <1>2, <1>7, <1>9 DEF ReferencesInv

LEMMA RefKeepsInv ==
    ASSUME ObjectsInv, NEW x \in alive, held[x] > 0, Ref(x)
    PROVE  ObjectsInv'
<1> USE DEF ObjectsInv, ReferencesInv
<1>1. /\ refs' = [refs EXCEPT ![x] = @ + 1] /\ held' = [held EXCEPT ![x] = @ + 1]
      /\ UNCHANGED <<kind, parent, alive, leaked, started, order_vars, tree_vars>>
  BY DEF Ref
<1>2. x \in Objects /\ alive \subseteq Objects /\ x \notin leaked
  BY DEF ObjectsTypeOK, HeldInv
<1>3. \A y \in Objects : /\ refs[y] \in Nat /\ held[y] \in Nat
                         /\ refs'[y] = refs[y] + Own(x, y) /\ held'[y] = held[y] + Own(x, y)
  BY <1>1, <1>2 DEF ObjectsTypeOK, Own
<1>4. \A y : Children(y)' = Children(y) /\ Leak(y)' = Leak(y)
  BY <1>1 DEF Children, Leak
<1>5. ObjectsTypeOK'
  <2>1. refs' \in [Objects -> Nat] /\ held' \in [Objects -> Nat]
    BY <1>1, <1>3 DEF ObjectsTypeOK, Own
  <2> QED
    BY <1>1, <2>1 DEF ObjectsTypeOK, order_vars, tree_vars
<1>6. CountsInv'
  <2>1. ASSUME NEW y \in alive
        PROVE  refs'[y] > 0 /\ refs'[y] = held'[y] + Cardinality(Children(y)) + Leak(y)
    <3>1. refs[y] > 0 /\ refs[y] = held[y] + Cardinality(Children(y)) + Leak(y)
      BY DEF CountsInv
    <3>2. Cardinality(Children(y)) \in Nat /\ Leak(y) \in Nat /\ Own(x, y) \in Nat
      BY ChildrenFinite DEF CountsInv, Leak, Own
    <3> QED
      BY <1>2, <1>3, <3>1, <3>2
  <2> QED
    BY <1>1, <1>4, <2>1 DEF CountsInv
<1>7. ParentsInv'
  BY <1>1 DEF ParentsInv
<1>8. HeldInv'
  <2>1. \A y \in Objects \ alive : held'[y] = held[y]
    BY <1>3 DEF Own
  <2>2. \A y \in leaked : y \in Objects /\ held'[y] = held[y]
    BY <1>2, <1>3 DEF Own, ObjectsTypeOK
  <2> QED
    BY <1>1, <1>4, <2>1, <2>2 DEF HeldInv
<1>9. SnapshotsInv'
  BY <1>1, <1>4 DEF SnapshotsInv, SnapshotsHold, order_vars, tree_vars
<1> QED
  BY <1>5, <1>6, <1>7, <1>8, <1>9

\* What depends on the objects only is kept where they are.
LEMMA ObjectsStay ==
    ASSUME ReferencesInv, UNCHANGED object_vars
    PROVE  /\ CountsInv' /\ ParentsInv' /\ HeldInv'
           /\ \A y : Children(y)' = Children(y)
<1>1. \A y : Children(y)' = Children(y) /\ Leak(y)' = Leak(y)
  BY DEF Children, Leak, object_vars
<1> QED
  BY <1>1 DEF ReferencesInv, CountsInv, ParentsInv, HeldInv, object_vars

\* A tree that is not paused has no valuator that its move would pull along.
LEMMA TreeNextKeepsInv ==
    ASSUME ObjectsInv, NEW t \in alive, kind[t] = "T", TreeNext(t)
    PROVE  ObjectsInv'
<1> USE DEF ObjectsInv
<1>1. /\ UNCHANGED <<object_vars, started, order_vars, pause_counter, seen_parse>>
      /\ pause_counter[t] = 0 /\ t \in Objects
      /\ parse_count' \in [Objects -> Nat] /\ exhausted' \subseteq Objects
      /\ \A y \in Objects \ {t} : parse_count'[y] = parse_count[y]
      /\ exhausted' \subseteq exhausted \cup {t}
  <2>1. t \in Objects /\ parse_count[t] \in Nat /\ pause_counter[t] \in Nat
    BY DEF ReferencesInv, ObjectsTypeOK
  <2> QED
    BY <2>1 DEF TreeNext, Paused, ReferencesInv, ObjectsTypeOK
<1>2. CountsInv' /\ ParentsInv' /\ HeldInv' /\ \A y : Children(y)' = Children(y)
  BY <1>1, ObjectsStay
<1>3. ObjectsTypeOK'
  BY <1>1 DEF ReferencesInv, ObjectsTypeOK, object_vars, order_vars
<1>4. Children(t) = {}
  <2>1. Cardinality(Children(t)) = 0
    BY <1>1 DEF SnapshotsInv, SnapshotsHold
  <2> QED
    BY <2>1, ChildrenFinite, FS_EmptySet DEF ReferencesInv, CountsInv
<1>5. \A y \in alive : kind[y] = "V" => parent[y] # t /\ parent[y] \in Objects
  <2>1. SUFFICES ASSUME NEW y \in alive, kind[y] = "V" PROVE parent[y] # t /\ parent[y] \in Objects
    OBVIOUS
  <2>2. parent[y] \in alive
    BY <2>1 DEF ReferencesInv, ParentsInv
  <2> QED
    BY <1>4, <2>2 DEF Children, ReferencesInv, ObjectsTypeOK
<1>6. SnapshotsInv'
  BY <1>1, <1>2, <1>5 DEF SnapshotsInv, SnapshotsHold, object_vars, order_vars
<1> QED
  BY <1>2, <1>3, <1>6 DEF ReferencesInv

\* An order is changed before it is frozen, and so before it has a tree.
LEMMA OrderKeepsInv ==
    ASSUME ObjectsInv, NEW o \in alive,
           \/ Rank(o) \/ AmbiguityMetric(o) \/ \E count \in {0, 1} : HighRankOnlySet(o, count)
    PROVE  ObjectsInv'
<1> USE DEF ObjectsInv
<1>1. /\ UNCHANGED <<object_vars, started, seen_ordering, tree_vars>>
      /\ o \in Objects /\ ordering \in [Objects -> Orderings]
      /\ frozen \subseteq frozen' /\ frozen' \subseteq Objects
  BY DEF Rank, AmbiguityMetric, HighRankOnlySet, Freeze, ReferencesInv, ObjectsTypeOK
<1>2. /\ ordering' \in [Objects -> Orderings]
      /\ o \in frozen => ordering' = ordering
      /\ \A y \in Objects \ {o} : ordering'[y] = ordering[y]
  <2>1. CASE AmbiguityMetric(o)
    BY <1>1, <2>1 DEF AmbiguityMetric
  <2>2. ASSUME NEW count \in {0, 1}, HighRankOnlySet(o, count)
        PROVE  /\ ordering' \in [Objects -> Orderings]
               /\ o \in frozen => ordering' = ordering
               /\ \A y \in Objects \ {o} : ordering'[y] = ordering[y]
    BY <1>1, <2>2 DEF HighRankOnlySet, Orderings
  <2>3. CASE Rank(o)
    <3>1. PICK ranked \in {"no", "high only", "by rule"} :
             ordering' = [ordering EXCEPT ![o].ranked = ranked]
      BY <2>3 DEF Rank
    <3> QED
      BY <1>1, <2>3, <3>1 DEF Rank, Orderings
  <2> QED
    BY <2>1, <2>2, <2>3
<1>3. CountsInv' /\ ParentsInv' /\ HeldInv' /\ \A y : Children(y)' = Children(y)
  BY <1>1, ObjectsStay
<1>4. ObjectsTypeOK'
  BY <1>1, <1>2 DEF ReferencesInv, ObjectsTypeOK, object_vars, tree_vars
<1>5. \A y \in alive : kind[y] = "T" =>
         parent[y] \in frozen /\ parent[y] \in Objects /\ ordering'[parent[y]] = ordering[parent[y]]
  BY <1>1, <1>2 DEF SnapshotsInv, ReferencesInv, ObjectsTypeOK
<1>6. SnapshotsInv'
  BY <1>1, <1>3, <1>5 DEF SnapshotsInv, SnapshotsHold, object_vars, tree_vars
<1> QED
  BY <1>3, <1>4, <1>6 DEF ReferencesInv

-----------------------------------------------------------------------------
(* The specification *)

LEMMA InitEstablishesInv ==
    ASSUME ObjectsInit
    PROVE  ObjectsInv
<1>1. ObjectsTypeOK
  BY DEF ObjectsInit, ObjectsTypeOK, Orderings
<1>2. CountsInv /\ ParentsInv /\ HeldInv
  BY FS_EmptySet DEF ObjectsInit, CountsInv, ParentsInv, HeldInv
<1>3. SnapshotsInv
  BY DEF ObjectsInit, SnapshotsInv, SnapshotsHold
<1> QED
  BY <1>1, <1>2, <1>3 DEF ObjectsInv, ReferencesInv

LEMMA ConstructorKeepsInv ==
    ASSUME ObjectsInv, NEW x \in Objects, NEW precomputed \in BOOLEAN,
           Constructors(x, precomputed)
    PROVE  ObjectsInv'
<1> USE DEF ObjectsInv
<1>1. ReferencesInv /\ alive \subseteq Objects
  BY DEF ReferencesInv, ObjectsTypeOK
<1>2. CASE GrammarNew(x)
  <2>1. New(x, "G", NoObject, 1) /\ MayBeMade("G", NoObject, 1)
    BY <1>2 DEF GrammarNew, MayBeMade, Kinds
  <2> QED
    BY <1>2, <2>1, SimpleNewKeepsInv DEF GrammarNew
<1>3. ASSUME NEW g \in Held("G"), RecceNew(x, g, precomputed) PROVE ObjectsInv'
  <2>1. New(x, "R", g, 1) /\ MayBeMade("R", g, 1)
    BY <1>1, <1>3, ParentKinds DEF RecceNew, MayBeMade, Kinds, Held, ReferencesInv, HeldInv
  <2> QED
    BY <1>3, <2>1, SimpleNewKeepsInv DEF RecceNew
<1>4. ASSUME NEW r \in Held("R"), BocageNew(x, r) \/ BocageNewInvalidLocation(x, r)
      PROVE  ObjectsInv'
  <2>1. parent[r] \in alive /\ kind[parent[r]] = "G"
    BY <1>1, <1>4, ParentKinds DEF Held, ReferencesInv, ParentsInv
  <2>2. parent[r] \notin leaked
    BY <2>1 DEF ReferencesInv, HeldInv
  <2>3. MayBeMade("B", parent[r], 0) /\ MayBeMade("B", parent[r], 1)
    BY <2>1, <2>2, ParentKinds DEF MayBeMade, Kinds
  <2>4. CASE BocageNew(x, r)
    BY <2>3, <2>4, SimpleNewKeepsInv DEF BocageNew
  <2>5. CASE BocageNewInvalidLocation(x, r)
    BY <2>3, <2>5, SimpleNewKeepsInv DEF BocageNewInvalidLocation
  <2> QED
    BY <1>4, <2>4, <2>5
<1>5. ASSUME NEW b \in Held("B"), OrderNew(x, b) PROVE ObjectsInv'
  <2>1. New(x, "O", b, 1) /\ MayBeMade("O", b, 1)
    BY <1>1, <1>5, ParentKinds DEF OrderNew, MayBeMade, Kinds, Held, ReferencesInv, HeldInv
  <2> QED
    BY <1>5, <2>1, SimpleNewKeepsInv DEF OrderNew
<1>6. ASSUME NEW o \in Held("O"), TreeNew(x, o) PROVE ObjectsInv'
  BY <1>6, TreeNewKeepsInv DEF Held
<1>7. ASSUME NEW t \in Held("T"), ValueNew(x, t) PROVE ObjectsInv'
  BY <1>7, ValueNewKeepsInv DEF Held
<1> QED
  BY <1>2, <1>3, <1>4, <1>5, <1>6, <1>7 DEF Constructors

LEMMA MethodKeepsInv ==
    ASSUME ObjectsInv, Methods
    PROVE  ObjectsInv'
<1> USE DEF ObjectsInv
<1>1. ASSUME NEW r \in Held("R"), StartInput(r) PROVE ObjectsInv'
  <2>1. UNCHANGED object_vars /\ UNCHANGED <<order_vars, tree_vars>> /\ started' \subseteq Objects
    BY <1>1 DEF StartInput, Held, ReferencesInv, ObjectsTypeOK
  <2>2. CountsInv' /\ ParentsInv' /\ HeldInv' /\ \A y : Children(y)' = Children(y)
    BY <2>1, ObjectsStay
  <2>3. ObjectsTypeOK'
    BY <2>1 DEF ReferencesInv, ObjectsTypeOK, object_vars, order_vars, tree_vars
  <2>4. SnapshotsInv'
    BY <2>1, <2>2 DEF SnapshotsInv, SnapshotsHold, object_vars, order_vars, tree_vars
  <2> QED
    BY <2>2, <2>3, <2>4 DEF ReferencesInv
<1>2. ASSUME NEW o \in Held("O"),
             Rank(o) \/ AmbiguityMetric(o) \/ \E count \in {0, 1} : HighRankOnlySet(o, count)
      PROVE  ObjectsInv'
  BY <1>2, OrderKeepsInv DEF Held
<1>3. ASSUME NEW t \in Held("T"), TreeNext(t) PROVE ObjectsInv'
  BY <1>3, TreeNextKeepsInv DEF Held
<1>4. ASSUME NEW k, NEW x \in Held(k), Ref(x) \/ Unref(x) PROVE ObjectsInv'
  BY <1>4, RefKeepsInv, UnrefKeepsInv DEF Held
<1> QED
  BY <1>1, <1>2, <1>3, <1>4 DEF Methods

LEMMA StutterKeepsInv ==
    ASSUME ObjectsInv, UNCHANGED lifetime_vars
    PROVE  ObjectsInv'
<1> USE DEF ObjectsInv
<1>1. UNCHANGED <<object_vars, started, order_vars, tree_vars>>
  BY DEF lifetime_vars
<1>2. CountsInv' /\ ParentsInv' /\ HeldInv' /\ \A y : Children(y)' = Children(y)
  BY <1>1, ObjectsStay
<1>3. ObjectsTypeOK'
  BY <1>1 DEF ReferencesInv, ObjectsTypeOK, object_vars, order_vars, tree_vars
<1>4. SnapshotsInv'
  BY <1>1, <1>2 DEF SnapshotsInv, SnapshotsHold, object_vars, order_vars, tree_vars
<1> QED
  BY <1>2, <1>3, <1>4 DEF ReferencesInv

\* Every call of the library keeps the counts and the objects as they were
\* meant to be (marpa.w, the ref, unref and constructor functions).
THEOREM ObjectsInvariant == ObjectsSpec => []ObjectsInv
<1>1. ObjectsInit => ObjectsInv
  BY InitEstablishesInv
<1>2. ObjectsInv /\ [ObjectsNext]_lifetime_vars => ObjectsInv'
  BY ConstructorKeepsInv, MethodKeepsInv, StutterKeepsInv DEF ObjectsNext
<1> QED
  BY <1>1, <1>2, PTL DEF ObjectsSpec

-----------------------------------------------------------------------------
(* What the invariant says *)

\* Counts, addresses and settings stay within their types.
THEOREM ObjectsTypes == ObjectsSpec => []ObjectsTypeOK
<1>1. ObjectsInv => ObjectsTypeOK
  BY DEF ObjectsInv, ReferencesInv
<1> QED
  BY <1>1, ObjectsInvariant, PTL

\* No object is freed while another or the application needs it, in whatever
\* order the references are given back.
THEOREM ReferencesExact == ObjectsSpec => []RefsExact
<1>1. ASSUME ObjectsInv PROVE RefsExact
  BY <1>1 DEF ObjectsInv, ReferencesInv, CountsInv, ParentsInv, HeldInv, Leak, RefsExact
<1> QED
  BY <1>1, ObjectsInvariant, PTL

\* A paused tree does not move, and an order that has a tree does not change.
THEOREM SnapshotsStand == ObjectsSpec => []SnapshotsHold
<1>1. ObjectsInv => SnapshotsHold
  BY DEF ObjectsInv, SnapshotsInv
<1> QED
  BY <1>1, ObjectsInvariant, PTL

\* An object that the application does not hold is kept by a child, unless
\* it is one that was lost.
LEMMA KeptByChild ==
    ASSUME ReferencesInv, NEW x \in alive \ leaked, held[x] = 0
    PROVE  \E c \in alive : parent[c] = x /\ kind[c] \in Kinds \ {"G"} /\ Parent_of_Kind[kind[c]] = kind[x]
<1>1. Cardinality(Children(x)) > 0
  BY ChildrenFinite DEF ReferencesInv, CountsInv, Leak
<1>2. PICK c : c \in Children(x)
  BY <1>1, FS_EmptySet
<1>3. c \in alive /\ parent[c] = x /\ x # NoObject
  BY <1>2, ObjectsAssumption DEF Children, ReferencesInv, ObjectsTypeOK
<1>4. kind[c] \in Kinds
  BY <1>3 DEF ReferencesInv, ObjectsTypeOK
<1> QED
  BY <1>3, <1>4 DEF ReferencesInv, ParentsInv

\* Class by class, from the valuators up: nothing that the application gave
\* back stays, but what a failed marpa_b_new lost.
THEOREM NothingStays == ObjectsSpec => []NothingLeft
<1>1. ASSUME ObjectsInv, \A x \in Objects : held[x] = 0
      PROVE  alive = leaked \cup {parent[x] : x \in leaked}
  <2> USE <1>1 DEF ObjectsInv, ReferencesInv
  <2>1. alive \subseteq Objects /\ leaked \subseteq alive
    BY DEF ObjectsTypeOK
  <2>2. \A x \in alive : kind[x] \in Kinds
    BY DEF ObjectsTypeOK
  <2>3. \A x \in leaked : kind[x] = "B"
    BY DEF HeldInv
  <2>4. \A x \in alive \ leaked :
           \E c \in alive : /\ parent[c] = x /\ kind[c] \in Kinds \ {"G"}
                            /\ Parent_of_Kind[kind[c]] = kind[x]
    BY <2>1, KeptByChild
  <2>5. \A x \in alive : kind[x] \notin {"V", "R"}
    BY <2>3, <2>4, ParentKindIsProper
  <2>6. \A x \in alive : kind[x] # "T"
    BY <2>3, <2>4, <2>5, ParentKindIsProper
  <2>7. \A x \in alive : kind[x] # "O"
    BY <2>3, <2>4, <2>6, ParentKindIsProper
  <2>8. \A x \in alive : kind[x] = "B" => x \in leaked
    BY <2>4, <2>7, ParentKindIsProper
  <2>9. \A x \in alive : kind[x] \in {"G", "B"}
    BY <2>2, <2>5, <2>6, <2>7 DEF Kinds
  <2>10. \A x \in leaked : parent[x] \in alive
    BY <2>1, <2>3 DEF ParentsInv
  <2>11. ASSUME NEW x \in alive \ leaked PROVE \E c \in leaked : parent[c] = x
    <3>1. PICK c \in alive : parent[c] = x /\ kind[c] \in Kinds \ {"G"}
      BY <2>4
    <3>2. kind[c] = "B"
      BY <2>9, <3>1
    <3> QED
      BY <2>8, <3>1, <3>2
  <2> QED
    BY <2>1, <2>10, <2>11
<1>2. ObjectsInv => NothingLeft
  BY <1>1 DEF NothingLeft
<1> QED
  BY <1>2, ObjectsInvariant, PTL
=============================================================================
