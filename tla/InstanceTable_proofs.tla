------------------------ MODULE InstanceTable_proofs ------------------------
(***************************************************************************)
(* Proved of the table of object-manage.ts under every sequence of its     *)
(* operations: an id means one instance for good, and getInstanceId gives  *)
(* the oldest id an instance has; and that arguments, results and the      *)
(* arguments of callbacks arrive whole, whatever their depth and width.    *)
(***************************************************************************)
EXTENDS Conversions, WellFoundedInduction, SequenceTheorems, FiniteSetTheorems, TLAPS

\* What is registered has an id below the next.
Sound(t) ==
    /\ t.next \in Nat \ {0}
    /\ \A id \in DOMAIN t.map : id \in Nat \ {0} /\ id < t.next
    /\ \A x \in DOMAIN t.idOf : t.idOf[x] \in Nat \ {0}

\* The inverse maps have the oldest id of x, or none when x has none.
Canonical(t, x) ==
    GetInstanceId(t, x) = IF IdsOf(t, x) = {} THEN 0 ELSE Oldest(IdsOf(t, x))

\* The inductive invariant: both, ids handed out are below the next, and what is
\* registered is an instance.
IInv ==
    /\ Sound(table)
    /\ \A p \in named : p[1] \in Nat /\ p[1] < table.next
    /\ IdsAreForever
    /\ \A x \in Instances \ cleared : Canonical(table, x)
    /\ \A id \in DOMAIN table.map : table.map[id] \in Instances

-----------------------------------------------------------------------------
(* The least of a set of ids.                                              *)

\* A set of numbers that is not empty has a least element.
LEMMA LeastExists ==
    ASSUME NEW S, S \subseteq Nat, S # {}
    PROVE  \E m \in S : \A n \in S : m <= n
  <1>1. PICK m \in S : \A n \in S : ~(<<n, m>> \in OpToRel(<, Nat))
    BY NatLessThanWellFounded, WFMin
  <1>2. \A n \in S : ~(n < m)
    BY <1>1 DEF OpToRel
  <1>3. QED
    BY <1>2

\* Oldest is that element.
LEMMA OldestIsLeast ==
    ASSUME NEW S, S \subseteq Nat, S # {}
    PROVE  Oldest(S) \in S /\ \A n \in S : Oldest(S) <= n
  BY LeastExists DEF Oldest

\* Only one element is least.
LEMMA OldestIs ==
    ASSUME NEW S, S \subseteq Nat, NEW m \in S, \A n \in S : m <= n
    PROVE  Oldest(S) = m
  <1>1. Oldest(S) \in S /\ Oldest(S) <= m /\ m <= Oldest(S)
    BY OldestIsLeast
  <1>2. PICK k \in Nat : k = Oldest(S)
    BY <1>1
  <1>3. k <= m /\ m <= k /\ m \in Nat
    BY <1>1, <1>2
  <1>4. QED
    BY <1>2, <1>3

-----------------------------------------------------------------------------
(* The operations of the table.                                            *)

\* The ids of an instance are numbers below the next.
LEMMA IdsBelow ==
    ASSUME NEW t, Sound(t), NEW x
    PROVE  /\ IdsOf(t, x) \subseteq Nat
           /\ \A id \in IdsOf(t, x) : id # 0 /\ id < t.next
  BY DEF Sound, IdsOf

\* A new id is above all others: only what had none is known by it.
LEMMA SetKeeps ==
    ASSUME NEW t, Sound(t), NEW x
    PROVE  /\ Sound(SetInstance(t, x))
           /\ \A y : Canonical(t, y) => Canonical(SetInstance(t, x), y)
  <1>1. PICK u : u = SetInstance(t, x)
    OBVIOUS
  <1>2. /\ u.next = t.next + 1
        /\ DOMAIN u.map = DOMAIN t.map \cup {t.next}
        /\ u.map[t.next] = x /\ \A id \in DOMAIN t.map : u.map[id] = t.map[id]
    BY <1>1 DEF SetInstance, With, Sound
  <1>3. /\ x \in DOMAIN t.idOf => u.idOf = t.idOf
        /\ x \notin DOMAIN t.idOf =>
             /\ DOMAIN u.idOf = DOMAIN t.idOf \cup {x} /\ u.idOf[x] = t.next
             /\ \A y \in DOMAIN t.idOf : u.idOf[y] = t.idOf[y]
    BY <1>1 DEF SetInstance, With
  <1>4. Sound(u)
    BY <1>2, <1>3 DEF Sound
  <1>5. ASSUME NEW y, Canonical(t, y)
        PROVE  Canonical(u, y)
    <2>1. CASE y # x
      <3>1. IdsOf(u, y) = IdsOf(t, y)
        BY <1>2, <2>1 DEF IdsOf, Sound
      <3>2. GetInstanceId(u, y) = GetInstanceId(t, y)
        BY <1>3, <2>1 DEF GetInstanceId
      <3>3. QED
        BY <1>5, <3>1, <3>2 DEF Canonical
    <2>2. CASE y = x
      <3>1. IdsOf(u, x) = IdsOf(t, x) \cup {t.next}
        BY <1>2 DEF IdsOf, Sound
      <3>2. /\ IdsOf(u, x) \subseteq Nat /\ IdsOf(t, x) \subseteq Nat
            /\ \A id \in IdsOf(t, x) : id # 0 /\ id < t.next
            /\ t.next \in Nat
        BY <1>4, IdsBelow DEF Sound
      <3>3. CASE x \in DOMAIN t.idOf
        <4>1. GetInstanceId(u, x) = t.idOf[x] /\ GetInstanceId(t, x) = t.idOf[x] /\ t.idOf[x] # 0
          BY <1>3, <3>3 DEF GetInstanceId, Sound
        <4>2. IdsOf(t, x) # {} /\ t.idOf[x] = Oldest(IdsOf(t, x))
          BY <1>5, <2>2, <4>1 DEF Canonical
        <4>3. t.idOf[x] \in IdsOf(t, x) /\ \A id \in IdsOf(t, x) : t.idOf[x] <= id
          BY <3>2, <4>2, OldestIsLeast
        <4>4. t.idOf[x] \in IdsOf(u, x) /\ \A id \in IdsOf(u, x) : t.idOf[x] <= id
          BY <3>1, <3>2, <4>3
        <4>5. Oldest(IdsOf(u, x)) = t.idOf[x]
          BY <3>2, <4>4, OldestIs
        <4>6. QED
          BY <2>2, <4>1, <4>4, <4>5 DEF Canonical
      <3>4. CASE x \notin DOMAIN t.idOf
        <4>1. GetInstanceId(u, x) = t.next /\ GetInstanceId(t, x) = 0
          BY <1>3, <3>4 DEF GetInstanceId
        <4>2. IdsOf(t, x) = {}
          BY <1>5, <2>2, <3>2, <4>1, OldestIsLeast DEF Canonical
        <4>3. IdsOf(u, x) = {t.next} /\ Oldest({t.next}) = t.next
          BY <3>1, <3>2, <4>2, OldestIs
        <4>4. QED
          BY <2>2, <4>1, <4>3 DEF Canonical
      <3>5. QED
        BY <3>3, <3>4
    <2>3. QED
      BY <2>1, <2>2
  <1>6. QED
    BY <1>1, <1>4, <1>5

\* When an instance loses its own id the oldest of the others takes the place.
LEMMA RemoveKeeps ==
    ASSUME NEW t, Sound(t), NEW id \in DOMAIN t.map
    PROVE  /\ Sound(RemoveInstance(t, id))
           /\ \A y : Canonical(t, y) => Canonical(RemoveInstance(t, id), y)
  <1>1. PICK u : u = RemoveInstance(t, id)
    OBVIOUS
  <1>2. PICK x : x = t.map[id]
    OBVIOUS
  <1>3. PICK others : others = IdsOf(t, x) \ {id}
    OBVIOUS
  <1>4. /\ u.next = t.next
        /\ DOMAIN u.map = DOMAIN t.map \ {id}
        /\ \A n \in DOMAIN u.map : u.map[n] = t.map[n]
    BY <1>1 DEF RemoveInstance, Without, Restrict
  <1>5. /\ GetInstanceId(t, x) # id => u.idOf = t.idOf
        /\ GetInstanceId(t, x) = id /\ others = {} =>
             /\ DOMAIN u.idOf = DOMAIN t.idOf \ {x}
             /\ \A y \in DOMAIN u.idOf : u.idOf[y] = t.idOf[y]
        /\ GetInstanceId(t, x) = id /\ others # {} =>
             /\ DOMAIN u.idOf = DOMAIN t.idOf \cup {x} /\ u.idOf[x] = Oldest(others)
             /\ \A y \in DOMAIN t.idOf : y # x => u.idOf[y] = t.idOf[y]
    BY <1>1, <1>2, <1>3 DEF RemoveInstance, Without, Restrict, With
  <1>6. /\ others \subseteq Nat /\ \A n \in others : n # 0
        /\ IdsOf(t, x) \subseteq Nat /\ id \in IdsOf(t, x) /\ id # 0
        /\ IdsOf(u, x) = others /\ \A y : y # x => IdsOf(u, y) = IdsOf(t, y)
    <2>1. IdsOf(u, x) = others /\ \A y : y # x => IdsOf(u, y) = IdsOf(t, y)
      BY <1>2, <1>3, <1>4 DEF IdsOf
    <2>2. id \in IdsOf(t, x)
      BY <1>2 DEF IdsOf
    <2>3. QED
      BY <1>3, <2>1, <2>2, IdsBelow
  <1>7. others # {} => Oldest(others) \in others
    BY <1>6, OldestIsLeast
  <1>8. Sound(u)
    BY <1>4, <1>5, <1>6, <1>7 DEF Sound
  <1>9. ASSUME NEW y, Canonical(t, y)
        PROVE  Canonical(u, y)
    <2>1. CASE y # x
      <3>1. GetInstanceId(u, y) = GetInstanceId(t, y)
        BY <1>5, <2>1 DEF GetInstanceId
      <3>2. QED
        BY <1>6, <1>9, <2>1, <3>1 DEF Canonical
    <2>2. CASE y = x /\ GetInstanceId(t, x) = id
      BY <1>5, <1>6, <2>2 DEF Canonical, GetInstanceId
    <2>3. CASE y = x /\ GetInstanceId(t, x) # id
      <3>1. GetInstanceId(u, x) = GetInstanceId(t, x)
        BY <1>5, <2>3 DEF GetInstanceId
      <3>2. GetInstanceId(t, x) = Oldest(IdsOf(t, x))
        BY <1>6, <1>9, <2>3 DEF Canonical
      <3>3. /\ Oldest(IdsOf(t, x)) \in IdsOf(t, x)
            /\ \A n \in IdsOf(t, x) : Oldest(IdsOf(t, x)) <= n
        BY <1>6, OldestIsLeast
      <3>4. /\ Oldest(IdsOf(t, x)) \in others
            /\ \A n \in others : Oldest(IdsOf(t, x)) <= n
        BY <1>3, <2>3, <3>2, <3>3
      <3>5. Oldest(others) = Oldest(IdsOf(t, x))
        BY <1>6, <3>4, OldestIs
      <3>6. QED
        BY <1>6, <2>3, <3>1, <3>2, <3>4, <3>5 DEF Canonical
    <2>4. QED
      BY <2>1, <2>2, <2>3
  <1>10. QED
    BY <1>1, <1>8, <1>9

\* An instance of the class goes with all its ids, and with its own.
LEMMA RemoveTypeKeeps ==
    ASSUME NEW t, Sound(t), NEW class
    PROVE  /\ Sound(RemoveInstanceOfType(t, class))
           /\ \A y : Canonical(t, y) => Canonical(RemoveInstanceOfType(t, class), y)
  <1>1. PICK u : u = RemoveInstanceOfType(t, class)
    OBVIOUS
  <1>2. /\ u.next = t.next
        /\ DOMAIN u.map = {id \in DOMAIN t.map : t.map[id] \notin class}
        /\ \A id \in DOMAIN u.map : u.map[id] = t.map[id]
    BY <1>1 DEF RemoveInstanceOfType, Without, Restrict, IdsOfType
  <1>3. /\ DOMAIN u.idOf =
             DOMAIN t.idOf \ {x \in class : GetInstanceId(t, x) \in IdsOf(t, x)}
        /\ \A x \in DOMAIN u.idOf : u.idOf[x] = t.idOf[x]
    BY <1>1 DEF RemoveInstanceOfType, Without, Restrict
  <1>4. Sound(u)
    BY <1>2, <1>3 DEF Sound
  <1>5. ASSUME NEW y, Canonical(t, y)
        PROVE  Canonical(u, y)
    <2>1. CASE y \notin class
      <3>1. IdsOf(u, y) = IdsOf(t, y)
        BY <1>2, <2>1 DEF IdsOf
      <3>2. GetInstanceId(u, y) = GetInstanceId(t, y)
        BY <1>3, <2>1 DEF GetInstanceId
      <3>3. QED
        BY <1>5, <3>1, <3>2 DEF Canonical
    <2>2. CASE y \in class
      <3>1. IdsOf(u, y) = {}
        BY <1>2, <2>2 DEF IdsOf
      <3>2. ASSUME y \in DOMAIN u.idOf
            PROVE  FALSE
        <4>1. /\ y \in DOMAIN t.idOf /\ GetInstanceId(t, y) \notin IdsOf(t, y)
              /\ GetInstanceId(t, y) # 0
          BY <1>3, <2>2, <3>2 DEF GetInstanceId, Sound
        <4>2. IdsOf(t, y) # {} /\ GetInstanceId(t, y) = Oldest(IdsOf(t, y))
          BY <1>5, <4>1 DEF Canonical
        <4>3. QED
          BY <4>1, <4>2, IdsBelow, OldestIsLeast
      <3>3. QED
        BY <3>1, <3>2 DEF Canonical, GetInstanceId
    <2>3. QED
      BY <2>1, <2>2
  <1>6. QED
    BY <1>1, <1>4, <1>5

\* Of what is cleared only objects keep an id.
LEMMA ClearKeeps ==
    ASSUME NEW t, Sound(t)
    PROVE  /\ Sound(ClearInstance(t))
           /\ \A y : y \notin DOMAIN t.idOf \ Primitives => Canonical(ClearInstance(t), y)
  BY DEF Sound, Canonical, ClearInstance, EmptyTable, Without, Restrict, GetInstanceId, IdsOf

\* The table of a new server process.
LEMMA EmptyCanonical == Sound(EmptyTable) /\ \A x : Canonical(EmptyTable, x)
  BY DEF EmptyTable, Sound, Canonical, GetInstanceId, IdsOf

-----------------------------------------------------------------------------
(* Trees.                                                                  *)

\* Induction, for a set of numbers.
LEMMA Induction ==
    ASSUME NEW S, 0 \in S, \A n \in Nat : n \in S => n + 1 \in S
    PROVE  \A n \in Nat : n \in S
  <1>1. SUFFICES ASSUME NEW k \in Nat, k \notin S PROVE FALSE
    OBVIOUS
  <1>2. PICK m \in Nat \ S : \A n \in Nat \ S : m <= n
    <2>1. Nat \ S \subseteq Nat /\ Nat \ S # {}
      BY <1>1
    <2>2. QED
      BY <2>1, LeastExists
  <1>3. m # 0 /\ m - 1 \in Nat /\ (m - 1) + 1 = m
    BY <1>2
  <1>4. m - 1 \in S
    BY <1>2, <1>3
  <1>5. QED
    BY <1>2, <1>3, <1>4

\* What grows of S, above the leaves.
Grown(leaves, lacking, S) == leaves \cup Arrays(S) \cup Objects(S, lacking)

\* The first levels of trees, of any height.
Levels(g, leaves, lacking, k) ==
    g = [n \in 0 .. k |-> IF n = 0 THEN leaves ELSE Grown(leaves, lacking, g[n - 1])]

\* There are such levels.
LEMMA LevelsExist ==
    ASSUME NEW leaves, NEW lacking
    PROVE  \A k \in Nat : \E g : Levels(g, leaves, lacking, k)
  <1> DEFINE S == {k \in Nat : \E g : Levels(g, leaves, lacking, k)}
  <1>1. 0 \in S
    <2>1. PICK g : g = [n \in 0 .. 0 |-> leaves]
      OBVIOUS
    <2>2. g = [n \in 0 .. 0 |-> IF n = 0 THEN leaves ELSE Grown(leaves, lacking, g[n - 1])]
      BY <2>1
    <2>3. QED
      BY <2>2 DEF Levels
  <1>2. ASSUME NEW k \in Nat, k \in S PROVE k + 1 \in S
    <2>1. PICK g : Levels(g, leaves, lacking, k)
      BY <1>2
    <2>2. \A n \in 0 .. k : g[n] = IF n = 0 THEN leaves ELSE Grown(leaves, lacking, g[n - 1])
      BY <2>1 DEF Levels
    <2>3. PICK h : h = [n \in 0 .. k + 1 |-> IF n = 0 THEN leaves ELSE Grown(leaves, lacking, g[n - 1])]
      OBVIOUS
    <2>4. \A n \in 0 .. k : h[n] = g[n]
      BY <2>2, <2>3
    <2>5. \A n \in 0 .. k + 1 : n # 0 => h[n - 1] = g[n - 1]
      BY <2>4
    <2>6. h = [n \in 0 .. k + 1 |-> IF n = 0 THEN leaves ELSE Grown(leaves, lacking, h[n - 1])]
      BY <2>3, <2>5
    <2>7. QED
      BY <2>6 DEF Levels
  <1>3. QED
    <2> HIDE DEF S
    <2>1. \A k \in Nat : k \in S
      BY <1>1, <1>2, Induction
    <2>2. QED
      BY <2>1 DEF S

\* The lower of them are the same, whatever is above.
LEMMA LevelsAgree ==
    ASSUME NEW leaves, NEW lacking, NEW g, NEW h, NEW k \in Nat, NEW m \in Nat,
           Levels(g, leaves, lacking, k), Levels(h, leaves, lacking, m), k <= m
    PROVE  \A n \in 0 .. k : g[n] = h[n]
  <1> DEFINE S == {n \in Nat : n <= k => g[n] = h[n]}
  <1>1. /\ \A n \in 0 .. k : g[n] = IF n = 0 THEN leaves ELSE Grown(leaves, lacking, g[n - 1])
        /\ \A n \in 0 .. m : h[n] = IF n = 0 THEN leaves ELSE Grown(leaves, lacking, h[n - 1])
    BY DEF Levels
  <1>2. 0 \in S
    BY <1>1
  <1>3. \A n \in Nat : n \in S => n + 1 \in S
    <2>1. SUFFICES ASSUME NEW n \in Nat, n <= k => g[n] = h[n], n + 1 <= k
                   PROVE  g[n + 1] = h[n + 1]
      OBVIOUS
    <2>2. n + 1 \in 0 .. k /\ n + 1 \in 0 .. m /\ n + 1 # 0 /\ (n + 1) - 1 = n
      BY <2>1
    <2>3. g[n + 1] = Grown(leaves, lacking, g[n]) /\ h[n + 1] = Grown(leaves, lacking, h[n])
      BY <1>1, <2>2
    <2>4. QED
      BY <2>1, <2>3
  <1>4. QED
    <2> HIDE DEF S
    <2>1. \A n \in Nat : n \in S
      BY <1>2, <1>3, Induction
    <2>2. QED
      BY <2>1 DEF S

\* Trees are what their definition says.
LEMMA TreesOfLevels ==
    ASSUME NEW leaves, NEW lacking
    PROVE  /\ TreesOf(leaves, lacking)[0] = leaves
           /\ \A n \in Nat : TreesOf(leaves, lacking)[n + 1]
                               = Grown(leaves, lacking, TreesOf(leaves, lacking)[n])
  <1> DEFINE G(k) == CHOOSE g : Levels(g, leaves, lacking, k)
             f == [n \in Nat |-> G(n)[n]]
             Eq(h) == h = [n \in Nat |-> IF n = 0 THEN leaves ELSE Grown(leaves, lacking, h[n - 1])]
  <1>1. \A k \in Nat : Levels(G(k), leaves, lacking, k)
    BY LevelsExist
  <1> HIDE DEF G
  <1>2. G(0)[0] = leaves
    BY <1>1 DEF Levels
  <1>3. ASSUME NEW n \in Nat, n # 0 PROVE G(n)[n] = Grown(leaves, lacking, G(n - 1)[n - 1])
    <2>1. n - 1 \in Nat /\ n \in 0 .. n /\ n - 1 <= n /\ n - 1 \in 0 .. n - 1
      BY <1>3
    <2>2. Levels(G(n), leaves, lacking, n) /\ Levels(G(n - 1), leaves, lacking, n - 1)
      BY <1>1, <2>1
    <2>3. G(n)[n] = Grown(leaves, lacking, G(n)[n - 1])
      BY <1>3, <2>1, <2>2 DEF Levels
    <2>4. G(n - 1)[n - 1] = G(n)[n - 1]
      BY <2>1, <2>2, LevelsAgree
    <2>5. QED
      BY <2>3, <2>4
  <1>4. Eq(f)
    <2>1. ASSUME NEW n \in Nat PROVE G(n)[n] = IF n = 0 THEN leaves ELSE Grown(leaves, lacking, f[n - 1])
      BY <1>2, <1>3
    <2>2. QED
      BY <2>1
  <1> HIDE DEF f
  <1>5. TreesOf(leaves, lacking) = CHOOSE h : Eq(h)
    BY DEF TreesOf, Grown
  <1>6. Eq(TreesOf(leaves, lacking))
    <2> HIDE DEF Eq
    <2>1. QED
      BY <1>4, <1>5
  <1> DEFINE T == TreesOf(leaves, lacking)
  <1> HIDE DEF T
  <1>7. T = [n \in Nat |-> IF n = 0 THEN leaves ELSE Grown(leaves, lacking, T[n - 1])]
    BY <1>6 DEF T
  <1>8. T[0] = leaves /\ \A n \in Nat : T[n + 1] = Grown(leaves, lacking, T[n])
    <2>1. \A n \in Nat : n + 1 \in Nat /\ n + 1 # 0 /\ (n + 1) - 1 = n
      OBVIOUS
    <2>2. QED
      BY <1>7, <2>1
  <1>9. QED
    BY <1>8 DEF T

\* What grows of more is more.
LEMMA GrownGrows ==
    ASSUME NEW leaves, NEW lacking, NEW S, NEW T, S \subseteq T
    PROVE  Grown(leaves, lacking, S) \subseteq Grown(leaves, lacking, T)
  <1>1. Seq(S) \subseteq Seq(T)
    BY SeqMonotonic
  <1>2. [AllNames -> S \cup [kind : {"absent"}]] \subseteq [AllNames -> T \cup [kind : {"absent"}]]
    OBVIOUS
  <1>3. QED
    BY <1>1, <1>2 DEF Grown, Arrays, Objects

\* Trees of some levels are trees of more levels.
LEMMA TreesIncrease ==
    ASSUME NEW leaves, NEW lacking
    PROVE  \A n \in Nat : /\ leaves \subseteq TreesOf(leaves, lacking)[n]
                          /\ TreesOf(leaves, lacking)[n] \subseteq TreesOf(leaves, lacking)[n + 1]
  <1> DEFINE T == TreesOf(leaves, lacking)
             S == {n \in Nat : T[n] \subseteq T[n + 1]}
  <1>1. T[0] = leaves /\ \A n \in Nat : T[n + 1] = Grown(leaves, lacking, T[n])
    BY TreesOfLevels
  <1> HIDE DEF T
  <1>2. \A n \in Nat : leaves \subseteq T[n + 1]
    BY <1>1 DEF Grown
  <1>3. 0 \in S
    BY <1>1, <1>2
  <1>4. ASSUME NEW n \in Nat, n \in S PROVE n + 1 \in S
    <2>1. n + 1 \in Nat /\ T[n] \subseteq T[n + 1]
      BY <1>4
    <2>2. T[n + 1] = Grown(leaves, lacking, T[n]) /\ T[n + 1 + 1] = Grown(leaves, lacking, T[n + 1])
      BY <1>1, <2>1
    <2>3. QED
      BY <2>1, <2>2, GrownGrows
  <1>5. \A n \in Nat : n \in S
    <2> HIDE DEF S
    <2>1. QED
      BY <1>3, <1>4, Induction
  <1>6. \A n \in Nat : leaves \subseteq T[n]
    <2>1. SUFFICES ASSUME NEW n \in Nat PROVE leaves \subseteq T[n]
      OBVIOUS
    <2>2. CASE n = 0
      BY <1>1, <2>2
    <2>3. CASE n # 0
      <3>1. n - 1 \in Nat /\ (n - 1) + 1 = n
        BY <2>3
      <3>2. QED
        BY <1>2, <3>1
    <2>4. QED
      BY <2>2, <2>3
  <1>7. QED
    BY <1>5, <1>6 DEF T

\* The kinds of leaves.
LEMMA LeafKinds == \A x \in Leaves : x.kind \notin {"array", "object", "absent"}
  <1>1. SUFFICES ASSUME NEW x \in Leaves PROVE x.kind \notin {"array", "object", "absent"}
    OBVIOUS
  <1>2. CASE x \in [kind : {"undefined", "null"}]
    BY <1>2
  <1>3. CASE x \in [kind : {"number"}, number : Nat]
    BY <1>3
  <1>4. CASE x \in [kind : {"string"}, string : STRING] \/ x \in [kind : {"string"}, string : {"instance", "function"}]
    BY <1>4
  <1>5. CASE x \in [kind : {"bytes"}, items : Seq(NumberSet)]
    BY <1>5
  <1>6. CASE x \in [kind : {"proxy", "callback"}, id : Nat]
    BY <1>6
  <1>7. CASE x \in [kind : {"thrown"}]
    BY <1>7
  <1>8. CASE x \in [kind : {"instance"}, of : Instances]
    BY <1>8
  <1>9. CASE x \in [kind : {"function"}, of : STRING]
    BY <1>9
  <1>10. CASE x \in [kind : {"closure", "remote"}, id : Nat]
    BY <1>10
  <1>11. QED
    BY <1>1, <1>2, <1>3, <1>4, <1>5, <1>6, <1>7, <1>8, <1>9, <1>10
    DEF Leaves, ArgumentLeaves, PlainLeaves, InstanceSet, TypeSet, NumberSet

\* There is one that is absent, and it is no leaf.
LEMMA AbsentIsNone == [kind : {"absent"}] = {Absent} /\ Absent \notin Leaves
  <1>1. \A x \in [kind : {"absent"}] : x = Absent
    BY DEF Absent
  <1>2. Absent \in [kind : {"absent"}] /\ Absent.kind = "absent"
    BY DEF Absent
  <1>3. QED
    BY <1>1, <1>2, LeafKinds

\* What grew of S: a leaf, an array or an object.
Grew(leaves, lacking, S, v) ==
    \/ v \in leaves /\ ~ HasItems(v)
    \/ v.kind = "array" /\ v.items \in Seq(S) /\ v = Array(v.items)
    \/ /\ v.kind = "object"
       /\ v.items \in [AllNames -> S \cup {Absent}]
       /\ \A name \in lacking : v.items[name] = Absent
       /\ v = [kind |-> "object", items |-> v.items]

\* Whatever grows of S grew of it.
LEMMA GrownGrew ==
    ASSUME NEW leaves, leaves \subseteq Leaves, NEW lacking, NEW S, NEW v \in Grown(leaves, lacking, S)
    PROVE  Grew(leaves, lacking, S, v)
  <1>1. CASE v \in leaves
    BY <1>1, LeafKinds DEF HasItems, Grew
  <1>2. CASE v \in [kind : {"array"}, items : Seq(S)]
    BY <1>2 DEF Array, Grew
  <1>3. CASE v \in [kind : {"object"}, items : {fields \in [AllNames -> S \cup [kind : {"absent"}]] :
                                                 \A name \in lacking : fields[name] = Absent}]
    BY <1>3, AbsentIsNone DEF Grew
  <1>4. QED
    BY <1>1, <1>2, <1>3 DEF Grown, Arrays, Objects

\* Bytes are a sequence of numbers.
LEMMA BytesOfNumbers == \A v \in Leaves : v.kind = "bytes" => v = Bytes(v.items) /\ v.items \in Seq(NumberSet)
  BY DEF Leaves, ArgumentLeaves, PlainLeaves, InstanceSet, TypeSet, NumberSet, Bytes

\* Where the trees are: those of a level, and the arguments of a level.
LEMMA TreesGrow ==
    /\ Trees[0] = Leaves
    /\ \A n \in Nat : /\ Trees[n + 1] = Grown(Leaves, {}, Trees[n])
                      /\ Leaves \subseteq Trees[n]
                      /\ Trees[n] \subseteq Trees[n + 1]
  BY TreesOfLevels, TreesIncrease DEF Trees

\* What a tree is.
LEMMA WithItems ==
    ASSUME NEW n \in Nat, NEW v \in Trees[n + 1]
    PROVE  \/ v \in Leaves /\ ~ HasItems(v)
           \/ v.kind = "array" /\ v.items \in Seq(Trees[n]) /\ v = Array(v.items)
           \/ /\ v.kind = "object"
              /\ v.items \in [AllNames -> Trees[n] \cup {Absent}]
              /\ v = [kind |-> "object", items |-> v.items]
  <1>1. v \in Grown(Leaves, {}, Trees[n])
    BY TreesGrow
  <1>2. Grew(Leaves, {}, Trees[n], v)
    BY <1>1, GrownGrew
  <1>3. QED
    BY <1>2 DEF Grew

\* What is absent is no tree.
LEMMA AbsentIsNoTree == \A n \in Nat : Absent \notin Trees[n]
  <1>1. Absent.kind = "absent"
    BY DEF Absent
  <1>2. \A n \in Nat : Absent \notin Trees[n + 1]
    BY <1>1, WithItems, AbsentIsNone
  <1>3. Absent \notin Trees[0]
    BY AbsentIsNone, TreesGrow
  <1>4. \A n \in Nat : n # 0 => n - 1 \in Nat /\ (n - 1) + 1 = n
    OBVIOUS
  <1>5. QED
    BY <1>2, <1>3, <1>4

\* Trees of trees.
LEMMA ArrayTree ==
    ASSUME NEW n \in Nat, NEW items \in Seq(Trees[n])
    PROVE  Array(items) \in Trees[n + 1]
  <1>1. Array(items) \in [kind : {"array"}, items : Seq(Trees[n])]
    BY DEF Array
  <1>2. QED
    BY <1>1, TreesGrow DEF Grown, Arrays, Objects

\* So is an object of trees.
LEMMA ObjectTree ==
    ASSUME NEW n \in Nat, NEW fields \in [AllNames -> Trees[n] \cup {Absent}]
    PROVE  [kind |-> "object", items |-> fields] \in Trees[n + 1]
  <1>1. fields \in {fs \in [AllNames -> Trees[n] \cup [kind : {"absent"}]] : \A name \in {} : fs[name] = Absent}
    BY AbsentIsNone
  <1> DEFINE O == {fs \in [AllNames -> Trees[n] \cup [kind : {"absent"}]] : \A name \in {} : fs[name] = Absent}
  <1> HIDE DEF O
  <1>2. [kind |-> "object", items |-> fields] \in [kind : {"object"}, items : O]
    BY <1>1 DEF O
  <1>3. QED
    BY <1>2, TreesGrow DEF Grown, O, Objects

\* What a tree has as items is a tree of fewer levels.
LEMMA ItemsBelow ==
    ASSUME NEW n \in Nat, NEW v \in Trees[n + 1], NEW k \in Parts(v)
    PROVE  v.items[k] \in Trees[n]
  <1>1. k \in DOMAIN v.items /\ v.items[k] # Absent
    BY DEF Parts
  <1>2. CASE v \in Leaves /\ ~ HasItems(v)
    <2>1. v.items \in Seq(NumberSet)
      BY <1>2, BytesOfNumbers DEF Parts
    <2>2. v.items[k] \in NumberSet
      BY <1>1, <2>1, ElementOfSeq, LenProperties
    <2>3. QED
      BY <2>2, TreesGrow DEF Leaves, ArgumentLeaves, PlainLeaves
  <1>3. CASE v.items \in Seq(Trees[n])
    BY <1>1, <1>3, ElementOfSeq, LenProperties
  <1>4. CASE v.items \in [AllNames -> Trees[n] \cup {Absent}]
    BY <1>1, <1>4
  <1>5. QED
    BY <1>2, <1>3, <1>4, WithItems

\* A map depends on what its function says of the items.
LEMMA MapAgrees ==
    ASSUME NEW f, NEW g, NEW v, \A k \in DOMAIN v.items : v.items[k] # Absent => f[v.items[k]] = g[v.items[k]]
    PROVE  Map(f, v) = Map(g, v)
  BY DEF Map

\* The level of the trees that are converted.
LEMMA TreeLevel == MaxDepth \in Nat /\ MaxDepth + 1 \in Nat
  BY ValuesAssumption

-----------------------------------------------------------------------------
(* ToJson.                                                                 *)

\* What ToJson says of v, from what f says of its items.
JsonOf(f, v) == IF HasItems(v) THEN Map(f, Written(v)) ELSE LeafToJson(v)

\* The items that are written.
LEMMA WrittenItems ==
    ASSUME NEW n \in Nat, NEW v \in Trees[n + 1], HasItems(v)
    PROVE  /\ Written(v).kind = v.kind /\ DOMAIN Written(v).items = DOMAIN v.items
           /\ \A k \in DOMAIN v.items :
                Written(v).items[k] = IF v.kind = "object" /\ k = "" THEN Absent ELSE v.items[k]
           /\ Written(v) = [kind |-> v.kind, items |-> Written(v).items]
  <1>1. CASE v.kind = "array"
    <2>1. v = [kind |-> "array", items |-> v.items] /\ Written(v) = v
      BY <1>1, WithItems DEF Written, Array
    <2>2. QED
      BY <1>1, <2>1
  <1>2. CASE v.kind = "object"
    <2>1. v.items \in [AllNames -> Trees[n] \cup {Absent}] /\ v = [kind |-> "object", items |-> v.items]
      BY <1>2, WithItems DEF HasItems, Array
    <2> DEFINE w == Written(v)
               items == [v.items EXCEPT ![""] = Absent]
    <2>2. w = [kind |-> "object", items |-> items]
      BY <1>2, <2>1 DEF Written
    <2> HIDE DEF w, items
    <2>3. w.kind = "object" /\ w.items = items
      BY <2>2
    <2> USE DEF w, items
    <2>4. /\ DOMAIN Written(v).items = DOMAIN v.items
          /\ \A k \in DOMAIN v.items : Written(v).items[k] = IF k = "" THEN Absent ELSE v.items[k]
      BY <2>1, <2>3
    <2>5. QED
      BY <1>2, <2>2, <2>3, <2>4
  <1>3. QED
    BY <1>1, <1>2 DEF HasItems

\* It depends on nothing else.
LEMMA JsonOfAgrees ==
    ASSUME NEW n \in Nat, NEW v \in Trees[n + 1], NEW f, NEW g, \A x \in Trees[n] : f[x] = g[x]
    PROVE  JsonOf(f, v) = JsonOf(g, v)
  <1>1. \A k \in Parts(v) : f[v.items[k]] = g[v.items[k]]
    BY ItemsBelow
  <1>2. CASE HasItems(v)
    <2> DEFINE w == Written(v)
    <2>1. \A k \in DOMAIN w.items : w.items[k] # Absent => k \in Parts(v) /\ w.items[k] = v.items[k]
      BY <1>2, WrittenItems DEF Parts
    <2> HIDE DEF w
    <2>2. Map(f, w) = Map(g, w)
      BY <1>1, <2>1, MapAgrees
    <2>3. QED
      BY <1>2, <2>2 DEF JsonOf, w
  <1>3. QED
    BY <1>2 DEF JsonOf

\* Trees of any height have such a function.
LEMMA ToJsonExists == \A n \in Nat : \E f : f = [v \in Trees[n] |-> JsonOf(f, v)]
  <1> DEFINE S == {n \in Nat : \E f : f = [v \in Trees[n] |-> JsonOf(f, v)]}
  <1>1. 0 \in S
    <2> DEFINE f == [v \in Trees[0] |-> JsonOf(<<>>, v)]
    <2>1. ASSUME NEW v \in Trees[0] PROVE JsonOf(<<>>, v) = JsonOf(f, v)
      <3>1. v.kind \notin {"array", "object"}
        BY TreesGrow, LeafKinds
      <3>2. QED
        BY <3>1 DEF JsonOf, HasItems
    <2>2. f = [v \in Trees[0] |-> JsonOf(f, v)]
      BY <2>1
    <2>3. QED
      BY <2>2
  <1>2. ASSUME NEW n \in Nat, n \in S PROVE n + 1 \in S
    <2>1. PICK f : f = [v \in Trees[n] |-> JsonOf(f, v)]
      BY <1>2
    <2> DEFINE g == [v \in Trees[n + 1] |-> JsonOf(f, v)]
    <2>2. \A x \in Trees[n] : f[x] = g[x]
      BY <2>1, TreesGrow
    <2>3. \A v \in Trees[n + 1] : JsonOf(f, v) = JsonOf(g, v)
      <3> HIDE DEF g
      <3>1. QED
        BY <2>2, JsonOfAgrees
    <2>4. g = [v \in Trees[n + 1] |-> JsonOf(g, v)]
      BY <2>3
    <2> HIDE DEF g
    <2>5. \E h : h = [v \in Trees[n + 1] |-> JsonOf(h, v)]
      BY <2>4
    <2>6. QED
      BY <2>5
  <1>3. QED
    <2> HIDE DEF S
    <2>1. \A n \in Nat : n \in S
      BY <1>1, <1>2, Induction
    <2>2. QED
      BY <2>1 DEF S

\* ToJson is what its definition says.
LEMMA ToJsonIs == \A v \in Tree : ToJson[v] = JsonOf(ToJson, v)
  <1>1. \E f : f = [v \in Tree |-> JsonOf(f, v)]
    BY ToJsonExists, TreeLevel DEF Tree
  <1>2. ToJson = CHOOSE f : f = [v \in Tree |-> JsonOf(f, v)]
    BY DEF ToJson, JsonOf
  <1>3. ToJson = [v \in Tree |-> JsonOf(ToJson, v)]
    BY <1>1, <1>2
  <1>4. QED
    BY <1>3

-----------------------------------------------------------------------------
(* HookArgument.                                                           *)

\* What it says of j, from what f says of its items.
HookOf(t, f, j) ==
    IF Has(j, "instanceId") \/ Has(j, "callbackId") THEN HookObject(t, j)
    ELSE IF ~ HasItems(j) THEN j
    ELSE IF \E k \in Parts(j) : f[j.items[k]] = Thrown THEN Thrown
    ELSE Map(f, j)

\* It depends on nothing else.
LEMMA HookOfAgrees ==
    ASSUME NEW t, NEW n \in Nat, NEW j \in Trees[n + 1], NEW f, NEW g, \A x \in Trees[n] : f[x] = g[x]
    PROVE  HookOf(t, f, j) = HookOf(t, g, j)
  <1>1. \A k \in Parts(j) : f[j.items[k]] = g[j.items[k]]
    BY ItemsBelow
  <1>2. HasItems(j) => \A k \in DOMAIN j.items : j.items[k] # Absent => k \in Parts(j)
    BY DEF Parts
  <1>3. HasItems(j) => Map(f, j) = Map(g, j)
    BY <1>1, <1>2, MapAgrees
  <1>4. (\E k \in Parts(j) : f[j.items[k]] = Thrown) <=> (\E k \in Parts(j) : g[j.items[k]] = Thrown)
    BY <1>1
  <1>5. QED
    BY <1>3, <1>4 DEF HookOf

\* Trees of any height have such a function.
LEMMA HookArgumentExists ==
    ASSUME NEW t
    PROVE  \A n \in Nat : \E f : f = [j \in Trees[n] |-> HookOf(t, f, j)]
  <1> DEFINE S == {n \in Nat : \E f : f = [j \in Trees[n] |-> HookOf(t, f, j)]}
  <1>1. 0 \in S
    <2> DEFINE f == [j \in Trees[0] |-> HookOf(t, <<>>, j)]
    <2>1. ASSUME NEW j \in Trees[0] PROVE HookOf(t, <<>>, j) = HookOf(t, f, j)
      <3>1. ~ HasItems(j)
        BY TreesGrow, LeafKinds DEF HasItems
      <3>2. QED
        BY <3>1 DEF HookOf
    <2>2. f = [j \in Trees[0] |-> HookOf(t, f, j)]
      BY <2>1
    <2>3. QED
      BY <2>2
  <1>2. ASSUME NEW n \in Nat, n \in S PROVE n + 1 \in S
    <2>1. PICK f : f = [j \in Trees[n] |-> HookOf(t, f, j)]
      BY <1>2
    <2> DEFINE g == [j \in Trees[n + 1] |-> HookOf(t, f, j)]
    <2>2. \A x \in Trees[n] : f[x] = g[x]
      BY <2>1, TreesGrow
    <2>3. \A j \in Trees[n + 1] : HookOf(t, f, j) = HookOf(t, g, j)
      <3> HIDE DEF g
      <3>1. QED
        BY <2>2, HookOfAgrees
    <2>4. g = [j \in Trees[n + 1] |-> HookOf(t, g, j)]
      BY <2>3
    <2> HIDE DEF g
    <2>5. \E h : h = [j \in Trees[n + 1] |-> HookOf(t, h, j)]
      BY <2>4
    <2>6. QED
      BY <2>5
  <1>3. QED
    <2> HIDE DEF S
    <2>1. \A n \in Nat : n \in S
      BY <1>1, <1>2, Induction
    <2>2. QED
      BY <2>1 DEF S

\* HookArgument is what its definition says.
LEMMA HookArgumentIs ==
    ASSUME NEW t
    PROVE  \A j \in Tree : HookArgument(t)[j] = HookOf(t, HookArgument(t), j)
  <1>1. \E f : f = [j \in Tree |-> HookOf(t, f, j)]
    BY HookArgumentExists, TreeLevel DEF Tree
  <1>2. HookArgument(t) = CHOOSE f : f = [j \in Tree |-> HookOf(t, f, j)]
    BY DEF HookArgument, HookOf
  <1>3. HookArgument(t) = [j \in Tree |-> HookOf(t, HookArgument(t), j)]
    BY <1>1, <1>2
  <1>4. QED
    BY <1>3

-----------------------------------------------------------------------------
(* Nodes.                                                                  *)

\* The nodes below item k of v, where S is those of the item.
NodesBelow(v, k, S) == {<< <<Step(v, k)>> \o node[1], node[2] >> : node \in S}

\* The nodes of v, where f[x] is those of an item x.
NodesOf(f, v) == {<< <<>>, Shape(v) >>} \cup UNION {NodesBelow(v, k, f[v.items[k]]) : k \in Parts(v)}

\* They depend on nothing else.
LEMMA NodesOfAgrees ==
    ASSUME NEW v, NEW f, NEW g, \A k \in Parts(v) : f[v.items[k]] = g[v.items[k]]
    PROVE  NodesOf(f, v) = NodesOf(g, v)
  <1>1. {NodesBelow(v, k, f[v.items[k]]) : k \in Parts(v)} = {NodesBelow(v, k, g[v.items[k]]) : k \in Parts(v)}
    OBVIOUS
  <1>2. QED
    BY <1>1 DEF NodesOf

\* Of the leaves only bytes have items, and what they have has none.
LEMMA NumbersHaveNoItems == \A x \in NumberSet : x \in Leaves /\ Parts(x) = {} /\ ~ HasItems(x)
  <1>1. \A x \in NumberSet : x \in Leaves /\ x.kind = "number"
    BY DEF Leaves, ArgumentLeaves, PlainLeaves, InstanceSet, TypeSet, NumberSet
  <1>2. QED
    BY <1>1 DEF Parts, HasItems

\* So an item of a leaf is a number, and the leaf is bytes.
LEMMA NumbersInLeaves ==
    ASSUME NEW v \in Leaves, NEW k \in Parts(v)
    PROVE  v.kind = "bytes" /\ v.items[k] \in NumberSet
  <1>1. v.kind = "bytes" /\ k \in DOMAIN v.items
    BY LeafKinds DEF Parts, HasItems
  <1>2. v.items \in Seq(NumberSet)
    BY <1>1, BytesOfNumbers
  <1>3. QED
    BY <1>1, <1>2, ElementOfSeq, LenProperties

\* Trees of any height have such a function.
LEMMA NodesExists == \A n \in Nat : \E f : f = [v \in Trees[n] |-> NodesOf(f, v)]
  <1> DEFINE S == {n \in Nat : \E f : f = [v \in Trees[n] |-> NodesOf(f, v)]}
  <1>1. 0 \in S
    <2> DEFINE e == [v \in Leaves |-> {<< <<>>, Shape(v) >>}]
               f == [v \in Leaves |-> NodesOf(e, v)]
    <2>1. ASSUME NEW x \in NumberSet PROVE e[x] = f[x]
      <3>1. x \in Leaves /\ Parts(x) = {}
        BY NumbersHaveNoItems
      <3>2. NodesOf(e, x) = {<< <<>>, Shape(x) >>}
        BY <3>1 DEF NodesOf
      <3>3. QED
        BY <3>1, <3>2
    <2>2. ASSUME NEW v \in Leaves PROVE NodesOf(e, v) = NodesOf(f, v)
      <3> HIDE DEF e, f
      <3>1. \A k \in Parts(v) : e[v.items[k]] = f[v.items[k]]
        BY <2>1, NumbersInLeaves
      <3>2. QED
        BY <3>1, NodesOfAgrees
    <2>3. f = [v \in Leaves |-> NodesOf(f, v)]
      BY <2>2
    <2> HIDE DEF e, f
    <2>4. \E h : h = [v \in Trees[0] |-> NodesOf(h, v)]
      BY <2>3, TreesGrow
    <2>5. QED
      BY <2>4
  <1>2. ASSUME NEW n \in Nat, n \in S PROVE n + 1 \in S
    <2>1. PICK f : f = [v \in Trees[n] |-> NodesOf(f, v)]
      BY <1>2
    <2> DEFINE g == [v \in Trees[n + 1] |-> NodesOf(f, v)]
    <2>2. \A x \in Trees[n] : f[x] = g[x]
      BY <2>1, TreesGrow
    <2>3. ASSUME NEW v \in Trees[n + 1] PROVE NodesOf(f, v) = NodesOf(g, v)
      <3> HIDE DEF g
      <3>1. \A k \in Parts(v) : f[v.items[k]] = g[v.items[k]]
        BY <2>2, ItemsBelow
      <3>2. QED
        BY <3>1, NodesOfAgrees
    <2>4. g = [v \in Trees[n + 1] |-> NodesOf(g, v)]
      BY <2>3
    <2> HIDE DEF g
    <2>5. \E h : h = [v \in Trees[n + 1] |-> NodesOf(h, v)]
      BY <2>4
    <2>6. QED
      BY <2>5
  <1>3. QED
    <2> HIDE DEF S
    <2>1. \A n \in Nat : n \in S
      BY <1>1, <1>2, Induction
    <2>2. QED
      BY <2>1 DEF S

\* Nodes is what its definition says.
LEMMA NodesIs == \A v \in Tree : Nodes[v] = NodesOf(Nodes, v)
  <1>1. \E f : f = [v \in Tree |-> NodesOf(f, v)]
    BY NodesExists, TreeLevel DEF Tree
  <1>2. Nodes = CHOOSE f : f = [v \in Tree |-> NodesOf(f, v)]
    BY DEF Nodes, NodesOf, NodesBelow
  <1>3. Nodes = [v \in Tree |-> NodesOf(Nodes, v)]
    BY <1>1, <1>2
  <1>4. QED
    BY <1>3

-----------------------------------------------------------------------------
(* Paths.                                                                  *)

\* What a path is made of.
Steps == [field : AllNames] \cup [index : Nat]

\* An item without a name is told from all others.
LEMMA StepsApart ==
    /\ \A k \in AllNames : [field |-> k] \in Steps /\ ([field |-> k] = [field |-> ""] <=> k = "")
    /\ \A k \in Nat : [index |-> k] \in Steps /\ [index |-> k] # [field |-> ""]
  <1>1. \A k : DOMAIN [index |-> k] = {"index"} /\ DOMAIN [field |-> k] = {"field"}
    OBVIOUS
  <1>2. \A k : [field |-> k].field = k
    OBVIOUS
  <1>3. QED
    BY <1>1, <1>2 DEF Steps

\* The path of an item.
LEMMA PathBelow ==
    ASSUME NEW S, NEW s \in S, NEW p \in Seq(S)
    PROVE  <<s>> \o p \in Seq(S) /\ Range(<<s>> \o p) = {s} \cup Range(p)
  <1>1. <<s>> \in Seq(S) /\ Len(<<s>>) = 1 /\ <<s>>[1] = s
    OBVIOUS
  <1>2. /\ <<s>> \o p \in Seq(S) /\ Len(<<s>> \o p) = 1 + Len(p) /\ Len(p) \in Nat
        /\ \A i \in 1 .. 1 + Len(p) : (<<s>> \o p)[i] = IF i <= 1 THEN <<s>>[i] ELSE p[i - 1]
    BY <1>1, ConcatProperties, LenProperties
  <1>3. (<<s>> \o p)[1] = s /\ \A i \in 1 .. Len(p) : (<<s>> \o p)[i + 1] = p[i]
    BY <1>1, <1>2
  <1>4. DOMAIN p = 1 .. Len(p) /\ DOMAIN (<<s>> \o p) = 1 .. 1 + Len(p)
    BY <1>2, LenProperties
  <1> DEFINE q == <<s>> \o p
  <1>5. q[1] = s /\ (\A i \in 1 .. Len(p) : q[i + 1] = p[i]) /\ DOMAIN q = 1 .. 1 + Len(p)
    BY <1>3, <1>4
  <1> HIDE DEF q
  <1>6. Range(q) \subseteq {s} \cup Range(p)
    <2>1. SUFFICES ASSUME NEW i \in 1 .. 1 + Len(p) PROVE q[i] \in {s} \cup Range(p)
      BY <1>5 DEF Range
    <2>2. CASE i = 1
      BY <1>5, <2>2
    <2>3. CASE i # 1
      <3>1. i - 1 \in 1 .. Len(p) /\ (i - 1) + 1 = i
        BY <1>2, <2>3
      <3>2. QED
        BY <1>4, <1>5, <3>1 DEF Range
    <2>4. QED
      BY <2>2, <2>3
  <1>7. s \in Range(q)
    BY <1>2, <1>5 DEF Range
  <1>8. Range(p) \subseteq Range(q)
    <2>1. \A i \in 1 .. Len(p) : i + 1 \in DOMAIN q
      BY <1>2, <1>5
    <2>2. QED
      BY <1>4, <1>5, <2>1 DEF Range
  <1>9. QED
    BY <1>2, <1>6, <1>7, <1>8 DEF q

\* The step to an item.
LEMMA StepIs ==
    ASSUME NEW n \in Nat, NEW v \in Trees[n + 1], NEW k \in Parts(v)
    PROVE  Step(v, k) \in Steps /\ (Step(v, k) = [field |-> ""] <=> v.kind = "object" /\ k = "")
  <1>1. CASE v.kind = "object"
    <2>1. k \in AllNames
      BY <1>1, WithItems DEF Parts, HasItems, Array
    <2>2. QED
      BY <1>1, <2>1, StepsApart DEF Step
  <1>2. CASE v.kind # "object"
    <2>1. DOMAIN v.items \subseteq Nat
      <3>1. CASE v \in Leaves
        <4>1. v.items \in Seq(NumberSet)
          BY <3>1, NumbersInLeaves, BytesOfNumbers
        <4>2. QED
          BY <4>1, LenProperties
      <3>2. CASE v.items \in Seq(Trees[n])
        BY <3>2, LenProperties
      <3>3. QED
        BY <1>2, <3>1, <3>2, WithItems
    <2>2. k \in Nat
      BY <2>1 DEF Parts
    <2>3. QED
      BY <1>2, <2>2, StepsApart DEF Step
  <1>3. QED
    BY <1>1, <1>2

\* However many levels more.
LEMMA TreesMonotone == \A n, m \in Nat : n <= m => Trees[n] \subseteq Trees[m]
  <1>1. SUFFICES ASSUME NEW n \in Nat PROVE \A m \in Nat : n <= m => Trees[n] \subseteq Trees[m]
    OBVIOUS
  <1> DEFINE S == {m \in Nat : n <= m => Trees[n] \subseteq Trees[m]}
  <1>2. 0 \in S
    OBVIOUS
  <1>3. ASSUME NEW m \in Nat, m \in S PROVE m + 1 \in S
    <2>1. CASE n <= m
      BY <1>3, <2>1, TreesGrow
    <2>2. CASE ~(n <= m)
      <3>1. n <= m + 1 => n = m + 1
        BY <2>2
      <3>2. QED
        BY <3>1
    <2>3. QED
      BY <2>1, <2>2
  <1>4. QED
    <2> HIDE DEF S
    <2>1. \A m \in Nat : m \in S
      BY <1>2, <1>3, Induction
    <2>2. QED
      BY <2>1 DEF S

\* A tree that has trees for items, and they are trees of one level less.
LEMMA TreeItems ==
    ASSUME NEW v \in Tree, NEW k \in Parts(v)
    PROVE  v.items[k] \in Tree
  <1>1. v.items[k] \in Trees[MaxDepth]
    BY TreeLevel, ItemsBelow DEF Tree
  <1>2. QED
    BY <1>1, TreeLevel, TreesGrow DEF Tree

\* Every node of a value is a pair of a path and a shape.
LEMMA NodesHavePaths ==
    \A v \in Tree : \A node \in Nodes[v] : node[1] \in Seq(Steps) /\ node = <<node[1], node[2]>>
  <1> DEFINE Good(v) == \A node \in Nodes[v] : node[1] \in Seq(Steps) /\ node = <<node[1], node[2]>>
             S == {n \in Nat : n <= MaxDepth + 1 => \A v \in Trees[n] : Good(v)}
  <1>1. ASSUME NEW v \in Tree, \A k \in Parts(v) : Good(v.items[k]) PROVE Good(v)
    <2>1. \A k \in Parts(v) : Step(v, k) \in Steps
      BY StepIs, TreeLevel DEF Tree
    <2>2. SUFFICES ASSUME NEW node \in Nodes[v] PROVE node[1] \in Seq(Steps) /\ node = <<node[1], node[2]>>
      OBVIOUS
    <2>3. node \in NodesOf(Nodes, v)
      BY NodesIs
    <2>4. CASE node = << <<>>, Shape(v) >>
      BY <2>4
    <2>5. CASE \E k \in Parts(v) : node \in NodesBelow(v, k, Nodes[v.items[k]])
      <3>1. PICK k \in Parts(v) : node \in NodesBelow(v, k, Nodes[v.items[k]])
        BY <2>5
      <3>2. PICK m \in Nodes[v.items[k]] : node = << <<Step(v, k)>> \o m[1], m[2] >>
        BY <3>1 DEF NodesBelow
      <3>3. m[1] \in Seq(Steps) /\ Step(v, k) \in Steps
        BY <1>1, <2>1
      <3>4. <<Step(v, k)>> \o m[1] \in Seq(Steps)
        BY <3>3, PathBelow
      <3>5. QED
        BY <3>2, <3>4
    <2>6. QED
      BY <2>3, <2>4, <2>5 DEF NodesOf
  <1> HIDE DEF Good
  <1>2. 0 \in S
    <2>1. SUFFICES ASSUME NEW v \in Leaves PROVE Good(v)
      BY TreesGrow
    <2>2. Leaves \subseteq Tree
      BY TreeLevel, TreesGrow DEF Tree
    <2>3. \A x \in NumberSet : Good(x)
      BY <1>1, <2>2, NumbersHaveNoItems
    <2>4. QED
      BY <1>1, <2>2, <2>3, NumbersInLeaves
  <1>3. ASSUME NEW n \in Nat, n \in S PROVE n + 1 \in S
    <2>1. SUFFICES ASSUME n + 1 <= MaxDepth + 1, NEW v \in Trees[n + 1] PROVE Good(v)
      OBVIOUS
    <2>2. v \in Tree
      BY <2>1, TreeLevel, TreesMonotone DEF Tree
    <2>3. \A x \in Trees[n] : Good(x)
      BY <1>3, <2>1, TreeLevel
    <2>4. QED
      BY <1>1, <2>2, <2>3, ItemsBelow
  <1>4. \A n \in Nat : n \in S
    <2> HIDE DEF S
    <2>1. QED
      BY <1>2, <1>3, Induction
  <1>5. \A v \in Tree : Good(v)
    BY <1>4, TreeLevel DEF Tree
  <1>6. QED
    BY <1>5 DEF Good

\* The items of an argument that arrive.
Kept(v) == {k \in Parts(v) : ~(v.kind = "object" /\ k = "")}

\* What arrives is what is there, and what arrives of the items that do.
LEMMA ArrivingIs ==
    ASSUME NEW v \in Tree
    PROVE  Arriving(v) = {<< <<>>, Shape(v) >>} \cup UNION {NodesBelow(v, k, Arriving(v.items[k])) : k \in Kept(v)}
  <1>1. \A k \in Parts(v) : Step(v, k) \in Steps /\ (Step(v, k) = [field |-> ""] <=> k \notin Kept(v))
    BY StepIs, TreeLevel DEF Tree, Kept
  <1>2. ASSUME NEW k \in Parts(v), NEW m \in Nodes[v.items[k]]
        PROVE  [field |-> ""] \notin Range(<<Step(v, k)>> \o m[1])
                 <=> k \in Kept(v) /\ [field |-> ""] \notin Range(m[1])
    <2>1. m[1] \in Seq(Steps) /\ Step(v, k) \in Steps
      BY <1>1, NodesHavePaths, TreeItems
    <2>2. Range(<<Step(v, k)>> \o m[1]) = {Step(v, k)} \cup Range(m[1])
      BY <2>1, PathBelow
    <2>3. QED
      BY <1>1, <2>2
  <1>3. [field |-> ""] \notin Range(<< <<>>, Shape(v) >>[1])
    BY DEF Range
  <1>4. Nodes[v] = NodesOf(Nodes, v)
    BY NodesIs
  <1>5. ASSUME NEW node \in Arriving(v)
        PROVE  \/ node = << <<>>, Shape(v) >>
               \/ \E k \in Kept(v) : node \in NodesBelow(v, k, Arriving(v.items[k]))
    <2>1. node \in NodesOf(Nodes, v) /\ [field |-> ""] \notin Range(node[1])
      BY <1>4 DEF Arriving
    <2>2. CASE \E k \in Parts(v) : node \in NodesBelow(v, k, Nodes[v.items[k]])
      <3>1. PICK k \in Parts(v) : node \in NodesBelow(v, k, Nodes[v.items[k]])
        BY <2>2
      <3>2. PICK m \in Nodes[v.items[k]] : node = << <<Step(v, k)>> \o m[1], m[2] >>
        BY <3>1 DEF NodesBelow
      <3>3. k \in Kept(v) /\ m \in Arriving(v.items[k])
        BY <1>2, <2>1, <3>2 DEF Arriving
      <3>4. QED
        BY <3>2, <3>3 DEF NodesBelow
    <2>3. QED
      BY <2>1, <2>2 DEF NodesOf
  <1>6. << <<>>, Shape(v) >> \in Arriving(v)
    BY <1>3, <1>4 DEF Arriving, NodesOf
  <1>7. ASSUME NEW k \in Kept(v), NEW node \in NodesBelow(v, k, Arriving(v.items[k]))
        PROVE  node \in Arriving(v)
    <2>1. PICK m \in Arriving(v.items[k]) : node = << <<Step(v, k)>> \o m[1], m[2] >>
      BY <1>7 DEF NodesBelow
    <2>2. k \in Parts(v) /\ m \in Nodes[v.items[k]] /\ [field |-> ""] \notin Range(m[1])
      BY DEF Kept, Arriving
    <2>3. node \in NodesBelow(v, k, Nodes[v.items[k]])
      BY <2>1, <2>2 DEF NodesBelow
    <2>4. node \in Nodes[v]
      BY <1>4, <2>2, <2>3 DEF NodesOf
    <2>5. QED
      BY <1>2, <2>1, <2>2, <2>4 DEF Arriving
  <1>8. QED
    BY <1>5, <1>6, <1>7

\* A map of a tree, by what makes trees of its items.
LEMMA MapIs ==
    ASSUME NEW n \in Nat, NEW m \in Nat, NEW w \in Trees[n + 1], HasItems(w),
           NEW f, \A k \in Parts(w) : f[w.items[k]] \in Trees[m]
    PROVE  /\ Map(f, w) \in Trees[m + 1] /\ HasItems(Map(f, w)) /\ Map(f, w).kind = w.kind
           /\ DOMAIN Map(f, w).items = DOMAIN w.items /\ Parts(Map(f, w)) = Parts(w)
           /\ \A k \in Parts(w) : Map(f, w).items[k] = f[w.items[k]]
  <1> DEFINE items == [k \in DOMAIN w.items |-> IF w.items[k] = Absent THEN Absent ELSE f[w.items[k]]]
  <1>1. w = [kind |-> w.kind, items |-> w.items] /\ w.kind \in {"array", "object"}
    BY WithItems DEF HasItems, Array
  <1>2. Map(f, w) = [kind |-> w.kind, items |-> items]
    BY <1>1 DEF Map
  <1>3. Map(f, w).kind = w.kind /\ Map(f, w).items = items /\ HasItems(Map(f, w))
    <2> HIDE DEF items
    <2>1. QED
      BY <1>1, <1>2 DEF HasItems
  <1>4. \A k \in Parts(w) : items[k] = f[w.items[k]] /\ items[k] \in Trees[m]
    BY DEF Parts
  <1>5. Absent \notin Trees[m]
    BY AbsentIsNoTree
  <1>6. DOMAIN items = DOMAIN w.items
    OBVIOUS
  <1>7. Parts(w) = {k \in DOMAIN w.items : w.items[k] # Absent}
    BY DEF Parts
  <1>8. \A k \in DOMAIN w.items \ Parts(w) : items[k] = Absent
    BY <1>7
  <1> HIDE DEF items
  <1>9. Parts(Map(f, w)) = Parts(w)
    <2>1. Parts(Map(f, w)) = {k \in DOMAIN items : items[k] # Absent}
      BY <1>3 DEF Parts
    <2>2. QED
      BY <1>4, <1>5, <1>6, <1>7, <1>8, <2>1
  <1>10. Map(f, w) \in Trees[m + 1]
    <2>1. CASE w.kind = "array"
      <3>1. w.items \in Seq(Trees[n])
        BY <2>1, WithItems DEF HasItems
      <3>2. \A k \in DOMAIN w.items : w.items[k] \in Trees[n]
        BY <3>1, ElementOfSeq, LenProperties
      <3>3. DOMAIN w.items = Parts(w)
        BY <1>7, <3>2, AbsentIsNoTree
      <3>4. DOMAIN w.items = 1 .. Len(w.items) /\ Len(w.items) \in Nat
        BY <3>1, LenProperties
      <3>5. items = [k \in 1 .. Len(w.items) |-> items[k]]
        BY <3>4 DEF items
      <3>6. \A k \in 1 .. Len(w.items) : items[k] \in Trees[m]
        BY <1>4, <3>3, <3>4
      <3>7. items \in Seq(Trees[m])
        <4>1. items \in [1 .. Len(w.items) -> Trees[m]]
          BY <3>5, <3>6
        <4>2. QED
          BY <3>4, <4>1, SeqDef
      <3>8. QED
        BY <1>2, <2>1, <3>7, ArrayTree DEF Array
    <2>2. CASE w.kind = "object"
      <3>1. w.items \in [AllNames -> Trees[n] \cup {Absent}]
        BY <2>2, WithItems DEF HasItems
      <3>2. items \in [AllNames -> Trees[m] \cup {Absent}]
        <4>1. DOMAIN w.items = AllNames
          BY <3>1
        <4>2. \A k \in AllNames : items[k] \in Trees[m] \cup {Absent}
          BY <1>4, <1>8, <4>1
        <4>3. QED
          BY <4>1, <4>2 DEF items
      <3>3. QED
        BY <1>2, <2>2, <3>2, ObjectTree
    <2>3. QED
      BY <1>1, <2>1, <2>2
  <1>11. QED
    BY <1>3, <1>4, <1>6, <1>9, <1>10

\* What is written of a tree is one, without fields that have no name.
LEMMA WrittenIs ==
    ASSUME NEW n \in Nat, NEW v \in Trees[n + 1], HasItems(v)
    PROVE  /\ Written(v) \in Trees[n + 1] /\ HasItems(Written(v)) /\ Written(v).kind = v.kind
           /\ Parts(Written(v)) = Kept(v)
           /\ \A k \in Kept(v) : Written(v).items[k] = v.items[k]
  <1>1. /\ Written(v).kind = v.kind /\ HasItems(Written(v)) /\ DOMAIN Written(v).items = DOMAIN v.items
        /\ \A k \in DOMAIN v.items :
                Written(v).items[k] = IF v.kind = "object" /\ k = "" THEN Absent ELSE v.items[k]
    BY WrittenItems DEF HasItems
  <1>2. Parts(Written(v)) = Kept(v) /\ \A k \in Kept(v) : Written(v).items[k] = v.items[k]
    BY <1>1 DEF Parts, Kept
  <1>3. Written(v) \in Trees[n + 1]
    <2>1. CASE v.kind # "object"
      BY <2>1 DEF Written
    <2>2. CASE v.kind = "object"
      <3>1. v.items \in [AllNames -> Trees[n] \cup {Absent}]
        BY <2>2, WithItems DEF HasItems
      <3>2. v.items \in [AllNames -> Trees[n] \cup {Absent}] /\ v = [kind |-> "object", items |-> v.items]
        BY <2>2, WithItems DEF HasItems, Array
      <3> DEFINE items == [v.items EXCEPT ![""] = Absent]
      <3>3. Written(v) = [kind |-> "object", items |-> items]
        BY <2>2, <3>2 DEF Written
      <3>4. items \in [AllNames -> Trees[n] \cup {Absent}]
        BY <3>1
      <3> HIDE DEF items
      <3>5. QED
        BY <3>3, <3>4, ObjectTree
    <2>3. QED
      BY <2>1, <2>2
  <1>4. QED
    BY <1>1, <1>2, <1>3

\* The trees of some leaves only.
LEMMA SomeTrees ==
    ASSUME NEW leaves, leaves \subseteq Leaves, NEW lacking
    PROVE  \A n \in Nat : /\ TreesOf(leaves, lacking)[n] \subseteq Trees[n]
                          /\ \A v \in TreesOf(leaves, lacking)[n + 1] :
                               Grew(leaves, lacking, TreesOf(leaves, lacking)[n], v)
  <1> DEFINE T == TreesOf(leaves, lacking)
  <1>1. T[0] = leaves /\ \A n \in Nat : T[n + 1] = Grown(leaves, lacking, T[n])
    BY TreesOfLevels
  <1> HIDE DEF T
  <1>2. \A n \in Nat : \A v \in T[n + 1] : Grew(leaves, lacking, T[n], v)
    BY <1>1, GrownGrew
  <1> DEFINE S == {n \in Nat : T[n] \subseteq Trees[n]}
  <1>3. 0 \in S
    BY <1>1, TreesGrow
  <1>4. ASSUME NEW n \in Nat, n \in S PROVE n + 1 \in S
    <2>1. SUFFICES ASSUME NEW v \in T[n + 1] PROVE v \in Trees[n + 1]
      OBVIOUS
    <2>2. Grew(leaves, lacking, T[n], v)
      BY <1>2
    <2>3. CASE v \in leaves
      BY <2>3, TreesGrow
    <2>4. CASE v.kind = "array" /\ v.items \in Seq(T[n]) /\ v = Array(v.items)
      <3>1. v.items \in Seq(Trees[n])
        BY <1>4, <2>4, SeqMonotonic
      <3>2. QED
        BY <2>4, <3>1, ArrayTree
    <2>5. CASE v.items \in [AllNames -> T[n] \cup {Absent}] /\ v = [kind |-> "object", items |-> v.items]
      <3>1. v.items \in [AllNames -> Trees[n] \cup {Absent}]
        BY <1>4, <2>5
      <3>2. QED
        BY <2>5, <3>1, ObjectTree
    <2>6. QED
      BY <2>2, <2>3, <2>4, <2>5 DEF Grew
  <1>5. \A n \in Nat : n \in S
    <2> HIDE DEF S
    <2>1. QED
      BY <1>3, <1>4, Induction
  <1>6. QED
    BY <1>2, <1>5 DEF T

\* What grew of S has items of S, and none under the names it lacks.
LEMMA GrewItems ==
    ASSUME NEW leaves, NEW lacking, NEW S, NEW v, Grew(leaves, lacking, S, v), HasItems(v)
    PROVE  /\ \A k \in Parts(v) : v.items[k] \in S
           /\ \A name \in lacking : ~ Has(v, name)
           /\ v.kind \in {"array", "object"}
  <1>1. \A k \in Parts(v) : k \in DOMAIN v.items /\ v.items[k] # Absent
    BY DEF Parts
  <1>2. CASE v.kind = "array" /\ v.items \in Seq(S)
    <2>1. \A k \in DOMAIN v.items : v.items[k] \in S
      BY <1>2, ElementOfSeq, LenProperties
    <2>2. QED
      BY <1>1, <1>2, <2>1 DEF Has
  <1>3. CASE /\ v.kind = "object" /\ v.items \in [AllNames -> S \cup {Absent}]
             /\ \A name \in lacking : v.items[name] = Absent
    BY <1>1, <1>3 DEF Has
  <1>4. QED
    BY <1>2, <1>3 DEF Grew

\* What an argument is.
LEMMA ArgumentIs ==
    /\ ArgumentTrees[0] = ArgumentLeaves
    /\ \A n \in Nat : /\ ArgumentTrees[n] \subseteq Trees[n]
                      /\ \A v \in ArgumentTrees[n + 1] : Grew(ArgumentLeaves, Reserved, ArgumentTrees[n], v)
  <1>1. ArgumentLeaves \subseteq Leaves
    BY DEF Leaves
  <1>2. QED
    BY <1>1, SomeTrees, TreesOfLevels DEF ArgumentTrees

\* What an argument has as items are arguments, and none is under a reserved name.
LEMMA ArgumentItems ==
    ASSUME NEW n \in Nat, NEW v \in ArgumentTrees[n + 1], HasItems(v)
    PROVE  /\ \A k \in Parts(v) : v.items[k] \in ArgumentTrees[n]
           /\ \A name \in Reserved : ~ Has(v, name)
           /\ v.kind \in {"array", "object"}
  <1>1. Grew(ArgumentLeaves, Reserved, ArgumentTrees[n], v)
    BY ArgumentIs
  <1>2. QED
    BY <1>1, GrewItems

-----------------------------------------------------------------------------
(* Arguments arrive.                                                       *)

\* Some proxy in v has no object.
Fails(t, v) == \E node \in Arriving(v) : node[2].kind = "proxy" /\ node[2].id \notin DOMAIN t.map
\* What the nodes of v that arrive mean.
Meant(t, v) == {<<node[1], Meaning(t, node[2])>> : node \in Arriving(v)}

\* What becomes of v, which is of n levels.
Arrives(t, n, v) ==
    LET j == ToJson[v]
        h == HookArgument(t)[j]
    IN /\ j \in Trees[n + 1] /\ h \in Trees[n + 1]
       /\ Fails(t, v) <=> h = Thrown
       /\ ~ Fails(t, v) => Nodes[h] = Meant(t, v)

\* What items mean is what they make of the whole.
LEMMA ItemsMeant ==
    ASSUME NEW t, NEW v \in Tree, NEW h \in Tree, Parts(h) = Kept(v), Shape(h) = Meaning(t, Shape(v)),
           \A k \in Kept(v) : Step(h, k) = Step(v, k) /\ Nodes[h.items[k]] = Meant(t, v.items[k])
    PROVE  Nodes[h] = Meant(t, v)
  <1>1. Nodes[h] = {<< <<>>, Shape(h) >>} \cup UNION {NodesBelow(h, k, Nodes[h.items[k]]) : k \in Kept(v)}
    BY NodesIs DEF NodesOf
  <1>2. Arriving(v) = {<< <<>>, Shape(v) >>} \cup UNION {NodesBelow(v, k, Arriving(v.items[k])) : k \in Kept(v)}
    BY ArrivingIs
  <1>3. << <<>>, Shape(h) >> \in Meant(t, v)
    <2>1. << <<>>, Shape(v) >> \in Arriving(v)
      BY <1>2
    <2>2. << <<>>, Shape(v) >>[1] = <<>> /\ << <<>>, Shape(v) >>[2] = Shape(v)
      OBVIOUS
    <2>3. QED
      BY <2>1, <2>2 DEF Meant
  <1>4. ASSUME NEW k \in Kept(v), NEW node \in NodesBelow(h, k, Nodes[h.items[k]])
        PROVE  node \in Meant(t, v)
    <2>1. PICK m \in Meant(t, v.items[k]) : node = << <<Step(v, k)>> \o m[1], m[2] >>
      BY <1>4 DEF NodesBelow
    <2>2. PICK a \in Arriving(v.items[k]) : m = <<a[1], Meaning(t, a[2])>>
      BY DEF Meant
    <2> DEFINE b == << <<Step(v, k)>> \o a[1], a[2] >>
    <2>3. b \in NodesBelow(v, k, Arriving(v.items[k]))
      BY DEF NodesBelow
    <2>4. b \in Arriving(v)
      BY <1>2, <2>3
    <2>5. node = <<b[1], Meaning(t, b[2])>>
      BY <2>1, <2>2
    <2>6. QED
      BY <2>4, <2>5 DEF Meant
  <1>5. ASSUME NEW node \in Meant(t, v) PROVE node \in Nodes[h]
    <2>1. PICK b \in Arriving(v) : node = <<b[1], Meaning(t, b[2])>>
      BY DEF Meant
    <2>2. CASE b = << <<>>, Shape(v) >>
      BY <1>1, <2>1, <2>2
    <2>3. CASE \E k \in Kept(v) : b \in NodesBelow(v, k, Arriving(v.items[k]))
      <3>1. PICK k \in Kept(v) : b \in NodesBelow(v, k, Arriving(v.items[k]))
        BY <2>3
      <3>2. PICK a \in Arriving(v.items[k]) : b = << <<Step(v, k)>> \o a[1], a[2] >>
        BY <3>1 DEF NodesBelow
      <3> DEFINE m == <<a[1], Meaning(t, a[2])>>
      <3>3. m \in Nodes[h.items[k]]
        BY DEF Meant
      <3>4. node = << <<Step(h, k)>> \o m[1], m[2] >>
        BY <2>1, <3>2
      <3>5. node \in NodesBelow(h, k, Nodes[h.items[k]])
        BY <3>3, <3>4 DEF NodesBelow
      <3>6. QED
        BY <1>1, <3>5
    <2>4. QED
      BY <1>2, <2>2, <2>3
  <1>6. QED
    BY <1>1, <1>3, <1>4, <1>5

\* What has items fails if one of those that arrive does.
LEMMA ItemsFail ==
    ASSUME NEW t, NEW v \in Tree, Shape(v).kind # "proxy"
    PROVE  Fails(t, v) <=> \E k \in Kept(v) : Fails(t, v.items[k])
  <1>1. Arriving(v) = {<< <<>>, Shape(v) >>} \cup UNION {NodesBelow(v, k, Arriving(v.items[k])) : k \in Kept(v)}
    BY ArrivingIs
  <1>2. ASSUME NEW k \in Kept(v), Fails(t, v.items[k]) PROVE Fails(t, v)
    <2>1. PICK a \in Arriving(v.items[k]) : a[2].kind = "proxy" /\ a[2].id \notin DOMAIN t.map
      BY <1>2 DEF Fails
    <2>2. << <<Step(v, k)>> \o a[1], a[2] >> \in NodesBelow(v, k, Arriving(v.items[k]))
      BY DEF NodesBelow
    <2>3. << <<Step(v, k)>> \o a[1], a[2] >> \in Arriving(v)
      BY <1>1, <2>2
    <2>4. QED
      BY <2>1, <2>3 DEF Fails
  <1>3. ASSUME Fails(t, v) PROVE \E k \in Kept(v) : Fails(t, v.items[k])
    <2>1. PICK b \in Arriving(v) : b[2].kind = "proxy" /\ b[2].id \notin DOMAIN t.map
      BY <1>3 DEF Fails
    <2>2. PICK k \in Kept(v) : b \in NodesBelow(v, k, Arriving(v.items[k]))
      BY <1>1, <2>1
    <2>3. PICK a \in Arriving(v.items[k]) : b = << <<Step(v, k)>> \o a[1], a[2] >>
      BY <2>2 DEF NodesBelow
    <2>4. QED
      BY <2>1, <2>3 DEF Fails
  <1>4. QED
    BY <1>2, <1>3

\* Numbers are what they were.
LEMMA NumbersArrive ==
    ASSUME NEW t, NEW x \in NumberSet
    PROVE  ~ Fails(t, x) /\ Nodes[x] = Meant(t, x)
  <1>1. x \in Tree /\ Parts(x) = {} /\ ~ HasItems(x) /\ x.kind = "number"
    BY NumbersHaveNoItems, TreeLevel, TreesGrow DEF Tree, NumberSet
  <1>2. Shape(x) = x /\ Kept(x) = {} /\ Meaning(t, x) = x
    BY <1>1 DEF Shape, Kept, Meaning
  <1>3. QED
    BY <1>1, <1>2, ItemsMeant, ItemsFail

\* The objects that stand for something.
LEMMA StandIns ==
    ASSUME NEW id \in Nat
    PROVE  LET r == Object([instanceId |-> Number(id)])
               c == Object([callbackId |-> Number(id)])
           IN /\ r \in Trees[1] /\ Has(r, "instanceId") /\ r.items["instanceId"].number = id
              /\ c \in Trees[1] /\ ~ Has(c, "instanceId") /\ Has(c, "callbackId") /\ c.items["callbackId"].number = id
  <1> DEFINE ri == [n \in AllNames |-> IF n = "instanceId" THEN Number(id) ELSE Absent]
             ci == [n \in AllNames |-> IF n = "callbackId" THEN Number(id) ELSE Absent]
  <1>1. Number(id) \in Trees[0] /\ Number(id) # Absent /\ Number(id).number = id
    <2>1. Number(id) \in NumberSet
      BY DEF Number, NumberSet
    <2>2. QED
      BY <2>1, NumbersHaveNoItems, TreesGrow, AbsentIsNone DEF Number
  <1>2. "instanceId" \in AllNames /\ "callbackId" \in AllNames
    BY DEF AllNames, Reserved
  <1>3. DOMAIN [instanceId |-> Number(id)] = {"instanceId"} /\ DOMAIN [callbackId |-> Number(id)] = {"callbackId"}
    OBVIOUS
  <1>4. Object([instanceId |-> Number(id)]) = [kind |-> "object", items |-> ri]
    BY <1>3 DEF Object
  <1>5. Object([callbackId |-> Number(id)]) = [kind |-> "object", items |-> ci]
    BY <1>3 DEF Object
  <1>6. ri \in [AllNames -> Trees[0] \cup {Absent}] /\ ci \in [AllNames -> Trees[0] \cup {Absent}]
    BY <1>1
  <1>7. Object([instanceId |-> Number(id)]) \in Trees[1] /\ Object([callbackId |-> Number(id)]) \in Trees[1]
    <2> HIDE DEF ri, ci
    <2>1. QED
      BY <1>4, <1>5, <1>6, ObjectTree
  <1>8. /\ ri["instanceId"] = Number(id) /\ ci["instanceId"] = Absent
        /\ ci["callbackId"] = Number(id)
    BY <1>2
  <1>9. QED
    <2> HIDE DEF ri, ci
    <2>1. QED
      BY <1>1, <1>4, <1>5, <1>7, <1>8 DEF Has

\* A leaf that becomes a leaf without items.
LEMMA LeafBecomes ==
    ASSUME NEW t, NEW v \in ArgumentLeaves, NEW h \in Leaves, Parts(v) = {}, Parts(h) = {},
           ToJson[v] \in Trees[1], HookArgument(t)[ToJson[v]] = h,
           h = IF v.kind = "proxy" /\ v.id \notin DOMAIN t.map THEN Thrown ELSE Meaning(t, v),
           Meaning(t, v) # Thrown
    PROVE  Arrives(t, 0, v)
  <1>1. v \in Tree /\ h \in Tree /\ h \in Trees[0 + 1] /\ ToJson[v] \in Trees[0 + 1]
    BY TreeLevel, TreesGrow, TreesMonotone DEF Tree, Leaves
  <1>2. ~ HasItems(v) /\ ~ HasItems(h)
    BY LeafKinds DEF HasItems, Leaves
  <1>3. Shape(v) = v /\ Kept(v) = {}
    BY <1>2 DEF Shape, Kept
  <1>4. Arriving(v) = {<< <<>>, v >>}
    BY <1>1, <1>3, ArrivingIs
  <1>5. Shape(h) = h
    BY <1>2 DEF Shape
  <1>6. Nodes[h] = {<< <<>>, h >>}
    BY <1>1, <1>5, NodesIs DEF NodesOf
  <1>7. Fails(t, v) <=> v.kind = "proxy" /\ v.id \notin DOMAIN t.map
    BY <1>4 DEF Fails
  <1>8. Meant(t, v) = {<< <<>>, Meaning(t, v) >>}
    BY <1>4 DEF Meant
  <1>9. QED
    BY <1>1, <1>6, <1>7, <1>8 DEF Arrives

\* What the conversions say of leaves.
LEMMA LeafConversions ==
    ASSUME NEW t
    PROVE  /\ Leaves \subseteq Trees[1] /\ Trees[1] \subseteq Tree
           /\ \A v \in Leaves : ToJson[v] = LeafToJson(v) /\ HookArgument(t)[v] = v
           /\ \A j \in Tree : HookArgument(t)[j] = HookOf(t, HookArgument(t), j)
  <1>1. Leaves \subseteq Trees[0 + 1] /\ Trees[0 + 1] \subseteq Tree
    BY TreeLevel, TreesGrow, TreesMonotone DEF Tree
  <1>2. \A v \in Leaves : ~ HasItems(v) /\ ~ Has(v, "instanceId") /\ ~ Has(v, "callbackId")
    BY LeafKinds DEF HasItems, Has
  <1>3. \A j \in Tree : HookArgument(t)[j] = HookOf(t, HookArgument(t), j)
    BY HookArgumentIs
  <1>4. \A v \in Leaves : HookArgument(t)[v] = v
    BY <1>1, <1>2, <1>3 DEF HookOf
  <1>5. \A v \in Leaves : ToJson[v] = LeafToJson(v)
    BY <1>1, <1>2, ToJsonIs DEF JsonOf
  <1>6. QED
    BY <1>1, <1>3, <1>4, <1>5

\* Arguments that are leaves.
LEMMA LeavesArrive ==
    ASSUME NEW t, \A id \in DOMAIN t.map : t.map[id] \in Instances, NEW v \in ArgumentLeaves
    PROVE  Arrives(t, 0, v)
  <1>1. v \in Leaves /\ ~ HasItems(v)
    BY LeafKinds DEF Leaves, HasItems
  <1>2. \A x : x.kind \notin {"array", "object", "bytes"} => Parts(x) = {}
    BY DEF Parts, HasItems
  <1>3. Null \in Leaves /\ Null.kind = "null" /\ Thrown \in Leaves /\ Thrown.kind = "thrown"
    BY DEF Leaves, ArgumentLeaves, PlainLeaves, Null, Thrown
  <1>4. CASE v \in [kind : {"undefined"}]
    <2>1. ToJson[v] = Null /\ Meaning(t, v) = Null /\ v.kind = "undefined"
      BY <1>1, <1>4, LeafConversions DEF LeafToJson, Meaning
    <2>2. HookArgument(t)[Null] = Null /\ Null \in Trees[1]
      BY <1>3, LeafConversions
    <2>3. QED
      BY <1>2, <1>3, <2>1, <2>2, LeafBecomes
  <1>5. CASE v.kind \in {"null", "number", "string"}
    <2>1. ToJson[v] = v /\ Meaning(t, v) = v
      BY <1>1, <1>5, LeafConversions DEF LeafToJson, Meaning
    <2>2. HookArgument(t)[v] = v /\ v \in Trees[1]
      BY <1>1, LeafConversions
    <2>3. QED
      BY <1>1, <1>2, <1>3, <1>5, <2>1, <2>2, LeafBecomes
  <1>6. CASE v \in [kind : {"proxy"}, id : Nat]
    <2>1. v.kind = "proxy" /\ v.id \in Nat /\ ToJson[v] = Object([instanceId |-> Number(v.id)])
      BY <1>1, <1>6, LeafConversions DEF LeafToJson
    <2>2. ToJson[v] \in Trees[1] /\ Has(ToJson[v], "instanceId") /\ ToJson[v].items["instanceId"].number = v.id
      BY <2>1, StandIns
    <2>3. HookArgument(t)[ToJson[v]] = IF v.id \in DOMAIN t.map THEN Instance(t.map[v.id]) ELSE Thrown
      BY <2>2, LeafConversions DEF HookOf, HookObject
    <2>4. Meaning(t, v) = Instance(t.map[v.id]) /\ Instance(t.map[v.id]).kind = "instance"
      BY <2>1 DEF Meaning, Instance
    <2>5. v.id \in DOMAIN t.map => Instance(t.map[v.id]) \in Leaves
      BY DEF Instance, InstanceSet, Leaves
    <2>6. QED
      BY <1>2, <1>3, <2>1, <2>2, <2>3, <2>4, <2>5, LeafBecomes
  <1>7. CASE v \in [kind : {"callback"}, id : Nat]
    <2>1. v.kind = "callback" /\ v.id \in Nat /\ ToJson[v] = Object([callbackId |-> Number(v.id)])
      BY <1>1, <1>7, LeafConversions DEF LeafToJson
    <2>2. /\ ToJson[v] \in Trees[1] /\ ~ Has(ToJson[v], "instanceId") /\ Has(ToJson[v], "callbackId")
          /\ ToJson[v].items["callbackId"].number = v.id
      BY <2>1, StandIns
    <2>3. HookArgument(t)[ToJson[v]] = Closure(v.id) /\ Meaning(t, v) = Closure(v.id)
      BY <2>1, <2>2, LeafConversions DEF HookOf, HookObject, Meaning
    <2>4. Closure(v.id) \in Leaves /\ Closure(v.id).kind = "closure"
      BY <2>1 DEF Closure, Leaves
    <2>5. QED
      BY <1>2, <1>3, <2>1, <2>2, <2>3, <2>4, LeafBecomes
  <1>8. CASE v.kind = "bytes" /\ v.items = <<>>
    <2>1. v = Bytes(<<>>)
      BY <1>1, <1>8, BytesOfNumbers
    <2>2. ToJson[v] = Null /\ Meaning(t, v) = Null
      BY <1>1, <1>8, <2>1, LeafConversions DEF LeafToJson, Meaning
    <2>3. HookArgument(t)[Null] = Null /\ Null \in Trees[1]
      BY <1>3, LeafConversions
    <2>4. Parts(v) = {}
      BY <1>8, <2>1 DEF Parts
    <2>5. QED
      BY <1>2, <1>3, <1>8, <2>2, <2>3, <2>4, LeafBecomes
  <1>9. CASE v.kind = "bytes" /\ v.items # <<>>
    <2> DEFINE a == Array(v.items)
               h == HookArgument(t)[a]
    <2>1. v = Bytes(v.items) /\ v.items \in Seq(NumberSet)
      BY <1>1, <1>9, BytesOfNumbers
    <2>2. ToJson[v] = a
      BY <1>1, <1>9, LeafConversions DEF LeafToJson
    <2>3. a.kind = "array" /\ a.items = v.items /\ HasItems(a) /\ a = [kind |-> "array", items |-> v.items]
      BY DEF Array, HasItems
    <2>4. \A k \in DOMAIN v.items : v.items[k] \in NumberSet
      BY <2>1, ElementOfSeq, LenProperties
    <2>5. a \in Trees[0 + 1]
      <3>1. v.items \in Seq(Trees[0])
        BY <2>1, NumbersHaveNoItems, TreesGrow, SeqMonotonic
      <3>2. QED
        BY <3>1, ArrayTree
    <2> HIDE DEF a, h
    <2>6. v \in Tree /\ a \in Tree
      BY <1>1, <2>5, LeafConversions
    <2>7. \A k \in Parts(a) : HookArgument(t)[a.items[k]] = a.items[k] /\ a.items[k] # Thrown
      BY <1>3, <2>3, <2>4, LeafConversions, NumbersHaveNoItems DEF Parts, NumberSet
    <2>8. h = Map(HookArgument(t), a)
      BY <2>3, <2>6, <2>7, LeafConversions DEF h, HookOf, Has
    <2>9. Map(HookArgument(t), a) = a
      <3>1. a.items = [k \in DOMAIN a.items |-> IF a.items[k] = Absent THEN Absent ELSE HookArgument(t)[a.items[k]]]
        BY <2>1, <2>3, <2>7, LenProperties DEF Parts
      <3>2. QED
        BY <2>3, <3>1 DEF Map
    <2>10. Parts(a) = Parts(v) /\ Kept(v) = Parts(v)
      BY <1>9, <2>3 DEF Parts, Kept
    <2>11. Shape(v) = [kind |-> "bytes"] /\ Shape(a) = [kind |-> "array"]
      <3>1. Parts(v) # {}
        <4>1. 1 \in DOMAIN v.items
          BY <1>9, <2>1, EmptySeq, LenProperties
        <4>2. QED
          BY <2>3, <2>4, <2>10, <4>1, AbsentIsNone, NumbersHaveNoItems DEF Parts
      <3>2. QED
        BY <1>1, <1>9, <2>3, <3>1 DEF Shape
    <2>12. Meaning(t, [kind |-> "bytes"]) = [kind |-> "array"]
      <3>1. DOMAIN [kind |-> "bytes"] = {"kind"} /\ DOMAIN Bytes(<<>>) = {"kind", "items"}
        BY DEF Bytes
      <3>2. [kind |-> "bytes"] # Bytes(<<>>) /\ [kind |-> "bytes"].kind = "bytes"
        BY <3>1
      <3>3. QED
        BY <3>2 DEF Meaning
    <2>13. \A k \in Kept(v) : /\ Step(a, k) = Step(v, k)
                               /\ v.items[k] \in NumberSet /\ a.items[k] = v.items[k]
      BY <1>9, <2>3, <2>4 DEF Kept, Parts, Step
    <2>14. Nodes[a] = Meant(t, v)
      BY <2>6, <2>10, <2>11, <2>12, <2>13, ItemsMeant, NumbersArrive
    <2>15. ~ Fails(t, v)
      <3>1. Shape(v).kind # "proxy"
        BY <2>11
      <3>2. QED
        BY <2>6, <2>13, <3>1, ItemsFail, NumbersArrive
    <2>16. a # Thrown
      BY <1>3, <2>3
    <2>17. QED
      BY <2>2, <2>5, <2>8, <2>9, <2>14, <2>15, <2>16 DEF Arrives, h
  <1>10. QED
    BY <1>4, <1>5, <1>6, <1>7, <1>8, <1>9 DEF ArgumentLeaves, PlainLeaves, NumberSet

\* Arguments with items, if the items arrive.
LEMMA WholesArrive ==
    ASSUME NEW t, NEW n \in Nat, n + 1 <= MaxDepth, \A x \in ArgumentTrees[n] : Arrives(t, n, x),
           NEW v \in ArgumentTrees[n + 1], HasItems(v)
    PROVE  Arrives(t, n + 1, v)
  <1> DEFINE w == Written(v)
             j == ToJson[v]
             hook == HookArgument(t)
             h == hook[j]
  <1>1. v \in Trees[n + 1] /\ Trees[n + 1] \subseteq Tree /\ Trees[n + 1 + 1] \subseteq Tree
    BY ArgumentIs, TreeLevel, TreesMonotone DEF Tree
  <1>2. /\ v.kind \in {"array", "object"} /\ Kept(v) \subseteq Parts(v)
        /\ \A k \in Kept(v) : v.items[k] \in ArgumentTrees[n]
    BY ArgumentItems DEF Kept
  <1>3. /\ w \in Trees[n + 1] /\ HasItems(w) /\ w.kind = v.kind /\ Parts(w) = Kept(v)
        /\ \A k \in Kept(v) : w.items[k] = v.items[k]
    BY <1>1, WrittenIs
  <1>4. DOMAIN w.items = DOMAIN v.items
    BY <1>1, WrittenItems
  <1>5. j = Map(ToJson, w)
    BY <1>1, ToJsonIs DEF JsonOf
  <1>6. \A k \in Kept(v) : /\ ToJson[v.items[k]] \in Trees[n + 1]
                           /\ hook[ToJson[v.items[k]]] \in Trees[n + 1]
                           /\ Fails(t, v.items[k]) <=> hook[ToJson[v.items[k]]] = Thrown
                           /\ ~ Fails(t, v.items[k]) => Nodes[hook[ToJson[v.items[k]]]] = Meant(t, v.items[k])
    BY <1>2 DEF Arrives
  <1> HIDE DEF w, j, hook, h
  <1>7. /\ j \in Trees[n + 1 + 1] /\ HasItems(j) /\ j.kind = v.kind /\ Parts(j) = Kept(v)
        /\ DOMAIN j.items = DOMAIN v.items
        /\ \A k \in Kept(v) : j.items[k] = ToJson[v.items[k]]
    BY <1>3, <1>4, <1>5, <1>6, MapIs
  <1>8. \A name \in Reserved : ~ Has(j, name)
    <2>1. SUFFICES ASSUME NEW name \in Reserved, Has(j, name) PROVE FALSE
      OBVIOUS
    <2>2. v.kind = "object" /\ j.items[name] # Absent
      BY <1>7, <2>1 DEF Has
    <2>3. DOMAIN v.items = AllNames
      BY <1>1, <2>2, WithItems DEF HasItems
    <2>4. name \in Parts(j)
      BY <1>7, <2>2, <2>3 DEF Parts, AllNames
    <2>5. v.items[name] # Absent
      BY <1>2, <1>7, <2>4 DEF Parts
    <2>6. QED
      BY <2>2, <2>5, ArgumentItems DEF Has
  <1>9. h = HookOf(t, hook, j)
    BY <1>1, <1>7, HookArgumentIs DEF h, hook
  <1>10. h = IF \E k \in Parts(j) : hook[j.items[k]] = Thrown THEN Thrown ELSE Map(hook, j)
    BY <1>7, <1>8, <1>9 DEF HookOf, Reserved
  <1>11. Shape(v) = [kind |-> v.kind] /\ Shape(v).kind # "proxy" /\ Meaning(t, Shape(v)) = [kind |-> v.kind]
    BY <1>2 DEF Shape, Meaning
  <1>12. Fails(t, v) <=> \E k \in Kept(v) : Fails(t, v.items[k])
    BY <1>1, <1>11, ItemsFail
  <1>13. CASE \E k \in Kept(v) : Fails(t, v.items[k])
    <2>1. h = Thrown
      BY <1>6, <1>7, <1>10, <1>13
    <2>2. Thrown \in Trees[n + 1 + 1]
      BY TreesGrow DEF Leaves, Thrown
    <2>3. QED
      BY <1>7, <1>12, <1>13, <2>1, <2>2 DEF Arrives, h, j, hook
  <1>14. CASE ~ \E k \in Kept(v) : Fails(t, v.items[k])
    <2>1. h = Map(hook, j)
      BY <1>6, <1>7, <1>10, <1>14
    <2>2. /\ h \in Trees[n + 1 + 1] /\ HasItems(h) /\ h.kind = v.kind /\ Parts(h) = Kept(v)
          /\ \A k \in Kept(v) : h.items[k] = hook[ToJson[v.items[k]]]
      BY <1>6, <1>7, <2>1, MapIs
    <2>3. h # Thrown
      BY <1>2, <2>2 DEF Thrown
    <2>4. Shape(h) = Meaning(t, Shape(v)) /\ \A k \in Kept(v) : Step(h, k) = Step(v, k)
      BY <1>11, <2>2 DEF Shape, Step
    <2>5. Nodes[h] = Meant(t, v)
      BY <1>1, <1>6, <1>14, <2>2, <2>4, ItemsMeant
    <2>6. QED
      BY <1>7, <1>12, <1>14, <2>2, <2>3, <2>5 DEF Arrives, h, j, hook
  <1>15. QED
    BY <1>13, <1>14

\* Arguments of any depth.
LEMMA TreesArrive ==
    ASSUME NEW t, \A id \in DOMAIN t.map : t.map[id] \in Instances
    PROVE  \A v \in ArgumentTrees[MaxDepth] : ArgumentArrives(t, v)
  <1> DEFINE S == {n \in Nat : n <= MaxDepth => \A v \in ArgumentTrees[n] : Arrives(t, n, v)}
  <1>1. 0 \in S
    BY LeavesArrive, ArgumentIs
  <1>2. ASSUME NEW n \in Nat, n \in S PROVE n + 1 \in S
    <2>1. SUFFICES ASSUME n + 1 <= MaxDepth, NEW v \in ArgumentTrees[n + 1] PROVE Arrives(t, n + 1, v)
      OBVIOUS
    <2>2. \A x \in ArgumentTrees[n] : Arrives(t, n, x)
      BY <1>2, <2>1, TreeLevel
    <2>3. CASE HasItems(v)
      BY <2>1, <2>2, <2>3, WholesArrive
    <2>4. CASE ~ HasItems(v)
      <3>1. v \in ArgumentLeaves
        BY <2>4, ArgumentIs DEF Grew, HasItems
      <3>2. Arrives(t, 0, v) /\ Trees[0 + 1] \subseteq Trees[n + 1 + 1]
        BY <3>1, LeavesArrive, TreesMonotone
      <3>3. QED
        BY <3>2 DEF Arrives
    <2>5. QED
      BY <2>3, <2>4
  <1>3. \A n \in Nat : n \in S
    <2> HIDE DEF S
    <2>1. QED
      BY <1>1, <1>2, Induction
  <1>4. \A v \in ArgumentTrees[MaxDepth] : Arrives(t, MaxDepth, v)
    BY <1>3, TreeLevel
  <1>5. QED
    BY <1>4 DEF Arrives, ArgumentArrives, Fails, Meant

-----------------------------------------------------------------------------
(* The table after registrations.                                          *)

\* The tables while the first k of xs are registered.
Tables(g, t, xs, k) == g = [n \in 0 .. k |-> IF n = 0 THEN t ELSE SetInstance(g[n - 1], xs[n])]

\* There are such tables.
LEMMA TablesExist ==
    ASSUME NEW t, NEW xs
    PROVE  \A k \in Nat : \E g : Tables(g, t, xs, k)
  <1> DEFINE S == {k \in Nat : \E g : Tables(g, t, xs, k)}
  <1>1. 0 \in S
    <2>1. PICK g : g = [n \in 0 .. 0 |-> t]
      OBVIOUS
    <2>2. g = [n \in 0 .. 0 |-> IF n = 0 THEN t ELSE SetInstance(g[n - 1], xs[n])]
      BY <2>1
    <2>3. QED
      BY <2>2 DEF Tables
  <1>2. ASSUME NEW k \in Nat, k \in S PROVE k + 1 \in S
    <2>1. PICK g : Tables(g, t, xs, k)
      BY <1>2
    <2>2. \A n \in 0 .. k : g[n] = IF n = 0 THEN t ELSE SetInstance(g[n - 1], xs[n])
      BY <2>1 DEF Tables
    <2>3. PICK h : h = [n \in 0 .. k + 1 |-> IF n = 0 THEN t ELSE SetInstance(g[n - 1], xs[n])]
      OBVIOUS
    <2>4. \A n \in 0 .. k : h[n] = g[n]
      BY <2>2, <2>3
    <2>5. \A n \in 0 .. k + 1 : n # 0 => h[n - 1] = g[n - 1]
      BY <2>4
    <2>6. h = [n \in 0 .. k + 1 |-> IF n = 0 THEN t ELSE SetInstance(h[n - 1], xs[n])]
      BY <2>3, <2>5
    <2>7. QED
      BY <2>6 DEF Tables
  <1>3. QED
    <2> HIDE DEF S
    <2>1. \A k \in Nat : k \in S
      BY <1>1, <1>2, Induction
    <2>2. QED
      BY <2>1 DEF S

\* What is registered later does not change the tables before.
LEMMA TablesAgree ==
    ASSUME NEW t, NEW xs, NEW ys, NEW g, NEW h, NEW k \in Nat, NEW m \in Nat, k <= m,
           Tables(g, t, xs, k), Tables(h, t, ys, m), \A n \in 1 .. k : xs[n] = ys[n]
    PROVE  \A n \in 0 .. k : g[n] = h[n]
  <1> DEFINE S == {n \in Nat : n <= k => g[n] = h[n]}
  <1>1. /\ \A n \in 0 .. k : g[n] = IF n = 0 THEN t ELSE SetInstance(g[n - 1], xs[n])
        /\ \A n \in 0 .. m : h[n] = IF n = 0 THEN t ELSE SetInstance(h[n - 1], ys[n])
    BY DEF Tables
  <1>2. 0 \in S
    BY <1>1
  <1>3. \A n \in Nat : n \in S => n + 1 \in S
    <2>1. SUFFICES ASSUME NEW n \in Nat, n <= k => g[n] = h[n], n + 1 <= k
                   PROVE  g[n + 1] = h[n + 1]
      OBVIOUS
    <2>2. n + 1 \in 0 .. k /\ n + 1 \in 0 .. m /\ n + 1 \in 1 .. k /\ n + 1 # 0 /\ (n + 1) - 1 = n
      BY <2>1
    <2>3. g[n + 1] = SetInstance(g[n], xs[n + 1]) /\ h[n + 1] = SetInstance(h[n], ys[n + 1])
      BY <1>1, <2>2
    <2>4. QED
      BY <2>1, <2>2, <2>3
  <1>4. QED
    <2> HIDE DEF S
    <2>1. \A n \in Nat : n \in S
      BY <1>2, <1>3, Induction
    <2>2. QED
      BY <2>1 DEF S

\* The table after xs is the last of them.
LEMMA AfterIsLast ==
    ASSUME NEW t, NEW xs \in Seq(Instances)
    PROVE  \E g : Tables(g, t, xs, Len(xs)) /\ After(t, xs) = g[Len(xs)]
  <1> DEFINE g == CHOOSE g : Tables(g, t, xs, Len(xs))
  <1>1. Tables(g, t, xs, Len(xs))
    BY TablesExist, LenProperties
  <1>2. After(t, xs) = g[Len(xs)]
    BY DEF After, Tables
  <1>3. QED
    BY <1>1, <1>2

\* The tables of what comes first are those of the whole.
LEMMA AfterPrefix ==
    ASSUME NEW t, NEW ys \in Seq(Instances), NEW h, Tables(h, t, ys, Len(ys)),
           NEW xs \in Seq(Instances), Len(xs) <= Len(ys), \A n \in 1 .. Len(xs) : xs[n] = ys[n]
    PROVE  After(t, xs) = h[Len(xs)]
  <1>1. PICK g : Tables(g, t, xs, Len(xs)) /\ After(t, xs) = g[Len(xs)]
    BY AfterIsLast
  <1>2. Len(xs) \in Nat /\ Len(ys) \in Nat
    BY LenProperties
  <1>3. \A n \in 0 .. Len(xs) : g[n] = h[n]
    BY <1>1, <1>2, TablesAgree
  <1>4. QED
    BY <1>1, <1>2, <1>3

\* What names objects in table t does in u.
NamesStay(t, u) == \A id \in DOMAIN t.map : id \in DOMAIN u.map /\ u.map[id] = t.map[id]

\* A table that conversions may start from: those in live have their ids.
Usable(t, live) ==
    /\ Sound(t)
    /\ \A id \in DOMAIN t.map : t.map[id] \in Instances
    /\ \A x \in live : Canonical(t, x)

\* Registering keeps a table usable, and what its ids name.
LEMMA SetUsable ==
    ASSUME NEW t, NEW live, Usable(t, live), NEW x \in Instances
    PROVE  LET u == SetInstance(t, x)
           IN Usable(u, live) /\ NamesStay(t, u) /\ t.next \in DOMAIN u.map /\ u.map[t.next] = x /\ t.next \in Nat
  <1>1. PICK u : u = SetInstance(t, x)
    OBVIOUS
  <1>2. /\ u.next = t.next + 1
        /\ DOMAIN u.map = DOMAIN t.map \cup {t.next}
        /\ u.map[t.next] = x /\ \A id \in DOMAIN t.map : u.map[id] = t.map[id]
    BY <1>1 DEF SetInstance, With, Sound, Usable
  <1>3. Sound(u) /\ \A y \in live : Canonical(u, y)
    BY <1>1, SetKeeps DEF Usable
  <1>4. Usable(u, live)
    BY <1>2, <1>3 DEF Usable
  <1>5. NamesStay(t, u) /\ t.next \in Nat
    BY <1>2 DEF NamesStay, Usable, Sound
  <1>6. QED
    BY <1>1, <1>2, <1>4, <1>5

\* So do any number of registrations.
LEMMA TablesUsable ==
    ASSUME NEW t, NEW live, Usable(t, live), NEW ys \in Seq(Instances), NEW h, Tables(h, t, ys, Len(ys)),
           NEW m \in 0 .. Len(ys)
    PROVE  \A n \in m .. Len(ys) : Usable(h[n], live) /\ NamesStay(h[m], h[n])
  <1>1. \A n \in 0 .. Len(ys) : h[n] = IF n = 0 THEN t ELSE SetInstance(h[n - 1], ys[n])
    BY DEF Tables
  <1>2. Len(ys) \in Nat /\ \A n \in 1 .. Len(ys) : ys[n] \in Instances
    BY LenProperties, ElementOfSeq
  <1> DEFINE S == {n \in Nat : n <= Len(ys) => Usable(h[n], live)}
             T == {n \in Nat : m <= n /\ n <= Len(ys) => NamesStay(h[m], h[n])}
  <1>3. \A n \in Nat : n + 1 <= Len(ys) =>
          n + 1 \in 0 .. Len(ys) /\ n + 1 # 0 /\ (n + 1) - 1 = n /\ ys[n + 1] \in Instances /\ n <= Len(ys)
    BY <1>2
  <1>4. 0 \in S
    BY <1>1, <1>2
  <1>5. ASSUME NEW n \in Nat, n \in S PROVE n + 1 \in S
    <2>1. SUFFICES ASSUME n + 1 <= Len(ys) PROVE Usable(h[n + 1], live)
      OBVIOUS
    <2>2. h[n + 1] = SetInstance(h[n], ys[n + 1]) /\ ys[n + 1] \in Instances
      BY <1>1, <1>3, <2>1
    <2>3. Usable(h[n], live)
      BY <1>3, <1>5, <2>1
    <2>4. QED
      BY <2>2, <2>3, SetUsable
  <1>6. \A n \in Nat : n \in S
    <2> HIDE DEF S
    <2>1. QED
      BY <1>4, <1>5, Induction
  <1>7. ASSUME NEW n \in Nat, n \in T PROVE n + 1 \in T
    <2>1. SUFFICES ASSUME m <= n + 1, n + 1 <= Len(ys) PROVE NamesStay(h[m], h[n + 1])
      OBVIOUS
    <2>2. CASE m = n + 1
      BY <2>2 DEF NamesStay
    <2>3. CASE m # n + 1
      <3>1. m <= n /\ n <= Len(ys)
        BY <1>2, <2>1, <2>3
      <3>2. h[n + 1] = SetInstance(h[n], ys[n + 1]) /\ ys[n + 1] \in Instances
        BY <1>1, <1>3, <2>1
      <3>3. Usable(h[n], live) /\ NamesStay(h[m], h[n])
        BY <1>6, <1>7, <3>1
      <3>4. NamesStay(h[n], h[n + 1])
        BY <3>2, <3>3, SetUsable
      <3>5. QED
        BY <3>3, <3>4 DEF NamesStay
    <2>4. QED
      BY <2>2, <2>3
  <1>8. 0 \in T
    BY DEF NamesStay
  <1>9. \A n \in Nat : n \in T
    <2> HIDE DEF T
    <2>1. QED
      BY <1>7, <1>8, Induction
  <1>10. QED
    BY <1>2, <1>6, <1>9

-----------------------------------------------------------------------------
(* Registries.                                                             *)

\* s has what was registered and returned by u, and may have more.
Later(s, u) ==
    /\ Len(u.registered) <= Len(s.registered)
    /\ \A n \in 1 .. Len(u.registered) : u.registered[n] = s.registered[n]
    /\ Len(u.functions) <= Len(s.functions)
    /\ \A n \in 1 .. Len(u.functions) : u.functions[n] = s.functions[n]

\* What a registry is.
LEMMA RegistryIs ==
    ASSUME NEW s \in Registries
    PROVE  /\ s.registered \in Seq(Instances) /\ s.functions \in Seq(STRING)
           /\ Len(s.registered) \in Nat /\ Len(s.functions) \in Nat
           /\ s = [registered |-> s.registered, functions |-> s.functions]
  <1>1. s.registered \in Seq(Instances) /\ s.functions \in Seq(STRING)
    BY DEF Registries
  <1>2. Len(s.registered) \in Nat /\ Len(s.functions) \in Nat
    BY <1>1, LenProperties
  <1>3. QED
    BY <1>1, <1>2 DEF Registries

\* A registry has what it has.
LEMMA LaterSame == ASSUME NEW s \in Registries PROVE Later(s, s)
  BY RegistryIs DEF Later

\* It has what any before it had.
LEMMA LaterLater ==
    ASSUME NEW s \in Registries, NEW u \in Registries, NEW w \in Registries, Later(s, u), Later(u, w)
    PROVE  Later(s, w)
  <1>1. /\ Len(s.registered) \in Nat /\ Len(u.registered) \in Nat /\ Len(w.registered) \in Nat
        /\ Len(s.functions) \in Nat /\ Len(u.functions) \in Nat /\ Len(w.functions) \in Nat
    BY RegistryIs
  <1>2. Len(w.registered) <= Len(s.registered) /\ Len(w.functions) <= Len(s.functions)
    BY <1>1 DEF Later
  <1>3. \A n \in 1 .. Len(w.registered) : w.registered[n] = s.registered[n]
    BY <1>1 DEF Later
  <1>4. \A n \in 1 .. Len(w.functions) : w.functions[n] = s.functions[n]
    BY <1>1 DEF Later
  <1>5. QED
    BY <1>2, <1>3, <1>4 DEF Later

\* What a registration adds.
LEMMA RegisterIs ==
    ASSUME NEW s \in Registries, NEW x \in Instances
    PROVE  /\ Register(s, x) \in Registries /\ Later(Register(s, x), s)
           /\ Len(Register(s, x).registered) = Len(s.registered) + 1
           /\ Register(s, x).registered[Len(s.registered) + 1] = x
  <1>1. s.registered \in Seq(Instances) /\ Len(s.registered) \in Nat /\ Len(s.functions) \in Nat
    BY RegistryIs
  <1>2. PICK rs, fs : s = [registered |-> rs, functions |-> fs] /\ fs \in Seq(STRING)
    BY RegistryIs
  <1> DEFINE xs == Append(rs, x)
  <1>3. /\ xs \in Seq(Instances) /\ Len(xs) = Len(rs) + 1
        /\ \A i \in 1 .. Len(rs) : xs[i] = rs[i]
        /\ xs[Len(rs) + 1] = x
    BY <1>1, <1>2, AppendProperties
  <1>4. Register(s, x) = [registered |-> xs, functions |-> fs]
    <2>1. s.registered = rs /\ s.functions = fs
      BY <1>2
    <2>2. Register(s, x) = [s EXCEPT !.registered = xs]
      BY <2>1 DEF Register
    <2> HIDE DEF xs
    <2>3. QED
      BY <1>2, <2>2
  <1> HIDE DEF xs
  <1>5. /\ s.registered = rs /\ s.functions = fs
        /\ Register(s, x).registered = xs /\ Register(s, x).functions = fs
    BY <1>2, <1>4
  <1>6. Register(s, x) \in Registries
    BY <1>2, <1>3, <1>4 DEF Registries
  <1>7. QED
    BY <1>1, <1>2, <1>3, <1>5, <1>6 DEF Later

\* What a function that is returned adds.
LEMMA RegisterFunctionIs ==
    ASSUME NEW s \in Registries, NEW v, v.of \in STRING
    PROVE  LET u == RegisterFunction(v, s).to
           IN /\ u \in Registries /\ Later(u, s)
              /\ Len(u.functions) = Len(s.functions) + 1 /\ u.functions[Len(s.functions) + 1] = v.of
  <1>1. s.functions \in Seq(STRING) /\ Len(s.registered) \in Nat /\ Len(s.functions) \in Nat
    BY RegistryIs
  <1>2. s = [registered |-> s.registered, functions |-> s.functions] /\ s.registered \in Seq(Instances)
    BY RegistryIs
  <1> DEFINE fs == Append(s.functions, v.of)
  <1>3. /\ fs \in Seq(STRING) /\ Len(fs) = Len(s.functions) + 1
        /\ \A i \in 1 .. Len(s.functions) : fs[i] = s.functions[i]
        /\ fs[Len(s.functions) + 1] = v.of
    BY <1>1, AppendProperties
  <1>4. RegisterFunction(v, s).to = [registered |-> s.registered, functions |-> fs]
    BY <1>2 DEF RegisterFunction, Hooked
  <1> HIDE DEF fs
  <1>5. QED
    BY <1>1, <1>2, <1>3, <1>4 DEF Later, Registries

\* The table after a registry.
TableOf(t, s) == After(t, s.registered)

\* The table of a later registry has what the earlier one's has.
LEMMA LaterNames ==
    ASSUME NEW t, NEW live, Usable(t, live), NEW s \in Registries, NEW u \in Registries, Later(s, u)
    PROVE  Usable(TableOf(t, u), live) /\ NamesStay(TableOf(t, u), TableOf(t, s))
  <1>1. /\ s.registered \in Seq(Instances) /\ u.registered \in Seq(Instances)
        /\ Len(s.registered) \in Nat /\ Len(u.registered) \in Nat
    BY RegistryIs
  <1>2. PICK h : Tables(h, t, s.registered, Len(s.registered)) /\ TableOf(t, s) = h[Len(s.registered)]
    BY <1>1, AfterIsLast DEF TableOf
  <1>3. TableOf(t, u) = h[Len(u.registered)]
    BY <1>1, <1>2, AfterPrefix DEF TableOf, Later
  <1>4. Len(u.registered) \in 0 .. Len(s.registered)
    BY <1>1 DEF Later
  <1>5. \A n \in Len(u.registered) .. Len(s.registered) :
          Usable(h[n], live) /\ NamesStay(h[Len(u.registered)], h[n])
    BY <1>1, <1>2, <1>4, TablesUsable
  <1>6. QED
    BY <1>1, <1>2, <1>3, <1>4, <1>5

\* What is registered is named by the next id, for good.
LEMMA RegisterNames ==
    ASSUME NEW t, NEW live, Usable(t, live), NEW s \in Registries, NEW x \in Instances,
           NEW w \in Registries, Later(w, Register(s, x))
    PROVE  LET id == TableOf(t, s).next
           IN id \in Nat /\ id \in DOMAIN TableOf(t, w).map /\ TableOf(t, w).map[id] = x
  <1> DEFINE u == Register(s, x)
             n == Len(s.registered)
  <1>1. /\ u \in Registries /\ Later(u, s) /\ Len(u.registered) = n + 1 /\ u.registered[n + 1] = x
        /\ n \in Nat
    BY RegisterIs, RegistryIs
  <1>2. /\ u.registered \in Seq(Instances) /\ s.registered \in Seq(Instances)
    BY <1>1, RegistryIs
  <1> HIDE DEF u
  <1>3. PICK h : Tables(h, t, u.registered, Len(u.registered)) /\ TableOf(t, u) = h[n + 1]
    <2>1. PICK h : Tables(h, t, u.registered, Len(u.registered)) /\ TableOf(t, u) = h[Len(u.registered)]
      BY <1>2, AfterIsLast DEF TableOf
    <2>2. h[Len(u.registered)] = h[n + 1]
      BY <1>1
    <2>3. QED
      BY <2>1, <2>2
  <1>4. TableOf(t, s) = h[n]
    <2>1. /\ Tables(h, t, u.registered, Len(u.registered)) /\ Len(s.registered) <= Len(u.registered)
          /\ \A i \in 1 .. Len(s.registered) : s.registered[i] = u.registered[i]
      BY <1>1, <1>3 DEF Later
    <2> HIDE DEF n
    <2>2. After(t, s.registered) = h[Len(s.registered)]
      BY <1>2, <2>1, AfterPrefix
    <2>3. QED
      BY <2>2 DEF TableOf, n
  <1>5. n + 1 \in 0 .. n + 1 /\ n + 1 # 0 /\ (n + 1) - 1 = n
    BY <1>1
  <1>6. h[n + 1] = SetInstance(h[n], x)
    BY <1>1, <1>3, <1>5 DEF Tables
  <1>7. Usable(TableOf(t, s), live)
    BY LaterNames, LaterSame
  <1>8. /\ TableOf(t, s).next \in DOMAIN TableOf(t, u).map /\ TableOf(t, s).next \in Nat
        /\ TableOf(t, u).map[TableOf(t, s).next] = x
    BY <1>3, <1>4, <1>6, <1>7, SetUsable
  <1>9. NamesStay(TableOf(t, u), TableOf(t, w))
    BY <1>1, LaterNames DEF u
  <1>10. QED
    BY <1>8, <1>9 DEF NamesStay

\* The id an instance that is live has names it, for good.
LEMMA IdNames ==
    ASSUME NEW t, NEW live, Usable(t, live), NEW s \in Registries, NEW x \in live, GetInstanceId(TableOf(t, s), x) # 0,
           NEW w \in Registries, Later(w, s)
    PROVE  LET id == GetInstanceId(TableOf(t, s), x)
           IN id \in Nat /\ id \in DOMAIN TableOf(t, w).map /\ TableOf(t, w).map[id] = x
  <1> DEFINE now == TableOf(t, s)
             id == GetInstanceId(now, x)
  <1>1. Usable(now, live) /\ NamesStay(now, TableOf(t, w))
    BY LaterNames
  <1> HIDE DEF now
  <1>2. IdsOf(now, x) # {} /\ id = Oldest(IdsOf(now, x))
    BY <1>1 DEF Usable, Canonical, now
  <1>3. IdsOf(now, x) \subseteq Nat
    BY <1>1, IdsBelow DEF Usable
  <1>4. id \in IdsOf(now, x) /\ id \in Nat
    BY <1>2, <1>3, OldestIsLeast
  <1>5. id \in DOMAIN now.map /\ now.map[id] = x
    BY <1>4 DEF IdsOf
  <1>6. QED
    BY <1>1, <1>4, <1>5 DEF NamesStay, now

-----------------------------------------------------------------------------
(* The items of a value, one after the other.                              *)

\* There are finitely many parts, and so an order that has them all.
LEMMA Enumerates ==
    ASSUME NEW S, IsFiniteSet(S)
    PROVE  LET q == Seqs!SetToSeq(S)
           IN q \in [1 .. Cardinality(S) -> S] /\ \A x \in S : \E i \in 1 .. Cardinality(S) : q[i] = x
  <1> DEFINE q == Seqs!SetToSeq(S)
  <1>1. ExistsBijection(1 .. Cardinality(S), S) /\ Cardinality(S) \in Nat
    BY FS_CardinalityType
  <1>2. \E f \in [1 .. Cardinality(S) -> S] : Seqs!IsInjective(f)
    BY <1>1 DEF ExistsBijection, Bijection, Injection, IsInjective, Seqs!IsInjective
  <1>3. Seqs!Cardinality(S) = Cardinality(S)
    BY DEF Seqs!Cardinality, Cardinality
  <1>4. q \in [1 .. Cardinality(S) -> S] /\ Seqs!IsInjective(q)
    BY <1>2, <1>3 DEF Seqs!SetToSeq
  <1>5. q \in Injection(1 .. Cardinality(S), S)
    BY <1>4 DEF Injection, IsInjective, Seqs!IsInjective
  <1>6. IsFiniteSet(1 .. Cardinality(S)) /\ Cardinality(1 .. Cardinality(S)) = Cardinality(S)
    BY <1>1, FS_Interval
  <1>7. q \in Surjection(1 .. Cardinality(S), S)
    BY <1>5, <1>6, FS_Injection
  <1>8. QED
    BY <1>4, <1>7 DEF Surjection

\* q is an order of all parts of v, maybe with repetitions.
Ordered(q, v) ==
    /\ Len(q) \in Nat
    /\ \A i \in 1 .. Len(q) : q[i] \in Parts(v)
    /\ \A k \in Parts(v) : \E i \in 1 .. Len(q) : q[i] = k

\* Order is one.
LEMMA OrderIs ==
    ASSUME NEW n \in Nat, NEW v \in Trees[n + 1], HasItems(v)
    PROVE  Ordered(Order(v), v)
  <1>1. CASE v.kind = "array"
    <2>1. v.items \in Seq(Trees[n])
      BY <1>1, WithItems
    <2> DEFINE L == Len(v.items)
               q == [i \in 1 .. L |-> i]
    <2>2. L \in Nat /\ DOMAIN v.items = 1 .. L /\ \A i \in 1 .. L : v.items[i] \in Trees[n]
      BY <2>1, LenProperties, ElementOfSeq
    <2>3. Parts(v) = 1 .. L
      BY <1>1, <2>2, AbsentIsNoTree DEF Parts, HasItems
    <2>4. Order(v) = q
      BY <1>1, <2>2 DEF Order
    <2>5. Len(q) = L
      BY <2>2
    <2> HIDE DEF L
    <2>6. \A i \in 1 .. L : q[i] = i
      OBVIOUS
    <2> HIDE DEF q
    <2>7. QED
      BY <2>2, <2>3, <2>4, <2>5, <2>6 DEF Ordered
  <1>2. CASE v.kind = "object"
    <2>1. Parts(v) \subseteq AllNames
      BY <1>2, WithItems DEF Parts, HasItems, Array
    <2>2. IsFiniteSet(AllNames)
      <3>1. IsFiniteSet({"instanceId"}) /\ IsFiniteSet({"instanceType"}) /\ IsFiniteSet({"callbackId"}) /\ IsFiniteSet({""})
        BY FS_Singleton
      <3>2. AllNames = Names \cup {"instanceId"} \cup {"instanceType"} \cup {"callbackId"} \cup {""}
        BY DEF AllNames, Reserved
      <3>3. QED
        BY <3>1, <3>2, ValuesAssumption, FS_Union
    <2>3. IsFiniteSet(Parts(v))
      BY <2>1, <2>2, FS_Subset
    <2> DEFINE q == Seqs!SetToSeq(Parts(v))
    <2>4. q \in [1 .. Cardinality(Parts(v)) -> Parts(v)] /\ \A k \in Parts(v) : \E i \in 1 .. Cardinality(Parts(v)) : q[i] = k
      BY <2>3, Enumerates
    <2>5. Order(v) = q
      BY <1>2 DEF Order
    <2>6. Cardinality(Parts(v)) \in Nat
      BY <2>3, FS_CardinalityType
    <2> HIDE DEF q
    <2>7. Len(q) = Cardinality(Parts(v))
      <3>1. q \in Seq(Parts(v))
        BY <2>4, <2>6, SeqDef
      <3>2. DOMAIN q = 1 .. Len(q) /\ Len(q) \in Nat
        BY <3>1, LenProperties
      <3>3. DOMAIN q = 1 .. Cardinality(Parts(v))
        BY <2>4
      <3>4. QED
        BY <2>6, <3>2, <3>3
    <2>8. QED
      BY <2>4, <2>5, <2>6, <2>7 DEF Ordered
  <1>3. QED
    BY <1>1, <1>2 DEF HasItems

\* The item at k by f, after d.
HookItem(f, v, k, d) ==
    LET h == f[<<v.items[k], d.to>>] IN Hooked([d.value EXCEPT !.items[k] = h.value], h.to)

\* The values and registries while the first m items are done.
Done(d, f, v, s, m) ==
    d = [n \in 0 .. m |-> IF n = 0 THEN Hooked(v, s) ELSE HookItem(f, v, Order(v)[n], d[n - 1])]

\* There are such values.
LEMMA DoneExists ==
    ASSUME NEW f, NEW v, NEW s
    PROVE  \A m \in Nat : \E d : Done(d, f, v, s, m)
  <1> DEFINE S == {m \in Nat : \E d : Done(d, f, v, s, m)}
  <1>1. 0 \in S
    <2>1. PICK d : d = [n \in 0 .. 0 |-> Hooked(v, s)]
      OBVIOUS
    <2>2. d = [n \in 0 .. 0 |-> IF n = 0 THEN Hooked(v, s) ELSE HookItem(f, v, Order(v)[n], d[n - 1])]
      BY <2>1
    <2>3. QED
      BY <2>2 DEF Done
  <1>2. ASSUME NEW m \in Nat, m \in S PROVE m + 1 \in S
    <2>1. PICK d : Done(d, f, v, s, m)
      BY <1>2
    <2>2. \A n \in 0 .. m : d[n] = IF n = 0 THEN Hooked(v, s) ELSE HookItem(f, v, Order(v)[n], d[n - 1])
      BY <2>1 DEF Done
    <2>3. PICK e : e = [n \in 0 .. m + 1 |-> IF n = 0 THEN Hooked(v, s) ELSE HookItem(f, v, Order(v)[n], d[n - 1])]
      OBVIOUS
    <2>4. \A n \in 0 .. m : e[n] = d[n]
      BY <2>2, <2>3
    <2>5. \A n \in 0 .. m + 1 : n # 0 => e[n - 1] = d[n - 1]
      BY <2>4
    <2>6. e = [n \in 0 .. m + 1 |-> IF n = 0 THEN Hooked(v, s) ELSE HookItem(f, v, Order(v)[n], e[n - 1])]
      BY <2>3, <2>5
    <2>7. QED
      BY <2>6 DEF Done
  <1>3. QED
    <2> HIDE DEF S
    <2>1. \A m \in Nat : m \in S
      BY <1>1, <1>2, Induction
    <2>2. QED
      BY <2>1 DEF S

\* HookItems gives the last of them.
LEMMA HookItemsIs ==
    ASSUME NEW f, NEW v, NEW s, Len(Order(v)) \in Nat
    PROVE  \E d : Done(d, f, v, s, Len(Order(v))) /\ HookItems(f, v, s) = d[Len(Order(v))]
  <1> DEFINE d == CHOOSE d : Done(d, f, v, s, Len(Order(v)))
  <1>1. Done(d, f, v, s, Len(Order(v)))
    BY DoneExists
  <1>2. HookItems(f, v, s) = d[Len(Order(v))]
    BY DEF HookItems, Done, HookItem
  <1>3. QED
    BY <1>1, <1>2

\* It needs f for the items only, and gives a registry if f does.
LEMMA HookItemsAgree ==
    ASSUME NEW n \in Nat, NEW v \in Trees[n + 1], HasItems(v), NEW s \in Registries, NEW f, NEW g,
           \A k \in Parts(v) : \A r \in Registries :
             f[<<v.items[k], r>>] = g[<<v.items[k], r>>] /\ f[<<v.items[k], r>>].to \in Registries
    PROVE  HookItems(f, v, s) = HookItems(g, v, s) /\ HookItems(f, v, s).to \in Registries
  <1> DEFINE q == Order(v)
  <1>1. Ordered(q, v)
    BY OrderIs
  <1> HIDE DEF q
  <1>2. PICK d : Done(d, f, v, s, Len(q)) /\ HookItems(f, v, s) = d[Len(q)]
    BY <1>1, HookItemsIs DEF Ordered, q
  <1>3. PICK e : Done(e, g, v, s, Len(q)) /\ HookItems(g, v, s) = e[Len(q)]
    BY <1>1, HookItemsIs DEF Ordered, q
  <1> DEFINE S == {m \in Nat : m <= Len(q) => d[m] = e[m] /\ d[m].to \in Registries}
  <1>4. /\ \A m \in 0 .. Len(q) : d[m] = IF m = 0 THEN Hooked(v, s) ELSE HookItem(f, v, q[m], d[m - 1])
        /\ \A m \in 0 .. Len(q) : e[m] = IF m = 0 THEN Hooked(v, s) ELSE HookItem(g, v, q[m], e[m - 1])
    BY <1>2, <1>3 DEF Done, q
  <1>5. 0 \in S
    BY <1>1, <1>4 DEF Hooked, Ordered
  <1>6. ASSUME NEW m \in Nat, m \in S PROVE m + 1 \in S
    <2>1. SUFFICES ASSUME m + 1 <= Len(q) PROVE d[m + 1] = e[m + 1] /\ d[m + 1].to \in Registries
      OBVIOUS
    <2>2. m + 1 \in 0 .. Len(q) /\ m + 1 \in 1 .. Len(q) /\ m + 1 # 0 /\ (m + 1) - 1 = m /\ m <= Len(q)
      BY <1>1, <2>1 DEF Ordered
    <2>3. d[m] = e[m] /\ d[m].to \in Registries
      BY <1>6, <2>2
    <2>4. d[m + 1] = HookItem(f, v, q[m + 1], d[m]) /\ e[m + 1] = HookItem(g, v, q[m + 1], d[m])
      BY <1>4, <2>2, <2>3
    <2>5. q[m + 1] \in Parts(v)
      BY <1>1, <2>2 DEF Ordered
    <2>6. f[<<v.items[q[m + 1]], d[m].to>>] = g[<<v.items[q[m + 1]], d[m].to>>]
          /\ f[<<v.items[q[m + 1]], d[m].to>>].to \in Registries
      BY <2>3, <2>5
    <2>7. HookItem(f, v, q[m + 1], d[m]) = HookItem(g, v, q[m + 1], d[m])
      BY <2>6 DEF HookItem
    <2>8. HookItem(f, v, q[m + 1], d[m]).to \in Registries
      BY <2>6 DEF HookItem, Hooked
    <2>9. QED
      BY <2>4, <2>7, <2>8
  <1>7. \A m \in Nat : m \in S
    <2> HIDE DEF S
    <2>1. QED
      BY <1>5, <1>6, Induction
  <1>8. QED
    BY <1>1, <1>2, <1>3, <1>7 DEF Ordered

-----------------------------------------------------------------------------
(* Stringify and ToValue.                                                  *)

\* What Stringify says of v, from what f says of its items.
StringOf(f, v) ==
    IF NotJson(v) THEN Null
    ELSE IF v.kind = "instance" THEN Object(<<>>)
    ELSE IF HasItems(v) THEN Map(f, Stringified(v))
    ELSE v

\* The items that are written.
LEMMA StringifiedItems ==
    ASSUME NEW n \in Nat, NEW v \in Trees[n + 1], HasItems(v)
    PROVE  \A k \in DOMAIN Stringified(v).items :
             Stringified(v).items[k] # Absent => k \in Parts(v) /\ Stringified(v).items[k] = v.items[k]
  <1>1. CASE v.kind = "array"
    BY <1>1 DEF Stringified, Parts, HasItems
  <1>2. CASE v.kind = "object"
    <2>1. v.items \in [AllNames -> Trees[n] \cup {Absent}] /\ v = [kind |-> "object", items |-> v.items]
      BY <1>2, WithItems DEF HasItems, Array
    <2> DEFINE w == Stringified(v)
               items == [k \in DOMAIN v.items |-> IF NotJson(v.items[k]) THEN Absent ELSE v.items[k]]
    <2>2. w = [kind |-> "object", items |-> items]
      BY <1>2, <2>1 DEF Stringified
    <2> HIDE DEF w, items
    <2>3. w.items = items
      BY <2>2
    <2>4. \A k \in DOMAIN items : items[k] # Absent => k \in DOMAIN v.items /\ items[k] = v.items[k]
      BY DEF items
    <2>5. QED
      BY <1>2, <2>3, <2>4 DEF w, Parts, HasItems
  <1>3. QED
    BY <1>1, <1>2 DEF HasItems

\* It depends on nothing else.
LEMMA StringOfAgrees ==
    ASSUME NEW n \in Nat, NEW v \in Trees[n + 1], NEW f, NEW g, \A x \in Trees[n] : f[x] = g[x]
    PROVE  StringOf(f, v) = StringOf(g, v)
  <1>1. CASE HasItems(v)
    <2> DEFINE w == Stringified(v)
    <2>1. \A k \in DOMAIN w.items : w.items[k] # Absent => f[w.items[k]] = g[w.items[k]]
      BY <1>1, StringifiedItems, ItemsBelow
    <2> HIDE DEF w
    <2>2. Map(f, w) = Map(g, w)
      BY <2>1, MapAgrees
    <2>3. QED
      BY <2>2 DEF StringOf, w
  <1>2. QED
    BY <1>1 DEF StringOf

\* Trees of any height have such a function.
LEMMA StringifyExists == \A n \in Nat : \E f : f = [v \in Trees[n] |-> StringOf(f, v)]
  <1> DEFINE S == {n \in Nat : \E f : f = [v \in Trees[n] |-> StringOf(f, v)]}
  <1>1. 0 \in S
    <2> DEFINE f == [v \in Trees[0] |-> StringOf(<<>>, v)]
    <2>1. ASSUME NEW v \in Trees[0] PROVE StringOf(<<>>, v) = StringOf(f, v)
      <3>1. v.kind \notin {"array", "object"}
        BY TreesGrow, LeafKinds
      <3>2. QED
        BY <3>1 DEF StringOf, HasItems
    <2>2. f = [v \in Trees[0] |-> StringOf(f, v)]
      BY <2>1
    <2>3. QED
      BY <2>2
  <1>2. ASSUME NEW n \in Nat, n \in S PROVE n + 1 \in S
    <2>1. PICK f : f = [v \in Trees[n] |-> StringOf(f, v)]
      BY <1>2
    <2> DEFINE g == [v \in Trees[n + 1] |-> StringOf(f, v)]
    <2>2. \A x \in Trees[n] : f[x] = g[x]
      BY <2>1, TreesGrow
    <2>3. \A v \in Trees[n + 1] : StringOf(f, v) = StringOf(g, v)
      <3> HIDE DEF g
      <3>1. QED
        BY <2>2, StringOfAgrees
    <2>4. g = [v \in Trees[n + 1] |-> StringOf(g, v)]
      BY <2>3
    <2> HIDE DEF g
    <2>5. \E h : h = [v \in Trees[n + 1] |-> StringOf(h, v)]
      BY <2>4
    <2>6. QED
      BY <2>5
  <1>3. QED
    <2> HIDE DEF S
    <2>1. \A n \in Nat : n \in S
      BY <1>1, <1>2, Induction
    <2>2. QED
      BY <2>1 DEF S

\* Stringify is what its definition says.
LEMMA StringifyIs == \A v \in Tree : Stringify[v] = StringOf(Stringify, v)
  <1>1. \E f : f = [v \in Tree |-> StringOf(f, v)]
    BY StringifyExists, TreeLevel DEF Tree
  <1>2. Stringify = CHOOSE f : f = [v \in Tree |-> StringOf(f, v)]
    BY DEF Stringify, StringOf
  <1>3. Stringify = [v \in Tree |-> StringOf(Stringify, v)]
    BY <1>1, <1>2
  <1>4. QED
    BY <1>3

\* What ToValue says of j, from what f says of its items.
ValueOf(f, j) ==
    IF j.kind = "null" THEN Undefined
    ELSE IF Has(j, "instanceId") /\ Has(j, "instanceType") THEN FromReference(j)
    ELSE IF HasItems(j) THEN Map(f, j)
    ELSE j

\* It depends on nothing else.
LEMMA ValueOfAgrees ==
    ASSUME NEW n \in Nat, NEW j \in Trees[n + 1], NEW f, NEW g, \A x \in Trees[n] : f[x] = g[x]
    PROVE  ValueOf(f, j) = ValueOf(g, j)
  <1>1. \A k \in Parts(j) : f[j.items[k]] = g[j.items[k]]
    BY ItemsBelow
  <1>2. HasItems(j) => \A k \in DOMAIN j.items : j.items[k] # Absent => k \in Parts(j)
    BY DEF Parts
  <1>3. HasItems(j) => Map(f, j) = Map(g, j)
    BY <1>1, <1>2, MapAgrees
  <1>4. QED
    BY <1>3 DEF ValueOf

\* Trees of any height have such a function.
LEMMA ToValueExists == \A n \in Nat : \E f : f = [v \in Trees[n] |-> ValueOf(f, v)]
  <1> DEFINE S == {n \in Nat : \E f : f = [v \in Trees[n] |-> ValueOf(f, v)]}
  <1>1. 0 \in S
    <2> DEFINE f == [v \in Trees[0] |-> ValueOf(<<>>, v)]
    <2>1. ASSUME NEW v \in Trees[0] PROVE ValueOf(<<>>, v) = ValueOf(f, v)
      <3>1. v.kind \notin {"array", "object"}
        BY TreesGrow, LeafKinds
      <3>2. QED
        BY <3>1 DEF ValueOf, HasItems
    <2>2. f = [v \in Trees[0] |-> ValueOf(f, v)]
      BY <2>1
    <2>3. QED
      BY <2>2
  <1>2. ASSUME NEW n \in Nat, n \in S PROVE n + 1 \in S
    <2>1. PICK f : f = [v \in Trees[n] |-> ValueOf(f, v)]
      BY <1>2
    <2> DEFINE g == [v \in Trees[n + 1] |-> ValueOf(f, v)]
    <2>2. \A x \in Trees[n] : f[x] = g[x]
      BY <2>1, TreesGrow
    <2>3. \A v \in Trees[n + 1] : ValueOf(f, v) = ValueOf(g, v)
      <3> HIDE DEF g
      <3>1. QED
        BY <2>2, ValueOfAgrees
    <2>4. g = [v \in Trees[n + 1] |-> ValueOf(g, v)]
      BY <2>3
    <2> HIDE DEF g
    <2>5. \E h : h = [v \in Trees[n + 1] |-> ValueOf(h, v)]
      BY <2>4
    <2>6. QED
      BY <2>5
  <1>3. QED
    <2> HIDE DEF S
    <2>1. \A n \in Nat : n \in S
      BY <1>1, <1>2, Induction
    <2>2. QED
      BY <2>1 DEF S

\* ToValue is what its definition says.
LEMMA ToValueIs == \A v \in Tree : ToValue[v] = ValueOf(ToValue, v)
  <1>1. \E f : f = [v \in Tree |-> ValueOf(f, v)]
    BY ToValueExists, TreeLevel DEF Tree
  <1>2. ToValue = CHOOSE f : f = [v \in Tree |-> ValueOf(f, v)]
    BY DEF ToValue, ValueOf
  <1>3. ToValue = [v \in Tree |-> ValueOf(ToValue, v)]
    BY <1>1, <1>2
  <1>4. QED
    BY <1>3

-----------------------------------------------------------------------------
(* HookCallbackArgument and HookResult.                                    *)

\* What is registered for a leaf.
LEMMA LeafRegistries ==
    ASSUME NEW t, NEW v \in Leaves, NEW s \in Registries
    PROVE  /\ RegisterEmission(t, v, s).to \in Registries
           /\ RegisterResult(t, v, s).to \in Registries
           /\ v.kind = "function" => RegisterFunction(v, s).to \in Registries
  <1>1. v.kind = "instance" => v.of \in Instances
    BY DEF Leaves, ArgumentLeaves, PlainLeaves, NumberSet, TypeSet, InstanceSet
  <1>2. v.kind = "function" => v.of \in STRING
    BY DEF Leaves, ArgumentLeaves, PlainLeaves, NumberSet, TypeSet, InstanceSet
  <1>3. v.kind = "instance" => Register(s, v.of) \in Registries
    BY <1>1, RegisterIs
  <1>4. v.kind = "function" => RegisterFunction(v, s).to \in Registries
    BY <1>2, RegisterFunctionIs
  <1>5. RegisterEmission(t, v, s).to \in Registries
    BY <1>3 DEF RegisterEmission, Hooked
  <1>6. RegisterResult(t, v, s).to \in Registries
    BY <1>3 DEF RegisterResult, Hooked
  <1>7. QED
    BY <1>4, <1>5, <1>6

\* What HookCallbackArgument says of p, from what f says of its items.
CallbackOf(t, f, p) ==
    IF HasItems(p[1]) THEN HookItems(f, p[1], p[2]) ELSE RegisterEmission(t, p[1], p[2])

\* Such a function, that gives registries.
Emits(t, f, n) ==
    /\ f = [p \in Trees[n] \X Registries |-> CallbackOf(t, f, p)]
    /\ \A v \in Trees[n] : \A s \in Registries : f[<<v, s>>].to \in Registries

\* Trees of any height have one.
LEMMA EmitsExists ==
    ASSUME NEW t
    PROVE  \A n \in Nat : \E f : Emits(t, f, n)
  <1> DEFINE S == {n \in Nat : \E f : Emits(t, f, n)}
  <1>1. 0 \in S
    <2> DEFINE f == [p \in Trees[0] \X Registries |-> CallbackOf(t, <<>>, p)]
    <2>1. ASSUME NEW v \in Trees[0], NEW s \in Registries
          PROVE  /\ \A g : CallbackOf(t, g, <<v, s>>) = RegisterEmission(t, v, s)
                 /\ CallbackOf(t, <<>>, <<v, s>>).to \in Registries
      <3>1. v \in Leaves /\ v.kind \notin {"array", "object"}
        BY TreesGrow, LeafKinds
      <3>2. \A g : CallbackOf(t, g, <<v, s>>) = RegisterEmission(t, v, s)
        BY <3>1 DEF CallbackOf, HasItems
      <3>3. QED
        BY <3>1, <3>2, LeafRegistries
    <2>2. \A p \in Trees[0] \X Registries : CallbackOf(t, <<>>, p) = CallbackOf(t, f, p)
      <3> HIDE DEF f
      <3>1. QED
        BY <2>1
    <2>3. f = [p \in Trees[0] \X Registries |-> CallbackOf(t, f, p)]
      BY <2>2
    <2>4. \A v \in Trees[0] : \A s \in Registries : f[<<v, s>>].to \in Registries
      BY <2>1
    <2> HIDE DEF f
    <2>5. Emits(t, f, 0)
      BY <2>3, <2>4 DEF Emits
    <2>6. QED
      BY <2>5
  <1>2. ASSUME NEW n \in Nat, n \in S PROVE n + 1 \in S
    <2>1. PICK f : Emits(t, f, n)
      BY <1>2
    <2> DEFINE g == [p \in Trees[n + 1] \X Registries |-> CallbackOf(t, f, p)]
    <2>2. /\ Trees[n] \subseteq Trees[n + 1]
          /\ \A v \in Trees[n] : \A s \in Registries : f[<<v, s>>] = CallbackOf(t, f, <<v, s>>)
          /\ \A v \in Trees[n] : \A s \in Registries : f[<<v, s>>].to \in Registries
      BY <2>1, TreesGrow DEF Emits
    <2>3. \A v \in Trees[n + 1] : \A s \in Registries : g[<<v, s>>] = CallbackOf(t, f, <<v, s>>)
      OBVIOUS
    <2> HIDE DEF g
    <2>4. ASSUME NEW v \in Trees[n + 1], NEW s \in Registries
          PROVE  CallbackOf(t, f, <<v, s>>) = CallbackOf(t, g, <<v, s>>) /\ CallbackOf(t, f, <<v, s>>).to \in Registries
      <3>1. \A k \in Parts(v) : v.items[k] \in Trees[n]
        BY ItemsBelow
      <3>2. \A k \in Parts(v) : \A r \in Registries :
              f[<<v.items[k], r>>] = g[<<v.items[k], r>>] /\ f[<<v.items[k], r>>].to \in Registries
        BY <2>2, <2>3, <3>1
      <3>3. CASE HasItems(v)
        <4>1. HookItems(f, v, s) = HookItems(g, v, s) /\ HookItems(f, v, s).to \in Registries
          BY <3>2, <3>3, HookItemsAgree, ZenonT(30)
        <4>2. QED
          BY <3>3, <4>1 DEF CallbackOf
      <3>4. CASE ~ HasItems(v)
        <4>1. v \in Leaves
          BY <3>4, WithItems DEF HasItems
        <4>2. QED
          BY <3>4, <4>1, LeafRegistries DEF CallbackOf
      <3>5. QED
        BY <3>3, <3>4
    <2>5. g = [p \in Trees[n + 1] \X Registries |-> CallbackOf(t, g, p)]
      <3>1. \A p \in Trees[n + 1] \X Registries : CallbackOf(t, f, p) = CallbackOf(t, g, p)
        BY <2>4
      <3>2. QED
        BY <3>1 DEF g
    <2>6. \A v \in Trees[n + 1] : \A s \in Registries : g[<<v, s>>].to \in Registries
      BY <2>3, <2>4
    <2>7. Emits(t, g, n + 1)
      BY <2>5, <2>6 DEF Emits
    <2>8. QED
      BY <2>7
  <1>3. QED
    <2> HIDE DEF S
    <2>1. \A n \in Nat : n \in S
      BY <1>1, <1>2, Induction
    <2>2. QED
      BY <2>1 DEF S

\* HookCallbackArgument is what its definition says.
LEMMA HookCallbackArgumentIs ==
    ASSUME NEW t
    PROVE  \A v \in Tree : \A s \in Registries :
             HookCallbackArgument(t)[<<v, s>>] = CallbackOf(t, HookCallbackArgument(t), <<v, s>>)
  <1>1. \E f : f = [p \in Tree \X Registries |-> CallbackOf(t, f, p)]
    <2>1. PICK f : Emits(t, f, MaxDepth + 1)
      BY EmitsExists, TreeLevel
    <2>2. QED
      BY <2>1 DEF Emits, Tree
  <1> DEFINE hook == HookCallbackArgument(t)
  <1>2. hook = CHOOSE f : f = [p \in Tree \X Registries |-> CallbackOf(t, f, p)]
    BY DEF HookCallbackArgument, CallbackOf
  <1> HIDE DEF hook
  <1>3. hook = [p \in Tree \X Registries |-> CallbackOf(t, hook, p)]
    BY <1>1, <1>2
  <1>4. \A v \in Tree : \A s \in Registries : hook[<<v, s>>] = CallbackOf(t, hook, <<v, s>>)
    BY <1>3
  <1>5. QED
    BY <1>4 DEF hook

\* The function that HookResult uses for the elements of an array.
Elements(t) == [q \in Tree \X Registries |-> RegisterResult(t, q[1], q[2])]

\* A tree without items is a leaf.
LEMMA TreeLeaves == \A n \in Nat : \A v \in Trees[n] : HasItems(v) \/ v \in Leaves
  <1>1. SUFFICES ASSUME NEW n \in Nat, NEW v \in Trees[n] PROVE HasItems(v) \/ v \in Leaves
    OBVIOUS
  <1>2. v \in Trees[n + 1]
    BY TreesGrow
  <1>3. QED
    BY <1>2, WithItems DEF HasItems

\* What it gives.
LEMMA ElementsAre ==
    ASSUME NEW t
    PROVE  \A v \in Tree : \A s \in Registries :
             /\ Elements(t)[<<v, s>>] = RegisterResult(t, v, s)
             /\ Elements(t)[<<v, s>>].to \in Registries
  <1>1. SUFFICES ASSUME NEW v \in Tree, NEW s \in Registries PROVE RegisterResult(t, v, s).to \in Registries
    BY DEF Elements
  <1>2. CASE v.kind = "instance"
    <2>1. v \in Leaves
      BY <1>2, TreeLeaves, TreeLevel DEF Tree, HasItems
    <2>2. QED
      BY <2>1, LeafRegistries
  <1>3. CASE v.kind # "instance"
    BY <1>3 DEF RegisterResult, Hooked
  <1>4. QED
    BY <1>2, <1>3

\* What HookResult says of p, from what f says of its items.
ResultOf(t, f, p) ==
    IF p[1].kind = "function" THEN RegisterFunction(p[1], p[2])
    ELSE IF p[1].kind = "array" THEN HookItems(Elements(t), p[1], p[2])
    ELSE IF p[1].kind = "object" THEN HookItems(f, p[1], p[2])
    ELSE IF p[1].kind = "null" THEN Hooked(Object(<<>>), p[2])
    ELSE RegisterResult(t, p[1], p[2])

\* Without items it depends on nothing else.
LEMMA ResultOfLeaf ==
    ASSUME NEW t, NEW v \in Leaves, NEW s \in Registries
    PROVE  /\ \A f, g : ResultOf(t, f, <<v, s>>) = ResultOf(t, g, <<v, s>>)
           /\ \A f : ResultOf(t, f, <<v, s>>).to \in Registries
  <1>1. v.kind \notin {"array", "object"}
    BY LeafKinds
  <1>2. RegisterResult(t, v, s).to \in Registries /\ (v.kind = "function" => RegisterFunction(v, s).to \in Registries)
    BY LeafRegistries
  <1>3. QED
    BY <1>1, <1>2 DEF ResultOf, Hooked

\* Such a function, that gives registries.
Returns(t, f, n) ==
    /\ f = [p \in Trees[n] \X Registries |-> ResultOf(t, f, p)]
    /\ \A v \in Trees[n] : \A s \in Registries : f[<<v, s>>].to \in Registries

\* The trees that are converted have one.
LEMMA ReturnsExists ==
    ASSUME NEW t
    PROVE  \A n \in Nat : n <= MaxDepth + 1 => \E f : Returns(t, f, n)
  <1> DEFINE S == {n \in Nat : n <= MaxDepth + 1 => \E f : Returns(t, f, n)}
  <1>1. 0 \in S
    <2> DEFINE f == [p \in Trees[0] \X Registries |-> ResultOf(t, <<>>, p)]
    <2>1. ASSUME NEW v \in Trees[0], NEW s \in Registries
          PROVE  /\ \A g : ResultOf(t, <<>>, <<v, s>>) = ResultOf(t, g, <<v, s>>)
                 /\ ResultOf(t, <<>>, <<v, s>>).to \in Registries
      BY ResultOfLeaf, TreesGrow
    <2>2. \A p \in Trees[0] \X Registries : ResultOf(t, <<>>, p) = ResultOf(t, f, p)
      <3> HIDE DEF f
      <3>1. QED
        BY <2>1
    <2>3. f = [p \in Trees[0] \X Registries |-> ResultOf(t, f, p)]
      BY <2>2
    <2>4. \A v \in Trees[0] : \A s \in Registries : f[<<v, s>>].to \in Registries
      BY <2>1
    <2> HIDE DEF f
    <2>5. Returns(t, f, 0)
      BY <2>3, <2>4 DEF Returns
    <2>6. QED
      BY <2>5
  <1>2. ASSUME NEW n \in Nat, n \in S PROVE n + 1 \in S
    <2>1. SUFFICES ASSUME n + 1 <= MaxDepth + 1 PROVE \E f : Returns(t, f, n + 1)
      OBVIOUS
    <2>2. n <= MaxDepth + 1
      BY <2>1, TreeLevel
    <2>3. PICK f : Returns(t, f, n)
      BY <1>2, <2>2
    <2> DEFINE g == [p \in Trees[n + 1] \X Registries |-> ResultOf(t, f, p)]
    <2>4. /\ Trees[n] \subseteq Trees[n + 1] /\ Trees[n] \subseteq Tree
          /\ \A v \in Trees[n] : \A s \in Registries : f[<<v, s>>] = ResultOf(t, f, <<v, s>>)
          /\ \A v \in Trees[n] : \A s \in Registries : f[<<v, s>>].to \in Registries
      <3>1. Trees[n] \subseteq Tree
        BY <2>2, TreesMonotone, TreeLevel DEF Tree
      <3>2. QED
        BY <2>3, <3>1, TreesGrow DEF Returns
    <2>5. \A v \in Trees[n + 1] : \A s \in Registries : g[<<v, s>>] = ResultOf(t, f, <<v, s>>)
      OBVIOUS
    <2> HIDE DEF g
    <2>6. ASSUME NEW v \in Trees[n + 1], NEW s \in Registries
          PROVE  ResultOf(t, f, <<v, s>>) = ResultOf(t, g, <<v, s>>) /\ ResultOf(t, f, <<v, s>>).to \in Registries
      <3>1. \A k \in Parts(v) : v.items[k] \in Trees[n]
        BY ItemsBelow
      <3>2. CASE v.kind = "array"
        <4>1. \A k \in Parts(v) : \A r \in Registries : Elements(t)[<<v.items[k], r>>].to \in Registries
          BY <2>4, <3>1, ElementsAre
        <4>2. HookItems(Elements(t), v, s).to \in Registries
          BY <3>2, <4>1, HookItemsAgree DEF HasItems
        <4>3. QED
          BY <3>2, <4>2 DEF ResultOf
      <3>3. CASE v.kind = "object"
        <4>1. \A k \in Parts(v) : \A r \in Registries :
                f[<<v.items[k], r>>] = g[<<v.items[k], r>>] /\ f[<<v.items[k], r>>].to \in Registries
          BY <2>4, <2>5, <3>1
        <4>2. HookItems(f, v, s) = HookItems(g, v, s) /\ HookItems(f, v, s).to \in Registries
          BY <3>3, <4>1, HookItemsAgree, ZenonT(30) DEF HasItems
        <4>3. QED
          BY <3>3, <4>2 DEF ResultOf
      <3>4. CASE v.kind \notin {"array", "object"}
        <4>1. v \in Leaves
          BY <3>4, WithItems
        <4>2. QED
          BY <4>1, ResultOfLeaf
      <3>5. QED
        BY <3>2, <3>3, <3>4
    <2>7. g = [p \in Trees[n + 1] \X Registries |-> ResultOf(t, g, p)]
      <3>1. \A p \in Trees[n + 1] \X Registries : ResultOf(t, f, p) = ResultOf(t, g, p)
        BY <2>6
      <3>2. QED
        BY <3>1 DEF g
    <2>8. \A v \in Trees[n + 1] : \A s \in Registries : g[<<v, s>>].to \in Registries
      BY <2>5, <2>6
    <2>9. Returns(t, g, n + 1)
      BY <2>7, <2>8 DEF Returns
    <2>10. QED
      BY <2>9
  <1>3. QED
    <2> HIDE DEF S
    <2>1. \A n \in Nat : n \in S
      BY <1>1, <1>2, Induction
    <2>2. QED
      BY <2>1 DEF S

\* HookResult is what its definition says.
LEMMA HookResultIs ==
    ASSUME NEW t
    PROVE  \A v \in Tree : \A s \in Registries :
             HookResult(t)[<<v, s>>] = ResultOf(t, HookResult(t), <<v, s>>)
  <1>1. \E f : f = [p \in Tree \X Registries |-> ResultOf(t, f, p)]
    <2>1. PICK f : Returns(t, f, MaxDepth + 1)
      BY ReturnsExists, TreeLevel
    <2>2. QED
      BY <2>1 DEF Returns, Tree
  <1> DEFINE hook == HookResult(t)
  <1>2. hook = CHOOSE f : f = [p \in Tree \X Registries |-> ResultOf(t, f, p)]
    BY DEF HookResult, ResultOf, Elements
  <1> HIDE DEF hook
  <1>3. hook = [p \in Tree \X Registries |-> ResultOf(t, hook, p)]
    BY <1>1, <1>2
  <1>4. \A v \in Tree : \A s \in Registries : hook[<<v, s>>] = ResultOf(t, hook, <<v, s>>)
    BY <1>3
  <1>5. QED
    BY <1>4 DEF hook

-----------------------------------------------------------------------------
(* What the application has stands for what the engine gave.               *)

\* What y stands for when the registry is s.
Stood(t, s, y) == {<<node[1], StandsFor(t, s, node[2])>> : node \in Nodes[y]}

\* Undefined for null.
Denulled(x) == IF x = Null THEN Undefined ELSE x

\* By the items of y.
LEMMA StoodIs ==
    ASSUME NEW t, NEW s, NEW y \in Tree
    PROVE  Stood(t, s, y) = {<< <<>>, StandsFor(t, s, Shape(y)) >>}
                              \cup UNION {NodesBelow(y, k, Stood(t, s, y.items[k])) : k \in Parts(y)}
  <1> DEFINE whole == {<< <<>>, StandsFor(t, s, Shape(y)) >>}
                        \cup UNION {NodesBelow(y, k, Stood(t, s, y.items[k])) : k \in Parts(y)}
  <1>1. Nodes[y] = {<< <<>>, Shape(y) >>} \cup UNION {NodesBelow(y, k, Nodes[y.items[k]]) : k \in Parts(y)}
    BY NodesIs DEF NodesOf
  <1>2. ASSUME NEW x \in Stood(t, s, y) PROVE x \in whole
    <2>1. PICK b \in Nodes[y] : x = <<b[1], StandsFor(t, s, b[2])>>
      BY DEF Stood
    <2>2. CASE b = << <<>>, Shape(y) >>
      BY <2>1, <2>2
    <2>3. CASE \E k \in Parts(y) : b \in NodesBelow(y, k, Nodes[y.items[k]])
      <3>1. PICK k \in Parts(y) : b \in NodesBelow(y, k, Nodes[y.items[k]])
        BY <2>3
      <3>2. PICK a \in Nodes[y.items[k]] : b = << <<Step(y, k)>> \o a[1], a[2] >>
        BY <3>1 DEF NodesBelow
      <3> DEFINE m == <<a[1], StandsFor(t, s, a[2])>>
      <3>3. m \in Stood(t, s, y.items[k])
        BY DEF Stood
      <3>4. x = << <<Step(y, k)>> \o m[1], m[2] >>
        BY <2>1, <3>2
      <3>5. x \in NodesBelow(y, k, Stood(t, s, y.items[k]))
        BY <3>3, <3>4 DEF NodesBelow
      <3>6. QED
        BY <3>5
    <2>4. QED
      BY <1>1, <2>2, <2>3
  <1>3. << <<>>, StandsFor(t, s, Shape(y)) >> \in Stood(t, s, y)
    <2>1. << <<>>, Shape(y) >> \in Nodes[y]
      BY <1>1
    <2>2. << <<>>, Shape(y) >>[1] = <<>> /\ << <<>>, Shape(y) >>[2] = Shape(y)
      OBVIOUS
    <2>3. QED
      BY <2>1, <2>2 DEF Stood
  <1>4. ASSUME NEW k \in Parts(y), NEW x \in NodesBelow(y, k, Stood(t, s, y.items[k])) PROVE x \in Stood(t, s, y)
    <2>1. PICK m \in Stood(t, s, y.items[k]) : x = << <<Step(y, k)>> \o m[1], m[2] >>
      BY <1>4 DEF NodesBelow
    <2>2. PICK a \in Nodes[y.items[k]] : m = <<a[1], StandsFor(t, s, a[2])>>
      BY DEF Stood
    <2> DEFINE b == << <<Step(y, k)>> \o a[1], a[2] >>
    <2>3. b \in NodesBelow(y, k, Nodes[y.items[k]])
      BY DEF NodesBelow
    <2>4. b \in Nodes[y]
      BY <1>1, <2>3
    <2>5. x = <<b[1], StandsFor(t, s, b[2])>>
      BY <2>1, <2>2
    <2>6. QED
      BY <2>4, <2>5 DEF Stood
  <1>5. QED
    <2>1. whole \subseteq Stood(t, s, y)
      BY <1>3, <1>4
    <2>2. Stood(t, s, y) \subseteq whole
      BY <1>2
    <2>3. QED
      BY <2>1, <2>2

\* By the items of v.
LEMMA WithoutNullIs ==
    ASSUME NEW v \in Tree
    PROVE  WithoutNull(v) = {<< <<>>, Denulled(Shape(v)) >>}
                              \cup UNION {NodesBelow(v, k, WithoutNull(v.items[k])) : k \in Parts(v)}
  <1> DEFINE whole == {<< <<>>, Denulled(Shape(v)) >>}
                        \cup UNION {NodesBelow(v, k, WithoutNull(v.items[k])) : k \in Parts(v)}
  <1>1. Nodes[v] = {<< <<>>, Shape(v) >>} \cup UNION {NodesBelow(v, k, Nodes[v.items[k]]) : k \in Parts(v)}
    BY NodesIs DEF NodesOf
  <1>2. \A y : WithoutNull(y) = {<<node[1], Denulled(node[2])>> : node \in Nodes[y]}
    BY DEF WithoutNull, Denulled
  <1>3. ASSUME NEW x \in WithoutNull(v) PROVE x \in whole
    <2>1. PICK b \in Nodes[v] : x = <<b[1], Denulled(b[2])>>
      BY <1>2
    <2>2. CASE b = << <<>>, Shape(v) >>
      BY <2>1, <2>2
    <2>3. CASE \E k \in Parts(v) : b \in NodesBelow(v, k, Nodes[v.items[k]])
      <3>1. PICK k \in Parts(v) : b \in NodesBelow(v, k, Nodes[v.items[k]])
        BY <2>3
      <3>2. PICK a \in Nodes[v.items[k]] : b = << <<Step(v, k)>> \o a[1], a[2] >>
        BY <3>1 DEF NodesBelow
      <3> DEFINE m == <<a[1], Denulled(a[2])>>
      <3>3. m \in WithoutNull(v.items[k])
        BY <1>2
      <3>4. x = << <<Step(v, k)>> \o m[1], m[2] >>
        BY <2>1, <3>2
      <3>5. x \in NodesBelow(v, k, WithoutNull(v.items[k]))
        BY <3>3, <3>4 DEF NodesBelow
      <3>6. QED
        BY <3>5
    <2>4. QED
      BY <1>1, <2>2, <2>3
  <1>4. << <<>>, Denulled(Shape(v)) >> \in WithoutNull(v)
    <2>1. << <<>>, Shape(v) >> \in Nodes[v]
      BY <1>1
    <2>2. << <<>>, Shape(v) >>[1] = <<>> /\ << <<>>, Shape(v) >>[2] = Shape(v)
      OBVIOUS
    <2>3. QED
      BY <1>2, <2>1, <2>2
  <1>5. ASSUME NEW k \in Parts(v), NEW x \in NodesBelow(v, k, WithoutNull(v.items[k])) PROVE x \in WithoutNull(v)
    <2>1. PICK m \in WithoutNull(v.items[k]) : x = << <<Step(v, k)>> \o m[1], m[2] >>
      BY <1>5 DEF NodesBelow
    <2>2. PICK a \in Nodes[v.items[k]] : m = <<a[1], Denulled(a[2])>>
      BY <1>2
    <2> DEFINE b == << <<Step(v, k)>> \o a[1], a[2] >>
    <2>3. b \in NodesBelow(v, k, Nodes[v.items[k]])
      BY DEF NodesBelow
    <2>4. b \in Nodes[v]
      BY <1>1, <2>3
    <2>5. x = <<b[1], Denulled(b[2])>>
      BY <2>1, <2>2
    <2>6. x \in {<<node[1], Denulled(node[2])>> : node \in Nodes[v]}
      BY <2>4, <2>5
    <2>7. QED
      BY <1>2, <2>6
  <1>6. QED
    <2>1. whole \subseteq WithoutNull(v)
      BY <1>4, <1>5
    <2>2. WithoutNull(v) \subseteq whole
      BY <1>3
    <2>3. QED
      BY <2>1, <2>2

\* What items stand for is what they make of the whole.
LEMMA ItemsStand ==
    ASSUME NEW t, NEW s, NEW v \in Tree, NEW y \in Tree, Parts(y) = Parts(v),
           StandsFor(t, s, Shape(y)) = Denulled(Shape(v)),
           \A k \in Parts(v) : Step(y, k) = Step(v, k) /\ Stood(t, s, y.items[k]) = WithoutNull(v.items[k])
    PROVE  Stood(t, s, y) = WithoutNull(v)
  <1>1. \A k \in Parts(v) : NodesBelow(y, k, Stood(t, s, y.items[k])) = NodesBelow(v, k, WithoutNull(v.items[k]))
    BY DEF NodesBelow
  <1>2. {NodesBelow(y, k, Stood(t, s, y.items[k])) : k \in Parts(y)}
          = {NodesBelow(v, k, WithoutNull(v.items[k])) : k \in Parts(v)}
    BY <1>1
  <1>3. QED
    BY <1>2, StoodIs, WithoutNullIs, ZenonT(30)

\* x is what is sent for v: from when the registry is s on, what the application
\* makes of it stands for v.
Lands(t, m, s, v, x) ==
    LET y == ToValue[Stringify[x]]
    IN /\ x \in Trees[m] /\ Stringify[x] \in Trees[m] /\ y \in Trees[m]
       /\ \A r \in Registries : Later(r, s) => Stood(t, r, y) = WithoutNull(v)

\* What has landed stays: later registrations take nothing from it.
LEMMA LandsLater ==
    ASSUME NEW t, NEW m, NEW v, NEW x, NEW s \in Registries, NEW r \in Registries, Later(r, s), Lands(t, m, s, v, x)
    PROVE  Lands(t, m, r, v, x)
  BY LaterLater DEF Lands

\* More levels are as good.
LEMMA LandsDeeper ==
    ASSUME NEW t, NEW m \in Nat, NEW k \in Nat, m <= k, NEW v, NEW x, NEW s, Lands(t, m, s, v, x)
    PROVE  Lands(t, k, s, v, x)
  BY TreesMonotone DEF Lands

\* An array or object lands when its items do.
LEMMA ItemsLand ==
    ASSUME NEW t, NEW s \in Registries, NEW n \in Nat, n <= MaxDepth, NEW v \in Trees[n + 1], HasItems(v),
           NEW m \in Nat, m <= MaxDepth, NEW w \in Trees[m + 1], w.kind = v.kind, Parts(w) = Parts(v),
           ~ Has(w, "instanceId"),
           \A k \in Parts(v) : /\ Lands(t, m, s, v.items[k], w.items[k])
                               /\ w.kind = "object" => ~ NotJson(w.items[k])
    PROVE  Lands(t, m + 1, s, v, w)
  <1> DEFINE j == Map(Stringify, w)
             y == Map(ToValue, j)
  <1>1. v \in Tree /\ w \in Tree /\ HasItems(w) /\ \A u \in Trees[m + 1] : u \in Tree
    BY TreesMonotone, TreeLevel DEF Tree, HasItems
  <1>2. Stringified(w) = w
    <2>1. CASE w.kind = "array"
      BY <2>1 DEF Stringified
    <2>2. CASE w.kind = "object"
      <3>1. PICK items : items \in [AllNames -> Trees[m] \cup {Absent}] /\ w = [kind |-> "object", items |-> items]
        BY <2>2, WithItems DEF HasItems, Array
      <3>2. w.items = items
        BY <3>1
      <3>3. \A k \in AllNames : items[k] # Absent => ~ NotJson(items[k])
        BY <2>2, <3>1, <3>2 DEF Parts, HasItems
      <3>4. ~ NotJson(Absent)
        BY DEF NotJson, Absent
      <3>5. [k \in DOMAIN items |-> IF NotJson(items[k]) THEN Absent ELSE items[k]] = items
        BY <3>1, <3>3, <3>4
      <3>6. Stringified(w) = [w EXCEPT !.items = [k \in DOMAIN items |-> IF NotJson(items[k]) THEN Absent ELSE items[k]]]
        BY <2>2, <3>2 DEF Stringified
      <3>7. QED
        BY <3>1, <3>5, <3>6
    <2>3. QED
      BY <1>1, <2>1, <2>2 DEF HasItems
  <1>3. Stringify[w] = j
    BY <1>1, <1>2, StringifyIs DEF StringOf, NotJson, HasItems
  <1>4. \A k \in Parts(w) : Stringify[w.items[k]] \in Trees[m]
    BY DEF Lands
  <1>5. /\ j \in Trees[m + 1] /\ HasItems(j) /\ j.kind = w.kind
        /\ DOMAIN j.items = DOMAIN w.items /\ Parts(j) = Parts(w)
        /\ \A k \in Parts(w) : j.items[k] = Stringify[w.items[k]]
    BY <1>1, <1>4, MapIs
  <1> HIDE DEF j
  <1>6. ~ Has(j, "instanceId")
    <2>1. SUFFICES ASSUME j.kind = "object", j.items["instanceId"] # Absent PROVE FALSE
      BY DEF Has
    <2>2. "instanceId" \in AllNames /\ DOMAIN w.items = AllNames
      BY <1>5, <2>1, WithItems DEF HasItems, Array, AllNames, Reserved
    <2>3. "instanceId" \in Parts(w)
      BY <1>5, <2>1, <2>2 DEF Parts
    <2>4. QED
      BY <1>5, <2>1, <2>3 DEF Has, Parts
  <1>7. ToValue[j] = y
    <2>1. j.kind # "null"
      BY <1>5 DEF HasItems
    <2>2. QED
      BY <1>1, <1>5, <1>6, <2>1, ToValueIs DEF ValueOf
  <1>8. \A k \in Parts(j) : ToValue[j.items[k]] \in Trees[m]
    BY <1>5 DEF Lands
  <1>9. /\ y \in Trees[m + 1] /\ HasItems(y) /\ y.kind = w.kind /\ Parts(y) = Parts(v)
        /\ \A k \in Parts(v) : y.items[k] = ToValue[Stringify[w.items[k]]]
    BY <1>5, <1>8, MapIs
  <1> HIDE DEF y
  <1>10. ASSUME NEW r \in Registries, Later(r, s) PROVE Stood(t, r, y) = WithoutNull(v)
    <2>1. \A k \in Parts(v) : Stood(t, r, y.items[k]) = WithoutNull(v.items[k])
      BY <1>9, <1>10 DEF Lands
    <2>2. \A k \in Parts(v) : Step(y, k) = Step(v, k)
      BY <1>9 DEF Step
    <2>3. Shape(y) = [kind |-> v.kind] /\ Shape(v) = [kind |-> v.kind]
      BY <1>9 DEF Shape
    <2>4. [kind |-> v.kind] # Null /\ [kind |-> v.kind].kind = v.kind
      BY DEF Null, HasItems
    <2>5. StandsFor(t, r, Shape(y)) = Denulled(Shape(v))
      BY <2>3, <2>4 DEF StandsFor, Denulled, HasItems
    <2>6. QED
      BY <1>1, <1>9, <2>1, <2>2, <2>5, ItemsStand
  <1>11. QED
    BY <1>3, <1>5, <1>7, <1>9, <1>10 DEF Lands

\* A function on the first numbers is a sequence.
LEMMA TheseAreSequences == \A S : \A n \in Nat : [1 .. n -> S] \subseteq Seq(S)
  BY SeqDef

\* A tree with other trees for its items.
LEMMA Replaced ==
    ASSUME NEW n \in Nat, NEW m \in Nat, NEW v \in Trees[n + 1], HasItems(v),
           NEW items, items = [k \in DOMAIN v.items |-> items[k]],
           \A k \in Parts(v) : items[k] \in Trees[m], \A k \in DOMAIN v.items : k \notin Parts(v) => items[k] = Absent,
           NEW w, w = [kind |-> v.kind, items |-> items]
    PROVE  w \in Trees[m + 1] /\ HasItems(w) /\ w.kind = v.kind /\ w.items = items /\ Parts(w) = Parts(v)
  <1>1. Parts(v) = {k \in DOMAIN v.items : v.items[k] # Absent} /\ v.kind \in {"array", "object"}
    BY DEF Parts, HasItems
  <1>2. w.kind = v.kind /\ w.items = items
    OBVIOUS
  <1>3. Absent \notin Trees[m]
    BY AbsentIsNoTree
  <1>4. DOMAIN items = DOMAIN v.items
    OBVIOUS
  <1>5. Parts(w) = Parts(v)
    <2>1. Parts(w) = {k \in DOMAIN items : items[k] # Absent}
      BY <1>1, <1>2 DEF Parts, HasItems
    <2>2. QED
      BY <1>1, <1>3, <1>4, <2>1
  <1>6. CASE v.kind = "array"
    <2>1. v.items \in Seq(Trees[n])
      BY <1>6, WithItems DEF HasItems
    <2>2. \A k \in DOMAIN v.items : v.items[k] \in Trees[n]
      BY <2>1, ElementOfSeq, LenProperties
    <2>3. DOMAIN v.items = Parts(v)
      BY <1>1, <2>2, AbsentIsNoTree
    <2>4. DOMAIN v.items = 1 .. Len(v.items) /\ Len(v.items) \in Nat
      BY <2>1, LenProperties
    <2>5. items \in [1 .. Len(v.items) -> Trees[m]]
      <3>1. items = [k \in 1 .. Len(v.items) |-> items[k]]
        BY <2>4
      <3>2. \A k \in 1 .. Len(v.items) : items[k] \in Trees[m]
        BY <2>3, <2>4
      <3>3. QED
        BY <3>1, <3>2
    <2>6. items \in Seq(Trees[m])
      <3>1. [1 .. Len(v.items) -> Trees[m]] \subseteq Seq(Trees[m])
        BY <2>4, TheseAreSequences, Zenon
      <3>2. QED
        BY <2>5, <3>1, Zenon
    <2>7. QED
      BY <1>2, <1>5, <1>6, <2>6, ArrayTree DEF Array, HasItems
  <1>7. CASE v.kind = "object"
    <2>1. DOMAIN v.items = AllNames
      BY <1>7, WithItems DEF HasItems, Array
    <2>2. \A k \in AllNames : items[k] \in Trees[m] \cup {Absent}
      BY <2>1
    <2>3. items \in [AllNames -> Trees[m] \cup {Absent}]
      BY <2>1, <2>2
    <2>4. QED
      BY <1>2, <1>5, <1>7, <2>3, ObjectTree DEF HasItems
  <1>8. QED
    BY <1>1, <1>6, <1>7

\* h is what is sent for v when the registry is s, and the registry after it.
LandsFrom(t, m, s, v, h) == h.to \in Registries /\ Later(h.to, s) /\ Lands(t, m, h.to, v, h.value)

\* What may be the item at k.
LandsAt(t, m, s, v, k, x) == Lands(t, m, s, v.items[k], x) /\ (v.kind = "object" => ~ NotJson(x))

\* The first i items of v in the order q are done.
Partly(t, m, s, v, q, i, d) ==
    /\ d.to \in Registries /\ Later(d.to, s)
    /\ \E items : /\ d.value = [kind |-> v.kind, items |-> items]
                  /\ items = [k \in DOMAIN v.items |-> items[k]]
                  /\ \A k \in DOMAIN v.items :
                       IF \E a \in 1 .. i : q[a] = k THEN LandsAt(t, m, d.to, v, k, items[k])
                       ELSE items[k] = v.items[k]

\* One more is.
LEMMA ItemHooked ==
    ASSUME NEW t, NEW m, NEW s \in Registries, NEW v, NEW q, NEW i \in Nat, NEW d, Partly(t, m, s, v, q, i, d),
           q[i + 1] \in DOMAIN v.items, NEW h,
           h.to \in Registries, Later(h.to, d.to), LandsAt(t, m, h.to, v, q[i + 1], h.value)
    PROVE  Partly(t, m, s, v, q, i + 1, Hooked([d.value EXCEPT !.items[q[i + 1]] = h.value], h.to))
  <1>1. PICK items : /\ d.value = [kind |-> v.kind, items |-> items]
                     /\ items = [k \in DOMAIN v.items |-> items[k]]
                     /\ \A k \in DOMAIN v.items :
                          IF \E a \in 1 .. i : q[a] = k THEN LandsAt(t, m, d.to, v, k, items[k])
                          ELSE items[k] = v.items[k]
    BY DEF Partly
  <1>2. d.to \in Registries /\ Later(d.to, s)
    BY DEF Partly
  <1> DEFINE k0 == q[i + 1]
             now == [k \in DOMAIN v.items |-> IF k = k0 THEN h.value ELSE items[k]]
             e == Hooked([d.value EXCEPT !.items[k0] = h.value], h.to)
  <1>3. [d.value EXCEPT !.items[k0] = h.value] = [kind |-> v.kind, items |-> now]
    <2>1. d.value.items = items
      BY <1>1
    <2>2. [items EXCEPT ![k0] = h.value] = now
      BY <1>1
    <2>3. [d.value EXCEPT !.items[k0] = h.value] = [d.value EXCEPT !.items = now]
      BY <2>1, <2>2
    <2> HIDE DEF now
    <2>4. [d.value EXCEPT !.items = now] = [kind |-> v.kind, items |-> now]
      BY <1>1
    <2>5. QED
      BY <2>3, <2>4
  <1>4. e.to = h.to /\ e.value = [kind |-> v.kind, items |-> now]
    BY <1>3 DEF Hooked
  <1>5. now = [k \in DOMAIN v.items |-> now[k]]
    OBVIOUS
  <1>6. Later(h.to, s)
    BY <1>2, LaterLater
  <1>7. ASSUME NEW k \in DOMAIN v.items
        PROVE  IF \E a \in 1 .. i + 1 : q[a] = k THEN LandsAt(t, m, h.to, v, k, now[k]) ELSE now[k] = v.items[k]
    <2>1. CASE k = k0
      <3>1. i + 1 \in 1 .. i + 1
        OBVIOUS
      <3>2. now[k] = h.value
        BY <2>1
      <3> HIDE DEF now
      <3>3. QED
        BY <2>1, <3>1, <3>2
    <2>2. CASE k # k0
      <3>1. now[k] = items[k]
        BY <2>2
      <3>2. \A a \in 1 .. i + 1 : q[a] = k => a \in 1 .. i
        BY <2>2
      <3>3. (\E a \in 1 .. i + 1 : q[a] = k) <=> (\E a \in 1 .. i : q[a] = k)
        BY <3>2
      <3> HIDE DEF now
      <3>4. LandsAt(t, m, d.to, v, k, items[k]) => LandsAt(t, m, h.to, v, k, items[k])
        BY <1>2, LandsLater DEF LandsAt
      <3>5. QED
        BY <1>1, <3>1, <3>3, <3>4
    <2>3. QED
      BY <2>1, <2>2
  <1>8. QED
    <2> HIDE DEF now, e
    <2>1. Partly(t, m, s, v, q, i + 1, e)
      <3>1. \A k \in DOMAIN v.items :
              IF \E a \in 1 .. i + 1 : q[a] = k THEN LandsAt(t, m, e.to, v, k, now[k]) ELSE now[k] = v.items[k]
        BY <1>4, <1>7
      <3>2. e.to \in Registries /\ Later(e.to, s)
        BY <1>4, <1>6
      <3>3. \E its : /\ e.value = [kind |-> v.kind, items |-> its]
                     /\ its = [k \in DOMAIN v.items |-> its[k]]
                     /\ \A k \in DOMAIN v.items :
                          IF \E a \in 1 .. i + 1 : q[a] = k THEN LandsAt(t, m, e.to, v, k, its[k])
                          ELSE its[k] = v.items[k]
        BY <1>4, <1>5, <3>1, ZenonT(30)
      <3>4. QED
        BY <3>2, <3>3 DEF Partly
    <2>2. QED
      BY <2>1 DEF e

\* An array or object lands when f lands each of its items.
LEMMA HookItemsLand ==
    ASSUME NEW t, NEW n \in Nat, n <= MaxDepth, NEW v \in Trees[n + 1], HasItems(v), ~ Has(v, "instanceId"),
           NEW m \in Nat, m <= MaxDepth, NEW s \in Registries, NEW f,
           \A k \in Parts(v) : \A r \in Registries :
             LET h == f[<<v.items[k], r>>]
             IN LandsFrom(t, m, r, v.items[k], h) /\ (v.kind = "object" => ~ NotJson(h.value))
    PROVE  LandsFrom(t, m + 1, s, v, HookItems(f, v, s)) /\ HasItems(HookItems(f, v, s).value)
  <1> DEFINE q == Order(v)
  <1>1. Ordered(q, v)
    BY OrderIs
  <1> HIDE DEF q
  <1>2. PICK d : Done(d, f, v, s, Len(q)) /\ HookItems(f, v, s) = d[Len(q)]
    BY <1>1, HookItemsIs DEF Ordered, q
  <1>3. \A i \in 0 .. Len(q) : d[i] = IF i = 0 THEN Hooked(v, s) ELSE HookItem(f, v, q[i], d[i - 1])
    BY <1>2 DEF Done, q
  <1>4. Parts(v) = {k \in DOMAIN v.items : v.items[k] # Absent}
    BY DEF Parts
  <1> DEFINE S == {i \in Nat : i <= Len(q) => Partly(t, m, s, v, q, i, d[i])}
  <1>5. 0 \in S
    <2>1. SUFFICES Partly(t, m, s, v, q, 0, d[0])
      OBVIOUS
    <2>2. d[0].value = v /\ d[0].to = s
      BY <1>1, <1>3 DEF Hooked, Ordered
    <2>3. v = [kind |-> v.kind, items |-> v.items] /\ v.items = [k \in DOMAIN v.items |-> v.items[k]]
      <3>1. CASE v.kind = "array"
        <4>1. v.items \in Seq(Trees[n]) /\ v = Array(v.items)
          BY <3>1, WithItems
        <4>2. v.items = [k \in DOMAIN v.items |-> v.items[k]]
          BY <4>1, LenProperties
        <4>3. v = [kind |-> v.kind, items |-> v.items]
          BY <3>1, <4>1 DEF Array
        <4>4. QED
          BY <4>2, <4>3
      <3>2. CASE v.kind = "object"
        <4>1. v.items \in [AllNames -> Trees[n] \cup {Absent}] /\ v = [kind |-> "object", items |-> v.items]
          BY <3>2, WithItems DEF HasItems, Array
        <4>2. v.items = [k \in DOMAIN v.items |-> v.items[k]]
          BY <4>1
        <4>3. QED
          BY <3>2, <4>1, <4>2
      <3>3. QED
        BY <3>1, <3>2 DEF HasItems
    <2>4. \A a \in 1 .. 0 : FALSE
      OBVIOUS
    <2>5. QED
      BY <2>2, <2>3, <2>4, LaterSame DEF Partly
  <1>6. ASSUME NEW i \in Nat, i \in S PROVE i + 1 \in S
    <2>1. SUFFICES ASSUME i + 1 <= Len(q) PROVE Partly(t, m, s, v, q, i + 1, d[i + 1])
      OBVIOUS
    <2>2. i + 1 \in 0 .. Len(q) /\ i + 1 \in 1 .. Len(q) /\ i + 1 # 0 /\ (i + 1) - 1 = i /\ i <= Len(q)
      BY <1>1, <2>1 DEF Ordered
    <2>3. Partly(t, m, s, v, q, i, d[i])
      BY <1>6, <2>2
    <2> DEFINE h == f[<<v.items[q[i + 1]], d[i].to>>]
    <2>4. d[i + 1] = Hooked([d[i].value EXCEPT !.items[q[i + 1]] = h.value], h.to)
      BY <1>3, <2>2 DEF HookItem
    <2>5. q[i + 1] \in Parts(v) /\ q[i + 1] \in DOMAIN v.items
      BY <1>1, <1>4, <2>2 DEF Ordered
    <2>6. d[i].to \in Registries
      BY <2>3 DEF Partly
    <2>7. h.to \in Registries /\ Later(h.to, d[i].to) /\ LandsAt(t, m, h.to, v, q[i + 1], h.value)
      BY <2>5, <2>6 DEF LandsFrom, LandsAt
    <2> HIDE DEF h
    <2>8. QED
      BY <2>3, <2>4, <2>5, <2>7, ItemHooked
  <1>7. \A i \in Nat : i \in S
    <2> HIDE DEF S
    <2>1. QED
      BY <1>5, <1>6, Induction
  <1> DEFINE h == d[Len(q)]
  <1>8. Partly(t, m, s, v, q, Len(q), h)
    BY <1>1, <1>7 DEF Ordered
  <1> HIDE DEF h
  <1>9. PICK items : /\ h.value = [kind |-> v.kind, items |-> items]
                     /\ items = [k \in DOMAIN v.items |-> items[k]]
                     /\ \A k \in DOMAIN v.items :
                          IF \E a \in 1 .. Len(q) : q[a] = k THEN LandsAt(t, m, h.to, v, k, items[k])
                          ELSE items[k] = v.items[k]
    BY <1>8 DEF Partly
  <1>10. h.to \in Registries /\ Later(h.to, s)
    BY <1>8 DEF Partly
  <1>11. \A k \in Parts(v) : LandsAt(t, m, h.to, v, k, items[k])
    BY <1>1, <1>4, <1>9 DEF Ordered
  <1>12. \A k \in DOMAIN v.items : k \notin Parts(v) => items[k] = Absent
    BY <1>1, <1>4, <1>9 DEF Ordered
  <1>13. \A k \in Parts(v) : items[k] \in Trees[m]
    BY <1>11 DEF LandsAt, Lands
  <1> DEFINE w == h.value
  <1>14. w = [kind |-> v.kind, items |-> items] /\ items = [k \in DOMAIN v.items |-> items[k]]
    BY <1>9
  <1> HIDE DEF w
  <1>15. w \in Trees[m + 1] /\ HasItems(w) /\ w.kind = v.kind /\ w.items = items /\ Parts(w) = Parts(v)
    BY <1>12, <1>13, <1>14, Replaced
  <1>16. ~ Has(w, "instanceId")
    <2>1. SUFFICES ASSUME w.kind = "object", w.items["instanceId"] # Absent PROVE FALSE
      BY DEF Has
    <2>2. DOMAIN v.items = AllNames /\ "instanceId" \in AllNames
      BY <1>15, <2>1, WithItems DEF HasItems, Array, AllNames, Reserved
    <2>3. v.kind = "object" /\ v.items["instanceId"] = Absent
      BY <1>15, <2>1 DEF Has
    <2>4. QED
      BY <1>4, <1>12, <1>15, <2>1, <2>2, <2>3
  <1>17. Lands(t, m + 1, h.to, v, w)
    <2>1. \A k \in Parts(v) : /\ Lands(t, m, h.to, v.items[k], w.items[k])
                              /\ w.kind = "object" => ~ NotJson(w.items[k])
      BY <1>11, <1>15 DEF LandsAt
    <2>2. QED
      BY <1>10, <1>15, <1>16, <2>1, ItemsLand
  <1>18. QED
    BY <1>2, <1>10, <1>15, <1>17 DEF LandsFrom, h, w

\* What leaves are to the application.
LEMMA LeafValues ==
    /\ \A v \in Leaves : v \in Tree /\ v \in Trees[1]
    /\ \A v \in Leaves : ~ NotJson(v) /\ v.kind # "instance" => Stringify[v] = v
    /\ \A v \in Leaves : NotJson(v) => Stringify[v] = Null
    /\ \A v \in Leaves : ToValue[v] = Denulled(v)
  <1>1. Leaves \subseteq Trees[0 + 1] /\ Trees[0 + 1] \subseteq Tree
    BY TreeLevel, TreesGrow, TreesMonotone DEF Tree
  <1>2. \A v \in Leaves : ~ HasItems(v) /\ ~ Has(v, "instanceId")
    BY LeafKinds DEF HasItems, Has
  <1>3. \A v \in Leaves : v.kind = "null" <=> v = Null
    BY DEF Leaves, ArgumentLeaves, PlainLeaves, NumberSet, TypeSet, InstanceSet, Null
  <1>4. \A v \in Leaves : ToValue[v] = Denulled(v)
    BY <1>1, <1>2, <1>3, ToValueIs DEF ValueOf, Denulled
  <1>5. \A v \in Leaves : Stringify[v] = StringOf(Stringify, v)
    BY <1>1, StringifyIs
  <1>6. \A v \in Leaves : /\ ~ NotJson(v) /\ v.kind # "instance" => Stringify[v] = v
                          /\ NotJson(v) => Stringify[v] = Null
    BY <1>2, <1>5 DEF StringOf
  <1>7. QED
    BY <1>1, <1>4, <1>6

\* A leaf without items that becomes another.
LEMMA LeafLands ==
    ASSUME NEW t, NEW s \in Registries, NEW v \in Leaves, v.kind # "bytes", NEW x \in Trees[1], Stringify[x] \in Trees[1],
           NEW y \in Leaves, y.kind # "bytes", ToValue[Stringify[x]] = y,
           \A r \in Registries : Later(r, s) => StandsFor(t, r, y) = Denulled(v)
    PROVE  Lands(t, 1, s, v, x)
  <1>1. v \in Tree /\ y \in Tree /\ y \in Trees[1]
    BY LeafValues
  <1>2. ~ HasItems(v) /\ ~ HasItems(y)
    BY LeafKinds DEF HasItems
  <1>3. Parts(v) = {} /\ Parts(y) = {}
    BY <1>2 DEF Parts
  <1>4. Shape(v) = v /\ Shape(y) = y
    BY <1>2, <1>3 DEF Shape
  <1>5. ASSUME NEW r \in Registries, Later(r, s) PROVE Stood(t, r, y) = WithoutNull(v)
    <2>1. StandsFor(t, r, Shape(y)) = Denulled(Shape(v))
      BY <1>4, <1>5
    <2>2. QED
      BY <1>1, <1>3, <2>1, ItemsStand
  <1>6. QED
    BY <1>1, <1>5 DEF Lands

\* What needs no conversion.
LEMMA PlainLands ==
    ASSUME NEW t, NEW s \in Registries, NEW v \in PlainLeaves \cup [kind : {"undefined"}]
    PROVE  v \in Leaves /\ Lands(t, 1, s, v, v) /\ (NotJson(v) => v.kind = "undefined")
  <1>1. v \in Leaves /\ v.kind \in {"null", "number", "string", "undefined"}
    BY DEF PlainLeaves, NumberSet, Leaves, ArgumentLeaves
  <1>2. Null \in Leaves /\ Undefined \in Leaves /\ Undefined.kind = "undefined" /\ Null.kind = "null"
    BY DEF Leaves, ArgumentLeaves, PlainLeaves, Null, Undefined
  <1>3. v.kind = "undefined" => v = Undefined
    BY DEF PlainLeaves, NumberSet, Undefined
  <1>4. v \in Trees[1]
    BY <1>1, LeafValues
  <1>5. NotJson(v) <=> v.kind = "undefined"
    BY <1>1 DEF NotJson
  <1>6. Denulled(Null) = Undefined /\ Denulled(Undefined) = Undefined
    BY <1>2 DEF Denulled
  <1>7. CASE v.kind = "undefined"
    <2>1. Stringify[v] = Null /\ ToValue[Null] = Undefined /\ Null \in Trees[1]
      BY <1>1, <1>2, <1>5, <1>6, <1>7, LeafValues
    <2>2. \A r : StandsFor(t, r, Undefined) = Denulled(v)
      BY <1>2, <1>3, <1>6, <1>7 DEF StandsFor
    <2>3. Lands(t, 1, s, v, v)
      BY <1>1, <1>2, <1>4, <2>1, <2>2, LeafLands
    <2>4. QED
      BY <1>1, <1>7, <2>3
  <1>8. CASE v.kind # "undefined"
    <2>1. Stringify[v] = v /\ ToValue[v] = Denulled(v)
      BY <1>1, <1>5, <1>8, LeafValues
    <2>2. Denulled(v) \in Leaves /\ Denulled(v).kind \in {"number", "string", "undefined", "null"}
      BY <1>1, <1>2 DEF Denulled
    <2>3. \A r : StandsFor(t, r, Denulled(v)) = Denulled(v)
      BY <2>2 DEF StandsFor
    <2>4. Lands(t, 1, s, v, v)
      BY <1>1, <1>4, <2>1, <2>2, <2>3, LeafLands
    <2>5. QED
      BY <1>1, <1>5, <1>8, <2>4
  <1>9. QED
    BY <1>7, <1>8

\* A reference is understood as what it is.
LEMMA ReferenceIs ==
    ASSUME NEW id \in Nat, NEW type \in {"instance", "function"}
    PROVE  LET r == Reference(id, type)
           IN /\ r \in Trees[1] /\ HasItems(r) /\ Stringify[r] = r
              /\ ToValue[r] = IF type = "function" THEN RemoteFunction(id) ELSE Proxy(id)
  <1> DEFINE ri == [n \in AllNames |-> IF n \in {"instanceId", "instanceType"}
                                         THEN [instanceId |-> Number(id), instanceType |-> String(type)][n]
                                         ELSE Absent]
             r == Reference(id, type)
  <1>1. /\ Number(id) \in Leaves /\ Number(id) # Absent /\ Number(id).number = id /\ Number(id).kind = "number"
        /\ String(type) \in Leaves /\ String(type) # Absent /\ String(type).kind = "string"
    <2>1. Number(id) \in Leaves /\ String(type) \in Leaves
      BY DEF Number, String, NumberSet, TypeSet, PlainLeaves, ArgumentLeaves, Leaves
    <2>2. QED
      BY <2>1, AbsentIsNone DEF Number, String
  <1>2. "instanceId" \in AllNames /\ "instanceType" \in AllNames
    BY DEF AllNames, Reserved
  <1>3. DOMAIN [instanceId |-> Number(id), instanceType |-> String(type)] = {"instanceId", "instanceType"}
    OBVIOUS
  <1>4. r = [kind |-> "object", items |-> ri]
    BY <1>3 DEF Reference, Object
  <1>5. ri["instanceId"] = Number(id) /\ ri["instanceType"] = String(type)
    BY <1>2
  <1>6. \A n \in AllNames : IF n = "instanceId" THEN ri[n] = Number(id)
                            ELSE IF n = "instanceType" THEN ri[n] = String(type) ELSE ri[n] = Absent
    BY <1>5
  <1>7. DOMAIN ri = AllNames /\ ri = [n \in AllNames |-> ri[n]]
    OBVIOUS
  <1> HIDE DEF ri
  <1>8. ri \in [AllNames -> Trees[0] \cup {Absent}]
    BY <1>1, <1>6, <1>7, TreesGrow
  <1>9. r \in Trees[1] /\ r \in Tree
    <2> HIDE DEF r
    <2>1. r \in Trees[0 + 1]
      BY <1>4, <1>8, ObjectTree
    <2>2. Trees[0 + 1] \subseteq Tree
      BY TreeLevel, TreesMonotone DEF Tree
    <2>3. QED
      BY <2>1, <2>2
  <1>10. r.kind = "object" /\ r.items = ri /\ HasItems(r)
    BY <1>4 DEF HasItems
  <1>11. \A n \in AllNames : ri[n] # Absent => Stringify[ri[n]] = ri[n]
    BY <1>1, <1>6, LeafValues DEF NotJson
  <1>12. Stringified(r) = r
    <2>1. \A n \in AllNames : ~ NotJson(ri[n])
      BY <1>1, <1>6 DEF NotJson, Absent
    <2>2. [n \in DOMAIN ri |-> IF NotJson(ri[n]) THEN Absent ELSE ri[n]] = ri
      BY <1>7, <2>1
    <2>3. Stringified(r) = [r EXCEPT !.items = [n \in DOMAIN ri |-> IF NotJson(ri[n]) THEN Absent ELSE ri[n]]]
      BY <1>10 DEF Stringified
    <2>4. QED
      BY <1>4, <2>2, <2>3
  <1>13. Map(Stringify, r) = r
    <2>1. [n \in DOMAIN ri |-> IF ri[n] = Absent THEN Absent ELSE Stringify[ri[n]]] = ri
      BY <1>7, <1>11
    <2>2. Map(Stringify, r) = [r EXCEPT !.items = [n \in DOMAIN ri |-> IF ri[n] = Absent THEN Absent ELSE Stringify[ri[n]]]]
      BY <1>10 DEF Map
    <2>3. QED
      BY <1>4, <2>1, <2>2
  <1>14. Stringify[r] = r
    BY <1>9, <1>10, <1>12, <1>13, StringifyIs DEF StringOf, NotJson
  <1>15. Has(r, "instanceId") /\ Has(r, "instanceType")
    BY <1>1, <1>5, <1>10 DEF Has
  <1>16. ToValue[r] = FromReference(r)
    BY <1>9, <1>10, <1>15, ToValueIs DEF ValueOf
  <1>17. String(type) = String("function") <=> type = "function"
    BY DEF String
  <1>18. FromReference(r) = IF type = "function" THEN RemoteFunction(id) ELSE Proxy(id)
    BY <1>1, <1>5, <1>10, <1>17 DEF FromReference
  <1>19. QED
    BY <1>9, <1>10, <1>14, <1>16, <1>18

\* A reference to what the id names for good.
LEMMA ReferenceLands ==
    ASSUME NEW t, NEW s \in Registries, NEW v \in InstanceSet, NEW id \in Nat,
           \A r \in Registries : Later(r, s) => id \in DOMAIN TableOf(t, r).map /\ TableOf(t, r).map[id] = v.of
    PROVE  Lands(t, 1, s, v, Reference(id, "instance")) /\ ~ NotJson(Reference(id, "instance"))
  <1> DEFINE x == Reference(id, "instance")
  <1>1. /\ x \in Trees[1] /\ HasItems(x) /\ Stringify[x] = x
        /\ ToValue[x] = Proxy(id)
    BY ReferenceIs
  <1> HIDE DEF x
  <1>2. v = Instance(v.of) /\ v \in Leaves /\ v.kind = "instance"
    BY DEF InstanceSet, Instance, Leaves
  <1>3. Proxy(id) \in Leaves /\ Proxy(id).kind = "proxy" /\ Proxy(id).id = id
    BY DEF Proxy, Leaves, ArgumentLeaves
  <1>4. Denulled(v) = v
    BY <1>2 DEF Denulled, Null
  <1>5. ASSUME NEW r \in Registries, Later(r, s) PROVE StandsFor(t, r, Proxy(id)) = Denulled(v)
    <2>1. id \in DOMAIN After(t, r.registered).map /\ After(t, r.registered).map[id] = v.of
      BY <1>5 DEF TableOf
    <2>2. QED
      BY <1>2, <1>3, <1>4, <2>1 DEF StandsFor
  <1>6. Lands(t, 1, s, v, x)
    BY <1>1, <1>2, <1>3, <1>5, LeafLands
  <1>7. ~ NotJson(x)
    BY <1>1 DEF NotJson, HasItems
  <1>8. QED
    BY <1>6, <1>7 DEF x

-----------------------------------------------------------------------------
(* The arguments of callbacks arrive.                                      *)

\* What items mention the whole does.
LEMMA MentionedIs ==
    /\ \A v \in Tree : \A k \in Parts(v) : Mentioned(v.items[k]) \subseteq Mentioned(v)
    /\ \A v \in InstanceSet : v \in Tree /\ v.of \in Mentioned(v)
  <1>1. ASSUME NEW v \in Tree, NEW k \in Parts(v), NEW x \in Mentioned(v.items[k]) PROVE x \in Mentioned(v)
    <2>1. PICK a \in Nodes[v.items[k]] : a[2].kind = "instance" /\ x = a[2].of
      BY DEF Mentioned
    <2> DEFINE b == << <<Step(v, k)>> \o a[1], a[2] >>
    <2>2. b \in NodesBelow(v, k, Nodes[v.items[k]])
      BY DEF NodesBelow
    <2>3. b \in Nodes[v]
      BY <2>2, NodesIs DEF NodesOf
    <2>4. b[2] = a[2]
      OBVIOUS
    <2>5. QED
      BY <2>1, <2>3, <2>4 DEF Mentioned
  <1>2. ASSUME NEW v \in InstanceSet PROVE v \in Tree /\ v.of \in Mentioned(v)
    <2>1. v \in Leaves /\ v.kind = "instance"
      BY DEF InstanceSet, Leaves
    <2>2. v \in Tree /\ Shape(v) = v
      BY <2>1, LeafValues DEF Shape, HasItems, Parts
    <2>3. << <<>>, v >> \in Nodes[v]
      BY <2>2, NodesIs DEF NodesOf
    <2>4. << <<>>, v >>[2] = v
      OBVIOUS
    <2>5. QED
      BY <2>1, <2>2, <2>3, <2>4 DEF Mentioned
  <1>3. QED
    BY <1>1, <1>2

\* A leaf of the arguments of a callback.
LEMMA EmittedLeafLands ==
    ASSUME NEW t, NEW live, Usable(t, live), NEW s \in Registries,
           NEW v \in PlainLeaves \cup InstanceSet, Mentioned(v) \cap Instances \subseteq live
    PROVE  LET h == RegisterEmission(t, v, s) IN LandsFrom(t, 1, s, v, h) /\ ~ NotJson(h.value)
  <1> DEFINE h == RegisterEmission(t, v, s)
  <1>1. CASE v \in PlainLeaves
    <2>1. v.kind \in {"null", "number", "string"}
      BY <1>1 DEF PlainLeaves, NumberSet
    <2>2. h.value = v /\ h.to = s
      BY <2>1 DEF RegisterEmission, Hooked
    <2>3. Lands(t, 1, s, v, v)
      BY <1>1, PlainLands
    <2> HIDE DEF h
    <2>4. LandsFrom(t, 1, s, v, h)
      BY <2>2, <2>3, LaterSame DEF LandsFrom
    <2>5. ~ NotJson(h.value)
      BY <2>1, <2>2 DEF NotJson
    <2>6. QED
      BY <2>4, <2>5 DEF h
  <1>2. CASE v \in InstanceSet
    <2> DEFINE now == TableOf(t, s)
               x == v.of
    <2>1. v.kind = "instance" /\ x \in Instances /\ x \in live
      BY <1>2, MentionedIs DEF InstanceSet
    <2>2. CASE GetInstanceId(now, x) # 0
      <3> DEFINE id == GetInstanceId(now, x)
      <3>1. h.value = Reference(id, "instance") /\ h.to = s
        BY <2>1, <2>2 DEF RegisterEmission, Hooked, TableOf, EmissionId
      <3>2. id \in Nat /\ \A r \in Registries : Later(r, s) => id \in DOMAIN TableOf(t, r).map /\ TableOf(t, r).map[id] = x
        BY <2>1, <2>2, IdNames, LaterSame
      <3> HIDE DEF id, h
      <3>3. Lands(t, 1, s, v, h.value) /\ ~ NotJson(h.value)
        BY <1>2, <3>1, <3>2, ReferenceLands
      <3>4. QED
        BY <3>1, <3>3, LaterSame DEF LandsFrom, h
    <2>3. CASE GetInstanceId(now, x) = 0
      <3> DEFINE id == now.next
                 u == Register(s, x)
      <3>1. h.value = Reference(id, "instance") /\ h.to = u
        BY <2>1, <2>3 DEF RegisterEmission, Hooked, TableOf, EmissionId
      <3>2. u \in Registries /\ Later(u, s)
        BY <2>1, RegisterIs
      <3>3. id \in Nat /\ \A r \in Registries : Later(r, u) => id \in DOMAIN TableOf(t, r).map /\ TableOf(t, r).map[id] = x
        BY <2>1, <3>2, RegisterNames, LaterSame
      <3> HIDE DEF id, u, h
      <3>4. Lands(t, 1, u, v, h.value) /\ ~ NotJson(h.value)
        BY <1>2, <3>1, <3>2, <3>3, ReferenceLands
      <3>5. QED
        BY <3>1, <3>2, <3>4 DEF LandsFrom, h
    <2>4. QED
      BY <2>2, <2>3
  <1>3. QED
    BY <1>1, <1>2

\* More levels are as good.
LEMMA LandsFromDeeper ==
    ASSUME NEW t, NEW m \in Nat, NEW k \in Nat, m <= k, NEW v, NEW h, NEW s, LandsFrom(t, m, s, v, h)
    PROVE  LandsFrom(t, k, s, v, h)
  BY LandsDeeper DEF LandsFrom

\* What becomes of an argument of a callback.
Emitted(t, n, v) ==
    \A s \in Registries :
      LET h == HookCallbackArgument(t)[<<v, s>>] IN LandsFrom(t, n + 1, s, v, h) /\ ~ NotJson(h.value)

\* Arguments of callbacks land, whatever their depth, if the instances in them are live.
LEMMA EmissionsLand ==
    ASSUME NEW t, NEW live, Usable(t, live)
    PROVE  \A n \in Nat : n <= MaxDepth =>
             \A v \in EmissionTrees[n] : Mentioned(v) \cap Instances \subseteq live => Emitted(t, n, v)
  <1> DEFINE leaves == PlainLeaves \cup InstanceSet
             S == {n \in Nat : n <= MaxDepth =>
                     \A v \in EmissionTrees[n] : Mentioned(v) \cap Instances \subseteq live => Emitted(t, n, v)}
  <1>1. leaves \subseteq Leaves
    BY DEF Leaves, ArgumentLeaves
  <1>2. EmissionTrees[0] = leaves
    BY TreesOfLevels DEF EmissionTrees
  <1>3. \A n \in Nat : /\ EmissionTrees[n] \subseteq Trees[n]
                       /\ \A v \in EmissionTrees[n + 1] : Grew(leaves, Reserved, EmissionTrees[n], v)
    BY <1>1, SomeTrees DEF EmissionTrees
  <1>4. ASSUME NEW v \in leaves, Mentioned(v) \cap Instances \subseteq live, NEW n \in Nat PROVE Emitted(t, n, v)
    <2>1. SUFFICES ASSUME NEW s \in Registries
                   PROVE  LET h == HookCallbackArgument(t)[<<v, s>>] IN LandsFrom(t, n + 1, s, v, h) /\ ~ NotJson(h.value)
      BY DEF Emitted
    <2>2. v \in Leaves /\ v \in Tree /\ ~ HasItems(v)
      BY <1>1, LeafValues, LeafKinds DEF HasItems
    <2> DEFINE h == RegisterEmission(t, v, s)
    <2>3. HookCallbackArgument(t)[<<v, s>>] = h
      BY <2>2, HookCallbackArgumentIs DEF CallbackOf
    <2>4. LandsFrom(t, 1, s, v, h) /\ ~ NotJson(h.value)
      BY <1>4, EmittedLeafLands
    <2> HIDE DEF h
    <2>5. LandsFrom(t, n + 1, s, v, h)
      BY <2>4, LandsFromDeeper
    <2>6. QED
      BY <2>3, <2>4, <2>5
  <1>5. 0 \in S
    BY <1>2, <1>4
  <1>6. ASSUME NEW n \in Nat, n \in S PROVE n + 1 \in S
    <2>1. SUFFICES ASSUME n + 1 <= MaxDepth, NEW v \in EmissionTrees[n + 1], Mentioned(v) \cap Instances \subseteq live
                   PROVE  Emitted(t, n + 1, v)
      OBVIOUS
    <2>2. Grew(leaves, Reserved, EmissionTrees[n], v) /\ v \in Trees[n + 1]
      BY <1>3
    <2>3. CASE ~ HasItems(v)
      <3>1. v \in leaves
        BY <2>2, <2>3 DEF Grew, HasItems
      <3>2. QED
        BY <1>4, <2>1, <3>1
    <2>4. CASE HasItems(v)
      <3>1. n <= MaxDepth /\ v \in Tree
        BY <2>1, <2>2, TreesMonotone, TreeLevel DEF Tree
      <3>2. (\A k \in Parts(v) : v.items[k] \in EmissionTrees[n]) /\ ~ Has(v, "instanceId")
        BY <2>2, <2>4, GrewItems DEF Reserved
      <3>3. \A k \in Parts(v) : Emitted(t, n, v.items[k])
        BY <1>6, <2>1, <3>1, <3>2, MentionedIs
      <3>4. SUFFICES ASSUME NEW s \in Registries
                     PROVE  LET h == HookCallbackArgument(t)[<<v, s>>]
                            IN LandsFrom(t, n + 1 + 1, s, v, h) /\ ~ NotJson(h.value)
        BY DEF Emitted
      <3> DEFINE f == HookCallbackArgument(t)
                 h == HookItems(f, v, s)
      <3>5. f[<<v, s>>] = h
        BY <2>4, <3>1, HookCallbackArgumentIs DEF CallbackOf
      <3>6. \A k \in Parts(v) : \A r \in Registries :
              LET g == f[<<v.items[k], r>>] IN LandsFrom(t, n + 1, r, v.items[k], g) /\ ~ NotJson(g.value)
        BY <3>3 DEF Emitted
      <3> HIDE DEF f
      <3>7. LandsFrom(t, n + 1 + 1, s, v, h) /\ HasItems(h.value)
        <4>1. n + 1 \in Nat
          OBVIOUS
        <4>2. QED
          BY <2>1, <2>2, <2>4, <3>1, <3>2, <3>6, <4>1, HookItemsLand
      <3>8. ~ NotJson(h.value)
        BY <3>7 DEF NotJson, HasItems
      <3>9. QED
        BY <3>5, <3>7, <3>8 DEF f
    <2>5. QED
      BY <2>3, <2>4
  <1>7. QED
    <2> HIDE DEF S
    <2>1. \A n \in Nat : n \in S
      BY <1>5, <1>6, Induction
    <2>2. QED
      BY <2>1 DEF S

\* Nothing is a registry.
LEMMA NothingIs == Nothing \in Registries
  BY EmptySeq DEF Nothing, Registries

\* Whatever a callback is called with, of any depth, arrives.
LEMMA EmissionsAllArrive ==
    ASSUME NEW t, NEW live, Usable(t, live), NEW v \in EmissionTrees[MaxDepth], Mentioned(v) \cap Instances \subseteq live
    PROVE  EmissionArrives(t, v)
  <1> DEFINE h == HookCallbackArgument(t)[<<v, Nothing>>]
  <1>1. Emitted(t, MaxDepth, v)
    BY EmissionsLand, TreeLevel
  <1>2. LandsFrom(t, MaxDepth + 1, Nothing, v, h)
    BY <1>1, NothingIs DEF Emitted
  <1>3. QED
    BY <1>2, LaterSame DEF LandsFrom, Lands, EmissionArrives, Resolved, Stood

-----------------------------------------------------------------------------
(* Results arrive.                                                         *)

\* What may be an element of an array that is n + 1 levels high.
ElementSet(n) == PlainTrees[n] \cup InstanceSet \cup [kind : {"undefined"}]

\* The results that are n + 1 levels high, of those that are n.
ResultGrown(n, S) == ResultLeaves \cup Objects(S, Reserved) \cup Arrays(ElementSet(n))

\* The first levels of results, of any height.
ResultLevels(g, k) == g = [n \in 0 .. k |-> IF n = 0 THEN ResultLeaves ELSE ResultGrown(n - 1, g[n - 1])]

\* There are such levels.
LEMMA ResultLevelsExist == \A k \in Nat : \E g : ResultLevels(g, k)
  <1> DEFINE S == {k \in Nat : \E g : ResultLevels(g, k)}
  <1>1. 0 \in S
    <2>1. PICK g : g = [n \in 0 .. 0 |-> ResultLeaves]
      OBVIOUS
    <2>2. g = [n \in 0 .. 0 |-> IF n = 0 THEN ResultLeaves ELSE ResultGrown(n - 1, g[n - 1])]
      BY <2>1
    <2>3. QED
      BY <2>2 DEF ResultLevels
  <1>2. ASSUME NEW k \in Nat, k \in S PROVE k + 1 \in S
    <2>1. PICK g : ResultLevels(g, k)
      BY <1>2
    <2>2. \A n \in 0 .. k : g[n] = IF n = 0 THEN ResultLeaves ELSE ResultGrown(n - 1, g[n - 1])
      BY <2>1 DEF ResultLevels
    <2>3. PICK h : h = [n \in 0 .. k + 1 |-> IF n = 0 THEN ResultLeaves ELSE ResultGrown(n - 1, g[n - 1])]
      OBVIOUS
    <2>4. \A n \in 0 .. k : h[n] = g[n]
      BY <2>2, <2>3
    <2>5. \A n \in 0 .. k + 1 : n # 0 => h[n - 1] = g[n - 1]
      BY <2>4
    <2>6. h = [n \in 0 .. k + 1 |-> IF n = 0 THEN ResultLeaves ELSE ResultGrown(n - 1, h[n - 1])]
      BY <2>3, <2>5
    <2>7. QED
      BY <2>6 DEF ResultLevels
  <1>3. QED
    <2> HIDE DEF S
    <2>1. \A k \in Nat : k \in S
      BY <1>1, <1>2, Induction
    <2>2. QED
      BY <2>1 DEF S

\* The lower of them are the same.
LEMMA ResultLevelsAgree ==
    ASSUME NEW g, NEW h, NEW k \in Nat, NEW m \in Nat, ResultLevels(g, k), ResultLevels(h, m), k <= m
    PROVE  \A n \in 0 .. k : g[n] = h[n]
  <1> DEFINE S == {n \in Nat : n <= k => g[n] = h[n]}
  <1>1. /\ \A n \in 0 .. k : g[n] = IF n = 0 THEN ResultLeaves ELSE ResultGrown(n - 1, g[n - 1])
        /\ \A n \in 0 .. m : h[n] = IF n = 0 THEN ResultLeaves ELSE ResultGrown(n - 1, h[n - 1])
    BY DEF ResultLevels
  <1>2. 0 \in S
    BY <1>1
  <1>3. \A n \in Nat : n \in S => n + 1 \in S
    <2>1. SUFFICES ASSUME NEW n \in Nat, n <= k => g[n] = h[n], n + 1 <= k
                   PROVE  g[n + 1] = h[n + 1]
      OBVIOUS
    <2>2. n + 1 \in 0 .. k /\ n + 1 \in 0 .. m /\ n + 1 # 0 /\ (n + 1) - 1 = n
      BY <2>1
    <2>3. g[n + 1] = ResultGrown(n, g[n]) /\ h[n + 1] = ResultGrown(n, h[n])
      BY <1>1, <2>2
    <2>4. QED
      BY <2>1, <2>3
  <1>4. QED
    <2> HIDE DEF S
    <2>1. \A n \in Nat : n \in S
      BY <1>2, <1>3, Induction
    <2>2. QED
      BY <2>1 DEF S

\* Results are what their definition says.
LEMMA ResultTreesAre ==
    /\ ResultTrees[0] = ResultLeaves
    /\ \A n \in Nat : ResultTrees[n + 1] = ResultGrown(n, ResultTrees[n])
  <1> DEFINE G(k) == CHOOSE g : ResultLevels(g, k)
             f == [n \in Nat |-> G(n)[n]]
             Eq(h) == h = [n \in Nat |-> IF n = 0 THEN ResultLeaves ELSE ResultGrown(n - 1, h[n - 1])]
  <1>1. \A k \in Nat : ResultLevels(G(k), k)
    BY ResultLevelsExist
  <1> HIDE DEF G
  <1>2. G(0)[0] = ResultLeaves
    BY <1>1 DEF ResultLevels
  <1>3. ASSUME NEW n \in Nat, n # 0 PROVE G(n)[n] = ResultGrown(n - 1, G(n - 1)[n - 1])
    <2>1. n - 1 \in Nat /\ n \in 0 .. n /\ n - 1 <= n /\ n - 1 \in 0 .. n - 1
      BY <1>3
    <2>2. ResultLevels(G(n), n) /\ ResultLevels(G(n - 1), n - 1)
      BY <1>1, <2>1
    <2>3. G(n)[n] = ResultGrown(n - 1, G(n)[n - 1])
      BY <1>3, <2>1, <2>2 DEF ResultLevels
    <2>4. G(n - 1)[n - 1] = G(n)[n - 1]
      BY <2>1, <2>2, ResultLevelsAgree
    <2>5. QED
      BY <2>3, <2>4
  <1>4. Eq(f)
    <2>1. ASSUME NEW n \in Nat PROVE G(n)[n] = IF n = 0 THEN ResultLeaves ELSE ResultGrown(n - 1, f[n - 1])
      BY <1>2, <1>3
    <2>2. QED
      BY <2>1
  <1> HIDE DEF f
  <1> DEFINE T == ResultTrees
  <1>5. T = CHOOSE h : Eq(h)
    BY DEF ResultTrees, ResultGrown, ElementSet
  <1>6. Eq(T)
    <2> HIDE DEF Eq, T
    <2>1. QED
      BY <1>4, <1>5
  <1> HIDE DEF T
  <1>7. T = [n \in Nat |-> IF n = 0 THEN ResultLeaves ELSE ResultGrown(n - 1, T[n - 1])]
    BY <1>6
  <1>8. T[0] = ResultLeaves /\ \A n \in Nat : T[n + 1] = ResultGrown(n, T[n])
    <2>1. \A n \in Nat : n + 1 \in Nat /\ n + 1 # 0 /\ (n + 1) - 1 = n
      OBVIOUS
    <2>2. QED
      BY <1>7, <2>1
  <1>9. QED
    BY <1>8 DEF T

\* What a plain tree is.
LEMMA PlainIs ==
    /\ PlainTrees[0] = PlainLeaves
    /\ \A n \in Nat : /\ PlainTrees[n] \subseteq Trees[n]
                      /\ \A v \in PlainTrees[n + 1] : Grew(PlainLeaves, Reserved, PlainTrees[n], v)
  <1>1. PlainLeaves \subseteq Leaves
    BY DEF Leaves, ArgumentLeaves
  <1>2. QED
    BY <1>1, SomeTrees, TreesOfLevels DEF PlainTrees

\* What an element is.
LEMMA ElementsAreTrees == \A n \in Nat : ElementSet(n) \subseteq Trees[n]
  <1>1. InstanceSet \subseteq Leaves /\ [kind : {"undefined"}] \subseteq Leaves
    BY DEF Leaves, ArgumentLeaves
  <1>2. QED
    BY <1>1, PlainIs, TreesGrow DEF ElementSet

\* What a result is.
ResultForm(n, v) ==
    \/ v \in ResultLeaves
    \/ v.kind = "object" /\ Grew(ResultLeaves, Reserved, ResultTrees[n], v)
    \/ v.kind = "array" /\ v.items \in Seq(ElementSet(n)) /\ v = Array(v.items)

\* Results are trees, of that form.
LEMMA ResultIs ==
    \A n \in Nat : /\ ResultTrees[n] \subseteq Trees[n]
                   /\ \A v \in ResultTrees[n + 1] : ResultForm(n, v)
  <1>1. ResultLeaves \subseteq Leaves
    BY DEF ResultLeaves, Leaves, ArgumentLeaves
  <1>2. ASSUME NEW n \in Nat, NEW v \in ResultTrees[n + 1] PROVE ResultForm(n, v)
    <2>1. v \in ResultGrown(n, ResultTrees[n])
      BY ResultTreesAre
    <2>2. CASE v \in Objects(ResultTrees[n], Reserved)
      <3>1. Grew(ResultLeaves, Reserved, ResultTrees[n], v)
        BY <1>1, <2>2, GrownGrew DEF Grown
      <3>2. v.kind = "object"
        BY <2>2 DEF Objects
      <3>3. QED
        BY <3>1, <3>2 DEF ResultForm
    <2>3. CASE v \in Arrays(ElementSet(n))
      BY <2>3 DEF Arrays, Array, ResultForm
    <2>4. QED
      BY <2>1, <2>2, <2>3 DEF ResultGrown, ResultForm
  <1> DEFINE S == {n \in Nat : ResultTrees[n] \subseteq Trees[n]}
  <1>3. 0 \in S
    BY <1>1, ResultTreesAre, TreesGrow
  <1>4. ASSUME NEW n \in Nat, n \in S PROVE n + 1 \in S
    <2>1. SUFFICES ASSUME NEW v \in ResultTrees[n + 1] PROVE v \in Trees[n + 1]
      OBVIOUS
    <2>2. ResultForm(n, v)
      BY <1>2
    <2>3. CASE v \in ResultLeaves
      BY <1>1, <2>3, TreesGrow
    <2>4. CASE v.kind = "object" /\ Grew(ResultLeaves, Reserved, ResultTrees[n], v)
      <3>1. v.items \in [AllNames -> ResultTrees[n] \cup {Absent}] /\ v = [kind |-> "object", items |-> v.items]
        BY <2>4 DEF Grew, HasItems, Array
      <3>2. v.items \in [AllNames -> Trees[n] \cup {Absent}]
        BY <1>4, <3>1
      <3>3. QED
        BY <3>1, <3>2, ObjectTree
    <2>5. CASE v.items \in Seq(ElementSet(n)) /\ v = Array(v.items)
      <3>1. v.items \in Seq(Trees[n])
        BY <2>5, ElementsAreTrees, SeqMonotonic
      <3>2. QED
        BY <2>5, <3>1, ArrayTree
    <2>6. QED
      BY <2>2, <2>3, <2>4, <2>5 DEF ResultForm
  <1>5. \A n \in Nat : n \in S
    <2> HIDE DEF S
    <2>1. QED
      BY <1>3, <1>4, Induction
  <1>6. QED
    BY <1>2, <1>5

\* What has nothing to convert lands as it is.
LEMMA PlainTreesLand ==
    ASSUME NEW t, NEW s \in Registries
    PROVE  \A n \in Nat : n <= MaxDepth =>
             \A v \in PlainTrees[n] : Lands(t, n + 1, s, v, v) /\ v.kind \in {"null", "number", "string", "array", "object"}
  <1> DEFINE S == {n \in Nat : n <= MaxDepth =>
                     \A v \in PlainTrees[n] : Lands(t, n + 1, s, v, v) /\ v.kind \in {"null", "number", "string", "array", "object"}}
  <1>1. ASSUME NEW v \in PlainLeaves, NEW n \in Nat
        PROVE  Lands(t, n + 1, s, v, v) /\ v.kind \in {"null", "number", "string", "array", "object"}
    <2>1. v.kind \in {"null", "number", "string"}
      BY DEF PlainLeaves, NumberSet
    <2>2. Lands(t, 1, s, v, v)
      BY PlainLands
    <2>3. Lands(t, n + 1, s, v, v)
      BY <2>2, LandsDeeper
    <2>4. QED
      BY <2>1, <2>3
  <1>2. 0 \in S
    BY <1>1, PlainIs
  <1>3. ASSUME NEW n \in Nat, n \in S PROVE n + 1 \in S
    <2>1. SUFFICES ASSUME n + 1 <= MaxDepth, NEW v \in PlainTrees[n + 1]
                   PROVE  Lands(t, n + 1 + 1, s, v, v) /\ v.kind \in {"null", "number", "string", "array", "object"}
      OBVIOUS
    <2>2. Grew(PlainLeaves, Reserved, PlainTrees[n], v) /\ v \in Trees[n + 1] /\ v \in Trees[n + 1 + 1]
      BY PlainIs, TreesGrow
    <2>3. CASE ~ HasItems(v)
      BY <1>1, <2>2, <2>3 DEF Grew, HasItems
    <2>4. CASE HasItems(v)
      <3>1. n <= MaxDepth /\ n + 1 \in Nat
        BY <2>1, TreeLevel
      <3>2. (\A k \in Parts(v) : v.items[k] \in PlainTrees[n]) /\ ~ Has(v, "instanceId")
        BY <2>2, <2>4, GrewItems DEF Reserved
      <3>3. \A k \in Parts(v) : Lands(t, n + 1, s, v.items[k], v.items[k]) /\ ~ NotJson(v.items[k])
        BY <1>3, <3>1, <3>2 DEF NotJson
      <3>4. Lands(t, n + 1 + 1, s, v, v)
        BY <2>1, <2>2, <2>4, <3>1, <3>2, <3>3, ItemsLand
      <3>5. QED
        BY <2>4, <3>4 DEF HasItems
    <2>5. QED
      BY <2>3, <2>4
  <1>4. QED
    <2> HIDE DEF S
    <2>1. \A n \in Nat : n \in S
      BY <1>2, <1>3, Induction
    <2>2. QED
      BY <2>1 DEF S

\* An instance is registered anew each time it is a result.
LEMMA ReturnedInstanceLands ==
    ASSUME NEW t, NEW live, Usable(t, live), NEW s \in Registries, NEW v \in InstanceSet
    PROVE  LET h == RegisterResult(t, v, s) IN LandsFrom(t, 1, s, v, h) /\ ~ NotJson(h.value)
  <1> DEFINE h == RegisterResult(t, v, s)
             id == TableOf(t, s).next
             u == Register(s, v.of)
  <1>1. v.kind = "instance" /\ v.of \in Instances
    BY DEF InstanceSet
  <1>2. h.value = Reference(id, "instance") /\ h.to = u
    BY <1>1 DEF RegisterResult, Hooked, TableOf
  <1>3. u \in Registries /\ Later(u, s)
    BY <1>1, RegisterIs
  <1>4. id \in Nat /\ \A r \in Registries : Later(r, u) => id \in DOMAIN TableOf(t, r).map /\ TableOf(t, r).map[id] = v.of
    BY <1>1, <1>3, RegisterNames, LaterSame
  <1> HIDE DEF id, u, h
  <1>5. Lands(t, 1, u, v, h.value) /\ ~ NotJson(h.value)
    BY <1>2, <1>3, <1>4, ReferenceLands
  <1>6. QED
    BY <1>2, <1>3, <1>5 DEF LandsFrom, h

\* A function is reached by the number it got.
LEMMA ReturnedFunctionLands ==
    ASSUME NEW t, NEW s \in Registries, NEW v \in [kind : {"function"}, of : STRING]
    PROVE  LET h == RegisterFunction(v, s) IN LandsFrom(t, 1, s, v, h) /\ ~ NotJson(h.value)
  <1> DEFINE h == RegisterFunction(v, s)
             id == Len(s.functions) + 1
             x == Reference(id, "function")
  <1>1. v.kind = "function" /\ v.of \in STRING /\ v = Function(v.of) /\ v \in Leaves
    BY DEF Function, Leaves
  <1>2. h.to \in Registries /\ Later(h.to, s) /\ Len(h.to.functions) = id /\ h.to.functions[id] = v.of
    BY <1>1, RegisterFunctionIs
  <1>3. h.value = x
    BY DEF RegisterFunction, Hooked
  <1>4. id \in Nat /\ id \in 1 .. id
    BY RegistryIs
  <1> HIDE DEF id, h
  <1>5. x \in Trees[1] /\ HasItems(x) /\ Stringify[x] = x /\ ToValue[x] = RemoteFunction(id)
    BY <1>4, ReferenceIs
  <1>6. RemoteFunction(id) \in Leaves /\ RemoteFunction(id).kind = "remote" /\ RemoteFunction(id).id = id
    BY <1>4 DEF RemoteFunction, Leaves
  <1>7. Denulled(v) = v
    BY <1>1 DEF Denulled, Null
  <1>8. ASSUME NEW r \in Registries, Later(r, h.to) PROVE StandsFor(t, r, RemoteFunction(id)) = Denulled(v)
    <2>1. Len(h.to.functions) <= Len(r.functions) /\ r.functions[id] = v.of
      BY <1>2, <1>4, <1>8 DEF Later
    <2>2. DOMAIN r.functions = 1 .. Len(r.functions) /\ Len(r.functions) \in Nat
      BY RegistryIs, LenProperties
    <2>3. id \in DOMAIN r.functions
      BY <1>2, <1>4, <2>1, <2>2
    <2>4. StandsFor(t, r, RemoteFunction(id)) = StaticTarget(r, StaticRequest(id))
      BY <1>6 DEF StandsFor
    <2>5. StaticRequest(id).clazz = "functionData" /\ StaticRequest(id).action = id
      BY DEF StaticRequest
    <2>6. ClazzMap(r)["functionData"] = r.functions
      BY DEF ClazzMap
    <2>7. StaticTarget(r, StaticRequest(id)) = Function(v.of)
      BY <2>1, <2>3, <2>5, <2>6 DEF StaticTarget
    <2>8. QED
      BY <1>1, <1>7, <2>4, <2>7
  <1> HIDE DEF x
  <1>9. Lands(t, 1, h.to, v, x)
    BY <1>1, <1>2, <1>5, <1>6, <1>8, LeafLands
  <1>10. ~ NotJson(x)
    BY <1>5 DEF NotJson, HasItems
  <1>11. QED
    BY <1>2, <1>3, <1>9, <1>10 DEF LandsFrom, h

\* An element of an array that is a result.
LEMMA ElementsLand ==
    ASSUME NEW t, NEW live, Usable(t, live), NEW s \in Registries, NEW n \in Nat, n <= MaxDepth, NEW v \in ElementSet(n)
    PROVE  LandsFrom(t, n + 1, s, v, Elements(t)[<<v, s>>])
  <1>1. v \in Tree
    BY ElementsAreTrees, TreesMonotone, TreeLevel DEF Tree
  <1> DEFINE h == RegisterResult(t, v, s)
  <1>2. Elements(t)[<<v, s>>] = h
    BY <1>1, ElementsAre
  <1>3. CASE v \in InstanceSet
    <2>1. LandsFrom(t, 1, s, v, h)
      BY <1>3, ReturnedInstanceLands
    <2> HIDE DEF h
    <2>2. QED
      BY <1>2, <2>1, LandsFromDeeper
  <1>4. CASE v \in PlainTrees[n]
    <2>1. Lands(t, n + 1, s, v, v) /\ v.kind # "instance"
      BY <1>4, PlainTreesLand
    <2>2. h.value = v /\ h.to = s
      BY <2>1 DEF RegisterResult, Hooked
    <2> HIDE DEF h
    <2>3. QED
      BY <1>2, <2>1, <2>2, LaterSame DEF LandsFrom
  <1>5. CASE v \in [kind : {"undefined"}]
    <2>1. h.value = v /\ h.to = s
      BY <1>5 DEF RegisterResult, Hooked
    <2>2. Lands(t, 1, s, v, v)
      BY <1>5, PlainLands
    <2> HIDE DEF h
    <2>3. LandsFrom(t, 1, s, v, h)
      BY <2>1, <2>2, LaterSame DEF LandsFrom
    <2>4. QED
      BY <1>2, <2>3, LandsFromDeeper
  <1>6. QED
    BY <1>3, <1>4, <1>5 DEF ElementSet

\* What becomes of a result.
Returned(t, n, v) ==
    \A s \in Registries :
      LET h == HookResult(t)[<<v, s>>] IN LandsFrom(t, n + 1, s, v, h) /\ ~ NotJson(h.value)

\* A result without items.
LEMMA ReturnedLeafLands ==
    ASSUME NEW t, NEW live, Usable(t, live), NEW v \in ResultLeaves, NEW n \in Nat
    PROVE  Returned(t, n, v)
  <1>1. SUFFICES ASSUME NEW s \in Registries
                 PROVE  LET h == HookResult(t)[<<v, s>>] IN LandsFrom(t, n + 1, s, v, h) /\ ~ NotJson(h.value)
    BY DEF Returned
  <1> DEFINE h == HookResult(t)[<<v, s>>]
  <1>2. v \in Leaves /\ v \in Tree
    <2>1. v \in Leaves
      BY DEF ResultLeaves, Leaves, ArgumentLeaves
    <2>2. QED
      BY <2>1, LeafValues
  <1>3. h = ResultOf(t, HookResult(t), <<v, s>>)
    BY <1>2, HookResultIs
  <1> HIDE DEF h
  <1>4. CASE v \in InstanceSet
    <2>1. v.kind = "instance"
      BY <1>4 DEF InstanceSet
    <2>2. h = RegisterResult(t, v, s)
      BY <1>3, <2>1 DEF ResultOf
    <2>3. LandsFrom(t, 1, s, v, h) /\ ~ NotJson(h.value)
      BY <1>4, <2>2, ReturnedInstanceLands
    <2>4. QED
      BY <2>3, LandsFromDeeper DEF h
  <1>5. CASE v \in [kind : {"function"}, of : STRING]
    <2>1. h = RegisterFunction(v, s)
      BY <1>3, <1>5 DEF ResultOf
    <2>2. LandsFrom(t, 1, s, v, h) /\ ~ NotJson(h.value)
      BY <1>5, <2>1, ReturnedFunctionLands
    <2>3. QED
      BY <2>2, LandsFromDeeper DEF h
  <1>6. CASE v \in PlainLeaves /\ v.kind \in {"number", "string"}
    <2>1. h = RegisterResult(t, v, s)
      BY <1>3, <1>6 DEF ResultOf
    <2>2. h.value = v /\ h.to = s
      BY <1>6, <2>1 DEF RegisterResult, Hooked
    <2>3. Lands(t, 1, s, v, v)
      BY <1>6, PlainLands
    <2>4. LandsFrom(t, 1, s, v, h)
      BY <2>2, <2>3, LaterSame DEF LandsFrom
    <2>5. ~ NotJson(h.value)
      BY <1>6, <2>2 DEF NotJson
    <2>6. QED
      BY <2>4, <2>5, LandsFromDeeper DEF h
  <1>7. v \in PlainLeaves \ [kind : {"null"}] => v.kind \in {"number", "string"}
    BY DEF PlainLeaves, NumberSet
  <1>8. QED
    BY <1>4, <1>5, <1>6, <1>7 DEF ResultLeaves

\* Results land, whatever their depth.
LEMMA ResultsLand ==
    ASSUME NEW t, NEW live, Usable(t, live)
    PROVE  \A n \in Nat : n <= MaxDepth => \A v \in ResultTrees[n] : Returned(t, n, v)
  <1> DEFINE S == {n \in Nat : n <= MaxDepth => \A v \in ResultTrees[n] : Returned(t, n, v)}
  <1>1. 0 \in S
    BY ResultTreesAre, ReturnedLeafLands
  <1>2. ASSUME NEW n \in Nat, n \in S PROVE n + 1 \in S
    <2>1. SUFFICES ASSUME n + 1 <= MaxDepth, NEW v \in ResultTrees[n + 1] PROVE Returned(t, n + 1, v)
      OBVIOUS
    <2>2. ResultForm(n, v) /\ v \in Trees[n + 1]
      BY ResultIs
    <2>3. n <= MaxDepth /\ n + 1 \in Nat /\ v \in Tree
      BY <2>1, <2>2, TreesMonotone, TreeLevel DEF Tree
    <2>4. CASE v \in ResultLeaves
      BY <2>4, ReturnedLeafLands
    <2> DEFINE f == HookResult(t)
    <2>5. CASE v.kind = "object" /\ Grew(ResultLeaves, Reserved, ResultTrees[n], v)
      <3>1. SUFFICES ASSUME NEW s \in Registries
                     PROVE  LET h == f[<<v, s>>] IN LandsFrom(t, n + 1 + 1, s, v, h) /\ ~ NotJson(h.value)
        BY DEF Returned
      <3> DEFINE h == HookItems(f, v, s)
      <3>2. f[<<v, s>>] = h
        BY <2>3, <2>5, HookResultIs DEF ResultOf
      <3>3. HasItems(v) /\ (\A k \in Parts(v) : v.items[k] \in ResultTrees[n]) /\ ~ Has(v, "instanceId")
        BY <2>5, GrewItems DEF Reserved, HasItems
      <3>4. \A k \in Parts(v) : Returned(t, n, v.items[k])
        BY <1>2, <2>3, <3>3
      <3>5. \A k \in Parts(v) : \A r \in Registries :
              LET g == f[<<v.items[k], r>>] IN LandsFrom(t, n + 1, r, v.items[k], g) /\ ~ NotJson(g.value)
        BY <3>4 DEF Returned
      <3> HIDE DEF f
      <3>6. LandsFrom(t, n + 1 + 1, s, v, h) /\ HasItems(h.value)
        BY <2>1, <2>2, <2>3, <3>3, <3>5, HookItemsLand
      <3>7. ~ NotJson(h.value)
        BY <3>6 DEF NotJson, HasItems
      <3>8. QED
        BY <3>2, <3>6, <3>7
    <2>6. CASE v.kind = "array" /\ v.items \in Seq(ElementSet(n)) /\ v = Array(v.items)
      <3>1. SUFFICES ASSUME NEW s \in Registries
                     PROVE  LET h == f[<<v, s>>] IN LandsFrom(t, n + 1 + 1, s, v, h) /\ ~ NotJson(h.value)
        BY DEF Returned
      <3> DEFINE e == Elements(t)
                 h == HookItems(e, v, s)
      <3>2. f[<<v, s>>] = h
        BY <2>3, <2>6, HookResultIs DEF ResultOf
      <3>3. HasItems(v) /\ ~ Has(v, "instanceId") /\ \A k \in Parts(v) : v.items[k] \in ElementSet(n)
        <4>1. \A k \in DOMAIN v.items : v.items[k] \in ElementSet(n)
          BY <2>6, ElementOfSeq, LenProperties
        <4>2. QED
          BY <2>6, <4>1 DEF HasItems, Has, Parts
      <3>4. \A k \in Parts(v) : \A r \in Registries : LandsFrom(t, n + 1, r, v.items[k], e[<<v.items[k], r>>])
        BY <2>3, <3>3, ElementsLand
      <3> HIDE DEF e
      <3>5. LandsFrom(t, n + 1 + 1, s, v, h) /\ HasItems(h.value)
        <4>1. \A k \in Parts(v) : \A r \in Registries :
                LET g == e[<<v.items[k], r>>]
                IN LandsFrom(t, n + 1, r, v.items[k], g) /\ (v.kind = "object" => ~ NotJson(g.value))
          BY <2>6, <3>4
        <4>2. QED
          BY <2>1, <2>2, <2>3, <3>3, <4>1, HookItemsLand
      <3>6. ~ NotJson(h.value)
        BY <3>5 DEF NotJson, HasItems
      <3>7. QED
        BY <3>2, <3>5, <3>6
    <2>7. QED
      BY <2>2, <2>4, <2>5, <2>6 DEF ResultForm
  <1>3. QED
    <2> HIDE DEF S
    <2>1. \A n \in Nat : n \in S
      BY <1>1, <1>2, Induction
    <2>2. QED
      BY <2>1 DEF S

\* Whatever a call returns, of any depth, arrives.
LEMMA ResultsAllArrive ==
    ASSUME NEW t, NEW live, Usable(t, live), NEW v \in ResultTrees[MaxDepth] \cup {Undefined}
    PROVE  ResultArrives(t, v)
  <1> DEFINE h == HookResult(t)[<<v, Nothing>>]
  <1>1. LandsFrom(t, MaxDepth + 1, Nothing, v, h)
    <2>1. CASE v \in ResultTrees[MaxDepth]
      <3>1. Returned(t, MaxDepth, v)
        BY <2>1, ResultsLand, TreeLevel
      <3>2. QED
        BY <3>1, NothingIs DEF Returned
    <2>2. CASE v = Undefined
      <3>1. v \in [kind : {"undefined"}] /\ v.kind = "undefined"
        BY <2>2 DEF Undefined
      <3>2. v \in Tree /\ Lands(t, 1, Nothing, v, v)
        BY <3>1, NothingIs, PlainLands, LeafValues
      <3>3. h.value = v /\ h.to = Nothing
        <4>1. h = ResultOf(t, HookResult(t), <<v, Nothing>>)
          BY <3>2, NothingIs, HookResultIs
        <4>2. ResultOf(t, HookResult(t), <<v, Nothing>>) = Hooked(v, Nothing)
          BY <3>1 DEF ResultOf, RegisterResult
        <4>3. QED
          BY <4>1, <4>2 DEF Hooked
      <3> HIDE DEF h
      <3>4. LandsFrom(t, 1, Nothing, v, h)
        BY <3>2, <3>3, NothingIs, LaterSame DEF LandsFrom
      <3>5. QED
        BY <3>4, LandsFromDeeper, TreeLevel
    <2>3. QED
      BY <2>1, <2>2
  <1>2. QED
    BY <1>1, LaterSame DEF LandsFrom, Lands, ResultArrives, Resolved, Stood

-----------------------------------------------------------------------------
(* The invariant is inductive.                                             *)

\* It holds initially.
LEMMA InitIInv == Init => IInv
  <1>1. SUFFICES ASSUME Init PROVE IInv
    OBVIOUS
  <1>2. Sound(table) /\ \A x : Canonical(table, x)
    BY <1>1, EmptyCanonical DEF Init
  <1>3. DOMAIN table.map = {}
    BY <1>1 DEF Init, EmptyTable
  <1>4. QED
    BY <1>1, <1>2, <1>3 DEF Init, IInv, IdsAreForever

\* Every step preserves it.
LEMMA NextIInv == IInv /\ [Next]_vars => IInv'
  <1>1. SUFFICES ASSUME IInv, [Next]_vars PROVE IInv'
    OBVIOUS
  <1>2. /\ Sound(table) /\ \A x \in Instances \ cleared : Canonical(table, x)
        /\ \A id \in DOMAIN table.map : table.map[id] \in Instances
    BY <1>1 DEF IInv
  <1>3. ASSUME NEW x \in Instances, Set(x)
        PROVE  IInv'
    <2>1. table' = SetInstance(table, x) /\ cleared' = cleared
      BY <1>3 DEF Set
    <2>2. Sound(table') /\ \A y \in Instances \ cleared' : Canonical(table', y)
      BY <1>2, <2>1, SetKeeps
    <2>3. named' = named \cup {<<table.next, x>>} /\ table'.next = table.next + 1
      BY <1>3 DEF Set, SetInstance
    <2>4. table.next \in Nat /\ \A p \in named : p[1] \in Nat /\ p[1] < table.next
      BY <1>1 DEF IInv, Sound
    <2>5. \A p \in named' : p[1] \in Nat /\ p[1] < table'.next
      BY <2>3, <2>4
    <2>6. IdsAreForever'
      <3>1. \A p \in named : p[1] # table.next
        BY <2>4
      <3>2. QED
        BY <1>1, <2>3, <3>1 DEF IInv, IdsAreForever
    <2>7. \A id \in DOMAIN table'.map : table'.map[id] \in Instances
      BY <1>2, <2>1 DEF SetInstance, With
    <2>8. QED
      BY <2>2, <2>5, <2>6, <2>7 DEF IInv
  <1>4. ASSUME Sound(table'), \A x \in Instances \ cleared' : Canonical(table', x),
               \A id \in DOMAIN table'.map : id \in DOMAIN table.map /\ table'.map[id] = table.map[id],
               named' = named, table'.next = table.next
        PROVE  IInv'
    BY <1>1, <1>4 DEF IInv, IdsAreForever
  <1>5. ASSUME NEW id \in 1 .. MaxId, Remove(id)
        PROVE  IInv'
    <2>1. CASE id \in DOMAIN table.map
      <3>1. table' = RemoveInstance(table, id) /\ cleared' = cleared /\ named' = named
        BY <1>5, <2>1 DEF Remove
      <3>2. Sound(table') /\ \A x \in Instances \ cleared' : Canonical(table', x)
        BY <1>2, <2>1, <3>1, RemoveKeeps
      <3>3. /\ table'.next = table.next
            /\ \A n \in DOMAIN table'.map : n \in DOMAIN table.map /\ table'.map[n] = table.map[n]
        BY <3>1 DEF RemoveInstance, Without, Restrict
      <3>4. QED
        BY <1>4, <3>1, <3>2, <3>3
    <2>2. CASE id \notin DOMAIN table.map
      BY <1>2, <1>4, <1>5, <2>2 DEF Remove
    <2>3. QED
      BY <2>1, <2>2
  <1>6. ASSUME NEW class \in Classes, RemoveOfType(class)
        PROVE  IInv'
    <2>1. table' = RemoveInstanceOfType(table, class) /\ cleared' = cleared /\ named' = named
      BY <1>6 DEF RemoveOfType
    <2>2. Sound(table') /\ \A x \in Instances \ cleared' : Canonical(table', x)
      BY <1>2, <2>1, RemoveTypeKeeps
    <2>3. /\ table'.next = table.next
          /\ \A id \in DOMAIN table'.map : id \in DOMAIN table.map /\ table'.map[id] = table.map[id]
      BY <2>1 DEF RemoveInstanceOfType, Without, Restrict
    <2>4. QED
      BY <1>4, <2>1, <2>2, <2>3
  <1>7. CASE Clear
    <2>1. /\ table' = ClearInstance(table) /\ named' = named
          /\ cleared' = cleared \cup (DOMAIN table.idOf \ Primitives)
      BY <1>7 DEF Clear
    <2>2. Sound(table') /\ \A x \in Instances \ cleared' : Canonical(table', x)
      BY <1>2, <2>1, ClearKeeps
    <2>3. table'.next = table.next /\ DOMAIN table'.map = {}
      BY <2>1 DEF ClearInstance, EmptyTable
    <2>4. QED
      BY <1>4, <2>1, <2>2, <2>3
  <1>8. CASE UNCHANGED vars
    BY <1>1, <1>8 DEF vars, IInv, IdsAreForever
  <1>9. QED
    BY <1>1, <1>3, <1>5, <1>6, <1>7, <1>8 DEF Next

-----------------------------------------------------------------------------
(* The theorems.                                                           *)

\* The inductive invariant holds in every state.
LEMMA Invariance == Spec => []IInv
  BY InitIInv, NextIInv, PTL DEF Spec

\* What the client holds may cease to mean anything, but never comes to mean another
\* object: no sequence of registrations, removals and clearings hands an id out twice.
THEOREM IdsNeverReused == Spec => []IdsAreForever
  <1>1. IInv => IdsAreForever
    BY DEF IInv
  <1>2. QED
    BY <1>1, Invariance, PTL

\* getInstanceId gives the oldest id an instance still has and none to an instance that
\* has none, whatever was registered twice, removed under one id or dropped with its type.
THEOREM OldestIdKept == Spec => []CanonicalIds
  <1>1. IInv => CanonicalIds
    BY DEF IInv, CanonicalIds, Canonical
  <1>2. QED
    BY <1>1, Invariance, PTL

\* From every table that is reached conversions may start, if they have to do with
\* objects that clearInstance has not dropped.
LEMMA TableUsable == IInv => Usable(table, Instances \ cleared)
  BY DEF IInv, Usable

\* Whatever has been registered and removed, the arguments of a call, of any depth and
\* width, reach the engine as what they are, or the call fails because of a proxy whose
\* object is gone.
THEOREM ArgumentsAlwaysArrive == Spec => []ArgumentsArrive
  <1>1. IInv => ArgumentsArrive
    BY ConversionsAssumption, TreesArrive DEF IInv, ArgumentsArrive
  <1>2. QED
    BY <1>1, Invariance, PTL

\* Results, of any depth and width, reach the application as what they are: every
\* instance as a proxy whose id the table has for it by then, every function that is the
\* result, or in its fields, as one that calls it (those in arrays are not in ResultTrees).
THEOREM ResultsAlwaysArrive == Spec => []ResultsArrive
  <1>1. IInv => ResultsArrive
    <2>1. SUFFICES ASSUME IInv, NEW v \in Results PROVE ResultArrives(table, v)
      BY DEF ResultsArrive
    <2>2. Usable(table, Instances \ cleared)
      BY <2>1, TableUsable
    <2>3. v \in ResultTrees[MaxDepth] \cup {Undefined}
      BY ConversionsAssumption
    <2>4. QED
      BY <2>2, <2>3, ResultsAllArrive
  <1>2. QED
    BY <1>1, Invariance, PTL

\* So do the arguments of callbacks, of any depth and width, whether their instances have
\* ids or get them on the way, unless clearInstance has dropped one of them.
THEOREM EmissionsAlwaysArrive == Spec => []EmissionsArrive
  <1>1. IInv => EmissionsArrive
    <2>1. SUFFICES ASSUME IInv, NEW v \in Emissions, Mentioned(v) \cap cleared = {}
                   PROVE  EmissionArrives(table, v)
      BY DEF EmissionsArrive
    <2>2. Usable(table, Instances \ cleared)
      BY <2>1, TableUsable
    <2>3. v \in EmissionTrees[MaxDepth]
      BY ConversionsAssumption
    <2>4. Mentioned(v) \cap Instances \subseteq Instances \ cleared
      BY <2>1
    <2>5. QED
      BY <2>2, <2>3, <2>4, EmissionsAllArrive
  <1>2. QED
    BY <1>1, Invariance, PTL
=============================================================================
