---------------------------- MODULE KvDictProofs ----------------------------
(***************************************************************************)
(* Theorems about KvDict, for every capacity, hash function and client: up *)
(* to the call that makes it grow, the table is a map; however often it    *)
(* grows, an answer that is neither NULL nor a value of the key's own was  *)
(* read from beyond a block.                                               *)
(***************************************************************************)
EXTENDS KvDict, FiniteSetTheorems, WellFoundedInduction, TLAPS

Used == {i \in Cells(INIT_CAPACITY) : entries[i].key # NULL}

\* The types of a table that has not grown.
SmallTable == /\ capacity = INIT_CAPACITY /\ allocated = INIT_CAPACITY
              /\ size \in 0 .. INIT_CAPACITY
              /\ entries \in [Cells(INIT_CAPACITY) -> Entry \cup {Empty}]
              /\ state \in {"ready", "spinning"}

\* Each cell in use was paid for by a set.
SetsPayForCells == Cardinality(Used) <= size

\* EveryKeyIsFound needs the types; RoomForOneMore is a count of cells, so it
\* needs SetsPayForCells.
IInv == /\ capacity \in Nat /\ capacity >= INIT_CAPACITY
        /\ ~Grown => SmallTable /\ SetsPayForCells
        /\ EveryKeyIsFound

-----------------------------------------------------------------------------
\* Induction

Below == {p \in Nat \X Nat : p[1] < p[2]}

LEMMA BelowIsWellFounded == IsWellFoundedOn(Below, Nat)
  BY NatLessThanWellFounded, Zenon DEF OpToRel, Below

\* Induction for sets: the first number not in S would be 0 or one more than a
\* number in S.
LEMMA NatInductionOnSets ==
  ASSUME NEW S, 0 \in S, \A n \in Nat : n \in S => n + 1 \in S
  PROVE  \A n \in Nat : n \in S
<1> DEFINE Missing == {n \in Nat : n \notin S}
<1> SUFFICES ASSUME Missing # {} PROVE FALSE
  OBVIOUS
<1>1. PICK first \in Missing : \A n \in Missing : <<n, first>> \notin Below
  BY BelowIsWellFounded, WFMin
<1>2. first # 0 /\ first - 1 \in Nat
  OBVIOUS
<1>3. first - 1 \in S
  <2>1. <<first - 1, first>> \in Below
    BY <1>2 DEF Below
  <2>2. first - 1 \notin Missing
    BY <1>1, <2>1
  <2>3. QED
    BY <1>2, <2>2
<1>4. (first - 1) + 1 \in S /\ (first - 1) + 1 = first
  BY <1>2, <1>3
<1>5. QED
  BY <1>4

\* The recursion over the cells of the old table defines a function.
LEMMA AfterIsDefined ==
  ASSUME capacity \in Nat, NEW new
  PROVE  After(new) = [n \in 0 .. capacity |->
                         IF n = 0 THEN new ELSE Rehash(After(new)[n - 1], entries[n - 1])]
<1> DEFINE Table(f, n) == IF n = 0 THEN new ELSE Rehash(f[n - 1], entries[n - 1])
           Defined == {k \in Nat : \E f : f = [n \in 0 .. k |-> Table(f, n)]}
<1>1. 0 \in Defined
  <2>1. [n \in 0 .. 0 |-> new] = [n \in 0 .. 0 |-> Table([m \in 0 .. 0 |-> new], n)]
    OBVIOUS
  <2>2. QED
    BY <2>1
<1>2. ASSUME NEW k \in Nat, k \in Defined PROVE k + 1 \in Defined
  <2>1. PICK f : f = [n \in 0 .. k |-> Table(f, n)]
    BY <1>2
  <2> DEFINE g == [n \in 0 .. k + 1 |->
                     IF n <= k THEN f[n] ELSE Rehash(f[k], entries[k])]
  <2>2. ASSUME NEW n \in 0 .. k + 1 PROVE g[n] = Table(g, n)
    <3>1. CASE n = 0
      BY <2>1, <3>1
    <3>2. CASE n \in 1 .. k
      <4>1. g[n] = f[n] /\ g[n - 1] = f[n - 1]
        BY <3>2
      <4>2. f[n] = Table(f, n)
        BY <2>1, <3>2
      <4>3. QED
        BY <3>2, <4>1, <4>2
    <3>3. CASE n = k + 1
      <4>1. g[n] = Rehash(f[k], entries[k]) /\ g[k] = f[k] /\ n - 1 = k /\ n # 0
        BY <3>3
      <4>2. QED
        BY <4>1
    <3>4. QED
      BY <3>1, <3>2, <3>3
  <2>3. g = [n \in 0 .. k + 1 |-> Table(g, n)]
    BY <2>2
  <2>4. \E h : h = [n \in 0 .. k + 1 |-> Table(h, n)]
    <3> HIDE DEF g
    <3>1. QED
      BY <2>3
  <2>5. QED
    BY <2>4
<1>3. capacity \in Defined
  <2> HIDE DEF Defined
  <2>1. \A n \in Nat : n \in Defined
    BY <1>1, <1>2, NatInductionOnSets
  <2>2. QED
    BY <2>1
<1>4. QED
  BY <1>3 DEF After

-----------------------------------------------------------------------------
\* The table at any size

\* What a cell may hold: nothing, or a label with a value of its own; once the
\* table has grown, junk too.
OwnCell == {e \in Entry : e.value \in ValuesFor[e.key]} \cup {Empty}
Cell == OwnCell \cup Junk

\* Growing needs this much of the old table, and keeps it in the new one.
CellsAreSound == /\ capacity \in Nat \ {0} /\ allocated \in 1 .. capacity
                 /\ entries \in [Cells(capacity) -> Cell]

\* A table that has not grown lies inside its block.
SoundUntilItGrows == /\ capacity >= INIT_CAPACITY
                     /\ ~Grown => /\ allocated = capacity
                                  /\ entries \in [Cells(capacity) -> OwnCell]

AnswerIsSound == answer \in {NULL} \cup [key : Labels, value : Addresses \cup {NULL, Wild}]

SoundInv == /\ CellsAreSound /\ SoundUntilItGrows
            /\ size \in 0 .. capacity
            /\ AnswerIsSound /\ AnswersBelongToTheKey
            /\ state \in {"ready", "spinning", "crashed"}

LEMMA HomeOfAnyTable ==
  ASSUME NEW key \in Labels, NEW cap \in Nat \ {0}
  PROVE  Home(HashWithNul(key), cap) \in Cells(cap)
<1>1. Fnv1a[key] \in Nat /\ FNV1A_PRIME \in Nat
  BY DictAssumption
<1>2. Fnv1a[key] * FNV1A_PRIME \in Nat
  BY <1>1
<1>3. QED
  BY <1>2 DEF Home, HashWithNul, Cells

LEMMA ProbeOfAnyTable ==
  ASSUME NEW cap \in Nat \ {0}, NEW home \in Cells(cap), NEW n \in Cells(cap)
  PROVE  Probe(home, n, cap) \in Cells(cap)
  BY DEF Probe, Cells

\* Putting an entry into the new table leaves its other cells alone.
LEMMA RehashIsSound ==
  ASSUME capacity \in Nat, NEW new \in [Cells(2 * capacity) -> Cell],
         NEW entry \in Cell, entry.key # Stray
  PROVE  Rehash(new, entry) \in [Cells(2 * capacity) -> Cell]
<1>1. CASE entry = Empty
  BY <1>1 DEF Rehash, Empty
<1>2. CASE entry # Empty
  <2>1. entry = [key |-> entry.key, value |-> entry.value]
    BY <1>2 DEF Cell, OwnCell, Entry, Junk, Empty
  <2>2. entry.key # NULL
    BY <1>2, DictAssumption DEF Cell, OwnCell, Entry, Junk
  <2>3. Rehash(new, entry) =
          RawSet(new, 2 * capacity, Hash(entry.key), entry.key, entry.value)
    BY <2>2 DEF Rehash
  <2>4. QED
    BY <2>1, <2>3 DEF RawSet
<1>3. QED
  BY <1>1, <1>2

\* What expand puts into the new table is sound, cell after cell.
LEMMA MigratedIsSound ==
  ASSUME CellsAreSound, \A i \in Cells(capacity) : entries[i].key # Stray,
         NEW new \in [Cells(2 * capacity) -> Cell]
  PROVE  Migrated(new) \in [Cells(2 * capacity) -> Cell]
<1> DEFINE Sound == {n \in Nat : n <= capacity =>
                        After(new)[n] \in [Cells(2 * capacity) -> Cell]}
<1>1. /\ capacity \in Nat
      /\ \A n \in 0 .. capacity :
           After(new)[n] = IF n = 0 THEN new
                           ELSE Rehash(After(new)[n - 1], entries[n - 1])
  BY AfterIsDefined DEF CellsAreSound
<1>2. 0 \in Sound
  BY <1>1
<1>3. ASSUME NEW n \in Nat, n \in Sound PROVE n + 1 \in Sound
  <2> SUFFICES ASSUME n + 1 <= capacity
               PROVE  After(new)[n + 1] \in [Cells(2 * capacity) -> Cell]
    OBVIOUS
  <2>1. After(new)[n + 1] = Rehash(After(new)[n], entries[n])
    BY <1>1
  <2>2. After(new)[n] \in [Cells(2 * capacity) -> Cell]
    BY <1>1, <1>3
  <2>3. n \in Cells(capacity)
    BY <1>1 DEF Cells
  <2>4. entries[n] \in Cell /\ entries[n].key # Stray
    BY <2>3 DEF CellsAreSound
  <2>5. QED
    BY <1>1, <2>1, <2>2, <2>4, RehashIsSound
<1>4. capacity \in Sound
  <2> HIDE DEF Sound
  <2>1. QED
    BY <1>1, <1>2, <1>3, NatInductionOnSets
<1>5. QED
  BY <1>1, <1>4 DEF Migrated

\* raw_set: whichever cell the probe ends at, it gets the key's own value.
LEMMA PutIsSound ==
  ASSUME NEW cap \in Nat \ {0}, NEW block \in 1 .. cap,
         NEW table \in [Cells(cap) -> Cell],
         NEW key \in Labels, NEW value \in ValuesFor[key], NEW risky \in BOOLEAN,
         SoundInv, size < cap, cap >= capacity,
         cap = INIT_CAPACITY => block = cap /\ table \in [Cells(cap) -> OwnCell],
         Put(table, cap, block, key, value, risky)
  PROVE  SoundInv'
<1>1. capacity' = cap /\ allocated' = block /\ answer' = answer
  BY DEF Put
<1>2. [key |-> key, value |-> value] \in OwnCell
  BY ClientAssumption DEF OwnCell, Entry
<1>3. /\ entries' \in [Cells(cap) -> Cell]
      /\ table \in [Cells(cap) -> OwnCell] => entries' \in [Cells(cap) -> OwnCell]
      /\ size' \in {size, size + 1}
      /\ state' \in {"ready", "spinning", "crashed"}
  <2>1. CASE \E n \in Cells(cap) :
          /\ entries' = [table EXCEPT ![Probe(Home(HashWithNul(key), cap), n, cap)] =
                           [key |-> key, value |-> value]]
          /\ size' = SizeAfterSet
          /\ state' \in Fates("ready", risky \/ LooksBeyond(block, cap, Home(HashWithNul(key), cap), n))
    BY <1>2, <2>1 DEF SizeAfterSet, Fates, Cell
  <2>2. CASE entries' = table /\ state' \in Fates("spinning", block < cap) /\ size' = size
    BY <2>2 DEF Fates
  <2>3. QED
    BY <2>1, <2>2 DEF Put
<1>4. size' \in 0 .. cap
  BY <1>3 DEF SoundInv, CellsAreSound
<1>5. INIT_CAPACITY \in Nat /\ capacity \in Nat /\ capacity >= INIT_CAPACITY
  BY DictAssumption DEF SoundInv, CellsAreSound, SoundUntilItGrows
<1>6. SoundUntilItGrows'
  BY <1>1, <1>3, <1>5 DEF SoundUntilItGrows, Grown
<1>7. AnswersBelongToTheKey'
  BY <1>1, <1>5 DEF SoundInv, AnswersBelongToTheKey, Grown
<1>8. QED
  BY <1>1, <1>3, <1>4, <1>6, <1>7 DEF SoundInv, CellsAreSound, AnswerIsSound

LEMMA SetIsSound ==
  ASSUME SoundInv, NEW key \in Labels, NEW value \in ValuesFor[key],
         set_item(key, value)
  PROVE  SoundInv'
<1>1. /\ capacity \in Nat \ {0} /\ allocated \in 1 .. capacity
      /\ entries \in [Cells(capacity) -> Cell] /\ size \in 0 .. capacity
      /\ capacity >= INIT_CAPACITY /\ INIT_CAPACITY \in Nat \ {0}
  BY DictAssumption DEF SoundInv, CellsAreSound, SoundUntilItGrows
<1>2. CASE SetInPlace(key, value)
  <2>1. size < capacity /\ capacity >= capacity
    BY <1>1, <1>2 DEF SetInPlace, MustGrow
  <2>2. capacity = INIT_CAPACITY =>
          allocated = capacity /\ entries \in [Cells(capacity) -> OwnCell]
    BY <1>1 DEF SoundInv, SoundUntilItGrows, Grown
  <2>3. Put(entries, capacity, allocated, key, value, FALSE)
    BY <1>2 DEF SetInPlace
  <2>4. QED
    BY <1>1, <2>1, <2>2, <2>3, PutIsSound
<1>3. CASE SetGrowing(key, value)
  <2>1. PICK beyond \in [capacity .. 2 * capacity - 1 -> {Empty} \cup Junk] :
          LET new == Migrated([i \in Cells(2 * capacity) |->
                                 IF i < capacity THEN Empty ELSE beyond[i]])
          IN  Put(new, 2 * capacity, capacity, key, value,
                  \E i \in capacity .. 2 * capacity - 1 : new[i] # Empty)
    BY <1>3 DEF SetGrowing
  <2> DEFINE fresh == [i \in Cells(2 * capacity) |->
                         IF i < capacity THEN Empty ELSE beyond[i]]
             risky == \E i \in capacity .. 2 * capacity - 1 : Migrated(fresh)[i] # Empty
  <2>2. fresh \in [Cells(2 * capacity) -> Cell]
    BY <1>1 DEF Cells, Cell, OwnCell
  <2>3. Migrated(fresh) \in [Cells(2 * capacity) -> Cell]
    BY <1>3, <2>2, MigratedIsSound DEF SoundInv, SetGrowing
  <2>4. Put(Migrated(fresh), 2 * capacity, capacity, key, value, risky)
    BY <2>1
  <2>5. /\ 2 * capacity \in Nat \ {0} /\ capacity \in 1 .. 2 * capacity
        /\ size < 2 * capacity /\ risky \in BOOLEAN
        /\ 2 * capacity >= capacity /\ 2 * capacity # INIT_CAPACITY
    BY <1>1
  <2> HIDE DEF risky, fresh
  <2>6. QED
    BY <2>3, <2>4, <2>5, PutIsSound
<1>4. CASE SetCrashes
  BY <1>4 DEF SetCrashes, dict, SoundInv, CellsAreSound, SoundUntilItGrows, Grown,
              AnswerIsSound, AnswersBelongToTheKey
<1>5. QED
  BY <1>2, <1>3, <1>4 DEF set_item

\* get_item compares the keys: the cell it answers from is the key's own, free,
\* or, once the table has grown, junk.
LEMMA GetIsSound ==
  ASSUME SoundInv, NEW key \in Labels, get_item(key)
  PROVE  SoundInv'
<1>1. /\ capacity \in Nat \ {0} /\ allocated \in 1 .. capacity
      /\ entries \in [Cells(capacity) -> Cell] /\ size \in 0 .. capacity
  BY DEF SoundInv, CellsAreSound
<1>2. UNCHANGED dict
  BY DEF get_item
<1>3. CASE Spins(key)
  BY <1>2, <1>3
  DEF Spins, Fates, dict, SoundInv, CellsAreSound, SoundUntilItGrows, Grown,
      AnswerIsSound, AnswersBelongToTheKey
<1>4. CASE Answers(key)
  <2> DEFINE home == Home(HashWithNul(key), capacity)
  <2>1. PICK n \in Cells(capacity) :
          /\ EndsAfter(entries, capacity, home, key, n)
          /\ \E value \in {entries[Probe(home, n, capacity)].value} \cup
                 (IF Probe(home, n, capacity) < allocated
                       \/ entries[Probe(home, n, capacity)] = Empty THEN {} ELSE {Wild}) :
               answer' = [key |-> key, value |-> value]
          /\ state' \in Fates("ready", LooksBeyond(allocated, capacity, home, n))
    BY <1>4 DEF Answers
  <2> DEFINE cell == entries[Probe(home, n, capacity)]
  <2>2. /\ Probe(home, n, capacity) \in Cells(capacity)
        /\ cell \in Cell /\ cell.key \in {NULL, key}
        /\ ~Grown => cell \in OwnCell /\ Probe(home, n, capacity) < allocated
    <3>1. Probe(home, n, capacity) \in Cells(capacity)
      BY <1>1, HomeOfAnyTable, ProbeOfAnyTable
    <3>2. cell \in Cell /\ cell.key \in {NULL, key}
      BY <1>1, <2>1, <3>1 DEF EndsAfter, Stops
    <3>3. ~Grown => cell \in OwnCell
      BY <3>1 DEF SoundInv, SoundUntilItGrows
    <3>4. ~Grown => Probe(home, n, capacity) < allocated
      BY <1>1, <3>1 DEF SoundInv, SoundUntilItGrows, Cells
    <3>5. QED
      BY <3>1, <3>2, <3>3, <3>4
  <2>3. cell \in OwnCell => cell.value \in ValuesFor[key] \cup {NULL}
    <3>1. CASE cell = Empty
      BY <3>1 DEF Empty
    <3>2. CASE cell \in Entry /\ cell.value \in ValuesFor[cell.key]
      BY <2>2, <3>2, DictAssumption DEF Entry
    <3>3. QED
      BY <3>1, <3>2 DEF OwnCell
  <2>4. cell \in Junk => cell.value = Wild
    BY DEF Junk
  <2>5. PICK value \in ValuesFor[key] \cup {NULL} \cup (IF Grown THEN {Wild} ELSE {}) :
          answer' = [key |-> key, value |-> value]
    BY <2>1, <2>2, <2>3, <2>4 DEF Cell
  <2>6. AnswerIsSound' /\ AnswersBelongToTheKey'
    <3>1. value \in Addresses \cup {NULL, Wild}
      BY <2>5, ClientAssumption
    <3>2. Grown' = Grown
      BY <1>2 DEF dict, Grown
    <3>3. answer'.key = key /\ answer'.value = value
      BY <2>5
    <3>4. QED
      BY <2>5, <3>1, <3>2, <3>3 DEF AnswerIsSound, AnswersBelongToTheKey
  <2>7. state' \in {"ready", "crashed"}
    BY <2>1 DEF Fates
  <2>8. QED
    BY <1>2, <2>6, <2>7 DEF dict, SoundInv, CellsAreSound, SoundUntilItGrows, Grown
<1>5. QED
  BY <1>3, <1>4 DEF get_item

LEMMA InitIsSound == Init => SoundInv
  BY DictAssumption
  DEF Init, SoundInv, CellsAreSound, SoundUntilItGrows, AnswerIsSound,
      AnswersBelongToTheKey, Cell, OwnCell, Cells

LEMMA NextIsSound == SoundInv /\ [Next]_vars => SoundInv'
<1> SUFFICES ASSUME SoundInv, [Next]_vars PROVE SoundInv'
  OBVIOUS
<1>1. CASE Set
  BY <1>1, SetIsSound DEF Set
<1>2. CASE Get
  BY <1>2, GetIsSound DEF Get
<1>3. CASE Ended \/ UNCHANGED vars
  BY <1>3 DEF Ended, vars, dict, SoundInv, CellsAreSound, SoundUntilItGrows, Grown,
              AnswerIsSound, AnswersBelongToTheKey
<1>4. QED
  BY <1>1, <1>2, <1>3 DEF Next

\* The types, of a table that has grown too: no count of sets passes the
\* capacity, though expand() loses entries.
THEOREM TypesOK == Spec => []TypeOK
<1>1. SoundInv => TypeOK
  BY DEF SoundInv, CellsAreSound, Cell, OwnCell, AnswerIsSound, TypeOK
<1>2. QED
  BY <1>1, InitIsSound, NextIsSound, PTL DEF Spec

\* An answer of get_item is an address of the label's own or NULL; the one other
\* thing it can be, once the table has grown, is what was read from beyond a block.
THEOREM AnswersBelong == Spec => []AnswersBelongToTheKey
<1>1. SoundInv => AnswersBelongToTheKey
  BY DEF SoundInv
<1>2. QED
  BY <1>1, InitIsSound, NextIsSound, PTL DEF Spec

-----------------------------------------------------------------------------
\* Homes and probes

LEMMA HomeIsACell ==
  ASSUME NEW key \in Labels
  PROVE  Home(HashWithNul(key), INIT_CAPACITY) \in Cells(INIT_CAPACITY)
<1>1. Fnv1a[key] \in Nat /\ FNV1A_PRIME \in Nat
  BY DictAssumption
<1>2. Fnv1a[key] * FNV1A_PRIME \in Nat
  BY <1>1
<1>3. QED
  BY <1>2, DictAssumption DEF Home, HashWithNul, Cells

LEMMA ProbeIsACell ==
  ASSUME NEW home \in Cells(INIT_CAPACITY), NEW n \in Cells(INIT_CAPACITY)
  PROVE  Probe(home, n, INIT_CAPACITY) \in Cells(INIT_CAPACITY)
  BY DictAssumption DEF Probe, Cells

\* Within one round the probe meets no cell twice.
LEMMA ProbeIsInjective ==
  ASSUME NEW home \in Cells(INIT_CAPACITY),
         NEW n \in Cells(INIT_CAPACITY), NEW m \in Cells(INIT_CAPACITY),
         Probe(home, n, INIT_CAPACITY) = Probe(home, m, INIT_CAPACITY)
  PROVE  n = m
  BY DictAssumption DEF Probe, Cells

\* A block of INIT_CAPACITY cells is never left by a probe.
LEMMA NeverLooksBeyond ==
  ASSUME NEW home \in Cells(INIT_CAPACITY), NEW n \in Cells(INIT_CAPACITY)
  PROVE  ~LooksBeyond(INIT_CAPACITY, INIT_CAPACITY, home, n)
<1> SUFFICES ASSUME NEW m \in 0 .. n, Probe(home, m, INIT_CAPACITY) >= INIT_CAPACITY
             PROVE  FALSE
  BY DEF LooksBeyond
<1>1. m \in Cells(INIT_CAPACITY)
  BY DictAssumption DEF Cells
<1>2. QED
  BY <1>1, ProbeIsACell, DictAssumption DEF Cells

LEMMA CellsAreFinite ==
  IsFiniteSet(Cells(INIT_CAPACITY)) /\ Cardinality(Cells(INIT_CAPACITY)) = INIT_CAPACITY
  BY FS_Interval, DictAssumption DEF Cells

LEMMA UsedIsFinite == IsFiniteSet(Used) /\ Cardinality(Used) \in Nat
  BY CellsAreFinite, FS_Subset, FS_CardinalityType DEF Used

-----------------------------------------------------------------------------
\* The invariant

LEMMA InitIInv == Init => IInv
<1> SUFFICES ASSUME Init PROVE IInv
  OBVIOUS
<1>1. capacity = INIT_CAPACITY /\ INIT_CAPACITY \in Nat
  BY DictAssumption DEF Init
<1>2. SmallTable
  BY <1>1 DEF Init, SmallTable, Cells
<1>3. Used = {} /\ EveryKeyIsFound
  BY <1>1 DEF Init, Used, EveryKeyIsFound, Empty
<1>4. SetsPayForCells
  BY <1>3, FS_EmptySet DEF SetsPayForCells, Init
<1>5. QED
  BY <1>1, <1>2, <1>3, <1>4 DEF IInv

\* Until the table grows, the loop of raw_set has a free cell to stop at.
LEMMA RoomLeft == IInv => RoomForOneMore
<1> SUFFICES ASSUME IInv, ~Grown, size < capacity
             PROVE  \E i \in Cells(capacity) : entries[i].key = NULL
  BY DEF RoomForOneMore
<1>1. capacity = INIT_CAPACITY /\ Cardinality(Used) <= size /\ size \in Nat
  BY DEF IInv, SmallTable, SetsPayForCells
<1>2. Used # Cells(INIT_CAPACITY)
  BY <1>1, CellsAreFinite, UsedIsFinite, DictAssumption
<1>3. QED
  BY <1>1, <1>2 DEF Used

\* What a set that does not grow the table does to its cells: it fills one that
\* was free or held the key, where the probe for the key ends.
LEMMA SetFillsACell ==
  ASSUME IInv, ~Grown, NEW key \in Labels, NEW value \in Addresses,
         SetInPlace(key, value)
  PROVE  /\ \E n \in Cells(INIT_CAPACITY), i \in Cells(INIT_CAPACITY) :
              /\ i = Probe(Home(HashWithNul(key), INIT_CAPACITY), n, INIT_CAPACITY)
              /\ entries[i].key \in {NULL, key}
              /\ \A m \in 0 .. n - 1 :
                   entries[Probe(Home(HashWithNul(key), INIT_CAPACITY), m,
                                 INIT_CAPACITY)].key \notin {NULL, key}
              /\ entries' = [entries EXCEPT ![i] = [key |-> key, value |-> value]]
         /\ state = "ready" /\ state' = "ready"
         /\ size' = size + 1 /\ size + 1 <= INIT_CAPACITY
         /\ capacity' = INIT_CAPACITY /\ allocated' = INIT_CAPACITY
         /\ UNCHANGED answer
<1> DEFINE home == Home(HashWithNul(key), INIT_CAPACITY)
<1>1. SmallTable /\ home \in Cells(INIT_CAPACITY)
  BY HomeIsACell DEF IInv
<1>2. Put(entries, INIT_CAPACITY, INIT_CAPACITY, key, value, FALSE)
  BY <1>1 DEF SetInPlace, SmallTable
<1>3. size < INIT_CAPACITY /\ ~Endless(entries, INIT_CAPACITY, key)
  <2>1. size < INIT_CAPACITY /\ capacity = INIT_CAPACITY
    BY <1>1, DictAssumption DEF SetInPlace, MustGrow, SmallTable
  <2>2. QED
    BY <2>1, RoomLeft DEF RoomForOneMore, Endless, Stops
<1>4. PICK n \in Cells(INIT_CAPACITY) :
        /\ EndsAfter(entries, INIT_CAPACITY, home, key, n)
        /\ size' = SizeAfterSet
        /\ entries' = [entries EXCEPT ![Probe(home, n, INIT_CAPACITY)] =
                         [key |-> key, value |-> value]]
        /\ state' \in Fates("ready", FALSE \/ LooksBeyond(INIT_CAPACITY, INIT_CAPACITY, home, n))
  BY <1>2, <1>3 DEF Put
<1>5. Probe(home, n, INIT_CAPACITY) \in Cells(INIT_CAPACITY)
  BY <1>1, ProbeIsACell
<1>6. state' = "ready"
  BY <1>1, <1>4, NeverLooksBeyond DEF Fates
<1>7. size + 1 <= INIT_CAPACITY
  BY <1>1, <1>3, DictAssumption DEF SmallTable
<1>8. QED
  BY <1>2, <1>4, <1>5, <1>6, <1>7 DEF Put, EndsAfter, Stops, SizeAfterSet, SetInPlace

LEMMA SetInPlaceIInv ==
  ASSUME IInv, ~Grown, NEW key \in Labels, NEW value \in Addresses,
         SetInPlace(key, value)
  PROVE  IInv'
<1> DEFINE home == Home(HashWithNul(key), INIT_CAPACITY)
<1>1. SmallTable /\ SetsPayForCells /\ EveryKeyIsFound /\ capacity = INIT_CAPACITY
  BY DEF IInv, SmallTable
<1>2. PICK n \in Cells(INIT_CAPACITY), i \in Cells(INIT_CAPACITY) :
        /\ i = Probe(home, n, INIT_CAPACITY)
        /\ entries[i].key \in {NULL, key}
        /\ \A m \in 0 .. n - 1 :
             entries[Probe(home, m, INIT_CAPACITY)].key \notin {NULL, key}
        /\ entries' = [entries EXCEPT ![i] = [key |-> key, value |-> value]]
  BY SetFillsACell
<1>3. /\ state' = "ready" /\ size' = size + 1 /\ size + 1 <= INIT_CAPACITY
      /\ capacity' = INIT_CAPACITY /\ allocated' = INIT_CAPACITY
  BY SetFillsACell
<1>4. SmallTable'
  BY <1>1, <1>2, <1>3, DictAssumption DEF SmallTable, Entry
\* A key once in a cell stays in it.
<1>5. \A j \in Cells(INIT_CAPACITY) :
        /\ entries'[j].key = IF j = i THEN key ELSE entries[j].key
        /\ entries[j].key # NULL => entries'[j].key = entries[j].key
  BY <1>1, <1>2 DEF SmallTable
<1>6. SetsPayForCells'
  <2>1. Used' \subseteq Used \cup {i}
    BY <1>5 DEF Used
  <2>2. /\ IsFiniteSet(Used \cup {i})
        /\ Cardinality(Used \cup {i}) <= Cardinality(Used) + 1
        /\ Cardinality(Used) \in Nat /\ Cardinality(Used \cup {i}) \in Nat
    <3>1. IsFiniteSet(Used) /\ Cardinality(Used) \in Nat
      BY UsedIsFinite
    <3>2. /\ IsFiniteSet(Used \cup {i})
          /\ Cardinality(Used \cup {i}) =
               IF i \in Used THEN Cardinality(Used) ELSE Cardinality(Used) + 1
      BY <3>1, FS_AddElement
    <3>3. QED
      BY <3>1, <3>2
  <2>3. Cardinality(Used') <= Cardinality(Used \cup {i}) /\ Cardinality(Used') \in Nat
    BY <2>1, <2>2, FS_Subset, FS_CardinalityType
  <2>4. QED
    BY <1>1, <1>3, <2>2, <2>3, DictAssumption DEF SetsPayForCells, SmallTable
<1>7. EveryKeyIsFound'
  <2> SUFFICES ASSUME NEW j \in Cells(INIT_CAPACITY), entries'[j].key # NULL
               PROVE  IsFoundAt(entries[j].key, j)'
    BY <1>3 DEF EveryKeyIsFound
  <2>1. CASE j = i
    <3>1. entries'[j].key = key
      BY <1>5, <2>1
    <3>2. \A m \in 0 .. n - 1 :
            entries'[Probe(home, m, INIT_CAPACITY)].key \notin {NULL, key}
      <4> TAKE m \in 0 .. n - 1
      <4>1. m \in Cells(INIT_CAPACITY)
        BY DictAssumption DEF Cells
      <4>2. Probe(home, m, INIT_CAPACITY) \in Cells(INIT_CAPACITY)
        BY <4>1, HomeIsACell, ProbeIsACell
      <4>3. QED
        BY <1>2, <1>5, <4>2
    <3>3. QED
      BY <1>2, <1>3, <2>1, <3>1, <3>2 DEF IsFoundAt
  <2>2. CASE j # i
    <3> DEFINE other == entries[j].key
               from == Home(HashWithNul(other), INIT_CAPACITY)
    <3>1. entries'[j].key = other /\ other # NULL
      BY <1>5, <2>2
    <3>2. other \in Labels
      BY <1>1, <3>1 DEF SmallTable, Entry, Empty
    <3>3. PICK steps \in Cells(INIT_CAPACITY) :
            /\ j = Probe(from, steps, INIT_CAPACITY)
            /\ \A m \in 0 .. steps - 1 :
                 entries[Probe(from, m, INIT_CAPACITY)].key \notin {NULL, other}
      BY <1>1, <3>1 DEF EveryKeyIsFound, IsFoundAt, Grown
    <3>4. \A m \in 0 .. steps - 1 :
            entries'[Probe(from, m, INIT_CAPACITY)].key \notin {NULL, other}
      <4> TAKE m \in 0 .. steps - 1
      <4>1. m \in Cells(INIT_CAPACITY)
        BY DictAssumption DEF Cells
      <4>2. Probe(from, m, INIT_CAPACITY) \in Cells(INIT_CAPACITY)
        BY <3>2, <4>1, HomeIsACell, ProbeIsACell
      <4>3. QED
        BY <1>5, <3>3, <4>2
    <3>5. QED
      BY <1>3, <3>1, <3>3, <3>4 DEF IsFoundAt
  <2>3. QED
    BY <2>1, <2>2
<1>8. QED
  BY <1>3, <1>4, <1>6, <1>7, DictAssumption DEF IInv

\* Growing leaves the part of the state space the invariant speaks about.
LEMMA GrowingIInv ==
  ASSUME IInv, NEW key \in Labels, NEW value \in Addresses, MustGrow,
         SetGrowing(key, value)
  PROVE  capacity' = 2 * capacity /\ IInv' /\ Grown'
<1>1. capacity' = 2 * capacity
  BY DEF SetGrowing, Put
<1>2. QED
  BY <1>1, DictAssumption DEF IInv, Grown, EveryKeyIsFound

\* Looking up changes no cell.
LEMMA GetIInv ==
  ASSUME IInv, NEW key \in Labels, get_item(key)
  PROVE  IInv'
<1>1. capacity' = capacity /\ allocated' = allocated /\ entries' = entries /\ size' = size
  BY DEF get_item, dict
<1>2. ~Grown => state' \in {"ready", "spinning"}
  <2> SUFFICES ASSUME ~Grown PROVE state' \in {"ready", "spinning"}
    OBVIOUS
  <2>1. capacity = INIT_CAPACITY /\ allocated = INIT_CAPACITY
    BY DEF IInv, SmallTable
  <2>2. CASE Spins(key)
    BY <2>1, <2>2, DictAssumption DEF Spins, Fates
  <2>3. CASE Answers(key)
    <3>1. PICK n \in Cells(INIT_CAPACITY) :
            state' \in Fates("ready", LooksBeyond(INIT_CAPACITY, INIT_CAPACITY,
                                   Home(HashWithNul(key), INIT_CAPACITY), n))
      BY <2>1, <2>3 DEF Answers
    <3>2. QED
      BY <3>1, HomeIsACell, NeverLooksBeyond DEF Fates
  <2>4. QED
    BY <2>2, <2>3 DEF get_item
<1>3. QED
  BY <1>1, <1>2
  DEF IInv, Grown, SmallTable, SetsPayForCells, Used, EveryKeyIsFound, IsFoundAt

\* A table that has grown stays grown.
LEMMA GrownStays ==
  ASSUME IInv, Grown, [Next]_vars
  PROVE  IInv' /\ Grown'
<1>1. capacity' \in {capacity, 2 * capacity}
  BY DEF Next, Set, Get, Ended, set_item, SetInPlace, SetGrowing, SetCrashes, Put,
         get_item, dict, vars
<1>2. QED
  BY <1>1, DictAssumption DEF IInv, Grown, EveryKeyIsFound

LEMMA SetIInv ==
  ASSUME IInv, NEW key \in Labels, NEW value \in Addresses, set_item(key, value)
  PROVE  IInv'
<1>1. capacity' \in {capacity, 2 * capacity}
  BY DEF set_item, SetInPlace, SetGrowing, SetCrashes, Put, dict
<1>2. CASE Grown
  BY <1>1, <1>2, DictAssumption DEF IInv, Grown, EveryKeyIsFound
<1>3. CASE ~Grown
  <2>1. CASE SetInPlace(key, value)
    BY <1>3, <2>1, SetInPlaceIInv
  <2>2. CASE SetGrowing(key, value)
    BY <2>2, GrowingIInv DEF SetGrowing
  <2>3. CASE SetCrashes
    BY <1>3, <2>3, DictAssumption DEF SetCrashes, IInv, SmallTable, Entry, Empty
  <2>4. QED
    BY <2>1, <2>2, <2>3 DEF set_item
<1>4. QED
  BY <1>2, <1>3

LEMMA NextIInv == IInv /\ [Next]_vars => IInv'
<1> SUFFICES ASSUME IInv, [Next]_vars PROVE IInv'
  OBVIOUS
<1>1. CASE Set
  BY <1>1, ClientAssumption, SetIInv DEF Set
<1>2. CASE Get
  BY <1>2, GetIInv DEF Get
<1>3. CASE Ended \/ UNCHANGED vars
  BY <1>3 DEF Ended, vars, dict, IInv, Grown, SmallTable, SetsPayForCells, Used,
              EveryKeyIsFound, IsFoundAt
<1>4. QED
  BY <1>1, <1>2, <1>3 DEF Next

-----------------------------------------------------------------------------
\* The invariants of the specification

\* Until the table grows, get_item finds every key.
THEOREM EveryKeyFound == Spec => []EveryKeyIsFound
<1>1. Spec => []IInv
  BY InitIInv, NextIInv, PTL DEF Spec
<1>2. IInv => EveryKeyIsFound
  BY DEF IInv
<1>3. QED
  BY <1>1, <1>2, PTL

\* Until the table grows, the loop of raw_set has a free cell to stop at.
THEOREM AlwaysRoom == Spec => []RoomForOneMore
<1>1. Spec => []IInv
  BY InitIInv, NextIInv, PTL DEF Spec
<1>2. QED
  BY <1>1, RoomLeft, PTL

-----------------------------------------------------------------------------
\* The table implements LabelMap

\* Two cells never hold one key.
LEMMA KeysAreUnique ==
  ASSUME IInv, ~Grown,
         NEW i \in Cells(INIT_CAPACITY), NEW j \in Cells(INIT_CAPACITY),
         entries[i].key # NULL, entries[j].key = entries[i].key
  PROVE  i = j
<1> DEFINE key == entries[i].key
           home == Home(HashWithNul(key), INIT_CAPACITY)
<1>1. capacity = INIT_CAPACITY /\ SmallTable
  BY DEF IInv, SmallTable
<1>2. IsFoundAt(key, i) /\ IsFoundAt(key, j)
  BY <1>1 DEF IInv, EveryKeyIsFound
<1>3. PICK n \in Cells(INIT_CAPACITY) :
        /\ i = Probe(home, n, INIT_CAPACITY)
        /\ \A m \in 0 .. n - 1 :
             entries[Probe(home, m, INIT_CAPACITY)].key \notin {NULL, key}
  BY <1>1, <1>2 DEF IsFoundAt
<1>4. PICK o \in Cells(INIT_CAPACITY) :
        /\ j = Probe(home, o, INIT_CAPACITY)
        /\ \A m \in 0 .. o - 1 :
             entries[Probe(home, m, INIT_CAPACITY)].key \notin {NULL, key}
  BY <1>1, <1>2 DEF IsFoundAt
<1>5. ~(n < o) /\ ~(o < n)
  BY <1>3, <1>4, DictAssumption DEF Cells
<1>6. n = o
  BY <1>5, DictAssumption DEF Cells
<1>7. QED
  BY <1>3, <1>4, <1>6

\* So what is stored for a key is what its one cell says.
LEMMA StoredIsTheCell ==
  ASSUME IInv, ~Grown, NEW i \in Cells(INIT_CAPACITY), entries[i].key # NULL
  PROVE  Stored(entries[i].key) = entries[i].value
<1>1. capacity = INIT_CAPACITY
  BY DEF IInv, SmallTable
<1>2. Holding(entries[i].key) = {i}
  BY <1>1, KeysAreUnique DEF Holding
<1>3. QED
  BY <1>2 DEF Stored

\* A key is stored if and only if a cell holds it.
LEMMA StoredIffHeld ==
  ASSUME IInv, ~Grown, NEW key \in Labels
  PROVE  /\ Stored(key) \in Addresses \cup {NULL}
         /\ Stored(key) # NULL <=> \E i \in Cells(INIT_CAPACITY) : entries[i].key = key
<1>1. capacity = INIT_CAPACITY /\ SmallTable
  BY DEF IInv, SmallTable
<1>2. CASE Holding(key) = {}
  BY <1>1, <1>2 DEF Holding, Stored
<1>3. CASE Holding(key) # {}
  <2>1. PICK i \in Cells(INIT_CAPACITY) : entries[i].key = key
    BY <1>1, <1>3 DEF Holding
  <2>2. key # NULL
    BY DictAssumption
  <2>3. Stored(key) = entries[i].value /\ entries[i] \in Entry
    BY <1>1, <2>1, <2>2, StoredIsTheCell DEF SmallTable, Empty
  <2>4. QED
    BY <2>1, <2>3, DictAssumption DEF Entry
<1>4. QED
  BY <1>2, <1>3

\* The instance of LabelMap counts as this module does.
LEMMA SameCardinality == \A S : Map!Cardinality(S) = Cardinality(S)
  BY DEF Map!Cardinality, Cardinality

\* The map holds as many labels as the table has cells in use.
LEMMA AsManyLabelsAsCells ==
  ASSUME IInv, ~Grown
  PROVE  Cardinality(Map!Held) = Cardinality(Used)
<1> DEFINE f == [i \in Used |-> entries[i].key]
<1>1. SmallTable
  BY DEF IInv
<1>2. \A i \in Used : f[i] \in Map!Held
  <2> TAKE i \in Used
  <2>1. i \in Cells(INIT_CAPACITY) /\ entries[i] \in Entry /\ f[i] = entries[i].key
    BY <1>1 DEF Used, SmallTable, Empty
  <2>2. f[i] \in Labels
    BY <2>1 DEF Entry
  <2>3. Stored(f[i]) # NULL
    BY <2>1, <2>2, StoredIffHeld
  <2>4. QED
    BY <2>2, <2>3 DEF Map!Held
<1>3. \A i, j \in Used : f[i] = f[j] => i = j
  BY KeysAreUnique DEF Used
<1>4. \A key \in Map!Held : \E i \in Used : f[i] = key
  <2> TAKE key \in Map!Held
  <2>1. key \in Labels /\ Stored(key) # NULL
    BY DEF Map!Held
  <2>2. PICK i \in Cells(INIT_CAPACITY) : entries[i].key = key
    BY <2>1, StoredIffHeld
  <2>3. QED
    BY <2>1, <2>2, DictAssumption DEF Used
<1>5. f \in Bijection(Used, Map!Held)
  <2>1. f \in [Used -> Map!Held]
    BY <1>2
  <2>2. f \in Injection(Used, Map!Held)
    BY <1>3, <2>1 DEF Injection, IsInjective
  <2>3. f \in Surjection(Used, Map!Held)
    BY <1>4, <2>1 DEF Surjection
  <2>4. QED
    BY <2>2, <2>3 DEF Bijection
<1>6. ExistsBijection(Used, Map!Held)
  BY <1>5 DEF ExistsBijection
<1>7. QED
  BY <1>6, UsedIsFinite, FS_Bijection

\* Where the probe for a key ends, the key is, if it is anywhere.
LEMMA ProbeEndsAtTheKey ==
  ASSUME IInv, ~Grown, NEW key \in Labels,
         NEW n \in Cells(INIT_CAPACITY),
         EndsAfter(entries, INIT_CAPACITY, Home(HashWithNul(key), INIT_CAPACITY), key, n),
         NEW j \in Cells(INIT_CAPACITY), entries[j].key = key
  PROVE  j = Probe(Home(HashWithNul(key), INIT_CAPACITY), n, INIT_CAPACITY)
<1> DEFINE home == Home(HashWithNul(key), INIT_CAPACITY)
<1>1. capacity = INIT_CAPACITY /\ key # NULL
  BY DictAssumption DEF IInv, SmallTable
<1>2. IsFoundAt(key, j)
  BY <1>1 DEF IInv, EveryKeyIsFound
<1>3. PICK o \in Cells(INIT_CAPACITY) :
        /\ j = Probe(home, o, INIT_CAPACITY)
        /\ \A m \in 0 .. o - 1 :
             entries[Probe(home, m, INIT_CAPACITY)].key \notin {NULL, key}
  BY <1>1, <1>2 DEF IsFoundAt
<1>4. ~(n < o) /\ ~(o < n)
  BY <1>3, DictAssumption DEF Cells, EndsAfter, Stops
<1>5. n = o
  BY <1>4, DictAssumption DEF Cells
<1>6. QED
  BY <1>3, <1>5

\* A set that does not grow the table changes what is stored for one key.
LEMMA SetStores ==
  ASSUME IInv, ~Grown, NEW key \in Labels, NEW value \in Addresses,
         SetInPlace(key, value)
  PROVE  \A other \in Labels :
           Stored(other)' = IF other = key THEN value ELSE Stored(other)
<1>1. PICK i \in Cells(INIT_CAPACITY) :
        /\ entries[i].key \in {NULL, key}
        /\ entries' = [entries EXCEPT ![i] = [key |-> key, value |-> value]]
        /\ \A j \in Cells(INIT_CAPACITY) : entries[j].key = key => j = i
  <2>1. PICK n \in Cells(INIT_CAPACITY), i \in Cells(INIT_CAPACITY) :
          /\ i = Probe(Home(HashWithNul(key), INIT_CAPACITY), n, INIT_CAPACITY)
          /\ entries[i].key \in {NULL, key}
          /\ \A m \in 0 .. n - 1 :
               entries[Probe(Home(HashWithNul(key), INIT_CAPACITY), m,
                             INIT_CAPACITY)].key \notin {NULL, key}
          /\ entries' = [entries EXCEPT ![i] = [key |-> key, value |-> value]]
    BY SetFillsACell
  <2>2. EndsAfter(entries, INIT_CAPACITY, Home(HashWithNul(key), INIT_CAPACITY), key, n)
    BY <2>1 DEF EndsAfter, Stops
  <2>3. QED
    BY <2>1, <2>2, ProbeEndsAtTheKey
<1>2. /\ state = "ready" /\ state' = "ready" /\ UNCHANGED answer
      /\ size' = size + 1 /\ size + 1 <= INIT_CAPACITY
      /\ capacity' = INIT_CAPACITY
  BY SetFillsACell
<1>3. SmallTable /\ ~Grown'
  BY <1>2, DictAssumption DEF IInv, Grown
<1>4. capacity = INIT_CAPACITY
  BY <1>3 DEF SmallTable
<1>5. \A other \in Labels :
        Stored(other)' = IF other = key THEN value ELSE Stored(other)
  <2> TAKE other \in Labels
  <2>1. CASE other = key
    <3>1. entries'[i].key = key /\ entries'[i].value = value /\ key # NULL
      BY <1>1, <1>3, DictAssumption DEF SmallTable
    <3>2. Holding(key)' = {i}
      <4>1. \A j \in Cells(INIT_CAPACITY) : entries'[j].key = key <=> j = i
        BY <1>1, <1>3, <3>1 DEF SmallTable
      <4>2. QED
        BY <1>2, <4>1 DEF Holding
    <3>3. QED
      BY <2>1, <3>1, <3>2 DEF Stored
  <2>2. CASE other # key
    <3>1. other # NULL
      BY DictAssumption
    <3>2. \A j \in Cells(INIT_CAPACITY) :
            /\ entries'[j].key = other <=> entries[j].key = other
            /\ entries[j].key = other => entries'[j] = entries[j]
      BY <1>1, <1>3, <2>2, <3>1 DEF SmallTable
    <3>3. Holding(other)' = Holding(other)
      BY <1>2, <1>4, <3>2 DEF Holding
    <3>4. CASE Holding(other) = {}
      BY <2>2, <3>3, <3>4 DEF Stored
    <3>5. CASE Holding(other) # {}
      <4> DEFINE j == CHOOSE j \in Holding(other) : TRUE
      <4>1. j \in Holding(other)
        BY <3>5
      <4>2. entries'[j] = entries[j]
        BY <1>4, <3>2, <4>1 DEF Holding
      <4>3. QED
        BY <2>2, <3>3, <3>5, <4>2 DEF Stored
    <3>6. QED
      BY <3>4, <3>5
  <2>3. QED
    BY <2>1, <2>2
<1>6. QED
  BY <1>5

\* So it is a set of the map.
LEMMA SetMaps ==
  ASSUME IInv, ~Grown, NEW key \in Labels, NEW value \in Addresses,
         SetInPlace(key, value)
  PROVE  Map!Set
<1>1. /\ state = "ready" /\ state' = "ready" /\ UNCHANGED answer
      /\ size' = size + 1 /\ size + 1 <= INIT_CAPACITY
      /\ capacity' = INIT_CAPACITY
  BY SetFillsACell
<1>2. SmallTable /\ ~Grown'
  BY <1>1, DictAssumption DEF IInv, Grown
<1>3. \A other \in Labels :
        Stored(other)' = IF other = key THEN value ELSE Stored(other)
  BY SetStores
<1>4. [other \in Labels |-> IF Grown' THEN NULL ELSE Stored(other)'] =
        [[other \in Labels |-> IF Grown THEN NULL ELSE Stored(other)]
           EXCEPT ![key] = value]
  BY <1>2, <1>3
<1>5. size \in Nat /\ size < INIT_CAPACITY
  BY <1>1, <1>2, DictAssumption DEF SmallTable
<1>6. QED
  BY <1>1, <1>2, <1>4, <1>5 DEF Map!Set

LEMMA GrowingMaps ==
  ASSUME IInv, ~Grown, NEW key \in Labels, NEW value \in Addresses,
         SetGrowing(key, value)
  PROVE  Map!Outgrow
<1>1. Grown'
  BY GrowingIInv DEF SetGrowing
<1>2. state = "ready" /\ size = INIT_CAPACITY
  BY DEF SetGrowing, MustGrow, IInv, SmallTable
<1>3. QED
  BY <1>1, <1>2 DEF Map!Outgrow, Map!Nothing

\* A lookup answers as the map does, and spins only where the map does not
\* promise an answer.
LEMMA GetMaps ==
  ASSUME IInv, ~Grown, NEW key \in Labels, get_item(key)
  PROVE  Map!Get \/ Map!Spin
<1>1. /\ capacity = INIT_CAPACITY /\ allocated = INIT_CAPACITY /\ SmallTable
      /\ state = "ready"
  BY DEF IInv, SmallTable, get_item
<1>2. UNCHANGED dict /\ ~Grown'
  BY DEF get_item, dict, Grown
<1>3. \A other \in Labels : Stored(other)' = Stored(other)
  BY <1>2 DEF Stored, Holding, dict
<1>4. /\ [other \in Labels |-> IF Grown' THEN NULL ELSE Stored(other)'] =
           [other \in Labels |-> IF Grown THEN NULL ELSE Stored(other)]
      /\ (IF Grown' THEN INIT_CAPACITY ELSE size') = (IF Grown THEN INIT_CAPACITY ELSE size)
  BY <1>2, <1>3 DEF dict
<1>5. CASE Answers(key)
  <2>1. PICK n \in Cells(INIT_CAPACITY) :
          LET home == Home(HashWithNul(key), INIT_CAPACITY)
              cell == Probe(home, n, INIT_CAPACITY)
          IN  /\ EndsAfter(entries, INIT_CAPACITY, home, key, n)
              /\ \E value \in {entries[cell].value} \cup
                              (IF cell < INIT_CAPACITY \/ entries[cell] = Empty
                               THEN {} ELSE {Wild}) :
                   answer' = [key |-> key, value |-> value]
              /\ state' \in Fates("ready", LooksBeyond(INIT_CAPACITY, INIT_CAPACITY, home, n))
    BY <1>1, <1>5 DEF Answers
  <2> DEFINE home == Home(HashWithNul(key), INIT_CAPACITY)
             cell == Probe(home, n, INIT_CAPACITY)
  <2>2. cell \in Cells(INIT_CAPACITY) /\ cell < INIT_CAPACITY
    <3>1. cell \in Cells(INIT_CAPACITY)
      BY HomeIsACell, ProbeIsACell
    <3>2. QED
      BY <3>1, DictAssumption DEF Cells
  <2>3. answer' = [key |-> key, value |-> entries[cell].value] /\ state' = "ready"
    BY <2>1, <2>2, HomeIsACell, NeverLooksBeyond DEF Fates
  <2>4. entries[cell].key \in {NULL, key}
    BY <2>1 DEF EndsAfter, Stops
  <2>5. CASE entries[cell].key = key
    <3>1. key # NULL
      BY DictAssumption
    <3>2. Stored(key) = entries[cell].value /\ Stored(key) # NULL
      BY <2>2, <2>5, <3>1, StoredIsTheCell, StoredIffHeld
    <3>3. key \in Map!Held
      BY <3>2 DEF Map!Held
    <3>4. QED
      BY <1>1, <1>2, <1>4, <2>3, <3>2, <3>3 DEF Map!Get
  <2>6. CASE entries[cell].key = NULL
    <3>1. entries[cell] = Empty
      BY <1>1, <2>2, <2>6, DictAssumption DEF SmallTable, Entry
    <3>2. \A j \in Cells(INIT_CAPACITY) : entries[j].key # key
      BY <2>1, <2>6, ProbeEndsAtTheKey, DictAssumption
    <3>3. Stored(key) = NULL /\ entries[cell].value = NULL
      BY <3>1, <3>2, StoredIffHeld DEF Empty
    <3>4. Used # Cells(INIT_CAPACITY) /\ Used \subseteq Cells(INIT_CAPACITY)
      BY <2>2, <2>6 DEF Used
    <3>5. Cardinality(Used) < INIT_CAPACITY
      <4>1. /\ Cardinality(Used) <= INIT_CAPACITY
            /\ Cardinality(Used) # INIT_CAPACITY
        BY <3>4, CellsAreFinite, FS_Subset
      <4>2. QED
        BY <4>1, UsedIsFinite, DictAssumption
    <3>6. Cardinality(Map!Held) < INIT_CAPACITY
      BY <3>5, AsManyLabelsAsCells
    <3>7. QED
      BY <1>1, <1>2, <1>4, <2>3, <3>3, <3>6, SameCardinality DEF Map!Get
  <2>7. QED
    BY <2>4, <2>5, <2>6
<1>6. CASE Spins(key)
  <2>1. \A i \in Cells(INIT_CAPACITY) : entries[i].key \notin {NULL, key}
    BY <1>1, <1>6 DEF Spins, Endless, Stops
  <2>2. Used = Cells(INIT_CAPACITY)
    BY <2>1 DEF Used
  <2>3. Cardinality(Map!Held) = INIT_CAPACITY
    BY <2>2, CellsAreFinite, AsManyLabelsAsCells
  <2>4. Stored(key) = NULL
    BY <2>1, StoredIffHeld
  <2>5. Map!Held # Labels
    BY <2>4 DEF Map!Held
  <2>6. state' = "spinning" /\ UNCHANGED answer
    BY <1>1, <1>6, DictAssumption DEF Spins, Fates
  <2>7. QED
    BY <1>1, <1>2, <1>4, <2>3, <2>5, <2>6, SameCardinality DEF Map!Spin
<1>7. QED
  BY <1>5, <1>6 DEF get_item

\* Every step of the table is a step of the map or none.
LEMMA StepMaps == IInv /\ [Next]_vars => [Map!Next]_(Map!vars)
<1> SUFFICES ASSUME IInv, [Next]_vars PROVE [Map!Next]_(Map!vars)
  OBVIOUS
<1>1. CASE Grown
  <2>1. Grown'
    BY <1>1, GrownStays
  <2>2. UNCHANGED Map!vars
    BY <1>1, <2>1 DEF Map!vars
  <2>3. QED
    BY <2>2
<1>2. CASE ~Grown /\ Set
  <2>1. PICK key \in Labels, value \in Addresses : set_item(key, value)
    BY <1>2, ClientAssumption DEF Set
  <2>2. ~SetCrashes
    BY <1>2, DictAssumption DEF SetCrashes, IInv, SmallTable, Entry, Empty
  <2>3. QED
    BY <1>2, <2>1, <2>2, SetMaps, GrowingMaps DEF set_item, Map!Next
<1>3. CASE ~Grown /\ Get
  BY <1>3, GetMaps DEF Get, Map!Next
<1>4. CASE Ended \/ UNCHANGED vars
  <2>1. UNCHANGED vars
    BY <1>4 DEF Ended
  <2>2. UNCHANGED Map!vars
    BY <2>1 DEF vars, dict, Map!vars, Grown, Stored, Holding
  <2>3. QED
    BY <2>2
<1>5. QED
  BY <1>1, <1>2, <1>3, <1>4 DEF Next

LEMMA InitMaps == Init => Map!Init
<1> SUFFICES ASSUME Init PROVE Map!Init
  OBVIOUS
<1>1. capacity = INIT_CAPACITY /\ ~Grown
  BY DictAssumption DEF Init, Grown
<1>2. \A key \in Labels : Holding(key) = {}
  BY <1>1, DictAssumption DEF Init, Holding, Empty
<1>3. QED
  BY <1>1, <1>2 DEF Init, Stored, Map!Init, Map!Nothing

\* Until it has been set INIT_CAPACITY times and once more, the hash table is
\* a map, whatever the hash function and however the labels collide.
THEOREM TableIsAMap == Spec => IsALabelMap
<1>1. Spec => []IInv
  BY InitIInv, NextIInv, PTL DEF Spec
<1>2. QED
  BY <1>1, InitMaps, StepMaps, PTL DEF Spec, IsALabelMap, Map!Spec

-----------------------------------------------------------------------------
\* What a client of a table that has not grown may count on

\* A set ends, and no key is lost by it.
LEMMA SetIsRemembered ==
  ASSUME IInv, NEW key \in Labels, NEW value \in Addresses, set_item(key, value), ~Grown'
  PROVE  /\ state' = "ready"
         /\ Holding(key)' # {}
         /\ \A other \in Labels : Holding(other) # {} => Holding(other)' # {}
         /\ \A other \in Labels :
              Stored(other)' = IF other = key THEN value ELSE Stored(other)
         /\ size' = size + 1
<1>1. capacity' \in {capacity, 2 * capacity} /\ capacity \in Nat
  BY DEF set_item, SetInPlace, SetGrowing, SetCrashes, Put, dict, IInv
<1>2. ~Grown
  BY <1>1, DictAssumption DEF Grown
<1>3. SetInPlace(key, value)
  <2>1. ~SetCrashes
    BY <1>2, DictAssumption DEF SetCrashes, IInv, SmallTable, Entry, Empty
  <2>2. ~SetGrowing(key, value)
    BY GrowingIInv DEF SetGrowing
  <2>3. QED
    BY <2>1, <2>2 DEF set_item
<1>4. PICK i \in Cells(INIT_CAPACITY) :
        /\ entries[i].key \in {NULL, key}
        /\ entries' = [entries EXCEPT ![i] = [key |-> key, value |-> value]]
  BY <1>2, <1>3, SetFillsACell
<1>5. state' = "ready" /\ capacity' = INIT_CAPACITY /\ SmallTable
  BY <1>2, <1>3, SetFillsACell DEF IInv
<1>6. \A j \in Cells(INIT_CAPACITY) :
        entries'[j].key = IF j = i THEN key ELSE entries[j].key
  BY <1>4, <1>5 DEF SmallTable
<1>7. Holding(key)' # {}
  BY <1>5, <1>6 DEF Holding
<1>8. ASSUME NEW other \in Labels, NEW j \in Holding(other)
      PROVE  j \in Holding(other)'
  <2>1. j \in Cells(INIT_CAPACITY) /\ entries[j].key = other /\ other # NULL
    BY <1>5, DictAssumption DEF Holding, SmallTable
  <2>2. entries'[j].key = other
    BY <1>4, <1>6, <2>1
  <2>3. QED
    BY <1>5, <2>1, <2>2 DEF Holding
<1>9. size' = size + 1
  BY <1>2, <1>3, SetFillsACell
<1>10. QED
  BY <1>2, <1>3, <1>5, <1>7, <1>8, <1>9, SetStores

\* The table grows when it has been set as often as it has cells.
LEMMA SetOutgrows ==
  ASSUME IInv, ~Grown, NEW key \in Labels, NEW value \in Addresses,
         set_item(key, value), Grown'
  PROVE  size = INIT_CAPACITY
<1>1. capacity = INIT_CAPACITY
  BY DEF IInv, SmallTable
<1>2. ~SetInPlace(key, value) /\ ~SetCrashes
  BY DEF SetInPlace, SetCrashes, Put, dict, Grown
<1>3. MustGrow
  BY <1>2 DEF set_item, SetGrowing
<1>4. QED
  BY <1>1, <1>3 DEF MustGrow

\* A lookup of a key that was set ends, with a value.
LEMMA GetIsAnswered ==
  ASSUME IInv, ~Grown, NEW key \in Labels, Holding(key) # {}, get_item(key)
  PROVE  state' = "ready" /\ answer'.value \in Addresses /\ answer'.value = Stored(key)
<1>1. capacity = INIT_CAPACITY /\ allocated = INIT_CAPACITY /\ SmallTable
  BY DEF IInv, SmallTable
<1>2. PICK j \in Cells(INIT_CAPACITY) : entries[j].key = key
  BY <1>1 DEF Holding
<1>3. ~Spins(key)
  BY <1>1, <1>2 DEF Spins, Endless, Stops
<1>4. PICK n \in Cells(INIT_CAPACITY) :
        LET home == Home(HashWithNul(key), INIT_CAPACITY)
            cell == Probe(home, n, INIT_CAPACITY)
        IN  /\ EndsAfter(entries, INIT_CAPACITY, home, key, n)
            /\ \E value \in {entries[cell].value} \cup
                            (IF cell < INIT_CAPACITY \/ entries[cell] = Empty
                             THEN {} ELSE {Wild}) :
                 answer' = [key |-> key, value |-> value]
            /\ state' \in Fates("ready", LooksBeyond(INIT_CAPACITY, INIT_CAPACITY, home, n))
  BY <1>1, <1>3 DEF get_item, Answers
<1>5. j = Probe(Home(HashWithNul(key), INIT_CAPACITY), n, INIT_CAPACITY)
  BY <1>2, <1>4, ProbeEndsAtTheKey
<1>6. j < INIT_CAPACITY
  BY DictAssumption DEF Cells
<1>7. answer' = [key |-> key, value |-> entries[j].value] /\ state' = "ready"
  BY <1>4, <1>5, <1>6, HomeIsACell, NeverLooksBeyond DEF Fates
<1>8. entries[j] \in Entry
  BY <1>1, <1>2, DictAssumption DEF SmallTable, Empty
<1>9. Stored(key) = entries[j].value
  <2>1. key # NULL
    BY DictAssumption
  <2>2. QED
    BY <1>2, <2>1, StoredIsTheCell
<1>10. QED
  BY <1>7, <1>8, <1>9 DEF Entry

\* Freeing it changes no cell, and can only go wrong once the table has grown.
LEMMA FreeingIsSound ==
  ASSUME SoundInv, IInv, UNCHANGED <<dict, answer>>, state = "ready",
         state' \in Fates("ready", Grown)
  PROVE  SoundInv' /\ IInv'
<1>1. state' \in {"ready", "crashed"} /\ (~Grown => state' = "ready")
  BY DEF Fates
<1>2. SoundInv'
  BY <1>1 DEF dict, SoundInv, CellsAreSound, SoundUntilItGrows, Grown, AnswerIsSound,
              AnswersBelongToTheKey
<1>3. IInv'
  BY <1>1 DEF dict, IInv, Grown, SmallTable, SetsPayForCells, Used, EveryKeyIsFound, IsFoundAt
<1>4. QED
  BY <1>2, <1>3
=============================================================================
