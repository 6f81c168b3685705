------------------------------- MODULE KvDict -------------------------------
(***************************************************************************)
(* The hash table that maps labels to addresses: linear probing from the   *)
(* low bits of an FNV-1a hash, doubled when it has been set as often as it *)
(* has cells.  set_item and get_item are actions; the assembler takes them *)
(* as steps of its own, and Next lets any client call them in any order.   *)
(*                                                                         *)
(* expand() doubles the capacity but allocates the old number of cells, so *)
(* the upper half of a grown table lies beyond its heap block.  Undefined  *)
(* behaviour there is modelled as: such a cell first holds nothing, or a   *)
(* stray pointer that leads to some label or to none and a value that may  *)
(* be anything; what is written sticks, but its value may be read back as  *)
(* anything; an operation that touches such a cell may crash the process.  *)
(***************************************************************************)
EXTENDS Integers, FiniteSets

CONSTANTS
  Labels,         \* the keys
  Addresses,      \* the values
  INIT_CAPACITY,  \* 8
  FNV1A_PRIME,    \* 0x100000001b3
  Fnv1a,          \* Fnv1a[label]: the hash of its characters
  Aliases,        \* labels a stray pointer may lead to
  NULL, Stray, Wild

ASSUME DictAssumption ==
  /\ INIT_CAPACITY \in Nat \ {0}
  /\ \E bits \in 0 .. INIT_CAPACITY : INIT_CAPACITY = 2 ^ bits
  /\ FNV1A_PRIME \in Nat
  /\ Fnv1a \in [Labels -> Nat]
  /\ IsFiniteSet(Labels) /\ Aliases \subseteq Labels
  /\ NULL \notin Labels \cup Addresses
  /\ Stray \notin Labels \cup {NULL}
  /\ Wild \notin Addresses \cup {NULL}

VARIABLES
  entries,    \* one [key, value] for each of capacity cells
  size,       \* calls of set_item
  capacity,
  allocated,  \* cells of the heap block that holds entries
  answer,     \* what the last get_item returned
  state       \* "ready", "spinning" in a probe loop, or "crashed"

dict == <<entries, size, capacity, allocated>>
vars == <<dict, answer, state>>

Empty == [key |-> NULL, value |-> NULL]
Entry == [key : Labels, value : Addresses]
Junk  == [key : Aliases \cup {Stray}, value : {Wild}]

Cells(cap) == 0 .. cap - 1

\* new_dict
Init == /\ entries = [i \in Cells(INIT_CAPACITY) |-> Empty]
        /\ size = 0
        /\ capacity = INIT_CAPACITY
        /\ allocated = INIT_CAPACITY
        /\ answer = NULL
        /\ state = "ready"

-----------------------------------------------------------------------------
\* Hashing and probing

\* One more round of fnv1a over the terminating NUL multiplies the hash by the
\* prime; cap is a power of two, so only the low bits of the product matter.
Hash(key)        == Fnv1a[key]
HashWithNul(key) == Fnv1a[key] * FNV1A_PRIME

Home(hash, cap) == hash % cap

\* The cell n steps after home, wrapping around the end.
Probe(home, n, cap) == IF home + n < cap THEN home + n ELSE home + n - cap

\* Mutant: a cell in use passes for the one searched for.
Stops_AnyKey(cell, key) == TRUE

\* Where the probe loops stop: at a free cell or at the key.
Stops(cell, key) == cell.key \in {NULL, key}

\* Mutant: the probe takes any cell that is free or holds the key.
EndsAfter_Anywhere(table, cap, home, key, n) ==
  Stops(table[Probe(home, n, cap)], key)

\* The probe for key stops n steps after home.
EndsAfter(table, cap, home, key, n) ==
  /\ Stops(table[Probe(home, n, cap)], key)
  /\ \A m \in 0 .. n - 1 : ~Stops(table[Probe(home, m, cap)], key)

\* A probe of n steps looks outside the block of the table.
LooksBeyond(block, cap, home, n) == \E m \in 0 .. n : Probe(home, m, cap) >= block

\* Neither the key nor a free cell is in the table: the probe never ends.
Endless(table, cap, key) == \A i \in Cells(cap) : ~Stops(table[i], key)

\* How an operation may end; one that leaves the heap block may crash.
Fates(outcome, risky) == {outcome} \cup (IF risky THEN {"crashed"} ELSE {})

-----------------------------------------------------------------------------
\* Setting an item

\* raw_set into a table that has room: update the key's cell or fill a free one.
RawSet(table, cap, hash, key, value) ==
  LET home == Home(hash, cap)
      steps == CHOOSE n \in Cells(cap) : EndsAfter(table, cap, home, key, n)
      cell == Probe(home, steps, cap)
  IN  [i \in Cells(cap) |->
         IF i = cell THEN [key |-> key, value |-> value] ELSE table[i]]

\* expand: the entries of the old table, each put into the new one where the
\* hash of its key without the NUL leads.
Rehash(new, entry) ==
  IF entry.key = NULL THEN new
  ELSE RawSet(new, 2 * capacity, Hash(entry.key), entry.key, entry.value)

\* After(new)[n]: the new table once the first n cells of the old one have been.
After(new) ==
  LET table[n \in 0 .. capacity] ==
        IF n = 0 THEN new ELSE Rehash(table[n - 1], entries[n - 1])
  IN  table

Migrated(new) == After(new)[capacity]

\* Mutant: sets are not counted.
SizeAfterSet_Forgotten == size
SizeAfterSet == size + 1

\* raw_set, called by set_item on a table of cap cells, block of them allocated.
Put(table, cap, block, key, value, risky) ==
  /\ \/ \E n \in Cells(cap) :
          LET home == Home(HashWithNul(key), cap)
          IN  /\ EndsAfter(table, cap, home, key, n)
              /\ entries' = [table EXCEPT ![Probe(home, n, cap)] =
                               [key |-> key, value |-> value]]
              /\ size' = SizeAfterSet
              /\ state' \in Fates("ready", risky \/ LooksBeyond(block, cap, home, n))
     \/ /\ Endless(table, cap, key)
        /\ entries' = table
        /\ state' \in Fates("spinning", block < cap)
        /\ UNCHANGED size
  /\ capacity' = cap /\ allocated' = block
  /\ UNCHANGED answer

\* Mutant: the table grows one call late.
MustGrow_Late == size > capacity
MustGrow == size = capacity

SetInPlace(key, value) ==
  /\ state = "ready" /\ ~MustGrow
  /\ Put(entries, capacity, allocated, key, value, FALSE)

\* expand, then raw_set.
SetGrowing(key, value) ==
  /\ state = "ready" /\ MustGrow
  /\ \A i \in Cells(capacity) : entries[i].key # Stray
  /\ \E beyond \in [capacity .. 2 * capacity - 1 -> {Empty} \cup Junk] :
       LET new == Migrated([i \in Cells(2 * capacity) |->
                              IF i < capacity THEN Empty ELSE beyond[i]])
       IN  Put(new, 2 * capacity, capacity, key, value,
               \E i \in capacity .. 2 * capacity - 1 : new[i] # Empty)

\* expand dereferences a stray key.
SetCrashes == /\ state = "ready" /\ MustGrow
              /\ \E i \in Cells(capacity) : entries[i].key = Stray
              /\ state' = "crashed"
              /\ UNCHANGED <<dict, answer>>

set_item(key, value) == SetInPlace(key, value) \/ SetGrowing(key, value) \/ SetCrashes

-----------------------------------------------------------------------------
\* Getting an item

\* The key was found, or a free cell says that it is not there.
Answers(key) ==
  \E n \in Cells(capacity) :
    LET home == Home(HashWithNul(key), capacity)
        cell == Probe(home, n, capacity)
    IN  /\ EndsAfter(entries, capacity, home, key, n)
        /\ \E value \in {entries[cell].value} \cup
                        (IF cell < allocated \/ entries[cell] = Empty THEN {} ELSE {Wild}) :
             answer' = [key |-> key, value |-> value]
        /\ state' \in Fates("ready", LooksBeyond(allocated, capacity, home, n))

Spins(key) == /\ Endless(entries, capacity, key)
              /\ state' \in Fates("spinning", allocated < capacity)
              /\ UNCHANGED answer

get_item(key) == /\ state = "ready"
                 /\ Answers(key) \/ Spins(key)
                 /\ UNCHANGED dict

-----------------------------------------------------------------------------
CONSTANTS
  MaxSets,   \* bound on the calls of set_item
  ValuesFor  \* ValuesFor[label]: the addresses a client gives the label

ASSUME ClientAssumption == MaxSets \in Nat /\ ValuesFor \in [Labels -> SUBSET Addresses]

Set  == \E key \in Labels : \E value \in ValuesFor[key] :
          size < MaxSets /\ set_item(key, value)
Get  == \E key \in Labels : get_item(key)

\* The process is gone or in an endless loop.
Ended == state # "ready" /\ UNCHANGED vars

Next == Set \/ Get \/ Ended

Spec == Init /\ [][Next]_vars

-----------------------------------------------------------------------------
\* Properties

Grown == capacity > INIT_CAPACITY

\* Types; a call count never passes the capacity.
TypeOK == /\ capacity \in Nat \ {0} /\ allocated \in 1 .. capacity
          /\ entries \in [Cells(capacity) -> Entry \cup {Empty} \cup Junk]
          /\ size \in 0 .. capacity
          /\ answer \in {NULL} \cup [key : Labels, value : Addresses \cup {NULL, Wild}]
          /\ state \in {"ready", "spinning", "crashed"}

\* Cell i holds key, and no free cell and no other copy of the key lies on the
\* way to it from where get_item starts.
IsFoundAt(key, i) ==
  /\ entries[i].key = key
  /\ \E n \in Cells(capacity) :
       /\ i = Probe(Home(HashWithNul(key), capacity), n, capacity)
       /\ \A m \in 0 .. n - 1 :
            entries[Probe(Home(HashWithNul(key), capacity), m, capacity)].key
              \notin {NULL, key}

\* Until the table grows, get_item finds every key in every cell that holds
\* it; so no key is in two cells, and an update leaves no stale copy behind.
EveryKeyIsFound ==
  ~Grown => \A i \in Cells(capacity) :
              entries[i].key # NULL => IsFoundAt(entries[i].key, i)

\* A table never fills up without growing at the next set: raw_set, whose
\* loop has no other end, always has a free cell to stop at.
RoomForOneMore ==
  ~Grown /\ size < capacity => \E i \in Cells(capacity) : entries[i].key = NULL

\* get_item compares the keys: until the table grows it answers with an address
\* of the label's own or with NULL. Of a grown table less can be said: what lay
\* beyond a block may be read back as any number, another label's address too,
\* but nothing else gets into an answer, for a rehash mixes up no two labels.
AnswersBelongToTheKey ==
  answer # NULL => answer.value \in ValuesFor[answer.key] \cup {NULL}
                                      \cup (IF Grown THEN {Wild} ELSE {})

\* The address stored for a key, NULL if none.
Holding(key) == {i \in Cells(capacity) : entries[i].key = key}
Stored(key) == IF Holding(key) = {} THEN NULL
               ELSE entries[CHOOSE i \in Holding(key) : TRUE].value

\* Until it grows, the table is a map, whatever homes the labels collide at:
\* the refinement of LabelMap.
Map == INSTANCE LabelMap WITH
         Limit <- INIT_CAPACITY,
         map <- [key \in Labels |-> IF Grown THEN NULL ELSE Stored(key)],
         sets <- IF Grown THEN INIT_CAPACITY ELSE size,
         answer <- IF Grown THEN NULL ELSE answer,
         state <- IF Grown THEN "undefined" ELSE state

IsALabelMap == Map!Spec

\* expand: "migrate old non-null entries"; what get_item finds before the
\* table grows it still finds afterwards.
IsFound(key) == \E i \in Cells(capacity) : IsFoundAt(key, i)
GrowthKeepsEntries ==
  [][capacity' > capacity => \A key \in Labels : IsFound(key) => IsFound(key)']_vars
=============================================================================
