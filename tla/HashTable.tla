----------------------------- MODULE HashTable -----------------------------
(***************************************************************************)
(* The chained hash table of oslib (src/oslib/src/hash.c) and its          *)
(* iterator.  Entries are memory cells linked by next; a deleted entry is  *)
(* only unlinked, its own next pointer stays, which is what an iterator    *)
(* standing on it follows.  A key is its sequence of bytes.                *)
(***************************************************************************)
EXTENDS Integers, Sequences, FiniteSets

CONSTANTS Keys,      \* the keys callers use, sequences of bytes
          Values,    \* non-NULL values, positive
          Entries,   \* the entry cells (from the pool, or the callers' entry_buf)
          Size,      \* the size given to HASH_Create
          HashMod,   \* 2^32: the width of a hash, scaled down to a smaller power of two
          lower,     \* the table is used through the ...Lower functions
          None       \* NULL pointer to an entry

HASH_MULTIPLIER == 33

VARIABLES ht,     \* T_HashTable and the cells: table, count, next, key, hash, value
          it,     \* T_HashIterator: [index, entry], entry = None when no walk is on
          map,    \* history: what the table should contain, 0 for an absent key
          stay,   \* history: entries linked all the time since HASH_ItFirst
          seen    \* history: how often the walk visited each entry of stay

vars == <<ht, it, map, stay, seen>>

c_tolower(c) == IF c \in 65 .. 90 THEN c + 32 ELSE c

\* HASH_Calc(0, k), or HASH_CalcToLower(0, NULL, k).
HASH_Calc(k) ==
    LET h[i \in 0 .. Len(k)] ==
            IF i = 0 THEN 0 ELSE ((h[i - 1] * HASH_MULTIPLIER) + k[i]) % HashMod
    IN  h[Len(k)]

ToLower(k) == [i \in DOMAIN k |-> c_tolower(k[i])]

HASH_CalcToLower(k) == HASH_Calc(ToLower(k))

KeyHash(k) == IF lower THEN HASH_CalcToLower(k) ELSE HASH_Calc(k)
SameKey(a, b) == IF lower THEN ToLower(a) = ToLower(b) ELSE a = b

\* ht->rows: the mask, one less than the number of rows, which is a power of two.
rows == (CHOOSE n \in {16, 32, 64, 128} : n >= Size /\ (n = 16 \/ n < 2 * Size)) - 1

HASH_Create ==
    [table |-> [i \in 0 .. rows |-> None], count |-> 0,
     next |-> [e \in Entries |-> None], key |-> [e \in Entries |-> <<>>],
     hash |-> [e \in Entries |-> 0], value |-> [e \in Entries |-> 0]]

RECURSIVE ChainFrom(_, _)
ChainFrom(h, e) == IF e = None THEN <<>> ELSE <<e>> \o ChainFrom(h, h.next[e])

Chain(h, row) == ChainFrom(h, h.table[row])
Linked(h) == UNION {{Chain(h, i)[j] : j \in 1 .. Len(Chain(h, i))} : i \in 0 .. rows}

\* *p_entry = e, where p_entry is the link number i (from 0) of the chain of row.
SetLink(h, row, i, e) ==
    IF i = 0 THEN [h EXCEPT !.table[row] = e] ELSE [h EXCEPT !.next[Chain(h, row)[i]] = e]

\* find_entry's walk: the number of the link that leads to the entry with that key,
\* or of the last link.  A hash the caller computed before is not computed again.
find_entry(h, k, hval) ==
    LET hash == IF hval # 0 THEN hval ELSE KeyHash(k)
        row == hash % (rows + 1)
        c == Chain(h, row)
        hits == {j \in 1 .. Len(c) : h.hash[c[j]] = hash /\ SameKey(h.key[c[j]], k)}
        j == IF hits = {} THEN Len(c) + 1 ELSE CHOOSE x \in hits : \A y \in hits : x <= y
    IN  [hash |-> hash, row |-> row, link |-> j - 1,
         entry |-> IF hits = {} THEN None ELSE c[j]]

HASH_Get(h, k, hval) ==
    LET e == find_entry(h, k, hval).entry IN IF e = None THEN 0 ELSE h.value[e]

\* The end of find_entry: a new entry is put behind the last one of the row.
NewEntry(h, f, k, v, e) ==
    [SetLink([h EXCEPT !.next[e] = None], f.row, f.link, e)
        EXCEPT !.key[e] = k, !.hash[e] = f.hash, !.value[e] = v, !.count = @ + 1]

\* Mutant: a deleted entry loses its next pointer.
UnlinkClears(h, f) ==
    [SetLink(h, f.row, f.link, h.next[f.entry]) EXCEPT !.count = @ - 1, !.next[f.entry] = None]

Unlink(h, f) == [SetLink(h, f.row, f.link, h.next[f.entry]) EXCEPT !.count = @ - 1]

\* hash_set(k, v) with the cell e for a new entry; v = 0 deletes.
hash_set(h, k, hval, v, e) ==
    LET f == find_entry(h, k, hval)
    IN  IF f.entry = None THEN IF v = 0 THEN h ELSE NewEntry(h, f, k, v, e)
        ELSE IF v = 0 THEN Unlink(h, f) ELSE [h EXCEPT !.value[f.entry] = v]

\* The first entry of the rows from i on: the loops of HASH_ItFirst and HASH_ItNext.
FromRow(h, i) ==
    LET full == {j \in i .. rows : h.table[j] # None}
        j == CHOOSE x \in full : \A y \in full : x <= y
    IN  IF full = {} THEN [index |-> rows + 1, entry |-> None]
                     ELSE [index |-> j, entry |-> h.table[j]]

HASH_ItFirst(h) == FromRow(h, 0)

HASH_ItNext(h, i) ==
    IF h.next[i.entry] # None THEN [i EXCEPT !.entry = h.next[i.entry]]
                              ELSE FromRow(h, i.index + 1)

Init ==
    /\ ht = HASH_Create
    /\ it = [index |-> 0, entry |-> None]
    /\ map = [k \in Keys |-> 0]
    /\ stay = {} /\ seen = [e \in Entries |-> 0]

\* What a walk may meet: the entry it stands on may be deleted, and while it is,
\* nothing else is deleted and its cell is not used again (the caller's part).
Gone == it.entry # None /\ it.entry \notin Linked(ht)

\* A cell that neither the table nor the walk reaches is as good as new.
Tidy(h, i) ==
    LET used == Linked(h) \cup {i.entry}
    IN  [h EXCEPT !.next = [e \in Entries |-> IF e \in used THEN @[e] ELSE None],
                  !.key = [e \in Entries |-> IF e \in used THEN @[e] ELSE <<>>],
                  !.hash = [e \in Entries |-> IF e \in used THEN @[e] ELSE 0],
                  !.value = [e \in Entries |-> IF e \in used THEN @[e] ELSE 0]]

Spare == Entries \ (Linked(ht) \cup {it.entry})

\* HASH_Set, HASH_SetNp and their Lower forms; any spare cell serves a new entry.
HASH_Set(k, hval, v) ==
    /\ v = 0 => ~Gone
    /\ Spare # {}
    /\ ht' = Tidy(hash_set(ht, k, hval, v, CHOOSE e \in Spare : TRUE), it)
    /\ map' = [j \in Keys |-> IF SameKey(j, k) THEN v ELSE map[j]]
    /\ stay' = stay \cap Linked(ht')
    /\ seen' = [e \in Entries |-> IF e \in stay' THEN seen[e] ELSE 0]
    /\ UNCHANGED it

First ==
    /\ it.entry = None
    /\ it' = HASH_ItFirst(ht)
    /\ it'.entry # None
    /\ stay' = Linked(ht)
    /\ seen' = [e \in Entries |-> IF e = it'.entry THEN 1 ELSE 0]
    /\ UNCHANGED <<ht, map>>

ItNext ==
    /\ it.entry # None
    /\ it' = HASH_ItNext(ht, it)
    /\ ht' = Tidy(ht, it')
    /\ seen' = [e \in Entries |-> IF e = it'.entry /\ e \in stay THEN seen[e] + 1 ELSE seen[e]]
    /\ UNCHANGED <<map, stay>>

Next ==
    \/ First
    \/ ItNext
    \/ \E k \in Keys, v \in Values \cup {0}, given \in BOOLEAN :
           HASH_Set(k, IF given THEN KeyHash(k) ELSE 0, v)

Spec == Init /\ [][Next]_vars

----------------------------------------------------------------------------
(***************************************************************************)
(* The table is the map the callers built: HASH_Get returns the last value *)
(* set for the key (folding case when the Lower functions are used), with  *)
(* and without a precomputed hash, and HASH_Count counts the keys set.     *)
(***************************************************************************)
IsMap ==
    /\ \A k \in Keys : \A hval \in {0, KeyHash(k)} : HASH_Get(ht, k, hval) = map[k]
    /\ ht.count = Cardinality({{j \in Keys : SameKey(j, k)} : k \in {x \in Keys : map[x] # 0}})

(***************************************************************************)
(* A walk visits every entry that stays in the table from HASH_ItFirst to  *)
(* the end of the walk exactly once, although entries are added, the       *)
(* current one is deleted, and others are deleted between its steps.       *)
(***************************************************************************)
WalkVisitsOnce ==
    \A e \in stay : seen[e] <= 1 /\ (it.entry = None => seen[e] = 1)
=============================================================================
