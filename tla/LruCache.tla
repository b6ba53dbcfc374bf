------------------------------ MODULE LruCache ------------------------------
(***************************************************************************)
(* LruCache: a hash table of cell indices over an LRUList.  An item of the *)
(* list is a key; the values are opaque here.                              *)
(*                                                                         *)
(* An operation that notifies on_evict several times is several steps, one *)
(* per entry it removes, because the callback is the user's and may panic: *)
(* the operation then ends where it is (pc goes back to "idle") and the    *)
(* cache is used again as it was left.                                     *)
(***************************************************************************)
EXTENDS LruList, FiniteSets

CONSTANTS MaxSize,    \* bound: the largest capacity asked for
          MaxOps,     \* bound: the operations of a behaviour
          NoCell      \* no cell is being returned

ASSUME LruAssumption ==
    /\ MaxSize \in Nat \ {0} /\ MaxOps \in Nat
    /\ NoCell \notin Nat

VARIABLES store,      \* the hash table: the indices of the cells in use
          capacity,   \* the maximum number of entries
          hits, misses, evictions,
          pc,         \* "idle", or the loop the running operation is in
          doomed,     \* the cells retain has still to remove
          fresh,      \* the cell whose value get_or_set is about to return
          ops,        \* ghost: the operations so far, the clock of `used`
          used,       \* ghost: when each key was last read or written
          resizing,   \* ghost: set_max_size began and never ended
          entered,    \* ghost: entries in the cache since the metrics were reset
          silent      \* ghost: those of them cache_clear dropped

counters == <<hits, misses>>
ghosts == <<used, resizing, entered, silent>>
cacheVars == <<store, capacity, hits, misses, evictions, pc, doomed, fresh, ops>>
vars == <<listVars, cacheVars, ghosts>>

cache_size == Cardinality(store)

\* build: any capacity but zero.
Init ==
    /\ ListInit
    /\ store = {}
    /\ capacity \in 1..MaxSize
    /\ hits = 0 /\ misses = 0 /\ evictions = 0
    /\ pc = "idle" /\ doomed = {} /\ fresh = NoCell
    /\ ops = 0 /\ used = [k \in Items |-> 0]
    /\ resizing = FALSE /\ entered = 0 /\ silent = 0

-----------------------------------------------------------------------------

\* get_index: the cells the table finds for a key.
get_index(k) == {i \in store : value[i] = k}

Begin ==
    /\ pc = "idle"
    /\ ops < MaxOps
    /\ ops' = ops + 1

Touched(k) == used' = [used EXCEPT ![k] = ops + 1]

\* get_if and get_mut_if, for a predicate that accepts every value.
cache_get(k) ==
    /\ Begin
    /\ \/ \E i \in get_index(k) :
             /\ move_to_front(i)
             /\ hits' = hits + 1
             /\ Touched(k)
             /\ UNCHANGED misses
       \/ /\ get_index(k) = {}
          /\ misses' = misses + 1
          /\ UNCHANGED <<listVars, hits, used>>
    /\ UNCHANGED <<store, capacity, evictions, pc, doomed, fresh, resizing, entered, silent>>

\* Mutant: the list is filled and the table is not.
InsertListOnly(k) ==
    /\ push_front(k)
    /\ UNCHANGED store
    /\ entered' = entered + 1

\* push_front and insert_index.
Insert(k) ==
    /\ push_front(k)
    /\ store' = store \cup {FreshCell}
    /\ entered' = entered + 1

\* Mutant: an overwrite leaves the entry where it was in the order.
SetInPlace(i, k) == set(i, k)

\* set and move_to_front of a cell already in use, by a key equal to its own.
SetAndMove(i, k) ==
    /\ Move(next, prev, i, OCCUPIED)
    /\ value' = [value EXCEPT ![i] = k]
    /\ UNCHANGED size

\* cache_set and cache_set_returning_entry, up to the call of check_capacity.
cache_set(k) ==
    /\ Begin
    /\ \/ \E i \in get_index(k) :
             /\ SetAndMove(i, k)
             /\ UNCHANGED <<store, entered>>
       \/ /\ get_index(k) = {}
          /\ Insert(k)
    /\ Touched(k)
    /\ pc' = "check"
    /\ UNCHANGED <<capacity, hits, misses, evictions, doomed, fresh, resizing, silent>>

\* get_or_set_with_if, try_get_or_set_with_if and their async forms, for a
\* predicate that accepts every value.  The factory may give no value: it
\* returns Err, panics, or its future is dropped at the await.
get_or_set_with_if(k) ==
    /\ Begin
    /\ \/ \E i \in get_index(k) :
             /\ hits' = hits + 1
             /\ move_to_front(i)
             /\ Touched(k)
             /\ UNCHANGED <<store, misses, entered, pc, fresh>>
       \/ /\ get_index(k) = {}
          /\ misses' = misses + 1
          /\ Insert(k)
          /\ Touched(k)
          /\ fresh' = FreshCell
          /\ pc' = "check"
          /\ UNCHANGED hits
       \/ /\ get_index(k) = {}
          /\ misses' = misses + 1
          /\ UNCHANGED <<listVars, store, hits, used, entered, pc, fresh>>
    /\ UNCHANGED <<capacity, evictions, doomed, resizing, silent>>

\* remove_index and pop_raw: the cell leaves the table and the list, and is
\* counted before on_evict hears of it.
RemoveCounted(i) ==
    /\ store' = store \ {i}
    /\ remove(i)
    /\ evictions' = evictions + 1

\* Mutant: the victim is counted after on_evict returned.
EvictThenCount ==
    /\ pc = "check" /\ cache_size > capacity
    /\ store' = store \ {back}
    /\ remove(back)
    /\ pc' \in {"check", "idle"}
    /\ evictions' = IF pc' = "idle" THEN evictions ELSE evictions + 1
    /\ fresh' = IF pc' = "idle" THEN NoCell ELSE fresh
    /\ UNCHANGED <<capacity, counters, doomed, ops, ghosts>>

\* An iteration of check_capacity.  on_evict returns, or panics and the
\* operation ends.
Evict ==
    /\ pc = "check" /\ cache_size > capacity
    /\ RemoveCounted(back)
    /\ pc' \in {"check", "idle"}
    /\ fresh' = IF pc' = "idle" THEN NoCell ELSE fresh
    /\ UNCHANGED <<capacity, counters, doomed, ops, ghosts>>

\* Mutant: the loop may end without looking at the size.
CheckedOnce ==
    /\ pc = "check"
    /\ pc' = "idle" /\ fresh' = NoCell /\ resizing' = FALSE
    /\ UNCHANGED <<listVars, store, capacity, counters, evictions, doomed, ops, used, entered, silent>>

\* The loop ends, and the operation with it.
Checked ==
    /\ pc = "check" /\ cache_size <= capacity
    /\ pc' = "idle" /\ fresh' = NoCell /\ resizing' = FALSE
    /\ UNCHANGED <<listVars, store, capacity, counters, evictions, doomed, ops, used, entered, silent>>

\* set_max_size and try_set_max_size: zero is refused.
set_max_size(n) ==
    /\ Begin
    /\ n # 0
    /\ capacity' = n
    /\ pc' = "check"
    /\ resizing' = TRUE
    /\ UNCHANGED <<listVars, store, counters, evictions, doomed, fresh, used, entered, silent>>

\* cache_remove and cache_remove_entry.  A panic of on_evict changes nothing
\* more: the call was over.
cache_remove(k) ==
    /\ Begin
    /\ \/ \E i \in get_index(k) : RemoveCounted(i)
       \/ get_index(k) = {} /\ UNCHANGED <<listVars, store, evictions>>
    /\ UNCHANGED <<capacity, counters, pc, doomed, fresh, ghosts>>

\* retain: doomed_indices is collected whole before any entry is removed.  A
\* predicate that panics meanwhile leaves the cache as it was.
retain(keep) ==
    /\ Begin
    /\ doomed' = {i \in Occupied : value[i] \notin keep}
    /\ pc' = "retain"
    /\ UNCHANGED <<listVars, store, capacity, counters, evictions, fresh, ghosts>>

\* An iteration of retain's second loop.  The order of the doomed cells is
\* left open.
RetainStep ==
    /\ pc = "retain"
    /\ \E i \in doomed :
          /\ RemoveCounted(i)
          /\ \/ doomed' = doomed \ {i} /\ pc' = pc
             \/ doomed' = {} /\ pc' = "idle"
    /\ UNCHANGED <<capacity, counters, fresh, ops, ghosts>>

Retained ==
    /\ pc = "retain" /\ doomed = {}
    /\ pc' = "idle"
    /\ UNCHANGED <<listVars, store, capacity, counters, evictions, doomed, fresh, ops, ghosts>>

cache_clear ==
    /\ Begin
    /\ store' = {} /\ clear
    /\ silent' = silent + cache_size
    /\ UNCHANGED <<capacity, counters, evictions, pc, doomed, fresh, used, resizing, entered>>

\* drain_all, and every entry counted before any is notified.
cache_clear_with_on_evict ==
    /\ Begin
    /\ store' = {} /\ clear
    /\ evictions' = evictions + cache_size
    /\ UNCHANGED <<capacity, counters, pc, doomed, fresh, ghosts>>

cache_reset ==
    /\ Begin
    /\ store' = {} /\ clear
    /\ hits' = 0 /\ misses' = 0 /\ evictions' = 0
    /\ entered' = 0 /\ silent' = 0
    /\ UNCHANGED <<capacity, pc, doomed, fresh, used, resizing>>

cache_reset_metrics ==
    /\ Begin
    /\ hits' = 0 /\ misses' = 0 /\ evictions' = 0
    /\ entered' = cache_size /\ silent' = 0
    /\ UNCHANGED <<listVars, store, capacity, pc, doomed, fresh, used, resizing>>

Done ==
    /\ pc = "idle" /\ ops = MaxOps
    /\ UNCHANGED vars

Next ==
    \/ \E k \in Items : cache_get(k) \/ cache_set(k) \/ get_or_set_with_if(k) \/ cache_remove(k)
    \/ Evict \/ Checked
    \/ \E n \in 0..MaxSize : set_max_size(n)
    \/ \E keep \in SUBSET Items : retain(keep)
    \/ RetainStep \/ Retained
    \/ cache_clear \/ cache_clear_with_on_evict \/ cache_reset \/ cache_reset_metrics
    \/ Done

Spec == Init /\ [][Next]_vars

-----------------------------------------------------------------------------

\* The table and the list name the same cells, one per key, at every point a
\* panic can leave the cache in: the `unreachable!` of check_capacity and
\* remove_index ("LRU order and hash table out of sync") is never reached.  Nor
\* does check_capacity remove the entry get_or_set_with_if has just inserted and
\* will read by its index when the loop is over.
InSync ==
    /\ store = Occupied
    /\ \A i, j \in store : value[i] = value[j] => i = j
    /\ pc = "retain" => doomed \subseteq store
    /\ fresh # NoCell => fresh \in store

\* Between operations the cache is within its capacity, whatever on_evict did,
\* unless a panic stopped set_max_size and nothing was inserted since.
WithinCapacity == pc = "idle" /\ ~resizing => cache_size <= capacity

\* Each entry that left the cache is counted in `evictions` once, except those
\* cache_clear dropped: no panic loses or doubles one.
EvictionsExact == entered = cache_size + evictions + silent

\* check_capacity only ever evicts the key used least recently.
EvictsLeastRecent ==
    [][pc = "check" => \A i \in store \ store' : \A j \in store : used[value[i]] <= used[value[j]]]_vars
=============================================================================
