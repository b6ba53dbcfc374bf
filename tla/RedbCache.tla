----------------------------- MODULE RedbCache -----------------------------
(***************************************************************************)
(* RedbCache: a cache in one redb table on disk, used by several threads.  *)
(*                                                                         *)
(* redb itself is external: a write transaction is one step (writers are   *)
(* serialised), a read transaction sees one committed table, and a commit  *)
(* without fsync is lost by a crash unless a durable commit follows it.    *)
(* Everything between two transactions of one call, the reading of the     *)
(* clock included, interleaves with the other threads.  The clock is the   *)
(* wall clock (SystemTime), which may be set back; the readings inside one *)
(* write transaction are one.  A redb call that fails ends the call and    *)
(* drops its transaction.                                                  *)
(***************************************************************************)
EXTENDS Naturals

CONSTANTS Threads, Keys,
          Absent,         \* no row for the key
          Corrupt,        \* a row whose bytes do not decode
          Ttls,           \* the TTLs configured or set, 0 for no expiry
          MaxTime,        \* bound: the times the wall clock shows
          MaxOps,         \* bound: the calls of a behaviour
          MaxBoots        \* bound: the times the process starts

ASSUME RedbAssumption ==
    /\ Ttls \subseteq Nat /\ Ttls # {}
    /\ Keys # {}
    /\ MaxTime \in Nat /\ MaxOps \in Nat /\ MaxBoots \in Nat
    /\ Absent # Corrupt
    /\ Absent \notin [val : Nat, at : Nat] /\ Corrupt \notin [val : Nat, at : Nat]

VARIABLES
    durable,    \* the `durable` option
    strict,     \* the `strict_deserialization` option
    clock,      \* SystemTime::now()
    table,      \* the rows of the last commit
    disk,       \* the rows of the last durable commit
    ttl,        \* RedbCache.ttl, 0 for None
    refresh,    \* RedbCache.refresh
    pc, call,   \* where each thread is, and the arguments of its call
    snap,       \* the entry a get read outside its write transaction
    doomed,     \* expired_keys of a sweep
    ret,        \* the value of the last get of each thread, 0 for none
    ops, boots,
    promised,   \* ghost: the tables committed since the last durability point,
                \* with the one committed there
    had,        \* ghost: the entries the row of its key held during each running get
    seen        \* ghost: the values of those found unexpired then or later in the get

redbVars == <<table, disk, promised>>
options == <<durable, strict>>
config == <<ttl, refresh>>
locals == <<pc, call, snap, doomed, ret>>
vars == <<options, clock, redbVars, config, locals, ops, boots, had, seen>>

\* CachedDiskValue.
Entry == [val : Nat, at : Nat]
Row == Entry \cup {Absent, Corrupt}

Call == [key : Keys, ttl : Nat, refresh : BOOLEAN, at : Nat, val : Nat]
NoCall == [key |-> CHOOSE k \in Keys : TRUE, ttl |-> 0, refresh |-> FALSE, at |-> 0, val |-> 0]

\* A file of an earlier program may hold rows that do not decode as V.
Init ==
    /\ durable \in BOOLEAN /\ strict \in BOOLEAN
    /\ clock = 0
    /\ table \in [Keys -> {Absent, Corrupt}] /\ disk = table
    /\ ttl \in Ttls /\ refresh \in BOOLEAN
    /\ pc = [t \in Threads |-> "idle"]
    /\ call = [t \in Threads |-> NoCall]
    /\ snap = [t \in Threads |-> Absent]
    /\ doomed = [t \in Threads |-> {}]
    /\ ret = [t \in Threads |-> 0]
    /\ ops = 0 /\ boots = 0
    /\ promised = {table}
    /\ had = [t \in Threads |-> {}] /\ seen = [t \in Threads |-> {}]

-----------------------------------------------------------------------------

\* duration_since(created_at) at `now`, zero for an entry of the future.
Age(e, now) == IF now < e.at THEN 0 ELSE now - e.at

Expired(e, d, now) == d # 0 /\ Age(e, now) >= d

\* begin_write and commit.
Commit(new) ==
    /\ table' = new
    /\ \/ durable /\ disk' = new /\ promised' = {new}
       \/ ~durable /\ promised' = promised \cup {new} /\ UNCHANGED disk

Begin(t, label, c) ==
    /\ pc[t] = "idle"
    /\ ops < MaxOps
    /\ ops' = ops + 1
    /\ pc' = [pc EXCEPT ![t] = label]
    /\ call' = [call EXCEPT ![t] = c]
    /\ UNCHANGED <<snap, doomed, ret>>

\* The call ends; `v` is what a get hands back.
Return(t, v) ==
    /\ pc' = [pc EXCEPT ![t] = "idle"]
    /\ call' = [call EXCEPT ![t] = NoCall]
    /\ snap' = [snap EXCEPT ![t] = Absent]
    /\ doomed' = [doomed EXCEPT ![t] = {}]
    /\ ret' = [ret EXCEPT ![t] = v]

Goto(t, label) ==
    /\ pc' = [pc EXCEPT ![t] = label]
    /\ UNCHANGED <<call, snap, doomed, ret>>

\* A redb call failed: the transaction is dropped and the error returned.
StorageError(t) ==
    /\ pc[t] # "idle"
    /\ Return(t, 0)
    /\ UNCHANGED redbVars

-----------------------------------------------------------------------------

\* cache_get and cache_contains read the settings first.
cache_get(t) ==
    /\ \E k \in Keys :
          Begin(t, "read", [NoCall EXCEPT !.key = k, !.ttl = ttl, !.refresh = refresh])
    /\ UNCHANGED redbVars

\* The row as the read transaction sees it.
Read(t) ==
    /\ pc[t] = "read"
    /\ LET row == table[call[t].key] IN
          \/ row = Absent /\ Return(t, 0)
          \/ row = Corrupt /\ strict /\ Return(t, 0)
          \/ row = Corrupt /\ ~strict /\ Goto(t, "heal")
          \/ /\ row \in Entry
             /\ pc' = [pc EXCEPT ![t] = "judge"]
             /\ snap' = [snap EXCEPT ![t] = row]
             /\ UNCHANGED <<call, doomed, ret>>
    /\ UNCHANGED redbVars

\* Self-heal: the row is read again under the write transaction and deleted
\* only if it still does not decode; a good one is used instead.
Heal(t) ==
    /\ pc[t] = "heal"
    /\ LET k == call[t].key
           row == table[k] IN
          \/ row = Absent /\ Commit(table) /\ Return(t, 0)
          \/ row = Corrupt /\ Commit([table EXCEPT ![k] = Absent]) /\ Return(t, 0)
          \/ /\ row \in Entry
             /\ Commit(table)
             /\ pc' = [pc EXCEPT ![t] = "judge"]
             /\ snap' = [snap EXCEPT ![t] = row]
             /\ UNCHANGED <<call, doomed, ret>>

\* Mutant: an entry is served once more at the end of its lifetime.
JudgeLate(t) ==
    /\ pc[t] = "judge"
    /\ \/ Age(snap[t], clock) <= call[t].ttl + 1 /\ ~call[t].refresh /\ Return(t, snap[t].val)
       \/ Goto(t, "mutate")
    /\ UNCHANGED redbVars

\* A live entry is returned as it was read unless it has to be refreshed.
Judge(t) ==
    /\ pc[t] = "judge"
    /\ LET live == ~Expired(snap[t], call[t].ttl, clock)
           write == call[t].ttl # 0 /\ (call[t].refresh \/ ~live) IN
          \/ ~write /\ Return(t, snap[t].val)
          \/ write /\ Goto(t, "mutate")
    /\ UNCHANGED redbVars

\* Mutant: what the read transaction saw is refreshed or deleted.
MutateFromSnapshot(t) ==
    /\ pc[t] = "mutate"
    /\ LET k == call[t].key
           row == snap[t] IN
          \/ /\ ~Expired(row, call[t].ttl, clock)
             /\ Commit([table EXCEPT ![k] = [val |-> row.val, at |-> clock]])
             /\ Return(t, row.val)
          \/ /\ Expired(row, call[t].ttl, clock)
             /\ Commit([table EXCEPT ![k] = Absent])
             /\ Return(t, 0)

\* The write transaction of a get reads the row again: it refreshes a live
\* one, deletes an expired one, and never brings back one that is gone.
Mutate(t) ==
    /\ pc[t] = "mutate"
    /\ LET k == call[t].key
           row == table[k] IN
          \/ row = Absent /\ Commit(table) /\ Return(t, 0)
          \/ row = Corrupt /\ strict /\ UNCHANGED redbVars /\ Return(t, 0)
          \/ row = Corrupt /\ ~strict /\ Commit([table EXCEPT ![k] = Absent]) /\ Return(t, 0)
          \/ /\ row \in Entry
             /\ ~Expired(row, call[t].ttl, clock)
             /\ Commit(IF call[t].refresh
                       THEN [table EXCEPT ![k] = [val |-> row.val, at |-> clock]]
                       ELSE table)
             /\ Return(t, row.val)
          \/ /\ row \in Entry
             /\ Expired(row, call[t].ttl, clock)
             /\ Commit([table EXCEPT ![k] = Absent])
             /\ Return(t, 0)

\* cache_set and cache_set_ref stamp and encode the value before they open the
\* write transaction.  Call number n stores the value n.
cache_set(t) ==
    /\ \E k \in Keys :
          Begin(t, "write", [NoCall EXCEPT !.key = k, !.at = clock, !.val = ops + 1])
    /\ UNCHANGED redbVars

\* disk_cache_set: whatever row it displaces, decodable or not.
Write(t) ==
    /\ pc[t] = "write"
    /\ Commit([table EXCEPT ![call[t].key] = [val |-> call[t].val, at |-> call[t].at]])
    /\ Return(t, 0)

\* cache_remove, cache_remove_entry and cache_delete: one write transaction.
cache_remove(t) ==
    /\ \E k \in Keys : Commit([table EXCEPT ![k] = Absent])
    /\ Begin(t, "idle", NoCall)

\* cache_clear and cache_reset: the table is dropped and made again.
cache_clear(t) ==
    /\ Commit([k \in Keys |-> Absent])
    /\ Begin(t, "idle", NoCall)

\* remove_expired_entries: no TTL, no sweep; otherwise one time for both passes.
remove_expired_entries(t) ==
    /\ ttl # 0
    /\ Begin(t, "scan", [NoCall EXCEPT !.ttl = ttl, !.at = clock])
    /\ UNCHANGED redbVars

\* A row the sweep is to remove.
Sweepable(t, k) ==
    \/ table[k] = Corrupt
    \/ table[k] \in Entry /\ Expired(table[k], call[t].ttl, call[t].at)

\* The first pass, under a read transaction.
Scan(t) ==
    /\ pc[t] = "scan"
    /\ LET found == {k \in Keys : Sweepable(t, k)}
           abort == strict /\ \E k \in Keys : table[k] = Corrupt IN
          \/ (abort \/ found = {}) /\ Return(t, 0)
          \/ /\ ~abort /\ found # {}
             /\ pc' = [pc EXCEPT ![t] = "sweep"]
             /\ doomed' = [doomed EXCEPT ![t] = found]
             /\ UNCHANGED <<call, snap, ret>>
    /\ UNCHANGED redbVars

\* Mutant: the second pass deletes what the first one found.
SweepBlindly(t) ==
    /\ pc[t] = "sweep"
    /\ Commit([k \in Keys |-> IF k \in doomed[t] THEN Absent ELSE table[k]])
    /\ Return(t, 0)

\* The second pass looks at each candidate again under the write transaction.
\* A corrupt one aborts it whole in strict mode.
Sweep(t) ==
    /\ pc[t] = "sweep"
    /\ \/ /\ strict /\ \E k \in doomed[t] : table[k] = Corrupt
          /\ UNCHANGED redbVars
       \/ /\ ~(strict /\ \E k \in doomed[t] : table[k] = Corrupt)
          /\ Commit([k \in Keys |->
                        IF k \in doomed[t] /\ Sweepable(t, k) THEN Absent ELSE table[k]])
    /\ Return(t, 0)

\* Mutant: flush commits with the cache's own durability.
FlushNothing(t) ==
    /\ promised' = {table}
    /\ UNCHANGED <<table, disk>>
    /\ Begin(t, "idle", NoCall)

\* flush: an empty durable commit takes the earlier ones with it.
flush(t) ==
    /\ disk' = table /\ promised' = {table}
    /\ UNCHANGED table
    /\ Begin(t, "idle", NoCall)

-----------------------------------------------------------------------------

Step(t) ==
    \/ cache_get(t) \/ cache_set(t) \/ cache_remove(t) \/ cache_clear(t)
    \/ remove_expired_entries(t) \/ flush(t)
    \/ (Read(t) \/ Heal(t) \/ Judge(t) \/ Mutate(t) \/ Write(t) \/ Scan(t) \/ Sweep(t)
        \/ StorageError(t)) /\ UNCHANGED ops

\* set_ttl (zero disables expiry), unset_ttl and set_refresh_on_hit.
Configure ==
    /\ ttl' \in Ttls /\ refresh' \in BOOLEAN
    /\ ops < MaxOps /\ ops' = ops + 1
    /\ UNCHANGED <<options, clock, redbVars, locals, boots>>

\* Bytes that do not decode appear in a row, the damage the re-reads of Mutate
\* and Sweep provide for.
Damage ==
    /\ \E k \in Keys : Commit([table EXCEPT ![k] = Corrupt])
    /\ ops < MaxOps /\ ops' = ops + 1
    /\ UNCHANGED <<options, clock, config, locals, boots>>

\* SystemTime goes on, or is set to any other time, an earlier one included
\* (an NTP step or a manual change).
Tick ==
    /\ clock' \in 0..MaxTime \ {clock}
    /\ UNCHANGED <<options, redbVars, config, locals, ops, boots>>

\* The process dies and build opens the file again: its own commit, which
\* makes the table if it is not there, is durable.
Crash ==
    /\ boots < MaxBoots
    /\ boots' = boots + 1
    /\ table' = disk
    /\ pc' = [t \in Threads |-> "idle"]
    /\ call' = [t \in Threads |-> NoCall]
    /\ snap' = [t \in Threads |-> Absent]
    /\ doomed' = [t \in Threads |-> {}]
    /\ ret' = [t \in Threads |-> 0]
    /\ ttl' \in Ttls /\ refresh' \in BOOLEAN
    /\ UNCHANGED <<options, clock, disk, promised, ops>>

\* What the gets that run after this step have come across: the entry in the row
\* is one the get may have read, and those unexpired now are ones it may return.
Seen ==
    LET Gets == {t \in Threads : pc'[t] \in {"read", "heal", "judge", "mutate"}} IN
    /\ had' = [t \in Threads |->
          IF t \in Gets THEN had[t] \cup ({table'[call'[t].key]} \cap Entry) ELSE {}]
    /\ seen' = [t \in Threads |->
          IF t \in Gets
          THEN seen[t] \cup {e.val : e \in {f \in had'[t] : ~Expired(f, call'[t].ttl, clock')}}
          ELSE {}]

Done ==
    /\ \A t \in Threads : pc[t] = "idle"
    /\ ops = MaxOps /\ boots = MaxBoots
    /\ UNCHANGED vars

Next ==
    \/ /\ \/ \E t \in Threads : Step(t) /\ UNCHANGED <<options, clock, config, boots>>
          \/ Configure
          \/ Damage
          \/ Tick
          \/ Crash
       /\ Seen
    \/ Done

Spec == Init /\ [][Next]_vars

-----------------------------------------------------------------------------

\* A get or a sweep of thread t changes the table in this step.
Cleans(t) == pc[t] \in {"heal", "mutate", "sweep"} /\ pc'[t] # pc[t] /\ boots' = boots

\* Entry e has outlived the TTL of thread t's call by the clock; or, when the
\* wall clock has been set back behind the time that t's sweep read, by that time.
Outlived(t, e) ==
    \/ Expired(e, call[t].ttl, clock)
    \/ /\ pc[t] = "sweep" /\ clock < call[t].at
       /\ Expired(e, call[t].ttl, call[t].at)

\* Neither a get nor a sweep deletes an entry that decodes and has not outlived
\* the TTL the call was given, even one stored since the call looked.  The one
\* exception is a wall clock set back during a sweep, which goes by the time it
\* read when it began.
LiveNotDeleted ==
    [][\A t \in Threads : Cleans(t) =>
          \A k \in Keys : table[k] \in Entry /\ table'[k] \notin Entry => Outlived(t, table[k])]_vars

\* Neither a get nor a sweep brings back a row that is gone, or puts an older
\* value in the place of a newer one: a refresh changes the timestamp only.
CleaningKeepsValues ==
    [][\A t \in Threads : Cleans(t) =>
          \A k \in Keys : table'[k] \in Entry =>
              table[k] \in Entry /\ table'[k].val = table[k].val]_vars

\* A restart brings back a table no older than the last durability point: the
\* last commit if `durable`, otherwise the last flush.
RestartKeepsPromise == disk \in promised

\* A get returns a value that the row of its key had during the call and that,
\* by the clock at that or a later time of the call, had not expired.
GetReturnsLive ==
    [][\A t \in Threads : pc[t] # "idle" /\ pc'[t] = "idle" /\ ret'[t] # 0 => ret'[t] \in seen[t]]_vars
=============================================================================
