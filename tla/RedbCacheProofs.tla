-------------------------- MODULE RedbCacheProofs --------------------------
(***************************************************************************)
(* What RedbCache keeps for any threads, keys, TTLs and number of          *)
(* restarts.                                                               *)
(***************************************************************************)
EXTENDS RedbCache, TLAPS

Places == {"idle", "read", "heal", "judge", "mutate", "write", "scan", "sweep"}

TypeOK ==
    /\ clock \in Nat
    /\ table \in [Keys -> Row] /\ disk \in [Keys -> Row]
    /\ ttl \in Nat /\ refresh \in BOOLEAN
    /\ pc \in [Threads -> Places]
    /\ call \in [Threads -> Call]
    /\ snap \in [Threads -> Entry \cup {Absent}]
    /\ doomed \in [Threads -> SUBSET Keys]
    /\ ret \in [Threads -> Nat]
    /\ ops \in Nat /\ boots \in Nat
    /\ had \in [Threads -> SUBSET Entry] /\ DOMAIN seen = Threads

Getting == {"read", "heal", "judge", "mutate"}

\* A running get has had the entry its row holds now.
HadInv ==
    \A t \in Threads :
        pc[t] \in Getting /\ table[call[t].key] \in Entry => table[call[t].key] \in had[t]

\* The entry a get is to judge is one it has had.
SnapInv == \A t \in Threads : pc[t] = "judge" => snap[t] \in had[t]

\* Whatever a running get has had and is unexpired now, it has seen.
SeenInv ==
    \A t \in Threads : pc[t] \in Getting =>
        \A e \in had[t] : ~Expired(e, call[t].ttl, clock) => e.val \in seen[t]

IInv == TypeOK /\ HadInv /\ SnapInv /\ SeenInv /\ RestartKeepsPromise

\* What each step but Done does to the calls, apart from what they have seen.
\* A get that is to judge an entry was there before, or has just read its row.
Moves ==
    /\ clock' \in Nat
    /\ table' \in [Keys -> Row] /\ disk' \in [Keys -> Row]
    /\ ttl' \in Nat /\ refresh' \in BOOLEAN
    /\ pc' \in [Threads -> Places]
    /\ call' \in [Threads -> Call]
    /\ snap' \in [Threads -> Entry \cup {Absent}]
    /\ doomed' \in [Threads -> SUBSET Keys]
    /\ ret' \in [Threads -> Nat]
    /\ ops' \in Nat /\ boots' \in Nat
    /\ \A t \in Threads : pc'[t] = "judge" =>
          \/ pc[t] = "judge" /\ snap'[t] = snap[t] /\ call'[t] = call[t]
          \/ snap'[t] \in Entry /\ snap'[t] = table'[call'[t].key]
    /\ disk' \in promised'

-----------------------------------------------------------------------------

\* NoCall is a call: there is a key.
LEMMA NoCallIsCall == NoCall \in Call
BY RedbAssumption DEF NoCall, Call

\* What is expired at one time is expired at every later one.
LEMMA ExpiredStays ==
    ASSUME NEW e \in Entry, NEW d \in Nat, NEW i \in Nat, NEW j \in Nat, i <= j, Expired(e, d, i)
    PROVE  Expired(e, d, j)
BY DEF Expired, Age, Entry

\* A commit keeps the promise of durability and replaces the table.
LEMMA CommitKeeps ==
    ASSUME IInv, NEW new \in [Keys -> Row], Commit(new)
    PROVE  table' = new /\ disk' \in [Keys -> Row] /\ disk' \in promised'
BY DEF IInv, TypeOK, RestartKeepsPromise, Commit

\* A call that ends leaves the others where they are.
LEMMA ReturnMoves ==
    ASSUME IInv, NEW t \in Threads, NEW v \in Nat, Return(t, v),
           UNCHANGED <<options, clock, config, boots>>, ops' \in Nat,
           table' \in [Keys -> Row], disk' \in [Keys -> Row], disk' \in promised'
    PROVE  Moves
<1>1. pc' \in [Threads -> Places] /\ snap' \in [Threads -> Entry \cup {Absent}]
      /\ doomed' \in [Threads -> SUBSET Keys] /\ ret' \in [Threads -> Nat]
  BY DEF IInv, TypeOK, Return, Places
<1>2. call' \in [Threads -> Call]
  BY NoCallIsCall DEF IInv, TypeOK, Return
<1>3. \A u \in Threads : pc'[u] = "judge" =>
          pc[u] = "judge" /\ snap'[u] = snap[u] /\ call'[u] = call[u]
  BY DEF IInv, TypeOK, Return
<1> QED
  BY <1>1, <1>2, <1>3 DEF IInv, TypeOK, Moves, config

\* A call that begins leaves the others where they are.
LEMMA BeginMoves ==
    ASSUME IInv, NEW t \in Threads, NEW label \in Places \ {"judge"}, NEW c \in Call,
           Begin(t, label, c), UNCHANGED <<options, clock, config, boots>>,
           table' \in [Keys -> Row], disk' \in [Keys -> Row], disk' \in promised'
    PROVE  Moves
<1>1. pc' \in [Threads -> Places] /\ call' \in [Threads -> Call] /\ ops' \in Nat
  BY DEF IInv, TypeOK, Begin
<1>2. \A u \in Threads : pc'[u] = "judge" =>
          pc[u] = "judge" /\ snap'[u] = snap[u] /\ call'[u] = call[u]
  BY DEF IInv, TypeOK, Begin
<1> QED
  BY <1>1, <1>2 DEF IInv, TypeOK, Moves, config, Begin

\* A call that moves on leaves the others where they are.
LEMMA GotoMoves ==
    ASSUME IInv, NEW t \in Threads, NEW label \in Places \ {"judge"}, Goto(t, label),
           UNCHANGED <<options, clock, config, boots>>, ops' = ops, UNCHANGED redbVars
    PROVE  Moves
<1>1. pc' \in [Threads -> Places]
      /\ \A u \in Threads : pc'[u] = "judge" => pc[u] = "judge"
  BY DEF IInv, TypeOK, Goto
<1> QED
  BY <1>1 DEF IInv, TypeOK, RestartKeepsPromise, Moves, config, redbVars, Goto

\* A get that takes the row of its key to judge it leaves the others where they are.
LEMMA TakeMoves ==
    ASSUME IInv, NEW t \in Threads, table[call[t].key] \in Entry, table' = table,
           pc' = [pc EXCEPT ![t] = "judge"], snap' = [snap EXCEPT ![t] = table[call[t].key]],
           UNCHANGED <<call, doomed, ret>>,
           UNCHANGED <<options, clock, config, boots>>, ops' = ops,
           disk' \in [Keys -> Row], disk' \in promised'
    PROVE  Moves
<1>1. pc' \in [Threads -> Places] /\ snap' \in [Threads -> Entry \cup {Absent}]
  BY DEF IInv, TypeOK, Places
<1>2. \A u \in Threads : pc'[u] = "judge" =>
          \/ pc[u] = "judge" /\ snap'[u] = snap[u] /\ call'[u] = call[u]
          \/ snap'[u] \in Entry /\ snap'[u] = table'[call'[u].key]
  BY DEF IInv, TypeOK
<1> QED
  BY <1>1, <1>2 DEF IInv, TypeOK, Moves, config

-----------------------------------------------------------------------------

\* Every step of a call moves as Moves says.
LEMMA StepMoves ==
    ASSUME IInv, NEW t \in Threads, Step(t), UNCHANGED <<options, clock, config, boots>>
    PROVE  Moves
<1> DEFINE k == call[t].key
<1>0. k \in Keys /\ table[k] \in Row /\ disk \in [Keys -> Row] /\ disk \in promised
      /\ table \in [Keys -> Row] /\ ops \in Nat
  BY DEF IInv, TypeOK, Call, RestartKeepsPromise
<1>r. Absent \in Row /\ [table EXCEPT ![k] = Absent] \in [Keys -> Row]
  BY <1>0 DEF Row
<1>p. "read" \in Places \ {"judge"} /\ "write" \in Places \ {"judge"} /\ "idle" \in Places \ {"judge"}
      /\ "scan" \in Places \ {"judge"}
  BY DEF Places
<1>n. NoCall \in Call /\ clock \in Nat
  BY NoCallIsCall DEF IInv, TypeOK
<1>1. CASE cache_get(t)
  <2>1. PICK kk \in Keys :
            Begin(t, "read", [NoCall EXCEPT !.key = kk, !.ttl = ttl, !.refresh = refresh])
    BY <1>1 DEF cache_get
  <2> DEFINE c == [NoCall EXCEPT !.key = kk, !.ttl = ttl, !.refresh = refresh]
  <2>2. c \in Call
    BY <1>n DEF IInv, TypeOK, Call
  <2>3. table' \in [Keys -> Row] /\ disk' \in [Keys -> Row] /\ disk' \in promised'
    BY <1>0, <1>1 DEF cache_get, redbVars
  <2>4. Begin(t, "read", c)
    BY <2>1
  <2> HIDE DEF c
  <2> QED
    BY <1>p, <2>2, <2>3, <2>4, BeginMoves
<1>2. CASE cache_set(t)
  <2>1. PICK kk \in Keys :
            Begin(t, "write", [NoCall EXCEPT !.key = kk, !.at = clock, !.val = ops + 1])
    BY <1>2 DEF cache_set
  <2> DEFINE c == [NoCall EXCEPT !.key = kk, !.at = clock, !.val = ops + 1]
  <2>2. c \in Call
    <3>1. ops + 1 \in Nat
      BY <1>0
    <3> QED
      BY <1>n, <3>1 DEF Call
  <2>3. table' \in [Keys -> Row] /\ disk' \in [Keys -> Row] /\ disk' \in promised'
    BY <1>0, <1>2 DEF cache_set, redbVars
  <2>4. Begin(t, "write", c)
    BY <2>1
  <2> HIDE DEF c
  <2> QED
    BY <1>p, <2>2, <2>3, <2>4, BeginMoves
<1>3. CASE cache_remove(t)
  <2>1. PICK kk \in Keys : Commit([table EXCEPT ![kk] = Absent])
    BY <1>3 DEF cache_remove
  <2>2. [table EXCEPT ![kk] = Absent] \in [Keys -> Row]
    BY <1>0, <1>r
  <2>3. table' \in [Keys -> Row] /\ disk' \in [Keys -> Row] /\ disk' \in promised'
    BY <2>1, <2>2, CommitKeeps
  <2> QED
    BY <1>p, <1>n, <1>3, <2>3, BeginMoves DEF cache_remove
<1>4. CASE cache_clear(t)
  <2>1. [kk \in Keys |-> Absent] \in [Keys -> Row]
    BY <1>r
  <2>2. table' \in [Keys -> Row] /\ disk' \in [Keys -> Row] /\ disk' \in promised'
    BY <1>4, <2>1, CommitKeeps DEF cache_clear
  <2> QED
    BY <1>p, <1>n, <1>4, <2>2, BeginMoves DEF cache_clear
<1>5. CASE remove_expired_entries(t)
  <2> DEFINE c == [NoCall EXCEPT !.ttl = ttl, !.at = clock]
  <2>1. c \in Call
    BY <1>n DEF IInv, TypeOK, Call
  <2>2. table' \in [Keys -> Row] /\ disk' \in [Keys -> Row] /\ disk' \in promised'
    BY <1>0, <1>5 DEF remove_expired_entries, redbVars
  <2>3. Begin(t, "scan", c)
    BY <1>5 DEF remove_expired_entries
  <2> HIDE DEF c
  <2> QED
    BY <1>p, <2>1, <2>2, <2>3, BeginMoves
<1>6. CASE flush(t)
  <2>1. table' \in [Keys -> Row] /\ disk' \in [Keys -> Row] /\ disk' \in promised'
    BY <1>0, <1>6 DEF flush
  <2> QED
    BY <1>p, <1>n, <1>6, <2>1, BeginMoves DEF flush
<1>7. CASE Read(t) /\ ops' = ops
  <2>1. CASE Return(t, 0)
    BY <1>0, <1>7, <2>1, ReturnMoves DEF Read, redbVars
  <2>2. CASE Goto(t, "heal")
    BY <1>7, <2>2, GotoMoves DEF Read, Places
  <2>3. CASE /\ table[k] \in Entry
             /\ pc' = [pc EXCEPT ![t] = "judge"]
             /\ snap' = [snap EXCEPT ![t] = table[k]]
             /\ UNCHANGED <<call, doomed, ret>>
    BY <1>0, <1>7, <2>3, TakeMoves DEF Read, redbVars
  <2> QED
    BY <1>7, <2>1, <2>2, <2>3 DEF Read
<1>8. CASE Heal(t) /\ ops' = ops
  <2>1. CASE Commit(table) /\ Return(t, 0)
    BY <1>0, <1>8, <2>1, CommitKeeps, ReturnMoves
  <2>2. CASE Commit([table EXCEPT ![k] = Absent]) /\ Return(t, 0)
    BY <1>0, <1>r, <1>8, <2>2, CommitKeeps, ReturnMoves
  <2>3. CASE /\ table[k] \in Entry
             /\ Commit(table)
             /\ pc' = [pc EXCEPT ![t] = "judge"]
             /\ snap' = [snap EXCEPT ![t] = table[k]]
             /\ UNCHANGED <<call, doomed, ret>>
    BY <1>0, <1>8, <2>3, CommitKeeps, TakeMoves
  <2> QED
    BY <1>8, <2>1, <2>2, <2>3 DEF Heal
<1>9. CASE Judge(t) /\ ops' = ops
  <2>1. snap[t] \in Entry /\ snap[t].val \in Nat
    BY <1>9 DEF IInv, TypeOK, SnapInv, Judge, Entry
  <2>2. CASE Return(t, snap[t].val)
    BY <1>0, <1>9, <2>1, <2>2, ReturnMoves DEF Judge, redbVars
  <2>3. CASE Goto(t, "mutate")
    BY <1>9, <2>3, GotoMoves DEF Judge, Places
  <2> QED
    BY <1>9, <2>2, <2>3 DEF Judge
<1>10. CASE Mutate(t) /\ ops' = ops
  <2>1. CASE (Commit(table) \/ UNCHANGED redbVars \/ Commit([table EXCEPT ![k] = Absent])) /\ Return(t, 0)
    BY <1>0, <1>r, <1>10, <2>1, CommitKeeps, ReturnMoves DEF redbVars
  <2>2. CASE /\ table[k] \in Entry
             /\ Commit(IF call[t].refresh
                       THEN [table EXCEPT ![k] = [val |-> table[k].val, at |-> clock]]
                       ELSE table)
             /\ Return(t, table[k].val)
    <3> DEFINE new == IF call[t].refresh
                      THEN [table EXCEPT ![k] = [val |-> table[k].val, at |-> clock]]
                      ELSE table
    <3>1. table[k].val \in Nat /\ [val |-> table[k].val, at |-> clock] \in Row
      BY <2>2 DEF IInv, TypeOK, Entry, Row
    <3>2. new \in [Keys -> Row]
      BY <1>0, <3>1
    <3>3. Commit(new)
      BY <2>2
    <3> HIDE DEF new
    <3> QED
      BY <1>10, <2>2, <3>1, <3>2, <3>3, CommitKeeps, ReturnMoves, <1>0
  <2> QED
    BY <1>10, <2>1, <2>2 DEF Mutate
<1>11. CASE Write(t) /\ ops' = ops
  <2>1. [val |-> call[t].val, at |-> call[t].at] \in Row
    BY DEF IInv, TypeOK, Call, Entry, Row
  <2>2. [table EXCEPT ![k] = [val |-> call[t].val, at |-> call[t].at]] \in [Keys -> Row]
    BY <1>0, <2>1
  <2> QED
    BY <1>0, <1>11, <2>2, CommitKeeps, ReturnMoves DEF Write
<1>12. CASE Scan(t) /\ ops' = ops
  <2>1. CASE Return(t, 0)
    BY <1>0, <1>12, <2>1, ReturnMoves DEF Scan, redbVars
  <2>2. CASE /\ pc' = [pc EXCEPT ![t] = "sweep"]
             /\ doomed' = [doomed EXCEPT ![t] = {kk \in Keys : Sweepable(t, kk)}]
             /\ UNCHANGED <<call, snap, ret>>
    <3>1. pc' \in [Threads -> Places] /\ doomed' \in [Threads -> SUBSET Keys]
          /\ \A u \in Threads : pc'[u] = "judge" => pc[u] = "judge"
      BY <2>2 DEF IInv, TypeOK, Places
    <3> QED
      BY <1>0, <1>12, <2>2, <3>1 DEF IInv, TypeOK, Moves, config, redbVars, Scan
  <2> QED
    BY <1>12, <2>1, <2>2 DEF Scan
<1>13. CASE Sweep(t) /\ ops' = ops
  <2> DEFINE new == [kk \in Keys |-> IF kk \in doomed[t] /\ Sweepable(t, kk) THEN Absent ELSE table[kk]]
  <2>1. new \in [Keys -> Row]
    BY <1>0, <1>r
  <2>2. UNCHANGED redbVars \/ Commit(new)
    BY <1>13 DEF Sweep
  <2> HIDE DEF new
  <2> QED
    BY <1>0, <1>13, <2>1, <2>2, CommitKeeps, ReturnMoves DEF Sweep, redbVars
<1>14. CASE StorageError(t) /\ ops' = ops
  BY <1>0, <1>14, ReturnMoves DEF StorageError, redbVars
<1> QED
  BY <1>1, <1>2, <1>3, <1>4, <1>5, <1>6, <1>7, <1>8, <1>9, <1>10, <1>11, <1>12, <1>13, <1>14 DEF Step

\* So does everything else that can happen, a restart included.
LEMMA OtherMoves ==
    ASSUME IInv, Configure \/ Damage \/ Tick \/ Crash
    PROVE  Moves
<1>1. CASE Configure
  BY <1>1, RedbAssumption
  DEF Configure, IInv, TypeOK, RestartKeepsPromise, Moves, redbVars, locals
<1>2. CASE Damage
  <2>1. PICK k \in Keys : Commit([table EXCEPT ![k] = Corrupt])
    BY <1>2 DEF Damage
  <2>2. [table EXCEPT ![k] = Corrupt] \in [Keys -> Row]
    BY DEF IInv, TypeOK, Row
  <2>3. table' \in [Keys -> Row] /\ disk' \in [Keys -> Row] /\ disk' \in promised'
    BY <2>1, <2>2, CommitKeeps
  <2> QED
    BY <1>2, <2>3 DEF Damage, IInv, TypeOK, Moves, config, locals
<1>3. CASE Tick
  <2>1. clock' \in Nat
    BY <1>3, RedbAssumption DEF Tick
  <2> QED
    BY <1>3, <2>1 DEF Tick, IInv, TypeOK, RestartKeepsPromise, Moves, redbVars, config, locals
<1>4. CASE Crash
  <2>1. /\ pc' \in [Threads -> Places] /\ call' \in [Threads -> Call]
        /\ snap' \in [Threads -> Entry \cup {Absent}] /\ doomed' \in [Threads -> SUBSET Keys]
        /\ ret' \in [Threads -> Nat]
    BY <1>4, NoCallIsCall DEF Crash, Places
  <2>2. \A t \in Threads : pc'[t] = "idle"
    BY <1>4 DEF Crash
  <2> QED
    BY <1>4, <2>1, <2>2, RedbAssumption DEF Crash, IInv, TypeOK, RestartKeepsPromise, Moves
<1> QED
  BY <1>1, <1>2, <1>3, <1>4

\* A running get keeps what it has had, and has the entry of its row and sees
\* what is unexpired after every step.
LEMMA SeenGrows ==
    ASSUME IInv, Seen
    PROVE  /\ had' \in [Threads -> SUBSET Entry] /\ DOMAIN seen' = Threads
           /\ HadInv' /\ SeenInv'
           /\ \A t \in Threads : pc'[t] \in Getting => had[t] \subseteq had'[t]
<1>1. had' = [t \in Threads |-> IF pc'[t] \in Getting
                                THEN had[t] \cup ({table'[call'[t].key]} \cap Entry) ELSE {}]
  BY DEF Seen, Getting
<1>2. seen' = [t \in Threads |-> IF pc'[t] \in Getting
          THEN seen[t] \cup {e.val : e \in {f \in had'[t] : ~Expired(f, call'[t].ttl, clock')}} ELSE {}]
  BY DEF Seen, Getting
<1>3. had \in [Threads -> SUBSET Entry]
  BY DEF IInv, TypeOK
<1>4. had' \in [Threads -> SUBSET Entry]
  BY <1>1, <1>3
<1>5. HadInv'
  BY <1>1 DEF HadInv, Getting
<1>6. SeenInv'
  BY <1>2 DEF SeenInv, Getting
<1> QED
  BY <1>1, <1>2, <1>4, <1>5, <1>6

\* A step that moves as Moves says, and sees as Seen says, keeps the invariant.
LEMMA MovesKeep ==
    ASSUME IInv, Moves, Seen
    PROVE  IInv'
<1>1. TypeOK' /\ RestartKeepsPromise'
  BY SeenGrows DEF Moves, TypeOK, RestartKeepsPromise
<1>2. SnapInv'
  <2> SUFFICES ASSUME NEW t \in Threads, pc'[t] = "judge"
               PROVE  snap'[t] \in had'[t]
    BY DEF SnapInv
  <2>1. CASE pc[t] = "judge" /\ snap'[t] = snap[t]
    BY <2>1, SeenGrows DEF IInv, SnapInv, Getting
  <2>2. CASE snap'[t] \in Entry /\ snap'[t] = table'[call'[t].key]
    BY <2>2, SeenGrows DEF HadInv, Getting
  <2> QED
    BY <2>1, <2>2 DEF Moves
<1> QED
  BY <1>1, <1>2, SeenGrows DEF IInv

\* The invariant is inductive.
LEMMA Invariance == Spec => []IInv
<1>1. Init => IInv
  <2> SUFFICES ASSUME Init PROVE IInv
    OBVIOUS
  <2>1. TypeOK
    BY NoCallIsCall, RedbAssumption DEF Init, TypeOK, Row, Places
  <2>2. HadInv /\ SnapInv /\ SeenInv /\ RestartKeepsPromise
    BY DEF Init, HadInv, SnapInv, SeenInv, Getting, RestartKeepsPromise
  <2> QED
    BY <2>1, <2>2 DEF IInv
<1>2. IInv /\ [Next]_vars => IInv'
  <2> SUFFICES ASSUME IInv, [Next]_vars PROVE IInv'
    OBVIOUS
  <2>1. CASE UNCHANGED vars
    BY <2>1 DEF vars, options, redbVars, config, locals, IInv, TypeOK, HadInv, SnapInv, SeenInv,
                RestartKeepsPromise
  <2>2. ASSUME NEW t \in Threads, Step(t), UNCHANGED <<options, clock, config, boots>>, Seen
        PROVE  IInv'
    BY <2>2, StepMoves, MovesKeep
  <2>3. CASE (Configure \/ Damage \/ Tick \/ Crash) /\ Seen
    BY <2>3, OtherMoves, MovesKeep
  <2>4. CASE Done
    BY <2>1, <2>4 DEF Done
  <2> QED
    BY <2>1, <2>2, <2>3, <2>4 DEF Next
<1> QED
  BY <1>1, <1>2, PTL DEF Spec

-----------------------------------------------------------------------------

\* The steps of a call after its first.
Inner(t) ==
    Read(t) \/ Heal(t) \/ Judge(t) \/ Mutate(t) \/ Write(t) \/ Scan(t) \/ Sweep(t) \/ StorageError(t)

\* A running call is moved by a step of its own or by a restart.
LEMMA OwnStep ==
    ASSUME IInv, Next, NEW t \in Threads, pc[t] # "idle", pc'[t] # pc[t]
    PROVE  \/ Inner(t) /\ UNCHANGED clock
           \/ Crash
<1>1. ASSUME NEW u \in Threads, Step(u), UNCHANGED <<options, clock, config, boots>>
      PROVE  Inner(t)
  <2>1. u = t
    BY <1>1 DEF IInv, TypeOK, Step, Begin, Return, Goto, cache_get, cache_set, cache_remove, cache_clear,
               remove_expired_entries, flush, Read, Heal, Judge, Mutate, Write, Scan, Sweep, StorageError
  <2> QED
    BY <1>1, <2>1 DEF Step, Begin, Inner, cache_get, cache_set, cache_remove, cache_clear,
                      remove_expired_entries, flush
<1>2. ~Done /\ ~Configure /\ ~Damage /\ ~Tick
  BY DEF Done, Configure, Damage, Tick, vars, locals
<1> QED
  BY <1>1, <1>2 DEF Next

\* A cleaning step of a call is one of its write transactions, or an error that
\* leaves the table alone.
LEMMA CleaningStep ==
    ASSUME IInv, Next, NEW t \in Threads, Cleans(t)
    PROVE  /\ clock' = clock
           /\ Heal(t) \/ Mutate(t) \/ Sweep(t) \/ table' = table
<1>1. pc[t] \in {"heal", "mutate", "sweep"} /\ pc'[t] # pc[t]
  BY DEF Cleans
<1>2. ~Crash
  BY DEF Cleans, Crash, IInv, TypeOK
<1>3. Inner(t) /\ UNCHANGED clock
  BY <1>1, <1>2, OwnStep
<1> QED
  BY <1>1, <1>3 DEF Inner, Read, Judge, Write, Scan, StorageError, redbVars

\* Each row after a cleaning step is as it was, or a decodable one with its
\* value and a new timestamp, or gone because it did not decode or was outlived.
LEMMA CleaningRows ==
    ASSUME IInv, Next, NEW t \in Threads, Cleans(t), NEW k \in Keys
    PROVE  \/ table'[k] = table[k]
           \/ table[k] \in Entry /\ table'[k] = [val |-> table[k].val, at |-> clock]
           \/ table'[k] = Absent /\ (table[k] \in Entry => Outlived(t, table[k]))
<1> DEFINE q == call[t].key
<1>0. q \in Keys /\ table \in [Keys -> Row] /\ Absent \notin Entry /\ Corrupt \notin Entry
  BY RedbAssumption DEF IInv, TypeOK, Call, Entry
<1>1. CASE Heal(t)
  BY <1>0, <1>1 DEF Heal, Commit
<1>2. CASE Mutate(t)
  BY <1>0, <1>2 DEF Mutate, Commit, redbVars, Outlived
<1>3. CASE Sweep(t)
  <2>1. CASE table' = table
    BY <2>1
  <2>2. CASE table' = [kk \in Keys |-> IF kk \in doomed[t] /\ Sweepable(t, kk) THEN Absent ELSE table[kk]]
    <3>1. CASE table'[k] = table[k]
      BY <3>1
    <3>2. CASE table'[k] = Absent /\ Sweepable(t, k)
      <4>1. ASSUME table[k] \in Entry
            PROVE  Outlived(t, table[k])
        <5>1. Expired(table[k], call[t].ttl, call[t].at) /\ pc[t] = "sweep"
          BY <1>0, <1>3, <3>2, <4>1 DEF Sweepable, Sweep
        <5>2. call[t].ttl \in Nat /\ call[t].at \in Nat /\ clock \in Nat
          BY DEF IInv, TypeOK, Call
        <5>3. CASE clock < call[t].at
          BY <5>1, <5>3 DEF Outlived
        <5>4. CASE call[t].at <= clock
          BY <4>1, <5>1, <5>2, <5>4, ExpiredStays DEF Outlived
        <5> QED
          BY <5>2, <5>3, <5>4
      <4> QED
        BY <3>2, <4>1
    <3> QED
      BY <2>2, <3>1, <3>2
  <2> QED
    BY <1>3, <2>1, <2>2 DEF Sweep, Commit, redbVars
<1> QED
  BY <1>1, <1>2, <1>3, CleaningStep

\* LiveNotDeleted: no get and no sweep of RedbCache deletes a row that has not
\* outlived the call's TTL, whatever was stored between its transactions and
\* wherever the wall clock was set, unless it was set back behind the time the
\* sweep goes by.
THEOREM LiveRowsStay == Spec => LiveNotDeleted
<1>1. IInv /\ [Next]_vars =>
        [\A t \in Threads : Cleans(t) =>
            \A k \in Keys : table[k] \in Entry /\ table'[k] \notin Entry => Outlived(t, table[k])]_vars
  <2> SUFFICES ASSUME IInv, Next, NEW t \in Threads, Cleans(t), NEW k \in Keys,
                      table[k] \in Entry, table'[k] \notin Entry
               PROVE  Outlived(t, table[k])
    OBVIOUS
  <2>1. [val |-> table[k].val, at |-> clock] \in Entry
    BY DEF IInv, TypeOK, Entry
  <2> QED
    BY <2>1, CleaningRows
<1> QED
  BY <1>1, Invariance, PTL DEF Spec, LiveNotDeleted

\* CleaningKeepsValues: no get and no sweep brings back a row or a value.
THEOREM CleaningOnlyRestamps == Spec => CleaningKeepsValues
<1>1. IInv /\ [Next]_vars =>
        [\A t \in Threads : Cleans(t) =>
            \A k \in Keys : table'[k] \in Entry =>
                table[k] \in Entry /\ table'[k].val = table[k].val]_vars
  <2> SUFFICES ASSUME IInv, Next, NEW t \in Threads, Cleans(t), NEW k \in Keys, table'[k] \in Entry
               PROVE  table[k] \in Entry /\ table'[k].val = table[k].val
    OBVIOUS
  <2>1. Absent \notin Entry
    BY RedbAssumption DEF Entry
  <2>2. CASE table'[k] = table[k]
    BY <2>2
  <2>3. CASE table[k] \in Entry /\ table'[k] = [val |-> table[k].val, at |-> clock]
    BY <2>3
  <2> QED
    BY <2>1, <2>2, <2>3, CleaningRows
<1> QED
  BY <1>1, Invariance, PTL DEF Spec, CleaningKeepsValues

\* RestartKeepsPromise: what the disk holds is no older than the last point of
\* durability, after any number of crashes.
THEOREM RestartsKeepPromise == Spec => []RestartKeepsPromise
<1>1. IInv => RestartKeepsPromise
  BY DEF IInv
<1> QED
  BY <1>1, Invariance, PTL

\* GetReturnsLive: what a get returns was in the row of its key during the call
\* and unexpired by the clock then or later in the call, wherever the clock is set.
THEOREM GetsAreLive == Spec => GetReturnsLive
<1>1. IInv /\ [Next]_vars =>
        [\A t \in Threads : pc[t] # "idle" /\ pc'[t] = "idle" /\ ret'[t] # 0 => ret'[t] \in seen[t]]_vars
  <2> SUFFICES ASSUME IInv, Next, NEW t \in Threads, pc[t] # "idle", pc'[t] = "idle", ret'[t] # 0
               PROVE  ret'[t] \in seen[t]
    OBVIOUS
  <2>1. ~Crash
    BY DEF Crash
  <2>2. Inner(t)
    BY <2>1, OwnStep
  <2>0. ret \in [Threads -> Nat] /\ pc \in [Threads -> Places]
    BY DEF IInv, TypeOK
  <2>3. CASE Judge(t)
    <3>1. ret'[t] = snap[t].val /\ ~Expired(snap[t], call[t].ttl, clock)
      BY <2>0, <2>3 DEF Judge, Return, Goto, Expired
    <3> QED
      BY <2>3, <3>1 DEF Judge, IInv, SnapInv, SeenInv, Getting
  <2>4. CASE Mutate(t)
    <3>1. /\ table[call[t].key] \in Entry /\ ret'[t] = table[call[t].key].val
          /\ ~Expired(table[call[t].key], call[t].ttl, clock)
      BY <2>0, <2>4 DEF Mutate, Return
    <3> QED
      BY <2>4, <3>1 DEF Mutate, IInv, HadInv, SeenInv, Getting
  <2>5. CASE Read(t) \/ Heal(t) \/ Scan(t)
    <3>1. Return(t, 0)
      BY <2>0, <2>5 DEF Read, Heal, Scan, Goto
    <3> QED
      BY <2>0, <3>1 DEF Return
  <2>6. CASE Write(t) \/ Sweep(t) \/ StorageError(t)
    <3>1. Return(t, 0)
      BY <2>6 DEF Write, Sweep, StorageError
    <3> QED
      BY <2>0, <3>1 DEF Return
  <2> QED
    BY <2>2, <2>3, <2>4, <2>5, <2>6 DEF Inner
<1> QED
  BY <1>1, Invariance, PTL DEF Spec, GetReturnsLive
=============================================================================
