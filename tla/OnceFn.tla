------------------------------- MODULE OnceFn -------------------------------
(***************************************************************************)
(* The function that #[once] generates: one value for all arguments, with  *)
(* a time to live, behind a read-write lock.  The clock a call compares    *)
(* the value's age with is read once, on entry, before it waits for any    *)
(* lock; the clock that stamps a value is read when it is stored.          *)
(* Without a `ttl` the value never expires: Ttl > MaxTime.                 *)
(***************************************************************************)
EXTENDS GeneratedFn

VARIABLES
    clock,     \* Instant::now()
    now,       \* __cached_now of each thread
    created    \* the stamp of the stored value, or Empty

once_modes == <<macro, sync_writes>>
once_vars == <<once_modes, clock, pc, now, call, writer, created, calls>>

\* The arguments the macro accepts; no step changes them.
OnceModesOK == macro = "once" /\ sync_writes \in {"Disabled", "Default"}

OnceTypeOK ==
    /\ OnceModesOK
    /\ clock \in Nat
    /\ pc \in [Threads -> {"idle", "read", "check", "body", "set"}]
    /\ now \in [Threads -> Nat]
    /\ call \in [Threads -> Call]
    /\ writer \in Threads \cup {NoThread}
    /\ created \in Nat \cup {Empty}
    /\ calls \in Nat

OnceUncalled ==
    /\ Uncalled
    /\ clock = 0
    /\ now = [t \in Threads |-> 0]
    /\ created = Empty

OnceInit == OnceModesOK /\ OnceUncalled

-----------------------------------------------------------------------------

\* The function returns or unwinds, and drops the guard it holds.
OnceReturn(t) ==
    /\ Goto(t, "idle")
    /\ call' = [call EXCEPT ![t] = NoCall]
    /\ now' = [now EXCEPT ![t] = 0]
    /\ writer' = IF writer = t THEN NoThread ELSE writer

\* Mutant: the value is still returned when its age is exactly the ttl.
IsHitInclusive(t) ==
    ~call[t].force /\ created # Empty /\ (created >= now[t] \/ now[t] - created <= Ttl)

\* now.saturating_duration_since(created) < ttl: a value stored after the call
\* began has age zero.
IsHit(t) ==
    ~call[t].force /\ created # Empty /\ (created >= now[t] \/ now[t] - created < Ttl)

\* The call reads the clock and evaluates its force_refresh predicate.
OnceCall(t) ==
    /\ \E f \in BOOLEAN : Calls(t, NoCall.key, f, FALSE)
    /\ now' = [now EXCEPT ![t] = clock]
    /\ Goto(t, "read")
    /\ UNCHANGED <<once_modes, clock, writer, created>>

\* The companion runs the body first and then takes the write lock.
OncePrime(t) ==
    /\ Calls(t, NoCall.key, FALSE, TRUE)
    /\ Goto(t, "body")
    /\ UNCHANGED <<once_modes, clock, now, writer, created>>

\* The lookup under the read lock.  Without sync_writes a miss runs the body.
OnceRead(t) ==
    /\ pc[t] = "read"
    /\ writer = NoThread
    /\ \/ IsHit(t) /\ OnceReturn(t)
       \/ /\ ~IsHit(t)
          /\ Goto(t, IF sync_writes = "Default" THEN "check" ELSE "body")
          /\ UNCHANGED <<call, now, writer>>
    /\ UNCHANGED <<once_modes, clock, created, calls>>

\* Mutant: the write lock is taken without looking again.
OnceCheckNothing(t) ==
    /\ pc[t] = "check"
    /\ writer = NoThread
    /\ writer' = t
    /\ Goto(t, "body")
    /\ UNCHANGED <<once_modes, clock, now, call, created, calls>>

\* Mutant: the write lock is released before the body.
OnceCheckAndRelease(t) ==
    /\ pc[t] = "check"
    /\ writer = NoThread
    /\ \/ IsHit(t) /\ OnceReturn(t)
       \/ ~IsHit(t) /\ Goto(t, "body") /\ UNCHANGED <<call, now, writer>>
    /\ UNCHANGED <<once_modes, clock, created, calls>>

\* Mutant: a caller that still finds nothing lets go of the lock and starts again.
OnceCheckRetries(t) ==
    /\ pc[t] = "check"
    /\ writer = NoThread
    /\ \/ IsHit(t) /\ OnceReturn(t)
       \/ ~IsHit(t) /\ Goto(t, "read") /\ UNCHANGED <<call, now, writer>>
    /\ UNCHANGED <<once_modes, clock, created, calls>>

\* sync_writes: the second lookup, under the write lock, which is kept for the body.
OnceCheck(t) ==
    /\ pc[t] = "check"
    /\ writer = NoThread
    /\ \/ IsHit(t) /\ OnceReturn(t)
       \/ ~IsHit(t) /\ Goto(t, "body") /\ writer' = t /\ UNCHANGED <<call, now>>
    /\ UNCHANGED <<once_modes, clock, created, calls>>

\* The body returns.
OnceBody(t) ==
    /\ pc[t] = "body"
    /\ Goto(t, "set")
    /\ UNCHANGED <<once_modes, clock, now, call, writer, created, calls>>

\* The body panics, or the async caller is dropped while it awaits the body.
OnceUnwinds(t) ==
    /\ pc[t] = "body"
    /\ OnceReturn(t)
    /\ UNCHANGED <<once_modes, clock, created, calls>>

\* An async caller is dropped while it awaits a lock.
OnceDropped(t) ==
    /\ pc[t] \in {"read", "check", "set"}
    /\ writer # t
    /\ OnceReturn(t)
    /\ UNCHANGED <<once_modes, clock, created, calls>>

\* The result is stored, stamped with the time of the store, unless it is an
\* Err or a None.
OnceSet(t) ==
    /\ pc[t] = "set"
    /\ writer \in {NoThread, t}
    /\ created' \in {clock, created}
    /\ OnceReturn(t)
    /\ UNCHANGED <<once_modes, clock, calls>>

Tick ==
    /\ clock < MaxTime
    /\ clock' = clock + 1
    /\ UNCHANGED <<once_modes, pc, now, call, writer, created, calls>>

OnceStep(t) == OnceRead(t) \/ OnceCheck(t) \/ OnceBody(t) \/ OnceUnwinds(t) \/ OnceSet(t)

OnceDone ==
    /\ calls = MaxCalls /\ clock = MaxTime
    /\ \A t \in Threads : pc[t] = "idle"
    /\ UNCHANGED once_vars

OnceNext ==
    \/ \E t \in Threads : OnceCall(t) \/ OncePrime(t) \/ OnceStep(t) \/ OnceDropped(t)
    \/ Tick
    \/ OnceDone

OnceSpec == OnceInit /\ [][OnceNext]_once_vars

-----------------------------------------------------------------------------

\* A call that answers from the cache returns a value that was live at some
\* instant between its entry and its return, however long it waited for the
\* lock after it read the clock.
HitLiveDuringCall ==
    [][\A t \in Threads :
          ((OnceRead(t) \/ OnceCheck(t)) /\ pc'[t] = "idle") =>
              \E i \in now[t]..clock : created <= i /\ i < created + Ttl]_once_vars

\* sync_writes: a call that neither forces a refresh nor primes replaces a value
\* only once its ttl has passed, so the body runs at most once per ttl.
OncePerTtl ==
    [][\A t \in Threads :
          (sync_writes = "Default" /\ pc[t] = "set" /\ pc'[t] = "idle" /\ ~call[t].prime /\ ~call[t].force
              /\ created # Empty) => clock >= created + Ttl]_once_vars
=============================================================================
