------------------------ MODULE NearSchedulerProofs ------------------------
(***************************************************************************)
(* What module NearScheduler states of Platform/NearScheduler.c, proved    *)
(* for any table, any width of the tick counter and any delays two ticks   *)
(* short of its revolution.                                                *)
(***************************************************************************)
EXTENDS NearScheduler, FiniteSetTheorems, TLAPS

\* Time is counted modulo the width of the counter.
After(t, n) == (t + n) % TickModulus

\* A handler runs only from the scan, from a slot of the table.
ScanInv == inHandler => scanning /\ ptr < MaxSchedules

\* A deadline is the tick counter's value after as many ticks as are left.
DeadlinesInv == \A k \in Pending : schedules[k].ticks = After(ticks, promise[k].due)

\* The oscillator is ahead of the ticks by at most the one overflow in the flag,
\* and behind them by at most the one that was in it at the start.
InFlag == IF NCO1IF THEN 1 ELSE 0
WasInFlag(k) == IF promise[k].stale THEN 1 ELSE 0

OverflowsInv ==
    \A k \in Pending :
        \/ promise[k].overflows = 0
        \/ promise[k].overflows <= promise[k].due - InFlag + WasInFlag(k)

IInv == /\ TypeOK
        /\ PendingCountMatches
        /\ ScanInv
        /\ NcoRunsIffPending
        /\ NothingOverdue
        /\ DeadlinesInv
        /\ OverflowsInv
-----------------------------------------------------------------------------
(***************************************************************************)
(* Arithmetic on the tick counter.                                         *)
(***************************************************************************)
LEMMA AfterInRange == \A t \in Nat, n \in Nat : After(t, n) \in Ticks
BY NearSchedulerAssumption DEF After, Ticks

\* Adding less than a revolution wraps at most once.
LEMMA AfterWrapsOnce ==
    ASSUME NEW t \in Ticks, NEW n \in 0 .. TickModulus - 1
    PROVE  After(t, n) = IF t + n < TickModulus THEN t + n ELSE t + n - TickModulus
BY NearSchedulerAssumption DEF After, Ticks

\* What is added, one tick later, is one tick less away.
LEMMA OneTickLess ==
    ASSUME NEW t \in Ticks, NEW n \in 1 .. TickModulus - 1
    PROVE  After(After(t, 1), n - 1) = After(t, n)
<1>1. After(t, 1) \in Ticks
  BY AfterInRange, NearSchedulerAssumption DEF Ticks
<1>2. 1 \in 0 .. TickModulus - 1 /\ n \in 0 .. TickModulus - 1 /\ n - 1 \in 0 .. TickModulus - 1
  BY NearSchedulerAssumption
<1>3. After(t, 1) = IF t + 1 < TickModulus THEN t + 1 ELSE t + 1 - TickModulus
  BY <1>2, AfterWrapsOnce
<1>4. After(t, n) = IF t + n < TickModulus THEN t + n ELSE t + n - TickModulus
  BY <1>2, AfterWrapsOnce
<1>5. After(After(t, 1), n - 1) =
          IF After(t, 1) + (n - 1) < TickModulus THEN After(t, 1) + (n - 1)
                                                 ELSE After(t, 1) + (n - 1) - TickModulus
  BY <1>1, <1>2, AfterWrapsOnce
<1> QED BY <1>1, <1>3, <1>4, <1>5, NearSchedulerAssumption DEF Ticks

\* Only a deadline no ticks away is met by the counter as it stands.
LEMMA MetNow ==
    ASSUME NEW t \in Ticks, NEW n \in 0 .. TickModulus - 1
    PROVE  After(t, n) = t <=> n = 0
BY AfterWrapsOnce, NearSchedulerAssumption DEF Ticks

\* However a caller's delay is lengthened, it stays short of a revolution.
LEMMA WaitIsShort == \A delay \in Delays : TicksToWait(delay) \in 1 .. TickModulus - 1
BY NearSchedulerAssumption DEF TicksToWait
-----------------------------------------------------------------------------
(***************************************************************************)
(* The count of pending schedules.                                         *)
(***************************************************************************)
\* The pending slots are among MaxSchedules, so they can be counted.
LEMMA PendingIsFinite ==
    /\ IsFiniteSet(Pending)
    /\ Cardinality(Pending) \in 0 .. MaxSchedules
<1>1. IsFiniteSet(Slots) /\ Cardinality(Slots) = MaxSchedules
  BY FS_Interval, NearSchedulerAssumption DEF Slots
<1>2. Pending \in SUBSET Slots
  BY DEF Pending
<1>3. IsFiniteSet(Pending) /\ Cardinality(Pending) <= MaxSchedules
  BY <1>1, <1>2, FS_Subset
<1> QED BY <1>3, FS_CardinalityType, NearSchedulerAssumption

\* And after any step too.
LEMMA PendingStaysFinite == Cardinality(Pending') \in 0 .. MaxSchedules
<1>1. (Cardinality(Pending) \in 0 .. MaxSchedules)'
  BY PendingIsFinite, PTL
<1> QED BY <1>1

\* An empty table, the NCO off and no scan under way satisfy the invariant.
LEMMA InitEstablishesIInv == Init => IInv
<1> SUFFICES ASSUME Init PROVE IInv
  OBVIOUS
<1>1. Pending = {}
  BY DEF Init, Pending
<1>2. TypeOK
  <2>1. 0 \in Ticks /\ 0 \in 0 .. MaxSchedules
    BY NearSchedulerAssumption DEF Ticks
  <2>2. NoPromise \in [due : Int, overflows : Nat, stale : BOOLEAN]
    BY DEF NoPromise
  <2> QED BY <2>1, <2>2 DEF Init, TypeOK
<1>3. PendingCountMatches
  BY <1>1, FS_EmptySet DEF Init, PendingCountMatches
<1>4. ScanInv /\ NcoRunsIffPending /\ NothingOverdue /\ DeadlinesInv /\ OverflowsInv
  BY <1>1 DEF Init, ScanInv, NcoRunsIffPending, NothingOverdue, DeadlinesInv, OverflowsInv
<1> QED BY <1>2, <1>3, <1>4 DEF IInv

\* The oscillator only touches its flag, and brings the overflows still to come
\* nearer.
LEMMA NcoOverflowPreservesIInv == IInv /\ NcoOverflow => IInv'
<1> SUFFICES ASSUME IInv, NcoOverflow PROVE IInv'
  OBVIOUS
<1> USE DEF IInv
<1>1. UNCHANGED <<ticks, schedules, numberOfPendingSchedules, N1EN, scanning, ptr, inHandler>>
  BY DEF NcoOverflow, scanVars
<1>2. NCO1IF' = TRUE
  BY DEF NcoOverflow
<1>3. Pending' = Pending /\ Pending \subseteq Slots
  BY <1>1 DEF Pending
<1>4. \A k \in Slots :
          /\ promise'[k] \in [due : Int, overflows : Nat, stale : BOOLEAN]
          /\ promise'[k].due = promise[k].due
          /\ promise'[k].stale = promise[k].stale
          /\ promise'[k].overflows =
                 IF promise[k].overflows > 0 THEN promise[k].overflows - 1 ELSE 0
  BY DEF NcoOverflow, TypeOK
<1>5. TypeOK'
  <2>1. promise' \in [Slots -> [due : Int, overflows : Nat, stale : BOOLEAN]]
    BY <1>4 DEF NcoOverflow
  <2> QED BY <1>1, <1>2, <2>1 DEF TypeOK
<1>6. (PendingCountMatches /\ ScanInv /\ NcoRunsIffPending)'
  BY <1>1, <1>3 DEF PendingCountMatches, ScanInv, NcoRunsIffPending
<1>7. NothingOverdue'
  BY <1>1, <1>3, <1>4 DEF NothingOverdue
<1>8. DeadlinesInv'
  BY <1>1, <1>3, <1>4 DEF DeadlinesInv, After
<1>9. OverflowsInv'
  <2> SUFFICES ASSUME NEW k \in Pending
               PROVE  \/ promise'[k].overflows = 0
                      \/ promise'[k].overflows <= promise'[k].due - InFlag' + WasInFlag(k)'
    BY <1>3 DEF OverflowsInv
  <2>1. promise[k].overflows \in Nat /\ promise[k].due \in Int
    BY <1>3 DEF TypeOK
  <2>2. InFlag \in 0 .. 1 /\ InFlag' = 1 /\ WasInFlag(k) \in 0 .. 1
    BY <1>2 DEF InFlag, WasInFlag
  <2>3. \/ promise[k].overflows = 0
        \/ promise[k].overflows <= promise[k].due - InFlag + WasInFlag(k)
    BY DEF OverflowsInv
  <2>4. /\ promise'[k].overflows = IF promise[k].overflows > 0 THEN promise[k].overflows - 1 ELSE 0
        /\ promise'[k].due = promise[k].due
        /\ WasInFlag(k)' = WasInFlag(k)
    BY <1>3, <1>4 DEF WasInFlag
  <2> QED BY <2>1, <2>2, <2>3, <2>4
<1> QED BY <1>5, <1>6, <1>7, <1>8, <1>9

\* A schedule added or updated, in or out of a scan, is less than a revolution
\* away, and the NCO runs for it.
LEMMA AddToPreservesIInv ==
    ASSUME IInv, NEW handler \in Handlers, NEW delay \in Delays, NEW k \in Slots,
           nearSchedulerAddTo(handler, delay, k)
    PROVE  IInv'
<1> USE DEF IInv
<1> PICK n \in 1 .. TickModulus - 1 : n = TicksToWait(delay)
  BY WaitIsShort
<1> DEFINE schedule == [handler |-> handler, ticks |-> After(ticks, n)]
<1>1. /\ UNCHANGED <<ticks, NCO1IF, scanning, ptr, inHandler>>
      /\ N1EN' = TRUE
      /\ numberOfPendingSchedules' =
             numberOfPendingSchedules + (IF schedules[k] = Free THEN 1 ELSE 0)
      /\ schedules' = [schedules EXCEPT ![k] = schedule]
      /\ promise' = [promise EXCEPT ![k] =
             [due |-> n, overflows |-> n, stale |-> NCO1IF]]
  BY DEF nearSchedulerAddTo, scanVars, After
<1>2. n \in Nat
  BY NearSchedulerAssumption
<1>3. schedule \in Schedules /\ schedule # Free
  <2>1. ticks \in Nat
    BY NearSchedulerAssumption DEF TypeOK, Ticks
  <2>2. After(ticks, n) \in Ticks
    BY <1>2, <2>1, AfterInRange
  <2> QED BY <2>2, NearSchedulerAssumption DEF Schedules, Ticks
<1> HIDE DEF schedule
<1>4. Pending' = Pending \cup {k} /\ Pending \subseteq Slots
  BY <1>1, <1>3 DEF Pending, TypeOK
<1>5. PendingCountMatches'
  <2>1. k \in Pending <=> schedules[k] # Free
    BY DEF Pending
  <2>2. Cardinality(Pending') =
            IF k \in Pending THEN Cardinality(Pending) ELSE Cardinality(Pending) + 1
    BY <1>4, PendingIsFinite, FS_AddElement
  <2> QED BY <1>1, <2>1, <2>2, PendingIsFinite DEF PendingCountMatches
<1>6. TypeOK'
  <2>1. numberOfPendingSchedules' \in 0 .. MaxSchedules
    BY <1>5, PendingStaysFinite DEF PendingCountMatches
  <2>2. [due |-> n, overflows |-> n, stale |-> NCO1IF]
            \in [due : Int, overflows : Nat, stale : BOOLEAN]
    BY <1>2 DEF TypeOK
  <2>3. promise' \in [Slots -> [due : Int, overflows : Nat, stale : BOOLEAN]]
    BY <1>1, <2>2 DEF TypeOK
  <2>4. schedules' \in [Slots -> Schedules \cup {Free}]
    BY <1>1, <1>3 DEF TypeOK
  <2> QED BY <1>1, <2>1, <2>3, <2>4 DEF TypeOK
<1>7. (ScanInv /\ NcoRunsIffPending)'
  BY <1>1, <1>4 DEF ScanInv, NcoRunsIffPending
<1>8. /\ promise'[k].due = n /\ promise'[k].overflows = n /\ promise'[k].stale = NCO1IF
      /\ schedules'[k].ticks = After(ticks, n)
      /\ \A j \in Slots \ {k} : promise'[j] = promise[j] /\ schedules'[j] = schedules[j]
  BY <1>1 DEF TypeOK, schedule
<1>9. NothingOverdue'
  BY <1>1, <1>2, <1>4, <1>8 DEF NothingOverdue
<1>10. DeadlinesInv'
  BY <1>1, <1>4, <1>8 DEF DeadlinesInv, After
<1>11. OverflowsInv'
  <2> SUFFICES ASSUME NEW j \in Pending \cup {k}
               PROVE  \/ promise'[j].overflows = 0
                      \/ promise'[j].overflows <= promise'[j].due - InFlag' + WasInFlag(j)'
    BY <1>4 DEF OverflowsInv
  <2>1. CASE j = k
    <3>1. WasInFlag(k)' = InFlag' /\ InFlag' \in 0 .. 1
      BY <1>1, <1>8 DEF WasInFlag, InFlag
    <3>2. n <= n - InFlag' + InFlag'
      BY <3>1, <1>2
    <3>3. promise'[k].overflows <= promise'[k].due - InFlag' + WasInFlag(k)'
      BY <3>1, <3>2, <1>8, Zenon
    <3> QED BY <2>1, <3>3 DEF WasInFlag
  <2>2. CASE j # k
    <3>1. j \in Pending /\ promise'[j] = promise[j]
      BY <2>2, <1>4, <1>8
    <3>2. InFlag' = InFlag /\ WasInFlag(j)' = WasInFlag(j)
      BY <1>1, <3>1 DEF InFlag, WasInFlag
    <3> QED BY <3>1, <3>2 DEF OverflowsInv
  <2> QED BY <2>1, <2>2
<1> QED BY <1>5, <1>6, <1>7, <1>9, <1>10, <1>11

\* A tick brings every deadline one tick nearer, and takes one overflow.
LEMMA TickPreservesIInv == IInv /\ Tick => IInv'
<1> SUFFICES ASSUME IInv, Tick PROVE IInv'
  OBVIOUS
<1> USE DEF IInv
<1>1. /\ ~scanning /\ NCO1IF = TRUE
      /\ NCO1IF' = FALSE /\ scanning' = TRUE /\ ptr' = 0
      /\ ticks' = After(ticks, 1)
      /\ UNCHANGED <<schedules, numberOfPendingSchedules, N1EN, inHandler>>
  BY DEF Tick, After, TypeOK
<1>2. ~inHandler
  BY <1>1 DEF ScanInv
<1>3. Pending' = Pending /\ Pending \subseteq Slots
  BY <1>1 DEF Pending
<1>4. /\ \A k \in Slots \ Pending : promise'[k] = promise[k]
      /\ \A k \in Pending :
             /\ promise'[k] = [promise[k] EXCEPT !.due = promise[k].due - 1]
             /\ promise[k] \in [due : Int, overflows : Nat, stale : BOOLEAN]
  BY <1>3 DEF Tick, TypeOK
<1>5. \A k \in Pending :
          /\ promise[k].due \in 1 .. TickModulus - 1
          /\ promise[k].overflows \in Nat
          /\ promise'[k].due = promise[k].due - 1
          /\ promise'[k].overflows = promise[k].overflows
          /\ promise'[k].stale = promise[k].stale
  BY <1>1, <1>3, <1>4 DEF NothingOverdue
<1>6. TypeOK'
  <2>1. promise' \in [Slots -> [due : Int, overflows : Nat, stale : BOOLEAN]]
    <3>1. \A k \in Slots : promise'[k] \in [due : Int, overflows : Nat, stale : BOOLEAN]
      <4> SUFFICES ASSUME NEW k \in Slots
                   PROVE  promise'[k] \in [due : Int, overflows : Nat,
                                          stale : BOOLEAN]
        OBVIOUS
      <4>1. promise[k] \in [due : Int, overflows : Nat, stale : BOOLEAN]
        BY DEF TypeOK
      <4>2. promise[k].due - 1 \in Int
        BY <4>1
      <4> QED BY <1>4, <4>1, <4>2
    <3> QED BY <3>1 DEF Tick
  <2>2. ticks' \in Ticks
    BY <1>1, AfterInRange, NearSchedulerAssumption DEF TypeOK, Ticks
  <2>3. 0 \in 0 .. MaxSchedules
    BY NearSchedulerAssumption
  <2> QED BY <1>1, <2>1, <2>2, <2>3 DEF TypeOK
<1>7. (PendingCountMatches /\ ScanInv /\ NcoRunsIffPending)'
  BY <1>1, <1>2, <1>3 DEF PendingCountMatches, ScanInv, NcoRunsIffPending
<1>8. NothingOverdue'
  <2> SUFFICES ASSUME NEW k \in Pending
               PROVE  \/ promise'[k].due \in 1 .. TickModulus - 1
                      \/ promise'[k].due = 0 /\ (k > 0 \/ k = 0)
    BY <1>1, <1>2, <1>3 DEF NothingOverdue
  <2>1. k \in Nat
    BY <1>3 DEF Slots
  <2> QED BY <1>5, <2>1, NearSchedulerAssumption
<1>9. DeadlinesInv'
  <2> SUFFICES ASSUME NEW k \in Pending
               PROVE  schedules[k].ticks = After(ticks', promise'[k].due)
    BY <1>1, <1>3 DEF DeadlinesInv, After
  <2>1. After(After(ticks, 1), promise[k].due - 1) = After(ticks, promise[k].due)
    BY <1>5, OneTickLess DEF TypeOK
  <2> QED BY <1>1, <1>5, <2>1 DEF DeadlinesInv
<1>10. OverflowsInv'
  <2> SUFFICES ASSUME NEW k \in Pending
               PROVE  \/ promise'[k].overflows = 0
                      \/ promise'[k].overflows <= promise'[k].due - InFlag' + WasInFlag(k)'
    BY <1>3 DEF OverflowsInv
  <2>1. InFlag = 1 /\ InFlag' = 0
    BY <1>1 DEF InFlag
  <2>2. WasInFlag(k)' = WasInFlag(k) /\ WasInFlag(k) \in 0 .. 1
    BY <1>5 DEF WasInFlag
  <2>3. \/ promise[k].overflows = 0
        \/ promise[k].overflows <= promise[k].due - InFlag + WasInFlag(k)
    BY DEF OverflowsInv
  <2> QED BY <1>5, <2>1, <2>2, <2>3
<1> QED BY <1>6, <1>7, <1>8, <1>9, <1>10

\* The conjuncts of the invariant that see neither the scan nor its handler.
Timing == PendingCountMatches /\ DeadlinesInv /\ OverflowsInv

\* Steps that change neither table, tick nor promise change no deadline.
LEMMA TimingUntouched ==
    ASSUME Timing, UNCHANGED <<ticks, schedules, numberOfPendingSchedules, NCO1IF, promise>>
    PROVE  Timing' /\ Pending' = Pending
BY DEF Timing, PendingCountMatches, DeadlinesInv, OverflowsInv, Pending, After, InFlag, WasInFlag

\* Just the schedules whose deadline has come are called.
LEMMA DueNow ==
    ASSUME IInv, NEW k \in Pending
    PROVE  IsDue(k) <=> promise[k].due = 0
<1>1. /\ ticks \in Ticks
      /\ promise[k].due \in 0 .. TickModulus - 1
      /\ schedules[k].ticks = After(ticks, promise[k].due)
  BY NearSchedulerAssumption DEF IInv, TypeOK, NothingOverdue, DeadlinesInv
<1> QED BY <1>1, MetNow DEF IsDue, Pending

\* A slot that is not due is left for a later tick.
LEMMA SkipPreservesIInv == IInv /\ Skip => IInv'
<1> SUFFICES ASSUME IInv, Skip PROVE IInv'
  OBVIOUS
<1> USE DEF IInv
<1>1. /\ scanning /\ ~inHandler /\ ~IsDue(ptr)
      /\ ptr < MaxSchedules /\ ptr' = ptr + 1
      /\ UNCHANGED <<ticks, schedules, numberOfPendingSchedules, N1EN, NCO1IF, scanning,
                     inHandler, promise>>
  BY DEF Skip
<1>2. ptr \in Nat /\ ptr' \in 0 .. MaxSchedules
  BY <1>1, NearSchedulerAssumption DEF TypeOK
<1>3. TypeOK'
  BY <1>1, <1>2 DEF TypeOK
<1>4. Timing' /\ Pending' = Pending
  BY <1>1, TimingUntouched DEF Timing
<1>5. (ScanInv /\ NcoRunsIffPending)'
  BY <1>1, <1>4 DEF ScanInv, NcoRunsIffPending
<1>6. NothingOverdue'
  <2> SUFFICES ASSUME NEW k \in Pending
               PROVE  \/ promise[k].due \in 1 .. TickModulus - 1
                      \/ promise[k].due = 0 /\ k > ptr
    <3>1. \A j \in Slots : j > ptr => j > ptr + 1 \/ j = ptr + 1
      BY <1>2 DEF Slots
    <3> QED BY <1>1, <1>4, <3>1 DEF NothingOverdue, Pending
  <2>1. k = ptr => promise[k].due # 0
    BY <1>1, DueNow
  <2> QED BY <1>1, <2>1 DEF NothingOverdue
<1> QED BY <1>3, <1>4, <1>5, <1>6 DEF Timing

\* A schedule is taken off the table and off the count before its handler is
\* called, so the handler may use its slot.
LEMMA CallHandlerPreservesIInv == IInv /\ CallHandler => IInv'
<1> SUFFICES ASSUME IInv, CallHandler PROVE IInv'
  OBVIOUS
<1> USE DEF IInv
<1>1. /\ scanning /\ ptr < MaxSchedules /\ IsDue(ptr)
      /\ schedules' = [schedules EXCEPT ![ptr] = Free]
      /\ numberOfPendingSchedules' = numberOfPendingSchedules - 1
      /\ inHandler' = TRUE
      /\ promise' = [promise EXCEPT ![ptr] = NoPromise]
      /\ UNCHANGED <<ticks, N1EN, NCO1IF, scanning, ptr>>
  BY DEF CallHandler
<1>2. ptr \in Slots
  BY <1>1, NearSchedulerAssumption DEF TypeOK, Slots
<1>3. ptr \in Pending /\ Pending' = Pending \ {ptr}
  BY <1>1, <1>2 DEF IsDue, Pending, TypeOK
<1>4. PendingCountMatches'
  <2>1. Cardinality(Pending') = Cardinality(Pending) - 1
    BY <1>3, PendingIsFinite, FS_RemoveElement
  <2> QED BY <1>1, <2>1 DEF PendingCountMatches
<1>5. TypeOK'
  <2>1. numberOfPendingSchedules' \in 0 .. MaxSchedules
    BY <1>4, PendingStaysFinite DEF PendingCountMatches
  <2>2. NoPromise \in [due : Int, overflows : Nat, stale : BOOLEAN]
    BY DEF NoPromise
  <2> QED BY <1>1, <2>1, <2>2 DEF TypeOK
<1>6. (ScanInv /\ NcoRunsIffPending)'
  BY <1>1, <1>3 DEF ScanInv, NcoRunsIffPending
<1>7. \A k \in Pending' : /\ k \in Pending /\ k # ptr
                          /\ promise'[k] = promise[k]
                          /\ schedules'[k] = schedules[k]
  BY <1>1, <1>3 DEF TypeOK, Pending
<1>8. NothingOverdue'
  BY <1>1, <1>7 DEF NothingOverdue
<1>9. DeadlinesInv'
  BY <1>1, <1>7 DEF DeadlinesInv, After
<1>10. OverflowsInv'
  BY <1>1, <1>7 DEF OverflowsInv, InFlag, WasInFlag
<1> QED BY <1>4, <1>5, <1>6, <1>8, <1>9, <1>10

\* When a handler returns the scan goes on from the next slot.
LEMMA HandlerReturnsPreservesIInv == IInv /\ HandlerReturns => IInv'
<1> SUFFICES ASSUME IInv, HandlerReturns PROVE IInv'
  OBVIOUS
<1> USE DEF IInv
<1>1. /\ inHandler /\ inHandler' = FALSE /\ ptr' = ptr + 1
      /\ UNCHANGED <<ticks, schedules, numberOfPendingSchedules, N1EN, NCO1IF, scanning, promise>>
  BY DEF HandlerReturns
<1>2. scanning /\ ptr < MaxSchedules
  BY <1>1 DEF ScanInv
<1>3. ptr \in Nat /\ ptr' \in 0 .. MaxSchedules
  <2>1. ptr' = ptr + 1
    BY <1>1
  <2> QED BY <1>2, <2>1, NearSchedulerAssumption DEF TypeOK
<1>4. TypeOK'
  BY <1>1, <1>3 DEF TypeOK
<1>5. Timing' /\ Pending' = Pending
  BY <1>1, TimingUntouched DEF Timing
<1>6. (ScanInv /\ NcoRunsIffPending)'
  BY <1>1, <1>2, <1>5 DEF ScanInv, NcoRunsIffPending
<1>7. NothingOverdue'
  <2> SUFFICES ASSUME NEW k \in Pending
               PROVE  \/ promise[k].due \in 1 .. TickModulus - 1
                      \/ promise[k].due = 0 /\ k > ptr
    <3>1. \A j \in Slots : j > ptr => j > ptr + 1 \/ j = ptr + 1
      BY <1>3 DEF Slots
    <3> QED BY <1>1, <1>2, <1>5, <3>1 DEF NothingOverdue, Pending
  <2> QED BY <1>1 DEF NothingOverdue
<1> QED BY <1>4, <1>5, <1>6, <1>7 DEF Timing

\* When the scan ends nothing is due, and the NCO stops if nothing is pending.
LEMMA ScanEndsPreservesIInv == IInv /\ ScanEnds => IInv'
<1> SUFFICES ASSUME IInv, ScanEnds PROVE IInv'
  OBVIOUS
<1> USE DEF IInv
<1>1. /\ scanning /\ ptr = MaxSchedules /\ scanning' = FALSE
      /\ N1EN' = (N1EN /\ numberOfPendingSchedules # 0)
      /\ UNCHANGED <<ticks, schedules, numberOfPendingSchedules, NCO1IF, ptr, inHandler, promise>>
  BY DEF ScanEnds
<1>2. ~inHandler
  BY <1>1, NearSchedulerAssumption DEF ScanInv
<1>3. TypeOK'
  BY <1>1 DEF TypeOK
<1>4. Timing' /\ Pending' = Pending
  BY <1>1, TimingUntouched DEF Timing
<1>5. ScanInv'
  BY <1>1, <1>2 DEF ScanInv
<1>6. NcoRunsIffPending'
  <2>1. numberOfPendingSchedules = 0 <=> Pending = {}
    BY PendingIsFinite, FS_EmptySet DEF PendingCountMatches
  <2> QED BY <1>1, <1>4, <2>1 DEF NcoRunsIffPending
<1>7. NothingOverdue'
  <2>1. \A k \in Pending : ~(k > ptr) /\ k # ptr
    BY <1>1, NearSchedulerAssumption DEF Pending, Slots
  <2> QED BY <1>1, <1>4, <2>1 DEF NothingOverdue
<1> QED BY <1>3, <1>4, <1>5, <1>6, <1>7 DEF Timing
-----------------------------------------------------------------------------
\* Whatever the oscillator, the scan or a caller does next keeps the invariant.
LEMMA NextPreservesIInv == IInv /\ [Next]_vars => IInv'
<1> SUFFICES ASSUME IInv, [Next]_vars PROVE IInv'
  OBVIOUS
<1>1. CASE NcoOverflow
  BY <1>1, NcoOverflowPreservesIInv
<1>2. CASE Add
  BY <1>2, AddToPreservesIInv DEF Add, nearSchedulerAdd, nearSchedulerAddOrUpdate
<1>3. CASE OnWokenFromSleep
  BY <1>3, TickPreservesIInv, SkipPreservesIInv, CallHandlerPreservesIInv,
     HandlerReturnsPreservesIInv, ScanEndsPreservesIInv DEF OnWokenFromSleep
<1>4. CASE UNCHANGED vars
  <2>1. UNCHANGED <<ticks, schedules, numberOfPendingSchedules, N1EN, NCO1IF, scanning, ptr,
                    inHandler, promise>>
    BY <1>4 DEF vars, scanVars
  <2>2. Timing' /\ Pending' = Pending
    BY <2>1, TimingUntouched DEF Timing, IInv
  <2>3. (TypeOK /\ ScanInv /\ NcoRunsIffPending /\ NothingOverdue)'
    BY <2>1, <2>2 DEF IInv, TypeOK, ScanInv, NcoRunsIffPending, NothingOverdue
  <2> QED BY <2>2, <2>3 DEF IInv, Timing
<1> QED BY <1>1, <1>2, <1>3, <1>4 DEF Next

\* So it holds for ever.
LEMMA IInvHolds == Spec => []IInv
BY InitEstablishesIInv, NextPreservesIInv, PTL DEF Spec

\* The byte counters keep their widths and the scan stays inside the table.
THEOREM TypeCorrect == Spec => []TypeOK
BY IInvHolds, PTL DEF IInv

\* The count of pending schedules agrees with the table.
THEOREM CountIsRight == Spec => []PendingCountMatches
BY IInvHolds, PTL DEF IInv

\* The NCO runs for as long as there is something to time, and no longer.
THEOREM NcoIsRight == Spec => []NcoRunsIffPending
BY IInvHolds, PTL DEF IInv

\* No deadline is ever passed over.
THEOREM NeverOverdue == Spec => []NothingOverdue
BY IInvHolds, PTL DEF IInv

\* Comparing bytes for equality is enough: every handler is called in exactly
\* the tick its caller was promised, whatever was added since, by whom, and
\* however often the counter has wrapped.
THEOREM OnTime == Spec => CalledInPromisedTick
<1>1. IInv /\ [Next]_vars => [CallHandler => promise[ptr].due = 0]_vars
  <2> SUFFICES ASSUME IInv, CallHandler PROVE promise[ptr].due = 0
    OBVIOUS
  <2>1. ptr \in Pending /\ IsDue(ptr)
    BY NearSchedulerAssumption DEF CallHandler, IsDue, Pending, Slots, IInv, TypeOK
  <2> QED BY <2>1, DueNow
<1> QED BY <1>1, IInvHolds, PTL DEF Spec, CalledInPromisedTick

\* Losing overflows never makes a delay shorter: against the oscillator itself a
\* handler is early by the one overflow that was already in the flag, or not at all.
THEOREM NotEarly == Spec => NeverEarly
<1>1. IInv /\ [Next]_vars =>
          [CallHandler => promise[ptr].overflows <= IF promise[ptr].stale THEN 1 ELSE 0]_vars
  <2> SUFFICES ASSUME IInv, CallHandler
               PROVE  promise[ptr].overflows <= WasInFlag(ptr)
    BY DEF WasInFlag
  <2>1. ptr \in Pending /\ IsDue(ptr)
    BY NearSchedulerAssumption DEF CallHandler, IsDue, Pending, Slots, IInv, TypeOK
  <2>2. promise[ptr].due = 0
    BY <2>1, DueNow
  <2>3. \/ promise[ptr].overflows = 0
        \/ promise[ptr].overflows <= promise[ptr].due - InFlag + WasInFlag(ptr)
    BY <2>1 DEF IInv, OverflowsInv
  <2>4. InFlag \in 0 .. 1 /\ WasInFlag(ptr) \in 0 .. 1 /\ promise[ptr].overflows \in Nat
    BY <2>1 DEF InFlag, WasInFlag, IInv, TypeOK, Pending
  <2> QED BY <2>2, <2>3, <2>4
<1> QED BY <1>1, IInvHolds, PTL DEF Spec, NeverEarly
=============================================================================
