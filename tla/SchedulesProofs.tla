--------------------------- MODULE SchedulesProofs ---------------------------
(***************************************************************************)
(* Proofs about module Schedules, for any number of slots, of minutes and  *)
(* of days, any settings and any times of the sun.                         *)
(***************************************************************************)
EXTENDS Schedules, FiniteSetTheorems, TLAPS

Bytes == 0 .. DiscriminatorModulus - 1

\* A table holds a schedule in one slot at the most, or in none.
OnceIn(table, s) ==
    \A j, k \in Slots : table[j].data = s /\ table[k].data = s => j = k
AbsentFrom(table, s) == \A k \in Slots : table[k].data # s

\* Removing a schedule leaves a table, without it and with the others as they were.
LEMMA RemoveRemoves ==
    ASSUME NEW table \in Tables, NEW s \in DoorSchedules
    PROVE  /\ farSchedulerRemove(table, s) \in Tables
           /\ AbsentFrom(farSchedulerRemove(table, s), s)
           /\ \A r \in DoorSchedules :
                  /\ OnceIn(table, r) => OnceIn(farSchedulerRemove(table, s), r)
                  /\ AbsentFrom(table, r) => AbsentFrom(farSchedulerRemove(table, s), r)
<1> DEFINE after == farSchedulerRemove(table, s)
<1>1. after \in Tables
  BY DEF farSchedulerRemove, Tables
<1>2. \A k \in Slots : after[k].data # s
  BY DEF farSchedulerRemove, Tables, Null, DoorSchedules
<1>3. \A k \in Slots, r \in DoorSchedules : after[k].data = r => table[k].data = r
  BY DEF farSchedulerRemove, Tables, Null, DoorSchedules
<1> HIDE DEF after
<1>4. \A r \in DoorSchedules : OnceIn(table, r) => OnceIn(after, r)
  BY <1>3 DEF OnceIn
<1>5. \A r \in DoorSchedules : AbsentFrom(table, r) => AbsentFrom(after, r)
  BY <1>3 DEF AbsentFrom
<1> QED BY <1>1, <1>2, <1>4, <1>5 DEF AbsentFrom, after

\* Adding a schedule that a table does not hold leaves a table that holds it once
\* at the most, and the others as they were.
LEMMA AddAddsOnce ==
    ASSUME NEW table \in Tables, NEW s \in DoorSchedules, NEW day \in Bytes,
           AbsentFrom(table, s)
    PROVE  /\ farSchedulerAdd(table, s, day) \in Tables
           /\ OnceIn(farSchedulerAdd(table, s, day), s)
           /\ \A r \in DoorSchedules \ {s} :
                  /\ OnceIn(table, r) => OnceIn(farSchedulerAdd(table, s, day), r)
                  /\ AbsentFrom(table, r) => AbsentFrom(farSchedulerAdd(table, s, day), r)
<1> DEFINE after == farSchedulerAdd(table, s, day)
<1>1. after \in Tables
  BY DEF farSchedulerAdd, Tables, Bytes
<1>2. \A k \in Slots : after[k].data = s => FirstFree(table, k)
  BY DEF farSchedulerAdd, Tables, AbsentFrom
<1>3. \A j, k \in Slots : FirstFree(table, j) /\ FirstFree(table, k) => j = k
  BY SchedulesAssumption DEF FirstFree, Slots
<1>4. \A k \in Slots, r \in DoorSchedules \ {s} : after[k].data = r => table[k].data = r
  BY DEF farSchedulerAdd, Tables
<1> HIDE DEF after
<1>5. OnceIn(after, s)
  BY <1>2, <1>3 DEF OnceIn
<1>6. \A r \in DoorSchedules \ {s} : OnceIn(table, r) => OnceIn(after, r)
  BY <1>4 DEF OnceIn
<1>7. \A r \in DoorSchedules \ {s} : AbsentFrom(table, r) => AbsentFrom(after, r)
  BY <1>4 DEF AbsentFrom
<1> QED BY <1>1, <1>5, <1>6, <1>7 DEF after

\* A schedule in no slot is in one at the most.
LEMMA AbsentIsOnce ==
    \A table, s : AbsentFrom(table, s) => OnceIn(table, s)
BY DEF AbsentFrom, OnceIn

TableOK(table) == table \in Tables /\ \A s \in DoorSchedules : OnceIn(table, s)

\* Replacing a schedule keeps a table in order.
LEMMA ReplaceKeepsOrder ==
    ASSUME NEW table, TableOK(table), NEW s \in DoorSchedules, dateDiscriminator \in Bytes
    PROVE  TableOK(Replace(table, s))
<1> DEFINE removed == farSchedulerRemove(table, s)
<1>1. removed \in Tables /\ AbsentFrom(removed, s)
      /\ \A r \in DoorSchedules : OnceIn(removed, r)
  BY RemoveRemoves DEF TableOK
<1> HIDE DEF removed
<1>2. /\ farSchedulerAdd(removed, s, dateDiscriminator) \in Tables
      /\ \A r \in DoorSchedules : OnceIn(farSchedulerAdd(removed, s, dateDiscriminator), r)
  BY <1>1, AddAddsOnce
<1> QED BY <1>2 DEF Replace, TableOK, removed

\* Both schedules of the door can be removed, in either case, and added again.
LEMMA UnscheduledIsEmpty ==
    ASSUME TableOK(schedules)
    PROVE  TableOK(Unscheduled) /\ \A s \in DoorSchedules : AbsentFrom(Unscheduled, s)
<1> DEFINE removed == farSchedulerRemove(schedules, "open")
<1>0. {"open", "close"} = DoorSchedules
  BY DEF DoorSchedules
<1>1. removed \in Tables /\ AbsentFrom(removed, "open")
  BY <1>0, RemoveRemoves DEF TableOK
<1> HIDE DEF removed
<1>2. /\ farSchedulerRemove(removed, "close") \in Tables
      /\ \A s \in DoorSchedules : AbsentFrom(farSchedulerRemove(removed, "close"), s)
  BY <1>0, <1>1, RemoveRemoves
<1> QED BY <1>2, AbsentIsOnce DEF Unscheduled, TableOK, removed

LEMMA BothAreAdded ==
    ASSUME TableOK(schedules), NEW day \in Bytes
    PROVE  TableOK(farSchedulerAdd(farSchedulerAdd(Unscheduled, "open", day), "close", day))
<1> DEFINE none == Unscheduled
           one == farSchedulerAdd(none, "open", day)
<1>0. {"open", "close"} = DoorSchedules
  BY DEF DoorSchedules
<1>1. none \in Tables /\ \A s \in DoorSchedules : AbsentFrom(none, s)
  BY UnscheduledIsEmpty DEF TableOK
<1> HIDE DEF none
<1>2. one \in Tables /\ OnceIn(one, "open") /\ AbsentFrom(one, "close")
  BY <1>0, <1>1, AddAddsOnce
<1> HIDE DEF one
<1>3. /\ farSchedulerAdd(one, "close", day) \in Tables
      /\ OnceIn(farSchedulerAdd(one, "close", day), "close")
      /\ OnceIn(farSchedulerAdd(one, "close", day), "open")
  BY <1>0, <1>2, AddAddsOnce
<1> QED BY <1>0, <1>3 DEF TableOK, none, one
-----------------------------------------------------------------------------
(***************************************************************************)
(* The invariant is inductive as it stands.                                *)
(***************************************************************************)
IInv == TypeOK /\ HeldOnce

LEMMA TableIsOK == IInv => TableOK(schedules)
BY DEF IInv, TypeOK, HeldOnce, TableOK, OnceIn

\* What the handlers for dates and settings leave.
LEMMA DateOrSettingsKeepOrder ==
    ASSUME IInv, NEW day \in Bytes, onDateOrNvmSettingsChanged(day)
    PROVE  /\ TableOK(schedules')
           /\ scheduleTime' \in [DoorSchedules -> Minutes]
<1>1. TableOK(schedules)
  BY TableIsOK
<1>2. TableOK(schedules')
  BY <1>1, UnscheduledIsEmpty, BothAreAdded DEF onDateOrNvmSettingsChanged
<1>3. scheduleTime' \in [DoorSchedules -> Minutes]
  BY SettingsAssumption DEF onDateOrNvmSettingsChanged, IInv, TypeOK, DoorSchedules, Minutes
<1> QED BY <1>2, <1>3

\* What the handler for the sun's times leaves.
LEMMA SunEventsKeepOrder ==
    ASSUME IInv, onSunEventsChanged
    PROVE  /\ TableOK(schedules')
           /\ scheduleTime' \in [DoorSchedules -> Minutes]
<1>1. TableOK(schedules) /\ dateDiscriminator \in Bytes
  BY TableIsOK DEF IInv, TypeOK, Bytes
<1>2. TableOK(Replace(schedules, "open"))
  BY <1>1, ReplaceKeepsOrder DEF DoorSchedules
<1>3. TableOK(Replace(Replace(schedules, "open"), "close"))
  BY <1>1, <1>2, ReplaceKeepsOrder DEF DoorSchedules
<1>4. TableOK(schedules')
  BY <1>1, <1>3 DEF onSunEventsChanged
<1>5. scheduleTime' \in [DoorSchedules -> Minutes]
  BY DEF onSunEventsChanged, IInv, TypeOK
<1> QED BY <1>4, <1>5

\* A minute only empties slots.
LEMMA MinuteKeepsOrder ==
    ASSUME IInv, onTimeChanged
    PROVE  TableOK(schedules')
<1>1. TableOK(schedules)
  BY TableIsOK
<1>2. schedules' = [k \in Slots |->
          IF IsDue(k) THEN [schedules[k] EXCEPT !.data = Null] ELSE schedules[k]]
  BY DEF onTimeChanged
<1>3. schedules' \in Tables
  BY <1>1, <1>2 DEF TableOK, Tables
<1>4. \A k \in Slots, r \in DoorSchedules : schedules'[k].data = r => schedules[k].data = r
  BY <1>1, <1>2 DEF TableOK, Tables, Null, DoorSchedules
<1> QED BY <1>1, <1>3, <1>4 DEF TableOK, OnceIn

\* The state of a restarted firmware, which is also that of the first start.
LEMMA EmptyTableIsOK ==
    LET empty == [k \in Slots |-> [dateDiscriminator |-> 0, data |-> Null]]
    IN  TableOK(empty)
<1> DEFINE empty == [k \in Slots |-> [dateDiscriminator |-> 0, data |-> Null]]
<1>1. empty \in Tables
  BY SchedulesAssumption DEF Tables
<1>2. \A k \in Slots, r \in DoorSchedules : empty[k].data # r
  BY DEF Null, DoorSchedules
<1> QED BY <1>1, <1>2 DEF TableOK, OnceIn

LEMMA InitIsOK == Init => IInv
<1> SUFFICES ASSUME Init PROVE IInv
  OBVIOUS
<1>1. TableOK(schedules)
  BY EmptyTableIsOK DEF Init
<1>2. HeldOnce
  BY <1>1 DEF TableOK, OnceIn, HeldOnce
<1>3. TypeOK
  <2>1. [open |-> 0, close |-> 0] \in [DoorSchedules -> Minutes]
    BY SchedulesAssumption DEF DoorSchedules, Minutes
  <2>2. 0 \in Minutes /\ 0 \in Days /\ 1 \in 0 .. DiscriminatorModulus - 1
    BY SchedulesAssumption DEF Minutes, Days
  <2>3. nvmSettings \in Settings /\ nvmSettings.location \in Locations
    BY SettingsAssumption DEF Init
  <2>4. sunEvents \in [DoorSchedules -> Minutes] /\ scheduleTime \in [DoorSchedules -> Minutes]
    BY <2>1 DEF Init
  <2>5. obeyed \in [DoorSchedules -> 0 .. 2] /\ disturbed \in BOOLEAN
    <3>1. [s \in DoorSchedules |-> 0] \in [DoorSchedules -> 0 .. 2]
      OBVIOUS
    <3> QED BY <3>1 DEF Init
  <2>6. now \in Minutes /\ today \in Days /\ sunDay \in Days
        /\ dateDiscriminator \in 0 .. DiscriminatorModulus - 1
        /\ location \in Locations /\ sunLocation \in Locations
    BY <2>2, <2>3 DEF Init
  <2> QED BY <1>1, <2>3, <2>4, <2>5, <2>6 DEF TypeOK, TableOK
<1> QED BY <1>2, <1>3 DEF IInv

\* Whatever leaves the table in order and the rest in range keeps the invariant.
LEMMA StepKeepsIInv ==
    ASSUME IInv, [Next]_vars
    PROVE  IInv'
<1> USE DEF IInv
<1>0. TableOK(schedules)
  BY TableIsOK
<1>a. ASSUME TypeOK', TableOK(schedules')
      PROVE  IInv'
  BY <1>a DEF TableOK, OnceIn, HeldOnce
<1>1. CASE DateChanged
  <2>1. dateDiscriminator' \in Bytes
    BY <1>1, SchedulesAssumption DEF DateChanged, TypeOK, Bytes
  <2>2. TableOK(schedules') /\ scheduleTime' \in [DoorSchedules -> Minutes]
    BY <1>1, <2>1, DateOrSettingsKeepOrder DEF DateChanged
  <2>3. sunEvents' \in [DoorSchedules -> Minutes]
    BY <1>1, SunTimesAssumption
    DEF DateChanged, sunEventsCalculate, TypeOK, Days, Minutes, DoorSchedules
  <2>4. TypeOK'
    BY <1>1, <2>1, <2>2, <2>3
    DEF DateChanged, TypeOK, TableOK, Bytes, clockVars, history
  <2> QED BY <1>a, <2>2, <2>4
<1>2. CASE TimeChanged
  <2>1. TableOK(schedules')
    BY <1>2, MinuteKeepsOrder DEF TimeChanged
  <2>2. obeyed' \in [DoorSchedules -> 0 .. 2]
    BY <1>2 DEF TimeChanged, TypeOK
  <2>3. TypeOK'
    BY <1>2, <2>1, <2>2 DEF TimeChanged, TypeOK, TableOK, clockVars, sunVars
  <2> QED BY <1>a, <2>1, <2>3
<1>3. CASE SunEventsChanged
  <2>1. TableOK(schedules') /\ scheduleTime' \in [DoorSchedules -> Minutes]
    BY <1>3, SunEventsKeepOrder DEF SunEventsChanged
  <2>2. TypeOK'
    BY <1>3, <2>1 DEF SunEventsChanged, TypeOK, TableOK, clockVars, sunVars, history
  <2> QED BY <1>a, <2>1, <2>2
<1>4. CASE NvmSettingsChanged
  <2>1. TableOK(schedules') /\ scheduleTime' \in [DoorSchedules -> Minutes]
    BY <1>4, DateOrSettingsKeepOrder DEF NvmSettingsChanged, TypeOK, Bytes
  <2>2. TypeOK'
    BY <1>4, <2>1, SettingsAssumption
    DEF NvmSettingsChanged, TypeOK, TableOK, clockVars, sunVars
  <2> QED BY <1>a, <2>1, <2>2
<1>5. CASE LocationChanged
  <2>1. sunEvents' \in [DoorSchedules -> Minutes]
    BY <1>5, SunTimesAssumption
    DEF LocationChanged, sunEventsCalculate, TypeOK, Days, Minutes, DoorSchedules
  <2>2. TableOK(schedules')
    BY <1>0, <1>5 DEF LocationChanged, farVars
  <2>3. TypeOK'
    BY <1>5, <2>1 DEF LocationChanged, TypeOK, clockVars, farVars, history
  <2> QED BY <1>a, <2>2, <2>3
<1>6. CASE ScheduleActioned
  <2>1. TypeOK' /\ TableOK(schedules')
    BY <1>0, <1>6 DEF ScheduleActioned, TypeOK, clockVars, sunVars, farVars, history
  <2> QED BY <1>a, <2>1
<1>7. CASE clockTicked
  <2>1. now' \in Minutes /\ today' \in Days
    BY <1>7, SchedulesAssumption DEF clockTicked, TypeOK, Minutes, Days
  <2>2. obeyed' \in [DoorSchedules -> 0 .. 2]
    BY <1>7 DEF clockTicked, TypeOK, history
  <2>3. disturbed' \in BOOLEAN
    BY <1>7, Zenon DEF clockTicked, TypeOK, IsPending, history
  <2>4. TypeOK' /\ TableOK(schedules')
    BY <1>0, <1>7, <2>1, <2>2, <2>3 DEF clockTicked, TypeOK, sunVars, farVars
  <2> QED BY <1>a, <2>4
<1>8. CASE clockSetNowGmt
  <2>1. TypeOK' /\ TableOK(schedules')
    BY <1>0, <1>8 DEF clockSetNowGmt, TypeOK, sunVars, farVars
  <2> QED BY <1>a, <2>1
<1>9. CASE nvmSettingsStore
  <2>1. TypeOK' /\ TableOK(schedules')
    BY <1>0, <1>9 DEF nvmSettingsStore, TypeOK, clockVars, sunVars, farVars
  <2> QED BY <1>a, <2>1
<1>10. CASE Restart
  <2>1. TableOK(schedules')
    BY <1>10, EmptyTableIsOK DEF Restart
  <2>2. [open |-> 0, close |-> 0] \in [DoorSchedules -> Minutes]
    BY SchedulesAssumption DEF DoorSchedules, Minutes
  <2>3. 0 \in Minutes /\ 0 \in Days /\ 1 \in 0 .. DiscriminatorModulus - 1
    BY SchedulesAssumption DEF Minutes, Days
  <2>4. nvmSettings' \in Settings /\ location' \in Locations /\ sunLocation' \in Locations
    BY <1>10, SettingsAssumption DEF Restart, TypeOK
  <2>5. /\ sunEvents' \in [DoorSchedules -> Minutes]
        /\ scheduleTime' \in [DoorSchedules -> Minutes]
    BY <1>10, <2>2 DEF Restart
  <2>6. obeyed' \in [DoorSchedules -> 0 .. 2] /\ disturbed' \in BOOLEAN
    <3>1. [s \in DoorSchedules |-> 0] \in [DoorSchedules -> 0 .. 2]
      OBVIOUS
    <3> QED BY <3>1, <1>10 DEF Restart
  <2>7. /\ now' \in Minutes /\ today' \in Days /\ sunDay' \in Days
        /\ dateDiscriminator' \in 0 .. DiscriminatorModulus - 1
    BY <1>10, <2>3 DEF Restart
  <2>8. TypeOK'
    BY <2>1, <2>4, <2>5, <2>6, <2>7 DEF TypeOK, TableOK
  <2> QED BY <1>a, <2>1, <2>8
<1>11. CASE UNCHANGED vars
  <2>1. TypeOK' /\ TableOK(schedules')
    BY <1>0, <1>11 DEF vars, TypeOK, clockVars, sunVars, farVars, history
  <2> QED BY <1>a, <2>1
<1> QED
  BY <1>1, <1>2, <1>3, <1>4, <1>5, <1>6, <1>7, <1>8, <1>9, <1>10, <1>11 DEF Next

LEMMA Invariant == Spec => []IInv
<1>1. IInv /\ [Next]_vars => IInv'
  BY StepKeepsIInv
<1> QED BY InitIsOK, <1>1, PTL DEF Spec

\* Every variable stays in its range, whatever is set and stored when, and through
\* every restart.
THEOREM TypeCorrect == Spec => []TypeOK
BY Invariant, PTL DEF IInv

\* Neither of the door's schedules is ever in two slots of the far scheduler, so
\* that none is actioned twice for one day and no slot leaks (FarScheduler.c).
THEOREM NeverHeldTwice == Spec => []HeldOnce
BY Invariant, PTL DEF IInv
-----------------------------------------------------------------------------
(***************************************************************************)
(* What a handler leaves pending.                                          *)
(***************************************************************************)
Types == {"DATE_CHANGED", "TIME_CHANGED", "SUN_EVENTS_CHANGED", "NVM_SETTINGS_CHANGED",
          "LOCATION_CHANGED", Actioned.open, Actioned.close, "UNHEARD"}

QueueOK == queue \in Seq(Types)

In(events, type) == \E k \in 1 .. Len(events) : events[k] = type
Once(type) == \A j, k \in 1 .. Len(queue) : queue[j] = type /\ queue[k] = type => j = k
Before(first, second) ==
    \A j, k \in 1 .. Len(queue) : queue[j] = first /\ queue[k] = second => j < k

\* Handling an event moves the others one place ahead of what it publishes.
LEMMA PublishShifts ==
    ASSUME QueueOK, queue # <<>>, NEW events \in Seq(Types), Publish(events)
    PROVE  /\ QueueOK'
           /\ Len(queue') = Len(queue) - 1 + Len(events)
           /\ \A k \in 1 .. Len(queue) - 1 : queue'[k] = queue[k + 1]
           /\ \A k \in 1 .. Len(events) : queue'[Len(queue) - 1 + k] = events[k]
<1> DEFINE rest == Tail(queue)
<1>1. rest \in Seq(Types) /\ Len(rest) = Len(queue) - 1
      /\ \A k \in 1 .. Len(rest) : rest[k] = queue[k + 1]
  BY DEF QueueOK
<1>2. queue' = rest \o events
  BY DEF Publish
<1> HIDE DEF rest
<1>3. queue' \in Seq(Types) /\ Len(queue') = Len(rest) + Len(events)
  BY <1>1, <1>2
<1>4. \A k \in 1 .. Len(rest) : queue'[k] = rest[k]
  BY <1>1, <1>2
<1>5. \A k \in 1 .. Len(events) : queue'[Len(rest) + k] = events[k]
  BY <1>1, <1>2
<1> QED BY <1>1, <1>3, <1>4, <1>5 DEF QueueOK

\* An event that is not handled stays pending, at the same place among the others.
LEMMA PublishKeepsPending ==
    ASSUME QueueOK, queue # <<>>, NEW events \in Seq(Types), Publish(events), NEW type
    PROVE  /\ Head(queue) # type => IsPending(type)' <=> (IsPending(type) \/ In(events, type))
           /\ Head(queue) = type /\ Once(type) /\ ~In(events, type) => ~IsPending(type)'
           /\ Once(type) /\ ~In(events, type) => Once(type)'
           /\ ~IsPending(type) /\ Len(events) = 1 => Once(type)'
           /\ In(events, type) => IsPending(type)'
<1> DEFINE n == Len(queue)
           m == Len(events)
<1>1. /\ Len(queue') = n - 1 + m
      /\ \A k \in 1 .. n - 1 : queue'[k] = queue[k + 1]
      /\ \A k \in 1 .. m : queue'[n - 1 + k] = events[k]
  BY PublishShifts
<1>2. n \in Nat /\ n > 0 /\ m \in Nat /\ Head(queue) = queue[1]
  BY DEF QueueOK
<1>a. Len(queue') \in Nat
  BY <1>1, <1>2
<1> HIDE DEF n, m
<1>3. \A k \in 1 .. Len(queue') :
          \/ k \in 1 .. n - 1 /\ queue'[k] = queue[k + 1]
          \/ k - (n - 1) \in 1 .. m /\ queue'[k] = events[k - (n - 1)]
  <2> SUFFICES ASSUME NEW k \in 1 .. Len(queue')
               PROVE  \/ k \in 1 .. n - 1 /\ queue'[k] = queue[k + 1]
                      \/ k - (n - 1) \in 1 .. m /\ queue'[k] = events[k - (n - 1)]
    OBVIOUS
  <2>1. CASE k <= n - 1
    BY <1>1, <1>2, <2>1
  <2>2. CASE k > n - 1
    <3>1. k - (n - 1) \in 1 .. m /\ n - 1 + (k - (n - 1)) = k
      BY <1>1, <1>2, <2>2
    <3> QED BY <1>1, <3>1
  <2> QED BY <1>2, <2>1, <2>2
<1>4. In(events, type) => IsPending(type)'
  BY <1>1, <1>2 DEF In, IsPending, m
<1>5. ASSUME IsPending(type), Head(queue) # type PROVE IsPending(type)'
  <2>1. PICK k \in 1 .. n : queue[k] = type
    BY <1>5 DEF IsPending, n
  <2>2. k - 1 \in 1 .. n - 1 /\ queue'[k - 1] = type
    BY <1>1, <1>2, <1>5, <2>1
  <2> QED BY <1>1, <1>2, <2>2 DEF IsPending
<1>6. ASSUME IsPending(type)'
      PROVE  (\E k \in 2 .. n : queue[k] = type) \/ In(events, type)
  <2>1. PICK k \in 1 .. Len(queue') : queue'[k] = type
    BY <1>6 DEF IsPending
  <2>2. CASE k \in 1 .. n - 1 /\ queue'[k] = queue[k + 1]
    BY <1>2, <2>1, <2>2
  <2>3. CASE k - (n - 1) \in 1 .. m /\ queue'[k] = events[k - (n - 1)]
    BY <2>1, <2>3 DEF In, m
  <2> QED BY <1>3, <2>2, <2>3
<1>7. Head(queue) # type => IsPending(type)' <=> (IsPending(type) \/ In(events, type))
  <2>1. (\E k \in 2 .. n : queue[k] = type) => IsPending(type)
    BY <1>2 DEF IsPending, n
  <2>2. IsPending(type) \in BOOLEAN /\ IsPending(type)' \in BOOLEAN /\ In(events, type) \in BOOLEAN
    BY Zenon DEF IsPending, In
  <2> QED BY <1>4, <1>5, <1>6, <2>1, <2>2
<1>8. Head(queue) = type /\ Once(type) /\ ~In(events, type) => ~IsPending(type)'
  BY <1>2, <1>6 DEF Once, n
<1>9. ASSUME Once(type), ~In(events, type) PROVE Once(type)'
  <2>1. \A k \in 1 .. Len(queue') :
            queue'[k] = type => k \in 1 .. n - 1 /\ k + 1 \in 1 .. n /\ queue[k + 1] = type
    BY <1>2, <1>3, <1>9 DEF In, m
  <2>2. ASSUME NEW j \in 1 .. Len(queue'), NEW k \in 1 .. Len(queue'),
               queue'[j] = type, queue'[k] = type
        PROVE  j = k
    <3>1. j + 1 = k + 1
      BY <1>9, <2>1, <2>2 DEF Once, n
    <3> QED BY <1>a, <3>1
  <2> QED BY <2>2 DEF Once
<1>10. ASSUME ~IsPending(type), m = 1 PROVE Once(type)'
  <2>1. \A k \in 1 .. Len(queue') : queue'[k] = type => k = n
    BY <1>2, <1>3, <1>10 DEF IsPending, n
  <2> QED BY <2>1 DEF Once
<1> QED BY <1>4, <1>7, <1>8, <1>9, <1>10 DEF m

\* What is published is behind all that was pending.
LEMMA PublishKeepsOrder ==
    ASSUME QueueOK, queue # <<>>, NEW events \in Seq(Types), Publish(events),
           NEW first, NEW second, Before(first, second), ~In(events, first)
    PROVE  Before(first, second)'
<1> DEFINE n == Len(queue)
           m == Len(events)
<1>1. /\ Len(queue') = n - 1 + m
      /\ \A k \in 1 .. n - 1 : queue'[k] = queue[k + 1]
      /\ \A k \in 1 .. m : queue'[n - 1 + k] = events[k]
  BY PublishShifts
<1>2. n \in Nat /\ n > 0 /\ m \in Nat
  BY DEF QueueOK
<1> HIDE DEF n, m
<1>3. ASSUME NEW j \in 1 .. Len(queue'), NEW k \in 1 .. Len(queue'),
             queue'[j] = first, queue'[k] = second
      PROVE  j < k
  <2>1. j <= n - 1
    <3> SUFFICES ASSUME j > n - 1 PROVE FALSE
      BY <1>1, <1>2
    <3>1. j - (n - 1) \in 1 .. m /\ n - 1 + (j - (n - 1)) = j
      BY <1>1, <1>2
    <3>2. events[j - (n - 1)] = first
      BY <1>1, <1>3, <3>1
    <3> QED BY <3>1, <3>2 DEF In, m
  <2>2. CASE k > n - 1
    BY <1>1, <1>2, <2>1, <2>2
  <2>3. CASE k <= n - 1
    <3>1. queue[j + 1] = first /\ queue[k + 1] = second
      BY <1>1, <1>2, <1>3, <2>1, <2>3
    <3>2. j + 1 < k + 1
      BY <1>1, <1>2, <2>1, <2>3, <3>1 DEF Before, n
    <3> QED BY <1>1, <1>2, <3>2
  <2> QED BY <1>1, <1>2, <2>2, <2>3
<1> QED BY <1>3 DEF Before

\* Whoever is not a handler only adds to what is pending.
LEMMA AppendKeepsPending ==
    ASSUME QueueOK, NEW events \in Seq(Types), queue' = queue \o events, NEW type
    PROVE  /\ QueueOK'
           /\ IsPending(type)' <=> (IsPending(type) \/ In(events, type))
<1>1. /\ QueueOK' /\ Len(queue') = Len(queue) + Len(events)
      /\ \A k \in 1 .. Len(queue) : queue'[k] = queue[k]
      /\ \A k \in 1 .. Len(events) : queue'[Len(queue) + k] = events[k]
      /\ Len(queue) \in Nat /\ Len(events) \in Nat
  BY DEF QueueOK
<1>2. IsPending(type) => IsPending(type)'
  BY <1>1 DEF IsPending
<1>3. In(events, type) => IsPending(type)'
  BY <1>1 DEF IsPending, In
<1>4. ASSUME IsPending(type)' PROVE IsPending(type) \/ In(events, type)
  <2>1. PICK k \in 1 .. Len(queue') : queue'[k] = type
    BY <1>4 DEF IsPending
  <2>2. CASE k <= Len(queue)
    BY <1>1, <2>1, <2>2 DEF IsPending
  <2>3. CASE k > Len(queue)
    <3>1. k - Len(queue) \in 1 .. Len(events) /\ Len(queue) + (k - Len(queue)) = k
      BY <1>1, <2>3
    <3> QED BY <1>1, <2>1, <3>1 DEF In
  <2> QED BY <1>1, <2>2, <2>3
<1>5. IsPending(type) \in BOOLEAN /\ IsPending(type)' \in BOOLEAN /\ In(events, type) \in BOOLEAN
  BY Zenon DEF IsPending, In
<1> QED BY <1>1, <1>2, <1>3, <1>4, <1>5

LEMMA WhatIsIn ==
    /\ \A type : ~In(<<>>, type)
    /\ \A event, type : In(<<event>>, type) <=> event = type
    /\ \A first, second, type : In(<<first, second>>, type) <=> first = type \/ second = type
BY DEF In
-----------------------------------------------------------------------------
(***************************************************************************)
(* What the handlers do to the table.                                      *)
(***************************************************************************)
ForDay(table, s, day) ==
    \A k \in Slots : table[k].data = s => table[k].dateDiscriminator = day

\* A schedule that is added to a table with a free slot is held for the given day;
\* the table of the two schedules always has one, since MaxSchedules is at least two.
LEMMA AddHolds ==
    ASSUME NEW table \in Tables, NEW s \in DoorSchedules, NEW day \in Bytes,
           AbsentFrom(table, s), \A r \in DoorSchedules : OnceIn(table, r)
    PROVE  /\ ~AbsentFrom(farSchedulerAdd(table, s, day), s)
           /\ ForDay(farSchedulerAdd(table, s, day), s, day)
           /\ \A r \in DoorSchedules \ {s} :
                  /\ ~AbsentFrom(table, r) => ~AbsentFrom(farSchedulerAdd(table, s, day), r)
                  /\ \A other : ForDay(table, r, other)
                          => ForDay(farSchedulerAdd(table, s, day), r, other)
<1> DEFINE after == farSchedulerAdd(table, s, day)
<1>1. 1 \in Slots /\ 2 \in Slots /\ \A k \in Slots : k < 2 => k = 1
  BY SchedulesAssumption DEF Slots
<1>2. PICK k \in Slots : FirstFree(table, k)
  <2>1. CASE table[1].data = Null
    BY <1>1, <2>1, SchedulesAssumption DEF FirstFree, Slots
  <2>2. CASE table[1].data # Null
    <3>1. table[2].data = Null
      <4> SUFFICES ASSUME table[2].data # Null PROVE FALSE
        OBVIOUS
      <4>1. table[1].data \in DoorSchedules \ {s} /\ table[2].data \in DoorSchedules \ {s}
        BY <1>1, <2>2 DEF Tables, AbsentFrom
      <4>2. table[1].data = table[2].data
        BY <4>1 DEF DoorSchedules
      <4> QED BY <1>1, <4>1, <4>2 DEF OnceIn
    <3> QED BY <1>1, <2>2, <3>1 DEF FirstFree
  <2> QED BY <2>1, <2>2
<1>3. after[k] = [dateDiscriminator |-> day, data |-> s]
  BY <1>2 DEF farSchedulerAdd
<1>4. \A j \in Slots : after[j].data = s => after[j].dateDiscriminator = day
  BY DEF farSchedulerAdd, AbsentFrom
<1>5. \A j \in Slots, r \in DoorSchedules \ {s} :
          (table[j].data = r => after[j] = table[j]) /\ (after[j].data = r => after[j] = table[j])
  BY DEF farSchedulerAdd, FirstFree, Null, DoorSchedules
<1> HIDE DEF after
<1>6. ~AbsentFrom(after, s) /\ ForDay(after, s, day)
  BY <1>3, <1>4 DEF AbsentFrom, ForDay
<1>7. \A r \in DoorSchedules \ {s} : ~AbsentFrom(table, r) => ~AbsentFrom(after, r)
  BY <1>5 DEF AbsentFrom
<1>8. \A r \in DoorSchedules \ {s} : \A other : ForDay(table, r, other) => ForDay(after, r, other)
  BY <1>5 DEF ForDay
<1> QED BY <1>6, <1>7, <1>8 DEF after

LEMMA RemoveKeepsOthers ==
    ASSUME NEW table \in Tables, NEW s \in DoorSchedules, NEW r \in DoorSchedules \ {s}
    PROVE  /\ ~AbsentFrom(table, r) => ~AbsentFrom(farSchedulerRemove(table, s), r)
           /\ \A other : ForDay(table, r, other) => ForDay(farSchedulerRemove(table, s), r, other)
<1> DEFINE after == farSchedulerRemove(table, s)
<1>1. \A j \in Slots :
          (table[j].data = r => after[j] = table[j]) /\ (after[j].data = r => after[j] = table[j])
  BY DEF farSchedulerRemove, Null, DoorSchedules, Tables
<1> HIDE DEF after
<1>2. ~AbsentFrom(table, r) => ~AbsentFrom(after, r)
  BY <1>1 DEF AbsentFrom
<1>3. \A other : ForDay(table, r, other) => ForDay(after, r, other)
  BY <1>1 DEF ForDay
<1> QED BY <1>2, <1>3 DEF after

\* A replaced schedule is held for the current day, and the other as it was.
LEMMA ReplaceHolds ==
    ASSUME NEW table, TableOK(table), NEW s \in DoorSchedules, dateDiscriminator \in Bytes
    PROVE  /\ ~AbsentFrom(Replace(table, s), s)
           /\ ForDay(Replace(table, s), s, dateDiscriminator)
           /\ \A r \in DoorSchedules \ {s} :
                  /\ ~AbsentFrom(table, r) => ~AbsentFrom(Replace(table, s), r)
                  /\ \A other : ForDay(table, r, other) => ForDay(Replace(table, s), r, other)
<1> DEFINE removed == farSchedulerRemove(table, s)
           added == farSchedulerAdd(removed, s, dateDiscriminator)
<1>1. removed \in Tables /\ AbsentFrom(removed, s)
      /\ \A r \in DoorSchedules : OnceIn(removed, r)
  BY RemoveRemoves DEF TableOK
<1>2. \A r \in DoorSchedules \ {s} :
          /\ ~AbsentFrom(table, r) => ~AbsentFrom(removed, r)
          /\ \A other : ForDay(table, r, other) => ForDay(removed, r, other)
  BY RemoveKeepsOthers DEF TableOK
<1> HIDE DEF removed
<1>3. /\ ~AbsentFrom(added, s)
      /\ ForDay(added, s, dateDiscriminator)
      /\ \A r \in DoorSchedules \ {s} :
             /\ ~AbsentFrom(removed, r) => ~AbsentFrom(added, r)
             /\ \A other : ForDay(removed, r, other) => ForDay(added, r, other)
  BY <1>1, AddHolds
<1>4. added = Replace(table, s)
  BY DEF Replace, removed
<1> HIDE DEF added
<1> QED BY <1>2, <1>3, <1>4

SettingsTimes == [open |-> nvmSettings.autoOpenTime, close |-> nvmSettings.autoCloseTime]

\* After a date or new settings the table holds what the mode calls for, for the
\* given day and at the times of the settings; or nothing.
LEMMA DateOrSettingsEffect ==
    ASSUME TableOK(schedules), NEW day \in Bytes, onDateOrNvmSettingsChanged(day)
    PROVE  /\ nvmSettings.mode = "time" =>
                 /\ \A s \in DoorSchedules : ~AbsentFrom(schedules', s) /\ ForDay(schedules', s, day)
                 /\ scheduleTime' = SettingsTimes
           /\ nvmSettings.mode # "time" =>
                 \A s \in DoorSchedules : AbsentFrom(schedules', s)
<1>1. CASE nvmSettings.mode # "time"
  BY <1>1, UnscheduledIsEmpty DEF onDateOrNvmSettingsChanged
<1>2. CASE nvmSettings.mode = "time"
  <2> DEFINE one == farSchedulerAdd(Unscheduled, "open", day)
             both == farSchedulerAdd(one, "close", day)
  <2>0. "open" \in DoorSchedules /\ "close" \in DoorSchedules
        /\ \A s \in DoorSchedules : s = "open" \/ s = "close"
    BY DEF DoorSchedules
  <2>1. Unscheduled \in Tables /\ (\A s \in DoorSchedules : AbsentFrom(Unscheduled, s))
        /\ \A s \in DoorSchedules : OnceIn(Unscheduled, s)
    BY UnscheduledIsEmpty DEF TableOK
  <2>2. one \in Tables /\ AbsentFrom(one, "close") /\ OnceIn(one, "open")
        /\ ~AbsentFrom(one, "open") /\ ForDay(one, "open", day)
    BY <2>0, <2>1, AddAddsOnce, AddHolds
  <2>3. \A s \in DoorSchedules : OnceIn(one, s)
    BY <2>0, <2>2, AbsentIsOnce
  <2> HIDE DEF one
  <2>4. \A s \in DoorSchedules : ~AbsentFrom(both, s) /\ ForDay(both, s, day)
    BY <2>0, <2>2, <2>3, AddHolds
  <2>5. schedules' = both /\ scheduleTime' = SettingsTimes
    BY <1>2 DEF onDateOrNvmSettingsChanged, SettingsTimes, one
  <2> HIDE DEF both
  <2> QED BY <1>2, <2>4, <2>5
<1> QED BY <1>1, <1>2

LEMMA SunEventsEffect ==
    ASSUME TableOK(schedules), dateDiscriminator \in Bytes, onSunEventsChanged
    PROVE  /\ nvmSettings.mode = "sun" =>
                 /\ \A s \in DoorSchedules :
                       ~AbsentFrom(schedules', s) /\ ForDay(schedules', s, dateDiscriminator)
                 /\ scheduleTime' = sunEvents
           /\ nvmSettings.mode # "sun" => UNCHANGED <<scheduleTime, schedules>>
<1>1. CASE nvmSettings.mode # "sun"
  BY <1>1 DEF onSunEventsChanged
<1>2. CASE nvmSettings.mode = "sun"
  <2> DEFINE one == Replace(schedules, "open")
             both == Replace(one, "close")
  <2>0. "open" \in DoorSchedules /\ "close" \in DoorSchedules
        /\ \A s \in DoorSchedules : s = "open" \/ s = "close"
    BY DEF DoorSchedules
  <2>1. TableOK(one) /\ ~AbsentFrom(one, "open") /\ ForDay(one, "open", dateDiscriminator)
    BY <2>0, ReplaceKeepsOrder, ReplaceHolds
  <2> HIDE DEF one
  <2>2. \A s \in DoorSchedules : ~AbsentFrom(both, s) /\ ForDay(both, s, dateDiscriminator)
    BY <2>0, <2>1, ReplaceHolds
  <2>3. schedules' = both /\ scheduleTime' = sunEvents
    BY <1>2 DEF onSunEventsChanged, one
  <2> HIDE DEF both
  <2> QED BY <1>2, <2>2, <2>3
<1> QED BY <1>1, <1>2

\* A minute takes out what it actions and leaves the rest, and publishes nothing
\* that anybody who keeps schedules listens to.
LEMMA MinuteEffect ==
    ASSUME TableOK(schedules), onTimeChanged
    PROVE  /\ \A s \in DoorSchedules :
                 /\ AbsentFrom(schedules', s) <=>
                       AbsentFrom(schedules, s) \/ \E k \in Slots : schedules[k].data = s /\ IsDue(k)
                 /\ \A day : ForDay(schedules, s, day) => ForDay(schedules', s, day)
           /\ \E events \in Seq({Actioned.open, Actioned.close, "UNHEARD"}) : Publish(events)
<1>1. schedules' = [k \in Slots |->
          IF IsDue(k) THEN [schedules[k] EXCEPT !.data = Null] ELSE schedules[k]]
  BY DEF onTimeChanged
<1>2. \A k \in Slots, s \in DoorSchedules :
          schedules'[k].data = s <=> schedules[k].data = s /\ ~IsDue(k)
  BY <1>1 DEF TableOK, Tables, Null, DoorSchedules
<1>3. \A k \in Slots : schedules'[k].dateDiscriminator = schedules[k].dateDiscriminator
  BY <1>1 DEF TableOK, Tables
<1>4. ASSUME NEW s \in DoorSchedules
      PROVE  /\ AbsentFrom(schedules', s) <=>
                   AbsentFrom(schedules, s) \/ \E k \in Slots : schedules[k].data = s /\ IsDue(k)
             /\ \A day : ForDay(schedules, s, day) => ForDay(schedules', s, day)
  <2>1. AbsentFrom(schedules, s) => AbsentFrom(schedules', s)
    BY <1>2 DEF AbsentFrom
  <2>2. ASSUME NEW k \in Slots, schedules[k].data = s, IsDue(k) PROVE AbsentFrom(schedules', s)
    <3>1. \A j \in Slots : schedules[j].data = s => j = k
      BY <2>2 DEF TableOK, OnceIn
    <3> QED BY <1>2, <2>2, <3>1 DEF AbsentFrom
  <2>3. AbsentFrom(schedules', s) =>
            AbsentFrom(schedules, s) \/ \E k \in Slots : schedules[k].data = s /\ IsDue(k)
    BY <1>2 DEF AbsentFrom
  <2>4. \A day : ForDay(schedules, s, day) => ForDay(schedules', s, day)
    BY <1>2, <1>3 DEF ForDay
  <2> QED BY <2>1, <2>2, <2>3, <2>4
<1>5. PICK matched \in SUBSET NullReads :
          \E slots \in SetToSeqs({k \in Slots : IsDue(k)} \cup matched) :
              Publish([n \in DOMAIN slots |->
                  IF slots[n] \in matched THEN "UNHEARD" ELSE Actioned[schedules[slots[n]].data]])
  BY DEF onTimeChanged
<1> DEFINE due == {k \in Slots : IsDue(k)} \cup matched
<1>6. PICK slots \in SetToSeqs(due) :
          Publish([n \in DOMAIN slots |->
              IF slots[n] \in matched THEN "UNHEARD" ELSE Actioned[schedules[slots[n]].data]])
  BY <1>5
<1>7. due \subseteq Slots /\ IsFiniteSet(Slots)
  <2>1. due \subseteq Slots
    BY DEF NullReads
  <2>2. 1 \in Int /\ MaxSchedules \in Int
    BY SchedulesAssumption
  <2>3. IsFiniteSet(Slots)
    BY <2>2, FS_Interval DEF Slots
  <2> QED BY <2>1, <2>3
<1>8. Cardinality(due) \in Nat
  BY <1>7, FS_Subset, FS_CardinalityType
<1>9. slots \in [1 .. Cardinality(due) -> due]
  BY <1>6 DEF SetToSeqs
<1>10. \A k \in due : k \notin matched => Actioned[schedules[k].data] \in {Actioned.open, Actioned.close}
  <2>1. \A k \in due : k \notin matched => schedules[k].data \in {"open", "close"}
    BY DEF IsDue, TableOK, Tables, DoorSchedules
  <2> QED BY <2>1 DEF Actioned
<1> HIDE DEF due
<1> DEFINE events == [n \in DOMAIN slots |->
              IF slots[n] \in matched THEN "UNHEARD" ELSE Actioned[schedules[slots[n]].data]]
<1>11. events \in Seq({Actioned.open, Actioned.close, "UNHEARD"})
  <2>1. events \in [1 .. Cardinality(due) -> {Actioned.open, Actioned.close, "UNHEARD"}]
    BY <1>9, <1>10
  <2> QED BY <1>8, <2>1
<1>12. Publish(events)
  BY <1>6
<1> HIDE DEF events
<1> QED BY <1>4, <1>11, <1>12
-----------------------------------------------------------------------------
(***************************************************************************)
(* What may be stale is what an event is still pending for.                *)
(***************************************************************************)
TimesOfSun(day, place) == SunTimes[day, place]

SunIsCurrent ==
    /\ ~IsPending("DATE_CHANGED") =>
          sunDay = today /\ sunEvents = TimesOfSun(sunDay, sunLocation)
    /\ ~IsPending("NVM_SETTINGS_CHANGED") => location = nvmSettings.location
    /\ ~IsPending("LOCATION_CHANGED") => sunLocation = location

HeldAreCurrent ==
    ~IsPending("DATE_CHANGED") /\ ~IsPending("NVM_SETTINGS_CHANGED") =>
        \A s \in DoorSchedules : ~AbsentFrom(schedules, s) =>
            /\ nvmSettings.mode \in {"time", "sun"}
            /\ ForDay(schedules, s, dateDiscriminator)
            /\ nvmSettings.mode = "time" => scheduleTime = SettingsTimes
            /\ nvmSettings.mode = "sun" /\ ~IsPending("SUN_EVENTS_CHANGED") =>
                  scheduleTime = sunEvents

LEMMA WantedAre ==
    WantedTimes = IF nvmSettings.mode = "time" THEN SettingsTimes
                  ELSE TimesOfSun(today, nvmSettings.location)
BY Zenon DEF WantedTimes, SettingsTimes, TimesOfSun

CurrentInv == QueueOK /\ SunIsCurrent /\ HeldAreCurrent

Chain == {"DATE_CHANGED", "TIME_CHANGED", "SUN_EVENTS_CHANGED", "NVM_SETTINGS_CHANGED",
          "LOCATION_CHANGED"}

\* What each handler leaves pending of the chain of events.
LEMMA HandlerKeepsPending ==
    ASSUME QueueOK, NEW type \in Types, Dispatching(type),
           NEW events \in Seq(Types), Publish(events)
    PROVE  /\ QueueOK'
           /\ \A other \in Chain :
                 /\ other # type => IsPending(other)' <=> (IsPending(other) \/ In(events, other))
                 /\ In(events, other) => IsPending(other)'
<1>1. queue # <<>> /\ Head(queue) = type
  BY DEF Dispatching
<1>2. QueueOK'
  BY <1>1, PublishShifts
<1>3. ASSUME NEW other \in Chain
      PROVE  /\ other # type => IsPending(other)' <=> (IsPending(other) \/ In(events, other))
             /\ In(events, other) => IsPending(other)'
  BY <1>1, PublishKeepsPending
<1> QED BY <1>2, <1>3

\* The same of a minute's, whatever it actions.
LEMMA MinuteKeepsPending ==
    ASSUME QueueOK, Dispatching("TIME_CHANGED"), TableOK(schedules), onTimeChanged
    PROVE  /\ QueueOK'
           /\ \A other \in Chain \ {"TIME_CHANGED"} : IsPending(other)' <=> IsPending(other)
<1>1. PICK events \in Seq({Actioned.open, Actioned.close, "UNHEARD"}) : Publish(events)
  BY MinuteEffect
<1>2. events \in Seq(Types) /\ "TIME_CHANGED" \in Types
  BY DEF Types
<1>3. \A other \in Chain : ~In(events, other)
  BY <1>1 DEF Chain, Actioned, In
<1>4. \A other \in Chain : IsPending(other) \in BOOLEAN
  BY Zenon DEF IsPending
<1>5. /\ QueueOK'
      /\ \A other \in Chain : other # "TIME_CHANGED" =>
             IsPending(other)' <=> (IsPending(other) \/ In(events, other))
  BY <1>1, <1>2, HandlerKeepsPending
<1> QED BY <1>3, <1>4, <1>5

LEMMA ActionedIsNotHeard ==
    ASSUME QueueOK, ScheduleActioned
    PROVE  QueueOK' /\ \A other \in Chain : IsPending(other)' <=> IsPending(other)
<1>1. PICK type \in {Actioned.open, Actioned.close, "UNHEARD"} : Dispatching(type)
  BY DEF ScheduleActioned
<1>2. Publish(<<>>) /\ <<>> \in Seq(Types)
  BY DEF ScheduleActioned
<1>3. type \in Types /\ \A other \in Chain : other # type
  BY <1>1 DEF Types, Chain, Actioned
<1>4. \A other \in Chain : IsPending(other) \in BOOLEAN
  BY Zenon DEF IsPending
<1>5. /\ QueueOK'
      /\ \A other \in Chain : other # type =>
             IsPending(other)' <=> (IsPending(other) \/ In(<<>>, other))
  BY <1>1, <1>2, <1>3, HandlerKeepsPending
<1> QED BY <1>3, <1>4, <1>5, WhatIsIn

\* The clock's minute and midnight.
LEMMA TickKeepsPending ==
    ASSUME QueueOK, clockTicked
    PROVE  /\ QueueOK'
           /\ \A type \in Chain \ {"DATE_CHANGED", "TIME_CHANGED"} : IsPending(type)' <=> IsPending(type)
           /\ IsPending("TIME_CHANGED")'
           /\ IsPending("DATE_CHANGED")' <=> (now' = 0)
           /\ \A type \in {"DATE_CHANGED", "TIME_CHANGED", "SUN_EVENTS_CHANGED"} : ~IsPending(type)
<1>1. ~IsPending("DATE_CHANGED") /\ ~IsPending("TIME_CHANGED") /\ ~IsPending("SUN_EVENTS_CHANGED")
  BY DEF clockTicked
<1>2. CASE now' = 0
  <2> DEFINE events == <<"DATE_CHANGED", "TIME_CHANGED">>
  <2>1. queue' = queue \o events
    BY <1>2 DEF clockTicked
  <2>2. events \in Seq(Types)
    BY DEF Types
  <2>3. \A type : In(events, type) <=> type = "DATE_CHANGED" \/ type = "TIME_CHANGED"
    BY WhatIsIn
  <2> HIDE DEF events
  <2>4. QueueOK' /\ \A type : IsPending(type)' <=> (IsPending(type) \/ In(events, type))
    BY <2>1, <2>2, AppendKeepsPending
  <2> QED BY <1>1, <1>2, <2>3, <2>4
<1>3. CASE now' # 0
  <2> DEFINE events == <<"TIME_CHANGED">>
  <2>1. queue' = queue \o events
    BY <1>3 DEF clockTicked, QueueOK
  <2>2. events \in Seq(Types)
    BY DEF Types
  <2>3. \A type : In(events, type) <=> type = "TIME_CHANGED"
    BY WhatIsIn
  <2> HIDE DEF events
  <2>4. QueueOK' /\ \A type : IsPending(type)' <=> (IsPending(type) \/ In(events, type))
    BY <2>1, <2>2, AppendKeepsPending
  <2> QED BY <1>1, <1>3, <2>3, <2>4
<1> QED BY <1>2, <1>3

\* A fresh queue, at the first start and at every other.
LEMMA FreshQueue ==
    ASSUME queue' = <<"DATE_CHANGED", "TIME_CHANGED">>
    PROVE  /\ QueueOK'
           /\ IsPending("DATE_CHANGED")' /\ IsPending("TIME_CHANGED")'
           /\ \A type \in Chain \ {"DATE_CHANGED", "TIME_CHANGED"} : ~IsPending(type)'
<1>1. QueueOK'
  BY DEF QueueOK, Types
<1>2. \A k \in 1 .. Len(queue') : k = 1 \/ k = 2
  OBVIOUS
<1>3. Len(queue') = 2 /\ queue'[1] = "DATE_CHANGED" /\ queue'[2] = "TIME_CHANGED"
  OBVIOUS
<1>4. IsPending("DATE_CHANGED")' /\ IsPending("TIME_CHANGED")'
  BY <1>3 DEF IsPending
<1>5. \A type \in Chain \ {"DATE_CHANGED", "TIME_CHANGED"} : ~IsPending(type)'
  BY <1>2, <1>3 DEF IsPending
<1> QED BY <1>1, <1>4, <1>5

LEMMA InitIsCurrent == Init => CurrentInv
<1> SUFFICES ASSUME Init PROVE CurrentInv
  OBVIOUS
<1>1. queue = <<"DATE_CHANGED", "TIME_CHANGED">>
  BY DEF Init
<1>2. QueueOK
  BY <1>1 DEF QueueOK, Types
<1>3. IsPending("DATE_CHANGED")
  BY <1>1 DEF IsPending
<1>4. location = nvmSettings.location /\ sunLocation = location
  BY DEF Init
<1> QED BY <1>2, <1>3, <1>4 DEF CurrentInv, SunIsCurrent, HeldAreCurrent

LEMMA StepKeepsCurrent ==
    ASSUME IInv, CurrentInv, [Next]_vars
    PROVE  CurrentInv'
<1> USE DEF CurrentInv
<1>a. TableOK(schedules) /\ dateDiscriminator \in Bytes
  BY TableIsOK DEF IInv, TypeOK, Bytes
<1>1. CASE DateChanged
  <2> DEFINE events == <<"SUN_EVENTS_CHANGED">>
  <2>0. \A type : In(events, type) <=> type = "SUN_EVENTS_CHANGED"
    BY WhatIsIn
  <2>1. /\ Dispatching("DATE_CHANGED") /\ Publish(events)
        /\ "DATE_CHANGED" \in Types /\ events \in Seq(Types)
    BY <1>1 DEF DateChanged, Types
  <2> HIDE DEF events
  <2>2. /\ QueueOK'
        /\ IsPending("NVM_SETTINGS_CHANGED")' <=> IsPending("NVM_SETTINGS_CHANGED")
        /\ IsPending("LOCATION_CHANGED")' <=> IsPending("LOCATION_CHANGED")
        /\ IsPending("SUN_EVENTS_CHANGED")'
    BY <2>0, <2>1, HandlerKeepsPending DEF Chain
  <2>3. sunEvents' = TimesOfSun(today, sunLocation)
    BY <1>1, Zenon DEF DateChanged, sunEventsCalculate, TimesOfSun
  <2>7. SunIsCurrent'
    BY <1>1, <2>2, <2>3 DEF SunIsCurrent, DateChanged, clockVars
  <2>4. dateDiscriminator' \in Bytes
    BY <1>1, SchedulesAssumption DEF DateChanged, IInv, TypeOK, Bytes
  <2>5. /\ nvmSettings.mode = "time" =>
              /\ \A s \in DoorSchedules : ForDay(schedules', s, dateDiscriminator')
              /\ scheduleTime' = SettingsTimes
        /\ nvmSettings.mode # "time" => \A s \in DoorSchedules : AbsentFrom(schedules', s)
    BY <1>1, <1>a, <2>4, DateOrSettingsEffect DEF DateChanged
  <2>6. HeldAreCurrent'
    BY <1>1, <2>5 DEF HeldAreCurrent, DateChanged, SettingsTimes
  <2> QED BY <2>2, <2>6, <2>7
<1>2. CASE TimeChanged
  <2>1. /\ QueueOK'
        /\ IsPending("DATE_CHANGED")' <=> IsPending("DATE_CHANGED")
        /\ IsPending("NVM_SETTINGS_CHANGED")' <=> IsPending("NVM_SETTINGS_CHANGED")
        /\ IsPending("LOCATION_CHANGED")' <=> IsPending("LOCATION_CHANGED")
        /\ IsPending("SUN_EVENTS_CHANGED")' <=> IsPending("SUN_EVENTS_CHANGED")
    BY <1>2, <1>a, MinuteKeepsPending DEF TimeChanged, Chain
  <2>2. SunIsCurrent'
    BY <1>2, <2>1 DEF SunIsCurrent, TimeChanged, clockVars, sunVars
  <2>3. \A s \in DoorSchedules :
            /\ ~AbsentFrom(schedules', s) => ~AbsentFrom(schedules, s)
            /\ ForDay(schedules, s, dateDiscriminator) => ForDay(schedules', s, dateDiscriminator)
    BY <1>2, <1>a, MinuteEffect DEF TimeChanged
  <2>4. HeldAreCurrent'
    BY <1>2, <2>1, <2>3 DEF HeldAreCurrent, TimeChanged, sunVars, SettingsTimes
  <2> QED BY <2>1, <2>2, <2>4
<1>3. CASE SunEventsChanged
  <2> DEFINE events == <<>>
  <2>0. \A type : In(events, type) <=> FALSE
    BY WhatIsIn
  <2>1. /\ Dispatching("SUN_EVENTS_CHANGED") /\ Publish(events)
        /\ "SUN_EVENTS_CHANGED" \in Types /\ events \in Seq(Types)
    BY <1>3 DEF SunEventsChanged, Types
  <2> HIDE DEF events
  <2>2. /\ QueueOK'
        /\ IsPending("DATE_CHANGED")' <=> IsPending("DATE_CHANGED")
        /\ IsPending("NVM_SETTINGS_CHANGED")' <=> IsPending("NVM_SETTINGS_CHANGED")
        /\ IsPending("LOCATION_CHANGED")' <=> IsPending("LOCATION_CHANGED")
    BY <2>0, <2>1, HandlerKeepsPending DEF Chain
  <2>3. SunIsCurrent'
    BY <1>3, <2>2 DEF SunIsCurrent, SunEventsChanged, clockVars, sunVars
  <2>4. /\ nvmSettings.mode = "sun" =>
              /\ \A s \in DoorSchedules : ForDay(schedules', s, dateDiscriminator)
              /\ scheduleTime' = sunEvents
        /\ nvmSettings.mode # "sun" => UNCHANGED <<scheduleTime, schedules>>
    BY <1>3, <1>a, SunEventsEffect DEF SunEventsChanged
  <2>5. HeldAreCurrent'
    <3>1. CASE nvmSettings.mode = "sun"
      BY <1>3, <2>2, <2>4, <3>1 DEF HeldAreCurrent, SunEventsChanged, sunVars
    <3>2. CASE nvmSettings.mode # "sun"
      BY <1>3, <2>2, <2>4, <3>2 DEF HeldAreCurrent, SunEventsChanged, sunVars, SettingsTimes
    <3> QED BY <3>1, <3>2
  <2> QED BY <2>2, <2>3, <2>5
<1>4. CASE NvmSettingsChanged
  <2> DEFINE events == IF nvmSettings.location = location THEN <<>> ELSE <<"LOCATION_CHANGED">>
  <2>0. Publish(events)
    BY <1>4, Zenon DEF NvmSettingsChanged
  <2>a. <<>> \in Seq(Types) /\ <<"LOCATION_CHANGED">> \in Seq(Types)
    BY DEF Types
  <2>1. /\ Dispatching("NVM_SETTINGS_CHANGED") /\ "NVM_SETTINGS_CHANGED" \in Types
        /\ events \in Seq(Types)
    BY <1>4, <2>a DEF NvmSettingsChanged, Types
  <2>2. \A type : In(events, type) <=> nvmSettings.location # location /\ type = "LOCATION_CHANGED"
    BY WhatIsIn
  <2> HIDE DEF events
  <2>3. /\ QueueOK'
        /\ IsPending("DATE_CHANGED")' <=> IsPending("DATE_CHANGED")
        /\ ~IsPending("LOCATION_CHANGED")' =>
              nvmSettings.location = location /\ ~IsPending("LOCATION_CHANGED")
    BY <2>0, <2>1, <2>2, HandlerKeepsPending DEF Chain
  <2>4. SunIsCurrent'
    BY <1>4, <2>3 DEF SunIsCurrent, NvmSettingsChanged, clockVars, sunVars
  <2>5. /\ nvmSettings.mode = "time" =>
              /\ \A s \in DoorSchedules : ForDay(schedules', s, dateDiscriminator)
              /\ scheduleTime' = SettingsTimes
        /\ nvmSettings.mode # "time" => \A s \in DoorSchedules : AbsentFrom(schedules', s)
    BY <1>4, <1>a, DateOrSettingsEffect DEF NvmSettingsChanged
  <2>6. HeldAreCurrent'
    BY <1>4, <2>5 DEF HeldAreCurrent, NvmSettingsChanged, SettingsTimes
  <2> QED BY <2>3, <2>4, <2>6
<1>5. CASE LocationChanged
  <2> DEFINE events == <<"SUN_EVENTS_CHANGED">>
  <2>0. \A type : In(events, type) <=> type = "SUN_EVENTS_CHANGED"
    BY WhatIsIn
  <2>1. /\ Dispatching("LOCATION_CHANGED") /\ Publish(events)
        /\ "LOCATION_CHANGED" \in Types /\ events \in Seq(Types)
    BY <1>5 DEF LocationChanged, Types
  <2> HIDE DEF events
  <2>2. /\ QueueOK'
        /\ IsPending("DATE_CHANGED")' <=> IsPending("DATE_CHANGED")
        /\ IsPending("NVM_SETTINGS_CHANGED")' <=> IsPending("NVM_SETTINGS_CHANGED")
        /\ IsPending("SUN_EVENTS_CHANGED")'
    BY <2>0, <2>1, HandlerKeepsPending DEF Chain
  <2>5. sunEvents' = TimesOfSun(sunDay, location)
    BY <1>5, Zenon DEF LocationChanged, sunEventsCalculate, TimesOfSun
  <2>3. SunIsCurrent'
    BY <1>5, <2>2, <2>5 DEF SunIsCurrent, LocationChanged, clockVars
  <2>4. HeldAreCurrent'
    BY <1>5, <2>2 DEF HeldAreCurrent, LocationChanged, SettingsTimes, farVars
  <2> QED BY <2>2, <2>3, <2>4
<1>6. CASE ScheduleActioned
  <2>1. /\ QueueOK'
        /\ IsPending("DATE_CHANGED")' <=> IsPending("DATE_CHANGED")
        /\ IsPending("NVM_SETTINGS_CHANGED")' <=> IsPending("NVM_SETTINGS_CHANGED")
        /\ IsPending("LOCATION_CHANGED")' <=> IsPending("LOCATION_CHANGED")
        /\ IsPending("SUN_EVENTS_CHANGED")' <=> IsPending("SUN_EVENTS_CHANGED")
    BY <1>6, ActionedIsNotHeard DEF Chain
  <2>2. SunIsCurrent'
    BY <1>6, <2>1 DEF SunIsCurrent, ScheduleActioned, clockVars, sunVars
  <2>3. HeldAreCurrent'
    BY <1>6, <2>1 DEF HeldAreCurrent, ScheduleActioned, SettingsTimes, farVars, sunVars
  <2> QED BY <2>1, <2>2, <2>3
<1>7. CASE clockTicked
  <2>1. /\ QueueOK'
        /\ IsPending("DATE_CHANGED")' <=> (now' = 0)
        /\ ~IsPending("DATE_CHANGED")
        /\ IsPending("NVM_SETTINGS_CHANGED")' <=> IsPending("NVM_SETTINGS_CHANGED")
        /\ IsPending("LOCATION_CHANGED")' <=> IsPending("LOCATION_CHANGED")
        /\ IsPending("SUN_EVENTS_CHANGED")' <=> IsPending("SUN_EVENTS_CHANGED")
    BY <1>7, TickKeepsPending DEF Chain
  <2>2. SunIsCurrent'
    BY <1>7, <2>1 DEF SunIsCurrent, clockTicked, sunVars
  <2>3. HeldAreCurrent'
    BY <1>7, <2>1 DEF HeldAreCurrent, clockTicked, SettingsTimes, farVars, sunVars
  <2> QED BY <2>1, <2>2, <2>3
<1>8. CASE clockSetNowGmt
  <2> DEFINE events == <<"DATE_CHANGED", "TIME_CHANGED">>
  <2>0. \A type : In(events, type) <=> type = "DATE_CHANGED" \/ type = "TIME_CHANGED"
    BY WhatIsIn
  <2>1. queue' = queue \o events
        /\ events \in Seq(Types)
    BY <1>8 DEF clockSetNowGmt, Types
  <2> HIDE DEF events
  <2>2. /\ QueueOK' /\ IsPending("DATE_CHANGED")'
        /\ IsPending("NVM_SETTINGS_CHANGED")' <=> IsPending("NVM_SETTINGS_CHANGED")
        /\ IsPending("LOCATION_CHANGED")' <=> IsPending("LOCATION_CHANGED")
    BY <2>0, <2>1, AppendKeepsPending
  <2>3. SunIsCurrent' /\ HeldAreCurrent'
    BY <1>8, <2>2 DEF SunIsCurrent, HeldAreCurrent, clockSetNowGmt, sunVars
  <2> QED BY <2>2, <2>3
<1>9. CASE nvmSettingsStore
  <2> DEFINE events == <<"NVM_SETTINGS_CHANGED">>
  <2>0. \A type : In(events, type) <=> type = "NVM_SETTINGS_CHANGED"
    BY WhatIsIn
  <2>1. queue' = queue \o events
        /\ events \in Seq(Types)
    BY <1>9 DEF nvmSettingsStore, Types, QueueOK
  <2> HIDE DEF events
  <2>2. /\ QueueOK' /\ IsPending("NVM_SETTINGS_CHANGED")'
        /\ IsPending("DATE_CHANGED")' <=> IsPending("DATE_CHANGED")
        /\ IsPending("LOCATION_CHANGED")' <=> IsPending("LOCATION_CHANGED")
    BY <2>0, <2>1, AppendKeepsPending
  <2>3. SunIsCurrent' /\ HeldAreCurrent'
    BY <1>9, <2>2 DEF SunIsCurrent, HeldAreCurrent, nvmSettingsStore, sunVars, clockVars
  <2> QED BY <2>2, <2>3
<1>10. CASE Restart
  <2>1. QueueOK' /\ IsPending("DATE_CHANGED")'
    BY <1>10, FreshQueue DEF Restart
  <2>2. SunIsCurrent' /\ HeldAreCurrent'
    BY <1>10, <2>1 DEF SunIsCurrent, HeldAreCurrent, Restart
  <2> QED BY <2>1, <2>2
<1>11. CASE UNCHANGED vars
  BY <1>11 DEF vars, QueueOK, SunIsCurrent, HeldAreCurrent, IsPending, SettingsTimes,
               clockVars, sunVars, farVars
<1> QED
  BY <1>1, <1>2, <1>3, <1>4, <1>5, <1>6, <1>7, <1>8, <1>9, <1>10, <1>11 DEF Next

LEMMA CurrentInvariant == Spec => [](IInv /\ CurrentInv)
<1>1. IInv /\ CurrentInv /\ [Next]_vars => IInv' /\ CurrentInv'
  BY StepKeepsIInv, StepKeepsCurrent
<1> QED BY InitIsOK, InitIsCurrent, <1>1, PTL DEF Spec

\* Whatever is set, stored or restarted between any two events of the chain, once
\* none of them is pending the table holds schedules of today alone, at the times
\* the settings and the sun call for (FarScheduler.c, DoorOnDateOrNvmSettingsChanged.c,
\* SunEvents.c).
THEOREM TableStaysCurrent == Spec => []TableIsCurrent
<1>1. IInv /\ CurrentInv => TableIsCurrent
  <2> SUFFICES ASSUME IInv, CurrentInv, Settled,
                      NEW k \in Slots, schedules[k].data # Null
               PROVE  /\ nvmSettings.mode \in {"time", "sun"}
                      /\ Today(k)
                      /\ scheduleTime[schedules[k].data] = WantedTimes[schedules[k].data]
    BY DEF TableIsCurrent
  <2>1. /\ ~IsPending("DATE_CHANGED") /\ ~IsPending("NVM_SETTINGS_CHANGED")
        /\ ~IsPending("LOCATION_CHANGED") /\ ~IsPending("SUN_EVENTS_CHANGED")
    BY DEF Settled
  <2>2. schedules[k].data \in DoorSchedules /\ ~AbsentFrom(schedules, schedules[k].data)
    BY DEF IInv, TypeOK, Tables, AbsentFrom
  <2>3. /\ nvmSettings.mode \in {"time", "sun"}
        /\ ForDay(schedules, schedules[k].data, dateDiscriminator)
        /\ nvmSettings.mode = "time" => scheduleTime = SettingsTimes
        /\ nvmSettings.mode = "sun" => scheduleTime = sunEvents
    BY <2>1, <2>2 DEF CurrentInv, HeldAreCurrent
  <2>4. sunEvents = TimesOfSun(today, nvmSettings.location)
    BY <2>1 DEF CurrentInv, SunIsCurrent
  <2>5. scheduleTime = WantedTimes
    BY <2>3, <2>4, WantedAre
  <2> QED BY <2>3, <2>5 DEF ForDay, Today
<1> QED BY <1>1, CurrentInvariant, PTL
-----------------------------------------------------------------------------
(***************************************************************************)
(* A day on which nobody interferes: its date, its first minute and the    *)
(* sun's times are pending in this order if at all, and each schedule is   *)
(* held until it is actioned.                                              *)
(***************************************************************************)
PassedBy(minute) == minute < now \/ (minute = now /\ ~IsPending("TIME_CHANGED"))

ToCome(s) ==
    \/ nvmSettings.mode = "time" /\ ~PassedBy(WantedTimes[s])
    \/ nvmSettings.mode = "sun" /\ (WantedTimes[s] = 0 \/ ~PassedBy(WantedTimes[s]))

Unheld == IsPending("DATE_CHANGED") \/ (nvmSettings.mode = "sun" /\ IsPending("SUN_EVENTS_CHANGED"))

Quiet ==
    /\ ~IsPending("NVM_SETTINGS_CHANGED") /\ ~IsPending("LOCATION_CHANGED")
    /\ Once("DATE_CHANGED") /\ Once("TIME_CHANGED") /\ Once("SUN_EVENTS_CHANGED")
    /\ Before("DATE_CHANGED", "TIME_CHANGED") /\ Before("TIME_CHANGED", "SUN_EVENTS_CHANGED")
    /\ IsPending("DATE_CHANGED") =>
          now = 0 /\ IsPending("TIME_CHANGED") /\ ~IsPending("SUN_EVENTS_CHANGED")
    /\ IsPending("SUN_EVENTS_CHANGED") => now = 0
    /\ IsPending("TIME_CHANGED") /\ now = 0 =>
          IsPending("DATE_CHANGED") \/ IsPending("SUN_EVENTS_CHANGED")

Obeyed(s) ==
    /\ Unheld => obeyed[s] = 0 /\ (IsPending("DATE_CHANGED") \/ AbsentFrom(schedules, s))
    /\ ~Unheld =>
          /\ nvmSettings.mode \in {"time", "sun"} /\ ~ToCome(s) => obeyed[s] = 1
          /\ ~(nvmSettings.mode \in {"time", "sun"} /\ ~ToCome(s)) => obeyed[s] = 0
          /\ AbsentFrom(schedules, s) <=> ~ToCome(s)

DayInv == ~disturbed => Quiet /\ \A s \in DoorSchedules : Obeyed(s)

\* The minutes of a day, one after the other.
LEMMA NextMinute ==
    ASSUME now \in Minutes
    PROVE  IF now = MinutesPerDay - 1 THEN (now + 1) % MinutesPerDay = 0
           ELSE (now + 1) % MinutesPerDay = now + 1
<1>1. CASE now = MinutesPerDay - 1
  BY <1>1, SchedulesAssumption
<1>2. CASE now # MinutesPerDay - 1
  <2> DEFINE next == now + 1
  <2>1. next \in 0 .. MinutesPerDay - 1 /\ MinutesPerDay \in Nat \ {0}
    BY <1>2, SchedulesAssumption DEF Minutes
  <2> HIDE DEF next
  <2>2. next % MinutesPerDay = next
    BY <2>1
  <2> QED BY <1>2, <2>2 DEF next
<1> QED BY <1>1, <1>2

LEMMA WantedAreMinutes ==
    ASSUME IInv
    PROVE  \A s \in DoorSchedules : WantedTimes[s] \in Minutes
<1>1. SettingsTimes \in [DoorSchedules -> Minutes]
  BY SettingsAssumption DEF SettingsTimes, IInv, TypeOK, DoorSchedules, Minutes
<1>2. TimesOfSun(today, nvmSettings.location) \in [DoorSchedules -> Minutes]
  BY SettingsAssumption, SunTimesAssumption
  DEF IInv, TypeOK, TimesOfSun, DoorSchedules, Minutes, Days
<1> QED BY <1>1, <1>2, WantedAre

\* Nothing is pending ahead of what is at the head of the queue.
LEMMA HeadIsFirst ==
    ASSUME QueueOK, NEW type, Dispatching(type)
    PROVE  IsPending(type) /\ \A first : Before(first, type) => ~IsPending(first)
<1>1. queue[1] = type /\ 1 \in 1 .. Len(queue)
  BY DEF QueueOK, Dispatching
<1>2. \A k \in 1 .. Len(queue) : ~(k < 1)
  BY DEF QueueOK
<1> QED BY <1>1, <1>2 DEF IsPending, Before

LEMMA AbsentIsInOrder ==
    \A type : ~IsPending(type) =>
        Once(type) /\ \A other : Before(type, other) /\ Before(other, type)
BY DEF IsPending, Once, Before

\* What is added behind everything else is in order if it was so.
LEMMA AppendKeepsOrder ==
    ASSUME QueueOK, NEW events \in Seq(Types), queue' = queue \o events, NEW type,
           ~IsPending(type)
    PROVE  /\ (\A j, k \in 1 .. Len(events) : events[j] = type /\ events[k] = type => j = k)
                  => Once(type)'
           /\ \A first : (\A j, k \in 1 .. Len(events) :
                                events[j] = first /\ events[k] = type => j < k)
                  => Before(first, type)'
<1> DEFINE n == Len(queue)
           m == Len(events)
<1>1. /\ Len(queue') = n + m
      /\ \A k \in 1 .. n : queue'[k] = queue[k]
      /\ \A k \in 1 .. m : queue'[n + k] = events[k]
      /\ n \in Nat /\ m \in Nat
  BY DEF QueueOK
<1> HIDE DEF n, m
<1>2. \A k \in 1 .. Len(queue') : k <= n \/ (k - n \in 1 .. m /\ n + (k - n) = k)
  BY <1>1
<1>3. \A k \in 1 .. Len(queue') : queue'[k] = type =>
          k > n /\ k - n \in 1 .. m /\ events[k - n] = type
  <2> SUFFICES ASSUME NEW k \in 1 .. Len(queue'), queue'[k] = type
               PROVE  k > n /\ k - n \in 1 .. m /\ events[k - n] = type
    OBVIOUS
  <2>1. k > n
    BY <1>1 DEF IsPending, n
  <2>2. k - n \in 1 .. m /\ n + (k - n) = k
    BY <1>1, <1>2, <2>1
  <2> QED BY <1>1, <2>1, <2>2
<1>4. ASSUME \A j, k \in 1 .. m : events[j] = type /\ events[k] = type => j = k
      PROVE  Once(type)'
  <2> SUFFICES ASSUME NEW j \in 1 .. Len(queue'), NEW k \in 1 .. Len(queue'),
                      queue'[j] = type, queue'[k] = type
               PROVE  j = k
    BY DEF Once
  <2>1. j - n = k - n
    BY <1>3, <1>4
  <2> QED BY <1>1, <2>1
<1>5. ASSUME NEW first,
             \A j, k \in 1 .. m : events[j] = first /\ events[k] = type => j < k
      PROVE  Before(first, type)'
  <2> SUFFICES ASSUME NEW j \in 1 .. Len(queue'), NEW k \in 1 .. Len(queue'),
                      queue'[j] = first, queue'[k] = type
               PROVE  j < k
    BY DEF Before
  <2>1. k > n /\ k - n \in 1 .. m /\ events[k - n] = type
    BY <1>3
  <2>2. CASE j <= n
    BY <1>1, <2>1, <2>2
  <2>3. CASE j > n
    <3>1. j - n \in 1 .. m /\ n + (j - n) = j
      BY <1>1, <1>2, <2>3
    <3>2. events[j - n] = first
      BY <1>1, <3>1
    <3>3. j - n < k - n
      BY <1>5, <2>1, <3>1, <3>2
    <3> QED BY <1>1, <3>3
  <2> QED BY <1>1, <2>2, <2>3
<1> QED BY <1>4, <1>5 DEF m

\* A day starts with its date and its first minute pending, in this order.
LEMMA FreshQueueIsInOrder ==
    ASSUME queue' = <<"DATE_CHANGED", "TIME_CHANGED">>, now' = 0
    PROVE  Quiet'
<1>1. /\ IsPending("DATE_CHANGED")' /\ IsPending("TIME_CHANGED")'
      /\ ~IsPending("SUN_EVENTS_CHANGED")' /\ ~IsPending("NVM_SETTINGS_CHANGED")'
      /\ ~IsPending("LOCATION_CHANGED")'
  BY FreshQueue DEF Chain
<1>2. /\ \A k \in 1 .. Len(queue') : k = 1 \/ k = 2
      /\ queue'[1] = "DATE_CHANGED" /\ queue'[2] = "TIME_CHANGED"
  OBVIOUS
<1>3. Once("DATE_CHANGED")' /\ Once("TIME_CHANGED")' /\ Once("SUN_EVENTS_CHANGED")'
  BY <1>2 DEF Once
<1>4. Before("DATE_CHANGED", "TIME_CHANGED")' /\ Before("TIME_CHANGED", "SUN_EVENTS_CHANGED")'
  BY <1>2 DEF Before
<1> QED BY <1>1, <1>3, <1>4 DEF Quiet

\* Handling an event that publishes none of the day's leaves the rest in order.
LEMMA HandlerKeepsOrder ==
    ASSUME QueueOK, queue # <<>>, NEW events \in Seq(Types), Publish(events),
           NEW first, NEW second, ~In(events, first), ~In(events, second),
           Once(first), Once(second), Before(first, second)
    PROVE  Once(first)' /\ Once(second)' /\ Before(first, second)'
BY PublishKeepsPending, PublishKeepsOrder

\* The first event of an undisturbed day.
LEMMA DateKeepsDay ==
    ASSUME IInv, CurrentInv, DayInv, DateChanged, ~disturbed
    PROVE  Quiet' /\ \A s \in DoorSchedules : Obeyed(s)'
<1> DEFINE events == <<"SUN_EVENTS_CHANGED">>
<1>1. \A type : In(events, type) <=> type = "SUN_EVENTS_CHANGED"
  BY WhatIsIn
<1>2. /\ QueueOK /\ Dispatching("DATE_CHANGED") /\ Publish(events)
      /\ "DATE_CHANGED" \in Types /\ events \in Seq(Types) /\ Len(events) = 1
      /\ queue # <<>> /\ Head(queue) = "DATE_CHANGED"
  BY DEF DateChanged, Types, CurrentInv, Dispatching
<1> HIDE DEF events
<1>3. Quiet /\ (\A s \in DoorSchedules : Obeyed(s)) /\ IsPending("DATE_CHANGED")
  BY <1>2, HeadIsFirst DEF DayInv
<1>4. /\ IsPending("TIME_CHANGED") /\ ~IsPending("SUN_EVENTS_CHANGED") /\ now = 0
      /\ ~IsPending("NVM_SETTINGS_CHANGED") /\ ~IsPending("LOCATION_CHANGED")
      /\ Once("DATE_CHANGED") /\ Once("TIME_CHANGED")
  BY <1>3 DEF Quiet
<1>5. /\ IsPending("TIME_CHANGED")' /\ IsPending("SUN_EVENTS_CHANGED")'
      /\ ~IsPending("NVM_SETTINGS_CHANGED")' /\ ~IsPending("LOCATION_CHANGED")'
  BY <1>1, <1>2, <1>4, HandlerKeepsPending DEF Chain
<1>6. ~IsPending("DATE_CHANGED")' /\ Once("TIME_CHANGED")' /\ Once("SUN_EVENTS_CHANGED")'
  BY <1>1, <1>2, <1>4, PublishKeepsPending
<1>7. Once("DATE_CHANGED")' /\ Before("DATE_CHANGED", "TIME_CHANGED")'
  BY <1>6, AbsentIsInOrder DEF IsPending, Once, Before
<1>8. Before("TIME_CHANGED", "SUN_EVENTS_CHANGED")'
  <2>1. Before("TIME_CHANGED", "SUN_EVENTS_CHANGED")
    BY <1>4, AbsentIsInOrder
  <2> QED BY <1>1, <1>2, <2>1, PublishKeepsOrder
<1>9. UNCHANGED <<now, today, nvmSettings, obeyed>>
  BY DEF DateChanged, clockVars, history
<1>10. Quiet'
  BY <1>4, <1>5, <1>6, <1>7, <1>8, <1>9 DEF Quiet
<1>11. ASSUME NEW s \in DoorSchedules PROVE Obeyed(s)'
  <2>1. obeyed'[s] = 0
    BY <1>3, <1>9 DEF Obeyed, Unheld
  <2>2. /\ nvmSettings.mode = "time" => ~AbsentFrom(schedules', s)
        /\ nvmSettings.mode # "time" => AbsentFrom(schedules', s)
    <3>1. TableOK(schedules)
      BY TableIsOK
    <3>2. dateDiscriminator' \in Bytes
      BY SchedulesAssumption DEF DateChanged, IInv, TypeOK, Bytes
    <3>3. onDateOrNvmSettingsChanged(dateDiscriminator')
      BY DEF DateChanged
    <3> QED BY <3>1, <3>2, <3>3, DateOrSettingsEffect
  <2>3. WantedTimes' = WantedTimes
    BY <1>9, WantedAre DEF WantedTimes
  <2>4. WantedTimes'[s] \in Nat
    BY <2>3, WantedAreMinutes, SchedulesAssumption DEF Minutes
  <2>5. ~PassedBy(WantedTimes[s])'
    BY <1>4, <1>5, <1>9, <2>4 DEF PassedBy
  <2>6. CASE nvmSettings.mode = "sun"
    BY <1>5, <1>9, <2>1, <2>2, <2>6 DEF Obeyed, Unheld
  <2>7. CASE nvmSettings.mode # "sun"
    <3>1. ~Unheld'
      BY <1>6, <1>9, <2>7 DEF Unheld
    <3>2. ToCome(s)' <=> nvmSettings.mode = "time"
      BY <1>9, <2>5, <2>7 DEF ToCome
    <3> QED BY <1>9, <2>1, <2>2, <2>7, <3>1, <3>2 DEF Obeyed
  <2> QED BY <2>6, <2>7
<1> QED BY <1>10, <1>11

LEMMA MinuteKeepsDay ==
    ASSUME IInv, CurrentInv, DayInv, TimeChanged, ~disturbed
    PROVE  Quiet' /\ \A s \in DoorSchedules : Obeyed(s)'
<1>0. TableOK(schedules) /\ onTimeChanged /\ QueueOK
  BY TableIsOK DEF TimeChanged, CurrentInv
<1>1. PICK events \in Seq({Actioned.open, Actioned.close, "UNHEARD"}) : Publish(events)
  BY <1>0, MinuteEffect
<1>2. /\ Dispatching("TIME_CHANGED") /\ events \in Seq(Types)
      /\ queue # <<>> /\ Head(queue) = "TIME_CHANGED"
  BY DEF TimeChanged, Types, Dispatching
<1>3. \A type \in Chain : ~In(events, type)
  BY <1>1 DEF Chain, Actioned, In
<1>4. Quiet /\ (\A s \in DoorSchedules : Obeyed(s))
  BY DEF DayInv
<1>5. ~IsPending("DATE_CHANGED") /\ IsPending("TIME_CHANGED")
  BY <1>0, <1>2, <1>4, HeadIsFirst DEF Quiet
<1>6. /\ ~IsPending("DATE_CHANGED")'
      /\ IsPending("SUN_EVENTS_CHANGED")' <=> IsPending("SUN_EVENTS_CHANGED")
      /\ ~IsPending("NVM_SETTINGS_CHANGED")' /\ ~IsPending("LOCATION_CHANGED")'
  BY <1>0, <1>2, <1>4, <1>5, MinuteKeepsPending DEF Chain, Quiet
<1>7. ~IsPending("TIME_CHANGED")'
  BY <1>0, <1>1, <1>2, <1>3, <1>4, PublishKeepsPending DEF Quiet, Chain
<1>8. /\ Once("DATE_CHANGED")' /\ Once("TIME_CHANGED")' /\ Once("SUN_EVENTS_CHANGED")'
      /\ Before("DATE_CHANGED", "TIME_CHANGED")' /\ Before("TIME_CHANGED", "SUN_EVENTS_CHANGED")'
  BY <1>0, <1>1, <1>2, <1>3, <1>4, HandlerKeepsOrder DEF Quiet, Chain
<1>9. UNCHANGED <<now, today, nvmSettings, scheduleTime, sunEvents, dateDiscriminator>>
  BY DEF TimeChanged, clockVars, sunVars
<1>10. Quiet'
  <2>1. IsPending("SUN_EVENTS_CHANGED")' => now' = 0
    BY <1>4, <1>6, <1>9 DEF Quiet
  <2> QED BY <1>6, <1>7, <1>8, <2>1 DEF Quiet
<1>11. ASSUME NEW s \in DoorSchedules PROVE Obeyed(s)'
  <2> DEFINE due == \E k \in Slots : schedules[k].data = s /\ IsDue(k)
  <2>1. AbsentFrom(schedules', s) <=> AbsentFrom(schedules, s) \/ due
    BY <1>0, MinuteEffect
  <2>2. due => ~AbsentFrom(schedules, s)
    BY DEF AbsentFrom
  <2>3. obeyed \in [DoorSchedules -> 0 .. 2]
        /\ obeyed'[s] = IF obeyed[s] < 2 /\ due THEN obeyed[s] + 1 ELSE obeyed[s]
    BY DEF TimeChanged, IInv, TypeOK
  <2>4. WantedTimes' = WantedTimes
    BY <1>9, WantedAre DEF WantedTimes
  <2>5. WantedTimes[s] \in Int /\ now \in Int
    BY WantedAreMinutes DEF IInv, TypeOK, Minutes
  <2>6. Unheld' <=> Unheld
    BY <1>5, <1>6, <1>9 DEF Unheld
  <2>7. PassedBy(WantedTimes[s])' <=> WantedTimes[s] <= now
    BY <1>7, <1>9, <2>4, <2>5 DEF PassedBy
  <2>8. PassedBy(WantedTimes[s]) <=> WantedTimes[s] < now
    BY <1>5, <2>5 DEF PassedBy
  <2>9. Obeyed(s)
    BY <1>4
  <2>10. CASE Unheld
    <3>1. obeyed[s] = 0 /\ AbsentFrom(schedules, s)
      BY <1>5, <2>9, <2>10 DEF Obeyed
    <3>2. obeyed'[s] = 0 /\ AbsentFrom(schedules', s)
      BY <2>1, <2>2, <2>3, <3>1
    <3> QED BY <2>6, <2>10, <3>2 DEF Obeyed
  <2>11. CASE ~Unheld /\ AbsentFrom(schedules, s)
    <3>1. ~ToCome(s)
      BY <2>9, <2>11 DEF Obeyed
    <3>2. ~ToCome(s)'
      BY <1>9, <2>4, <2>5, <2>7, <2>8, <3>1 DEF ToCome
    <3>3. obeyed'[s] = obeyed[s] /\ AbsentFrom(schedules', s)
      BY <2>1, <2>2, <2>3, <2>11
    <3> QED BY <1>9, <2>6, <2>9, <2>11, <3>1, <3>2, <3>3 DEF Obeyed
  <2>12. CASE ~Unheld /\ ~AbsentFrom(schedules, s)
    <3>1. ToCome(s) /\ obeyed[s] = 0
      BY <2>9, <2>12 DEF Obeyed
    <3>2. /\ nvmSettings.mode \in {"time", "sun"}
          /\ ForDay(schedules, s, dateDiscriminator)
          /\ scheduleTime = WantedTimes
      <4>1. ~IsPending("NVM_SETTINGS_CHANGED") /\ ~IsPending("LOCATION_CHANGED")
        BY <1>4 DEF Quiet
      <4>2. /\ nvmSettings.mode \in {"time", "sun"}
            /\ ForDay(schedules, s, dateDiscriminator)
            /\ nvmSettings.mode = "time" => scheduleTime = SettingsTimes
            /\ nvmSettings.mode = "sun" => scheduleTime = sunEvents
        BY <1>5, <2>12, <4>1 DEF CurrentInv, HeldAreCurrent, Unheld
      <4>3. sunEvents = TimesOfSun(today, nvmSettings.location)
        BY <1>5, <4>1 DEF CurrentInv, SunIsCurrent
      <4> QED BY <4>2, <4>3, WantedAre
    <3>3. due <=> WantedTimes[s] = now
      <4>1. PICK k \in Slots : schedules[k].data = s
        BY <2>12 DEF AbsentFrom
      <4>2. \A j \in Slots : schedules[j].data = s =>
                (IsDue(j) <=> WantedTimes[s] = now)
        BY <3>2 DEF IsDue, Today, ForDay, Null, DoorSchedules
      <4> QED BY <4>1, <4>2
    <3>4. nvmSettings.mode = "sun" /\ WantedTimes[s] = 0 => now # 0
      BY <1>4, <1>5, <2>12 DEF Quiet, Unheld
    <3>5. ToCome(s)' <=> ~due
      BY <1>9, <2>4, <2>5, <2>7, <2>8, <3>1, <3>2, <3>3, <3>4 DEF ToCome
    <3>6. obeyed'[s] = IF due THEN 1 ELSE 0
      BY <2>3, <3>1
    <3> HIDE DEF due
    <3> QED BY <1>9, <2>1, <2>6, <2>12, <3>2, <3>5, <3>6 DEF Obeyed
  <2> QED BY <2>10, <2>11, <2>12
<1> QED BY <1>10, <1>11

LEMMA SunEventsKeepDay ==
    ASSUME IInv, CurrentInv, DayInv, SunEventsChanged, ~disturbed
    PROVE  Quiet' /\ \A s \in DoorSchedules : Obeyed(s)'
<1> DEFINE events == <<>>
<1>1. \A type : ~In(events, type)
  BY WhatIsIn
<1>2. /\ QueueOK /\ Dispatching("SUN_EVENTS_CHANGED") /\ Publish(events)
      /\ "SUN_EVENTS_CHANGED" \in Types /\ events \in Seq(Types)
      /\ queue # <<>> /\ Head(queue) = "SUN_EVENTS_CHANGED"
  BY DEF SunEventsChanged, Types, CurrentInv, Dispatching
<1> HIDE DEF events
<1>3. Quiet /\ \A s \in DoorSchedules : Obeyed(s)
  BY DEF DayInv
<1>4. /\ ~IsPending("DATE_CHANGED") /\ ~IsPending("TIME_CHANGED")
      /\ IsPending("SUN_EVENTS_CHANGED") /\ now = 0
  BY <1>2, <1>3, HeadIsFirst DEF Quiet
<1>5. /\ ~IsPending("DATE_CHANGED")' /\ ~IsPending("TIME_CHANGED")'
      /\ ~IsPending("NVM_SETTINGS_CHANGED")' /\ ~IsPending("LOCATION_CHANGED")'
  BY <1>1, <1>2, <1>3, <1>4, HandlerKeepsPending DEF Chain, Quiet
<1>6. ~IsPending("SUN_EVENTS_CHANGED")'
  BY <1>1, <1>2, <1>3, PublishKeepsPending DEF Quiet
<1>7. /\ Once("DATE_CHANGED")' /\ Once("TIME_CHANGED")' /\ Once("SUN_EVENTS_CHANGED")'
      /\ Before("DATE_CHANGED", "TIME_CHANGED")' /\ Before("TIME_CHANGED", "SUN_EVENTS_CHANGED")'
  BY <1>1, <1>2, <1>3, HandlerKeepsOrder DEF Quiet
<1>8. UNCHANGED <<now, today, nvmSettings, obeyed>>
  BY DEF SunEventsChanged, clockVars, history
<1>9. Quiet'
  BY <1>5, <1>6, <1>7 DEF Quiet
<1>10. ASSUME NEW s \in DoorSchedules PROVE Obeyed(s)'
  <2>1. ~Unheld'
    BY <1>5, <1>6 DEF Unheld
  <2>2. TableOK(schedules) /\ dateDiscriminator \in Bytes /\ onSunEventsChanged
    BY TableIsOK DEF IInv, TypeOK, Bytes, SunEventsChanged
  <2>3. WantedTimes' = WantedTimes
    BY <1>8, WantedAre DEF WantedTimes
  <2>4. WantedTimes[s] \in Nat
    BY WantedAreMinutes, SchedulesAssumption DEF Minutes
  <2>5. PassedBy(WantedTimes[s])' <=> PassedBy(WantedTimes[s])
    BY <1>4, <1>5, <1>8, <2>3 DEF PassedBy
  <2>6. CASE nvmSettings.mode = "sun"
    <3>1. obeyed'[s] = 0
      BY <1>3, <1>4, <1>8, <2>6 DEF Obeyed, Unheld
    <3>2. ~AbsentFrom(schedules', s)
      BY <2>2, <2>6, SunEventsEffect
    <3>3. ToCome(s)'
      BY <1>4, <1>8, <2>3, <2>4, <2>6 DEF ToCome, PassedBy
    <3> QED BY <1>8, <2>1, <3>1, <3>2, <3>3 DEF Obeyed
  <2>7. CASE nvmSettings.mode # "sun"
    <3>1. ~Unheld
      BY <1>4, <2>7 DEF Unheld
    <3>2. ToCome(s)' <=> ToCome(s)
      BY <1>8, <2>3, <2>5 DEF ToCome
    <3>3. schedules' = schedules
      BY <2>2, <2>7, SunEventsEffect
    <3> QED BY <1>3, <1>8, <2>1, <3>1, <3>2, <3>3 DEF Obeyed
  <2> QED BY <2>6, <2>7
<1> QED BY <1>9, <1>10

LEMMA ActionedKeepsDay ==
    ASSUME CurrentInv, DayInv, ScheduleActioned, ~disturbed
    PROVE  Quiet' /\ \A s \in DoorSchedules : Obeyed(s)'
<1> DEFINE events == <<>>
<1>1. \A type : ~In(events, type)
  BY WhatIsIn
<1>2. /\ QueueOK /\ queue # <<>> /\ Publish(events) /\ events \in Seq(Types)
  BY DEF ScheduleActioned, CurrentInv, Dispatching
<1> HIDE DEF events
<1>3. Quiet /\ \A s \in DoorSchedules : Obeyed(s)
  BY DEF DayInv
<1>4. \A type \in Chain : IsPending(type)' <=> IsPending(type)
  BY <1>2, ActionedIsNotHeard
<1>5. /\ Once("DATE_CHANGED")' /\ Once("TIME_CHANGED")' /\ Once("SUN_EVENTS_CHANGED")'
      /\ Before("DATE_CHANGED", "TIME_CHANGED")' /\ Before("TIME_CHANGED", "SUN_EVENTS_CHANGED")'
  BY <1>1, <1>2, <1>3, HandlerKeepsOrder DEF Quiet
<1>6. UNCHANGED <<now, today, nvmSettings, schedules, obeyed>>
  BY DEF ScheduleActioned, clockVars, farVars, history
<1>7. Quiet'
  BY <1>3, <1>4, <1>5, <1>6 DEF Quiet, Chain
<1>8. ASSUME NEW s \in DoorSchedules PROVE Obeyed(s)'
  <2>1. WantedTimes' = WantedTimes
    BY <1>6, WantedAre DEF WantedTimes
  <2>2. PassedBy(WantedTimes[s])' <=> PassedBy(WantedTimes[s])
    BY <1>4, <1>6, <2>1 DEF PassedBy, Chain
  <2>3. ToCome(s)' <=> ToCome(s)
    BY <1>6, <2>1, <2>2 DEF ToCome
  <2>4. Unheld' <=> Unheld
    BY <1>4, <1>6 DEF Unheld, Chain
  <2>5. IsPending("DATE_CHANGED")' <=> IsPending("DATE_CHANGED")
    BY <1>4 DEF Chain
  <2> QED BY <1>3, <1>6, <2>3, <2>4, <2>5 DEF Obeyed
<1> QED BY <1>7, <1>8

\* Midnight starts an undisturbed day unless an event of the day before that
\* disturbs it is pending; any other minute leaves the day as it is.
LEMMA TickKeepsDay ==
    ASSUME IInv, CurrentInv, DayInv, clockTicked, ~disturbed'
    PROVE  Quiet' /\ \A s \in DoorSchedules : Obeyed(s)'
<1>1. QueueOK
  BY DEF CurrentInv
<1>2. /\ \A type \in Chain \ {"DATE_CHANGED", "TIME_CHANGED"} : IsPending(type)' <=> IsPending(type)
      /\ IsPending("TIME_CHANGED")'
      /\ IsPending("DATE_CHANGED")' <=> now' = 0
      /\ ~IsPending("DATE_CHANGED") /\ ~IsPending("TIME_CHANGED")
      /\ ~IsPending("SUN_EVENTS_CHANGED")
  BY <1>1, TickKeepsPending
<1>3. ~IsPending("SUN_EVENTS_CHANGED")'
  BY <1>2 DEF Chain
<1>4. Once("SUN_EVENTS_CHANGED")' /\ Before("TIME_CHANGED", "SUN_EVENTS_CHANGED")'
  BY <1>3 DEF Once, Before, IsPending
<1>5. CASE now' = 0
  <2> DEFINE events == <<"DATE_CHANGED", "TIME_CHANGED">>
  <2>1. queue' = queue \o events /\ events \in Seq(Types)
    BY <1>5 DEF clockTicked, Types
  <2>2. /\ Len(events) = 2 /\ events[1] = "DATE_CHANGED" /\ events[2] = "TIME_CHANGED"
        /\ \A k \in 1 .. Len(events) : k = 1 \/ k = 2
    OBVIOUS
  <2> HIDE DEF events
  <2>8. \A j, k \in 1 .. Len(events) :
            /\ events[j] = "DATE_CHANGED" /\ events[k] = "DATE_CHANGED" => j = k
            /\ events[j] = "TIME_CHANGED" /\ events[k] = "TIME_CHANGED" => j = k
            /\ events[j] = "DATE_CHANGED" /\ events[k] = "TIME_CHANGED" => j < k
    BY <2>2
  <2>3. Once("DATE_CHANGED")' /\ Once("TIME_CHANGED")' /\ Before("DATE_CHANGED", "TIME_CHANGED")'
    BY <1>1, <1>2, <2>1, <2>8, AppendKeepsOrder
  <2>4. ~IsPending("NVM_SETTINGS_CHANGED") /\ ~IsPending("LOCATION_CHANGED")
    BY <1>5 DEF clockTicked
  <2>5. ~IsPending("NVM_SETTINGS_CHANGED")' /\ ~IsPending("LOCATION_CHANGED")'
    BY <1>2, <2>4 DEF Chain
  <2>6. Quiet'
    BY <1>2, <1>3, <1>4, <1>5, <2>3, <2>5 DEF Quiet
  <2>7. \A s \in DoorSchedules : obeyed'[s] = 0
    BY <1>5 DEF clockTicked
  <2> QED BY <1>2, <1>5, <2>6, <2>7 DEF Obeyed, Unheld
<1>6. CASE now' # 0
  <2>1. ~disturbed
    BY <1>6 DEF clockTicked, history
  <2>2. Quiet /\ \A s \in DoorSchedules : Obeyed(s)
    BY <2>1 DEF DayInv
  <2> DEFINE events == <<"TIME_CHANGED">>
  <2>3. queue' = queue \o events /\ events \in Seq(Types)
    BY <1>1, <1>6 DEF clockTicked, Types, QueueOK
  <2>4. Len(events) = 1
    OBVIOUS
  <2> HIDE DEF events
  <2>12. \A j, k \in 1 .. Len(events) : j = k
    BY <2>4
  <2>5. Once("TIME_CHANGED")'
    BY <1>1, <1>2, <2>3, <2>12, AppendKeepsOrder
  <2>6. Once("DATE_CHANGED")' /\ Before("DATE_CHANGED", "TIME_CHANGED")'
    BY <1>2, <1>6 DEF Once, Before, IsPending
  <2>7. ~IsPending("NVM_SETTINGS_CHANGED")' /\ ~IsPending("LOCATION_CHANGED")'
    BY <1>2, <2>2 DEF Chain, Quiet
  <2>8. Quiet'
    BY <1>2, <1>3, <1>4, <1>6, <2>5, <2>6, <2>7 DEF Quiet
  <2>9. UNCHANGED <<today, nvmSettings, schedules, obeyed>>
    BY <1>6 DEF clockTicked, farVars, history
  <2>10. now' = now + 1 /\ now \in Int
    <3>1. now \in Minutes /\ now' = (now + 1) % MinutesPerDay
      BY DEF clockTicked, IInv, TypeOK
    <3> QED BY <1>6, <3>1, NextMinute, SchedulesAssumption DEF Minutes
  <2>11. ASSUME NEW s \in DoorSchedules PROVE Obeyed(s)'
    <3>1. WantedTimes' = WantedTimes
      BY <2>9, WantedAre DEF WantedTimes
    <3>2. WantedTimes[s] \in Int
      BY WantedAreMinutes DEF Minutes
    <3>3. PassedBy(WantedTimes[s])' <=> PassedBy(WantedTimes[s])
      BY <1>2, <2>10, <3>1, <3>2 DEF PassedBy
    <3>4. ToCome(s)' <=> ToCome(s)
      BY <2>9, <3>1, <3>3 DEF ToCome
    <3>5. ~Unheld' /\ ~Unheld
      BY <1>2, <1>3, <1>6 DEF Unheld
    <3> QED BY <2>2, <2>9, <3>4, <3>5 DEF Obeyed
  <2> QED BY <2>8, <2>11
<1> QED BY <1>5, <1>6

LEMMA StepKeepsDay ==
    ASSUME IInv, CurrentInv, DayInv, [Next]_vars
    PROVE  DayInv'
<1> SUFFICES ASSUME ~disturbed'
             PROVE  Quiet' /\ \A s \in DoorSchedules : Obeyed(s)'
  BY DEF DayInv
<1>1. CASE DateChanged
  BY <1>1, DateKeepsDay DEF DateChanged, history
<1>2. CASE TimeChanged
  BY <1>2, MinuteKeepsDay DEF TimeChanged
<1>3. CASE SunEventsChanged
  BY <1>3, SunEventsKeepDay DEF SunEventsChanged, history
<1>4. CASE NvmSettingsChanged
  BY <1>4 DEF NvmSettingsChanged
<1>5. CASE LocationChanged
  <2>1. ~disturbed
    BY <1>5 DEF LocationChanged, history
  <2>2. IsPending("LOCATION_CHANGED")
    BY <1>5, HeadIsFirst DEF LocationChanged, CurrentInv
  <2> QED BY <2>1, <2>2 DEF DayInv, Quiet
<1>6. CASE ScheduleActioned
  BY <1>6, ActionedKeepsDay DEF ScheduleActioned, history
<1>7. CASE clockTicked
  BY <1>7, TickKeepsDay
<1>8. CASE clockSetNowGmt
  BY <1>8 DEF clockSetNowGmt
<1>9. CASE nvmSettingsStore
  BY <1>9 DEF nvmSettingsStore
<1>10. CASE Restart
  <2>1. Quiet' /\ IsPending("DATE_CHANGED")'
    BY <1>10, FreshQueueIsInOrder, FreshQueue DEF Restart
  <2>2. \A s \in DoorSchedules : obeyed'[s] = 0
    BY <1>10 DEF Restart
  <2> QED BY <2>1, <2>2 DEF Obeyed, Unheld
<1>11. CASE UNCHANGED vars
  <2>1. ~disturbed
    BY <1>11 DEF vars, history
  <2>2. WantedTimes' = WantedTimes
    BY <1>11, WantedAre DEF WantedTimes, vars, clockVars
  <2>3. Quiet'
    BY <1>11, <2>1 DEF DayInv, Quiet, vars, clockVars, IsPending, Once, Before
  <2>4. ASSUME NEW s \in DoorSchedules PROVE Obeyed(s)'
    BY <1>11, <2>1, <2>2
    DEF DayInv, Obeyed, Unheld, ToCome, PassedBy, IsPending, vars, clockVars, farVars, history
  <2> QED BY <2>3, <2>4
<1> QED
  BY <1>1, <1>2, <1>3, <1>4, <1>5, <1>6, <1>7, <1>8, <1>9, <1>10, <1>11 DEF Next

LEMMA InitStartsDay == Init => DayInv
<1> SUFFICES ASSUME Init PROVE Quiet /\ \A s \in DoorSchedules : Obeyed(s)
  BY DEF DayInv
<1>1. /\ Len(queue) = 2 /\ queue[1] = "DATE_CHANGED" /\ queue[2] = "TIME_CHANGED"
      /\ \A k \in 1 .. Len(queue) : k = 1 \/ k = 2
  BY DEF Init
<1>2. /\ IsPending("DATE_CHANGED") /\ IsPending("TIME_CHANGED")
      /\ ~IsPending("SUN_EVENTS_CHANGED") /\ ~IsPending("NVM_SETTINGS_CHANGED")
      /\ ~IsPending("LOCATION_CHANGED")
  BY <1>1 DEF IsPending
<1>3. Once("DATE_CHANGED") /\ Once("TIME_CHANGED") /\ Once("SUN_EVENTS_CHANGED")
  BY <1>1 DEF Once
<1>4. Before("DATE_CHANGED", "TIME_CHANGED") /\ Before("TIME_CHANGED", "SUN_EVENTS_CHANGED")
  BY <1>1 DEF Before
<1>5. now = 0 /\ \A s \in DoorSchedules : obeyed[s] = 0
  BY DEF Init
<1> QED BY <1>2, <1>3, <1>4, <1>5 DEF Quiet, Obeyed, Unheld

LEMMA DayInvariant == Spec => [](IInv /\ CurrentInv /\ DayInv)
<1>1. IInv /\ CurrentInv /\ DayInv /\ [Next]_vars => IInv' /\ CurrentInv' /\ DayInv'
  BY StepKeepsIInv, StepKeepsCurrent, StepKeepsDay
<1> QED BY InitIsOK, InitIsCurrent, InitStartsDay, <1>1, PTL DEF Spec

\* At the end of every day on which nobody set the clock or stored settings, and
\* which no such event of the day before reached into, the door was told to open and
\* to close once each, whatever was left in the table by the days before; except,
\* when the sun drives it, for what falls on midnight itself (FarScheduler.c,
\* DoorOnSunEventsChanged.c).
THEOREM QuietDaysAreObeyed == Spec => UndisturbedDaysAreObeyed
<1>1. ASSUME IInv, CurrentInv, DayInv, clockTicked, now' = 0, ~disturbed,
             NEW s \in DoorSchedules
      PROVE  obeyed[s] = (IF \/ nvmSettings.mode = "time"
                             \/ nvmSettings.mode = "sun" /\ WantedTimes[s] # 0 THEN 1 ELSE 0)
  <2>1. /\ ~IsPending("DATE_CHANGED") /\ ~IsPending("TIME_CHANGED")
        /\ ~IsPending("SUN_EVENTS_CHANGED")
    BY <1>1, TickKeepsPending DEF CurrentInv
  <2>2. Obeyed(s) /\ ~Unheld
    BY <1>1, <2>1 DEF DayInv, Unheld
  <2>3. now = MinutesPerDay - 1
    <3>1. now \in Minutes /\ now' = (now + 1) % MinutesPerDay
      BY <1>1 DEF clockTicked, IInv, TypeOK
    <3> QED BY <1>1, <3>1, NextMinute, SchedulesAssumption DEF Minutes
  <2>4. WantedTimes[s] \in Int /\ WantedTimes[s] <= MinutesPerDay - 1
    BY <1>1, WantedAreMinutes, SchedulesAssumption DEF Minutes
  <2>5. PassedBy(WantedTimes[s])
    BY <2>1, <2>3, <2>4 DEF PassedBy
  <2>6. ToCome(s) <=> nvmSettings.mode = "sun" /\ WantedTimes[s] = 0
    BY <2>5 DEF ToCome
  <2> QED BY <2>2, <2>6 DEF Obeyed
<1>2. IInv /\ CurrentInv /\ DayInv /\ [Next]_vars =>
          [clockTicked /\ now' = 0 /\ ~disturbed =>
              \A s \in DoorSchedules : obeyed[s] =
                  (IF \/ nvmSettings.mode = "time"
                      \/ nvmSettings.mode = "sun" /\ WantedTimes[s] # 0 THEN 1 ELSE 0)]_vars
  BY <1>1
<1> QED BY <1>2, DayInvariant, PTL DEF Spec, UndisturbedDaysAreObeyed
=============================================================================
