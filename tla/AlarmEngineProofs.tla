------------------------- MODULE AlarmEngineProofs -------------------------
(***************************************************************************)
(* Proofs about AlarmEngine for any set of alarms, any horizon and any     *)
(* bound on the calls made at one instant.                                 *)
(***************************************************************************)
EXTENDS AlarmEngine, WellFoundedInduction, TLAPS

\* A set of natural numbers that is not empty has a least element.
LEMMA LeastExists ==
    ASSUME NEW T \in SUBSET Nat, T # {}
    PROVE  \E t \in T : \A u \in T : t <= u
  <1>1. PICK t \in T : \A u \in T : ~(<<u, t>> \in OpToRel(<, Nat))
    BY NatLessThanWellFounded, WFMin, Zenon
  <1>2. OpToRel(<, Nat) = {p \in Nat \X Nat : p[1] < p[2]}
    BY Zenon DEF OpToRel
  <1>3. \A u \in T : ~(<<u, t>> \in {p \in Nat \X Nat : p[1] < p[2]})
    BY <1>1, <1>2, Zenon
  <1>4. ASSUME NEW u \in T PROVE t <= u
    <2>1. u \in Nat /\ t \in Nat
      BY <1>1, Zenon
    <2>2. ~(u < t)
      BY <1>3, <2>1, Zenon
    <2> QED
      BY <2>1, <2>2
  <1> QED
    BY <1>4

\* Begin is what alarm_map_.begin() is: the least key of a map that is not
\* empty, and the key of one of its entries.
LEMMA BeginIsLeast ==
    ASSUME NEW map \in SUBSET Entry, map # {}
    PROVE  /\ Begin(map) \in Time
           /\ \A e \in map : Begin(map) <= e.time
           /\ \E e \in map : e.time = Begin(map)
  <1> DEFINE T == {e.time : e \in map}
  <1>1. T \in SUBSET Nat /\ T # {}
    BY ConstantsAssumption DEF Entry, Time
  <1>2. PICK t \in T : \A u \in T : t <= u
    BY <1>1, LeastExists, Zenon
  <1>3. Begin(map) \in T /\ \A e \in map : Begin(map) <= e.time
    BY <1>2 DEF Begin
  <1> QED
    BY <1>3 DEF Entry, Time

-----------------------------------------------------------------------------
(***************************************************************************)
(* The inductive invariant.  Registry and WakeUp need three more facts:    *)
(* no entry is behind the clock, an entry ahead of the clock carries the   *)
(* deadline of its alarm, and what waits in cbs is due.                    *)
(***************************************************************************)

Working == fault = "none" /\ pc # "shutdown"

Entries ==
    /\ \A e \in alarm_map_ :
         /\ now <= e.time
         /\ \/ e.time = deadline_[e.cb]
            \/ e.time = now /\ deadline_[e.cb] < now
    /\ \A a \in cbs : deadline_[a] <= now

Stack ==
    /\ pc \in {"idle", "shutdown"} => cbs = {}
    /\ running # NoAlarm <=> pc = "callback"

IInv ==
    /\ TypeOK
    /\ Registry
    /\ WakeUp
    /\ EngineAssertions
    /\ Working => Entries
    /\ Stack

\* A new engine satisfies the invariant.
LEMMA InitIInv == Init => IInv
  BY ConstantsAssumption
  DEF Init, IInv, TypeOK, Registry, WakeUp, EngineAssertions, Working,
      Entries, Stack, Time, Entry, Phase, Fault, NoTimer, Zero, IsSet

\* Set and Update reach the map through RegisterAlarm.
LEMMA RegisterPreserves ==
    ASSUME IInv, MayCall,
           NEW a \in Alarm, NEW d \in Time \ {Zero},
           a \notin registered_,
           deadline_' = [deadline_ EXCEPT ![a] = d],
           RegisterAlarm(d, a),
           calls' = calls + 1,
           UNCHANGED <<now, cbs, running, pc>>
    PROVE  IInv'
  <1> DEFINE t == NotBeforeNow(d)
             new == [time |-> t, cb |-> a]
             map == alarm_map_ \cup {new}
  <1>1. /\ TypeOK /\ fault = "none" /\ pc \in {"idle", "callback"} /\ Working
        /\ now \in Nat /\ now <= Horizon /\ Horizon \in Nat
        /\ d \in Nat /\ d <= Horizon + 1 /\ d # 0
    BY ConstantsAssumption DEF IInv, MayCall, TypeOK, Working, Time, Zero
  <1>2. /\ t \in Time /\ now <= t
        /\ t = d \/ (t = now /\ d < now)
    BY <1>1 DEF NotBeforeNow, Time
  <1>3. a \notin all_alarms_ /\ a \notin cbs
    BY <1>1 DEF IInv, Registry, Working
  <1>4. /\ alarm_map_' = map
        /\ all_alarms_' = all_alarms_ \cup {a}
        /\ registered_' = registered_ \cup {a}
        /\ IF timer_ = NoTimer \/ ComesFirst(t)
             THEN UpdateTimer(map)
             ELSE UNCHANGED <<timer_, fault>>
    BY <1>3 DEF RegisterAlarm
  <1> HIDE DEF t
  <1>5a. new \in Entry /\ new.time = t /\ new.cb = a
    BY <1>2 DEF Entry
  <1> HIDE DEF new
  <1>5. map \in SUBSET Entry /\ map # {}
    BY <1>1, <1>5a DEF TypeOK
  <1>6. \A e \in map : now <= e.time
    BY <1>1, <1>2, <1>5a DEF IInv, Entries
  <1>7. Begin(map) \in Time /\ \A e \in map : Begin(map) <= e.time
    BY <1>5, BeginIsLeast
  <1>8. now <= Begin(map)
    BY <1>5, <1>6, BeginIsLeast
  <1>9. fault' = "none"
    BY <1>1, <1>4, <1>7, <1>8 DEF UpdateTimer, Time
  <1>10. timer_' \in Time \cup {NoTimer}
    BY <1>1, <1>4, <1>5, <1>7 DEF UpdateTimer, TypeOK
  <1>11. TypeOK'
    <2>1. calls' \in 0 .. MaxCalls
      BY <1>1, ConstantsAssumption DEF MayCall, TypeOK
    <2> QED
      BY <1>1, <1>4, <1>5, <1>9, <1>10, <2>1 DEF TypeOK, Fault
  <1>12. Registry'
    <2>1. all_alarms_' = {e.cb : e \in map}
      BY <1>1, <1>4, <1>5a DEF IInv, Registry, Working
    <2>2. \A e, f \in map : e.cb = f.cb => e = f
      BY <1>1, <1>3, <1>5a DEF IInv, Registry, Working
    <2>3. registered_' = {b \in Alarm : deadline_'[b] # Zero}
      BY <1>1, <1>4 DEF IInv, Registry, Working, TypeOK, IsSet
    <2> QED
      BY <1>1, <1>3, <1>4, <2>1, <2>2, <2>3
      DEF IInv, Registry, Working, IsSet
  <1>13. Entries'
    <2> SUFFICES ASSUME NEW e \in map
                 PROVE  /\ now <= e.time
                        /\ \/ e.time = deadline_'[e.cb]
                           \/ e.time = now /\ deadline_'[e.cb] < now
      BY <1>1, <1>3, <1>4 DEF IInv, Entries, TypeOK
    <2>1. CASE e \in alarm_map_
      <3>1. e.cb # a /\ e.cb \in Alarm
        BY <1>1, <1>3, <2>1 DEF IInv, Registry, Working, TypeOK, Entry
      <3> QED
        BY <1>1, <2>1, <3>1 DEF IInv, Entries, TypeOK
    <2>2. CASE e = new
      BY <1>1, <1>2, <1>5a, <2>2 DEF TypeOK
    <2> QED
      BY <2>1, <2>2
  <1>14. WakeUp'
    <2> SUFFICES ASSUME pc = "idle"
                 PROVE  /\ timer_' # NoTimer
                        /\ now <= timer_'
                        /\ \A e \in map : timer_' <= e.time
      BY <1>4 DEF WakeUp
    <2>1. CASE timer_ = NoTimer \/ ComesFirst(t)
      <3>1. timer_' = Begin(map)
        BY <1>4, <1>5, <2>1 DEF UpdateTimer
      <3>2. Begin(map) # NoTimer
        BY <1>7, ConstantsAssumption DEF Time, NoTimer
      <3> HIDE DEF map
      <3> QED
        BY <1>7, <1>8, <3>1, <3>2
    <2>2. CASE ~(timer_ = NoTimer \/ ComesFirst(t))
      <3>1. /\ alarm_map_ # {} /\ ~(t < Begin(alarm_map_))
            /\ timer_' = timer_ /\ timer_ \in Time
        BY <1>1, <1>4, <2>2 DEF ComesFirst, TypeOK
      <3>2. Begin(alarm_map_) \in Time
            /\ \E e \in alarm_map_ : e.time = Begin(alarm_map_)
        BY <1>1, <3>1, BeginIsLeast DEF TypeOK
      <3>3. now <= timer_ /\ \A e \in alarm_map_ : timer_ <= e.time
        BY <1>1, <3>1 DEF IInv, WakeUp
      <3>4. timer_ <= t
        BY <1>2, <3>1, <3>2, <3>3, ConstantsAssumption DEF Time
      <3> QED
        BY <1>5a, <2>2, <3>1, <3>3, <3>4
    <2> QED
      BY <2>1, <2>2
  <1>15. Stack'
    BY DEF IInv, Stack
  <1> QED
    BY <1>9, <1>11, <1>12, <1>13, <1>14, <1>15
    DEF IInv, EngineAssertions

\* Cancel takes the entry out through UnregisterIfRegistered.
LEMMA CancelPreserves ==
    ASSUME IInv, NEW a \in Alarm, Cancel(a)
    PROVE  IInv'
  <1>1. /\ TypeOK /\ fault = "none" /\ pc \in {"idle", "callback"} /\ Working
        /\ a \in registered_
        /\ UNCHANGED <<now, timer_, cbs, running, pc>>
        /\ deadline_' = [deadline_ EXCEPT ![a] = Zero]
    BY DEF IInv, Cancel, MayCall, Working, Registry
  <1>2. deadline_' \in [Alarm -> Time] /\ calls' \in 0 .. MaxCalls
    BY <1>1, ConstantsAssumption DEF Cancel, MayCall, TypeOK, Time, Zero
  <1>3. Stack'
    BY <1>1 DEF IInv, Stack
  <1>4. CASE ~InMap(a)
    <2>1. fault' = "stale_token" /\ UNCHANGED <<alarm_map_, all_alarms_, registered_>>
      BY <1>1, <1>4 DEF Cancel, UnregisterIfRegistered
    <2> QED
      BY <1>1, <1>2, <1>3, <2>1
      DEF IInv, TypeOK, Registry, WakeUp, EngineAssertions, Working, Fault
  <1>5. CASE InMap(a)
    <2>1. /\ alarm_map_' = Without(a)
          /\ all_alarms_' = all_alarms_ \ {a}
          /\ registered_' = registered_ \ {a}
          /\ fault' = "none"
      BY <1>1, <1>5 DEF Cancel, UnregisterIfRegistered
    <2>2. Without(a) \subseteq alarm_map_ /\ \A e \in Without(a) : e.cb # a
      BY DEF Without
    <2>3. a \notin cbs
      BY <1>1, <1>5 DEF InMap, IInv, Registry, Working
    <2>4. TypeOK'
      BY <1>1, <1>2, <2>1, <2>2 DEF TypeOK, Fault
    <2>5. Registry'
      <3>1. all_alarms_' = {e.cb : e \in Without(a)}
        BY <1>1, <2>1 DEF IInv, Registry, Working, Without
      <3>2. registered_' = {b \in Alarm : deadline_'[b] # Zero}
        BY <1>1, <2>1 DEF IInv, Registry, Working, TypeOK, IsSet
      <3> QED
        BY <1>1, <2>1, <2>2, <2>3, <3>1, <3>2 DEF IInv, Registry, Working, IsSet
    <2>6. WakeUp'
      BY <1>1, <2>1, <2>2 DEF IInv, WakeUp
    <2>7. Entries'
      BY <1>1, <2>1, <2>2, <2>3 DEF IInv, Entries, TypeOK, Entry
    <2> QED
      BY <1>3, <2>1, <2>4, <2>5, <2>6, <2>7 DEF IInv, EngineAssertions
  <1> QED
    BY <1>4, <1>5

\* Update moves the entry of a registered alarm through ReregisterAlarm.
LEMMA ReregisterPreserves ==
    ASSUME IInv, MayCall,
           NEW a \in Alarm, NEW d \in Time \ {Zero},
           a \in registered_, d >= now,
           deadline_' = [deadline_ EXCEPT ![a] = d],
           ReregisterAlarm(d, a),
           calls' = calls + 1,
           UNCHANGED <<now, cbs, running, pc>>
    PROVE  IInv'
  <1> DEFINE rest == Without(a)
             moved == [time |-> d, cb |-> a]
             map == rest \cup {moved}
  <1>1. /\ TypeOK /\ fault = "none" /\ pc \in {"idle", "callback"} /\ Working
        /\ now \in Nat /\ d \in Nat /\ d # 0
    BY ConstantsAssumption DEF IInv, MayCall, TypeOK, Working, Time, Zero
  <1>2. deadline_' \in [Alarm -> Time] /\ calls' \in 0 .. MaxCalls
    BY <1>1, ConstantsAssumption DEF MayCall, TypeOK
  <1>3. Stack'
    BY DEF IInv, Stack
  <1>4. UNCHANGED <<all_alarms_, registered_>>
    BY DEF ReregisterAlarm
  <1>5. moved \in Entry /\ moved.time = d /\ moved.cb = a
    BY DEF Entry
  <1>6. rest \subseteq alarm_map_ /\ \A e \in rest : e.cb # a
    BY DEF Without
  <1>7. CASE ~InMap(a) \/ rest = {}
    <2>1. /\ fault' \in {"stale_token", "map_empty"}
          /\ timer_' = timer_
          /\ alarm_map_' \in {alarm_map_, {}}
      BY <1>7 DEF ReregisterAlarm
    <2> QED
      BY <1>1, <1>2, <1>3, <1>4, <2>1
      DEF IInv, TypeOK, Registry, WakeUp, EngineAssertions, Working, Fault
  <1>8. CASE InMap(a) /\ rest # {}
    <2>1. /\ alarm_map_' = map
          /\ IF timer_ = NoTimer \/ d < Begin(rest)
               THEN UpdateTimer(map)
               ELSE UNCHANGED <<timer_, fault>>
      BY <1>8 DEF ReregisterAlarm
    <2>2. a \notin cbs /\ a \in all_alarms_
      BY <1>1, <1>8 DEF InMap, IInv, Registry, Working
    <2>3. /\ rest \in SUBSET Entry /\ rest # {}
          /\ map \in SUBSET Entry /\ map # {}
      BY <1>1, <1>5, <1>6, <1>8 DEF TypeOK
    <2> HIDE DEF rest, moved
    <2>4. \A e \in map : now <= e.time
      BY <1>1, <1>5, <1>6 DEF IInv, Entries
    <2> HIDE DEF map
    <2>5. /\ Begin(map) \in Time /\ \A e \in map : Begin(map) <= e.time
          /\ Begin(rest) \in Time
          /\ \E e \in rest : e.time = Begin(rest)
      BY <2>3, BeginIsLeast
    <2>6. now <= Begin(map)
      BY <2>3, <2>4, BeginIsLeast
    <2>7. fault' = "none"
      BY <1>1, <2>1, <2>5, <2>6 DEF UpdateTimer, Time
    <2>8. TypeOK'
      <3>1. timer_' \in Time \cup {NoTimer}
        BY <1>1, <2>1, <2>3, <2>5 DEF UpdateTimer, TypeOK
      <3> QED
        BY <1>1, <1>2, <1>4, <2>1, <2>3, <2>7, <3>1 DEF TypeOK, Fault
    <2>9. Registry'
      <3>1. all_alarms_' = {e.cb : e \in map}
        BY <1>1, <1>4, <1>5, <2>2 DEF IInv, Registry, Working, map, rest, Without
      <3>2. \A e, f \in map : e.cb = f.cb => e = f
        BY <1>1, <1>5, <1>6 DEF IInv, Registry, Working, map
      <3>3. registered_' = {b \in Alarm : deadline_'[b] # Zero}
        BY <1>1, <1>4 DEF IInv, Registry, Working, TypeOK, IsSet
      <3> QED
        BY <1>1, <1>4, <2>1, <3>1, <3>2, <3>3 DEF IInv, Registry, Working, IsSet
    <2>10. Entries'
      <3>1. \A e \in rest : e.cb \in Alarm /\ deadline_'[e.cb] = deadline_[e.cb]
        BY <1>1, <1>6, <2>3 DEF TypeOK, Entry
      <3>2. deadline_'[a] = d
        BY <1>1 DEF TypeOK
      <3>3. \A b \in cbs : deadline_'[b] = deadline_[b]
        BY <1>1, <2>2 DEF TypeOK
      <3> QED
        BY <1>1, <1>5, <1>6, <2>1, <3>1, <3>2, <3>3 DEF IInv, Entries, map
    <2>11. WakeUp'
      <3> SUFFICES ASSUME pc = "idle"
                   PROVE  /\ timer_' # NoTimer
                          /\ now <= timer_'
                          /\ \A e \in map : timer_' <= e.time
        BY <2>1 DEF WakeUp
      <3>1. CASE timer_ = NoTimer \/ d < Begin(rest)
        <4>1. timer_' = Begin(map)
          BY <2>1, <2>3, <3>1 DEF UpdateTimer
        <4>2. Begin(map) # NoTimer
          BY <2>5, ConstantsAssumption DEF Time, NoTimer
        <4> QED
          BY <2>5, <2>6, <4>1, <4>2
      <3>2. CASE ~(timer_ = NoTimer \/ d < Begin(rest))
        <4>1. timer_' = timer_ /\ timer_ \in Time
          BY <1>1, <2>1, <3>2 DEF TypeOK
        <4>2. now <= timer_ /\ \A e \in alarm_map_ : timer_ <= e.time
          BY <1>1, <1>8, <1>6 DEF IInv, WakeUp
        <4>3. timer_ <= d
          BY <1>1, <1>6, <2>5, <3>2, <4>1, <4>2, ConstantsAssumption DEF Time
        <4> QED
          BY <1>5, <1>6, <3>2, <4>1, <4>2, <4>3 DEF map
      <3> QED
        BY <3>1, <3>2
    <2> QED
      BY <1>3, <2>7, <2>8, <2>9, <2>10, <2>11 DEF IInv, EngineAssertions
  <1> QED
    BY <1>7, <1>8

\* OnTimeout, its callbacks and its return keep the invariant: the entries it
\* erases are the ones it collects, and the timer is set again at the end.
LEMMA EngineStepPreserves ==
    ASSUME IInv, EngineStep
    PROVE  IInv'
  <1>1. CASE OnTimeout
    <2>1. /\ TypeOK /\ Working /\ pc = "idle" /\ cbs = {}
          /\ Registry /\ Entries
      BY <1>1 DEF OnTimeout, IInv, Working, Stack
    <2>2. /\ alarm_map_' = alarm_map_ \ Due
          /\ all_alarms_' = all_alarms_ \ {e.cb : e \in Due}
          /\ cbs' = {e.cb : e \in Due}
          /\ timer_' = NoTimer /\ pc' = "dispatch"
          /\ UNCHANGED <<now, registered_, deadline_, running, calls, fault>>
      BY <1>1 DEF OnTimeout
    <2>3. Due \subseteq alarm_map_ /\ \A e \in Due : e.time <= now
      BY DEF Due
    <2>4. TypeOK'
      BY <2>1, <2>2, <2>3 DEF TypeOK, Phase, Entry
    <2>5. Registry'
      <3>1. /\ all_alarms_ = {e.cb : e \in alarm_map_}
            /\ \A e, f \in alarm_map_ : e.cb = f.cb => e = f
            /\ registered_ = all_alarms_
            /\ registered_ = {a \in Alarm : IsSet(a)}
        BY <2>1 DEF Registry, Working
      <3>2. all_alarms_' = {e.cb : e \in alarm_map_'}
        BY <2>2, <2>3, <3>1
      <3>3. registered_' = all_alarms_' \cup cbs' /\ cbs' \cap all_alarms_' = {}
        BY <2>2, <2>3, <3>1
      <3>4. registered_' = {a \in Alarm : IsSet(a)'}
        BY <2>2, <3>1 DEF IsSet
      <3> QED
        BY <2>2, <3>1, <3>2, <3>3, <3>4, Zenon DEF Registry
    <2>6. Entries'
      <3>1. \A a \in cbs' : deadline_[a] <= now
        <4> SUFFICES ASSUME NEW e \in Due PROVE deadline_[e.cb] <= now
          BY <2>2
        <4>1. e.time <= now /\ e.time \in Int /\ deadline_[e.cb] \in Int /\ now \in Int
          BY <2>1, <2>3, ConstantsAssumption DEF TypeOK, Entry, Time
        <4> QED
          BY <2>1, <2>3, <4>1 DEF Entries
      <3> QED
        BY <2>1, <2>2, <2>3, <3>1 DEF Entries
    <2> QED
      BY <2>1, <2>2, <2>4, <2>5, <2>6
      DEF IInv, WakeUp, EngineAssertions, Stack, Working
  <1>2. ASSUME NEW a \in Alarm, OnAlarm(a) PROVE IInv'
    <2>1. /\ TypeOK /\ Working /\ Registry /\ Entries /\ a \in cbs
          /\ pc = "dispatch"
      BY <1>2 DEF OnAlarm, IInv, Working
    <2>2. /\ cbs' = cbs \ {a}
          /\ registered_' = registered_ \ {a}
          /\ deadline_' = [deadline_ EXCEPT ![a] = Zero]
          /\ \/ running' = a /\ pc' = "callback"
             \/ running' = running /\ pc' = pc
          /\ UNCHANGED <<now, alarm_map_, all_alarms_, timer_, calls, fault>>
      BY <1>2 DEF OnAlarm
    <2>3. \A e \in alarm_map_ : e.cb \in Alarm /\ e.cb # a
      BY <2>1 DEF Registry, Working, TypeOK, Entry
    <2>4. TypeOK'
      BY <2>1, <2>2, ConstantsAssumption DEF TypeOK, Phase, Time, Zero
    <2>5. Registry'
      <3>1. registered_' = {b \in Alarm : deadline_'[b] # Zero}
        BY <2>1, <2>2 DEF Registry, Working, TypeOK, IsSet
      <3> QED
        BY <2>1, <2>2, <2>3, <3>1 DEF Registry, Working, IsSet
    <2>6. Entries'
      BY <2>1, <2>2, <2>3 DEF Entries, TypeOK
    <2>7. Stack'
      BY <1>2, <2>1, <2>2, ConstantsAssumption DEF IInv, Stack
    <2> QED
      BY <2>1, <2>2, <2>4, <2>5, <2>6, <2>7 DEF IInv, WakeUp, EngineAssertions
  <1>3. CASE OnAlarmReturn
    BY <1>3 DEF OnAlarmReturn, IInv, TypeOK, Phase, Registry, WakeUp,
                EngineAssertions, Working, Entries, Stack, IsSet
  <1>4. CASE OnTimeoutReturn
    <2>1. /\ TypeOK /\ Working /\ Registry /\ Entries /\ pc = "dispatch"
          /\ pc' = "idle" /\ cbs = {}
          /\ UpdateTimer(alarm_map_)
          /\ UNCHANGED <<now, alarm_map_, all_alarms_, registered_, deadline_,
                         cbs, running, calls>>
      BY <1>4 DEF OnTimeoutReturn, IInv, Working
    <2>2. alarm_map_ # {} =>
            /\ Begin(alarm_map_) \in Time /\ now <= Begin(alarm_map_)
            /\ \A e \in alarm_map_ : Begin(alarm_map_) <= e.time
      BY <2>1, BeginIsLeast DEF Entries, TypeOK
    <2>3. now \in Int /\ \A t \in Time : t \in Int /\ t # NoTimer
      BY <2>1, ConstantsAssumption DEF TypeOK, Time, NoTimer
    <2>4. fault' = "none"
      BY <2>1, <2>2, <2>3 DEF UpdateTimer
    <2>5. TypeOK'
      BY <2>1, <2>2, <2>4 DEF TypeOK, Phase, Fault, UpdateTimer
    <2>6. WakeUp'
      BY <2>1, <2>2, <2>3 DEF WakeUp, UpdateTimer
    <2>7. Registry' /\ Entries'
      BY <2>1, <2>4 DEF Registry, Working, Entries, IsSet
    <2> QED
      BY <1>4, <2>1, <2>4, <2>5, <2>6, <2>7
      DEF IInv, EngineAssertions, Stack
  <1> QED
    BY <1>1, <1>2, <1>3, <1>4 DEF EngineStep

\* Destroying the engine, and the clock, keep the invariant.
LEMMA RestPreserves ==
    ASSUME IInv, Shutdown \/ OnTimeoutAfterShutdown \/ Tick
    PROVE  IInv'
  <1>1. CASE Shutdown
    BY <1>1 DEF Shutdown, IInv, TypeOK, Phase, Registry, WakeUp,
                EngineAssertions, Working, Stack
  <1>2. CASE OnTimeoutAfterShutdown
    BY <1>2 DEF OnTimeoutAfterShutdown, IInv, TypeOK, Fault, Registry, WakeUp,
                EngineAssertions, Working, Stack
  <1>3. CASE Tick
    <2>1. /\ TypeOK /\ cbs = {} /\ fault = "none" /\ pc \in {"idle", "shutdown"}
          /\ timer_ # now /\ now < Horizon /\ now' = now + 1 /\ calls' = 0
          /\ UNCHANGED <<alarm_map_, all_alarms_, timer_, registered_,
                         deadline_, cbs, running, pc, fault>>
      BY <1>3 DEF Tick, IInv, Stack
    <2>2. /\ now \in Nat /\ now' \in 0 .. Horizon
          /\ timer_ \in Int
          /\ \A e \in alarm_map_ : e.time \in Int /\ deadline_[e.cb] \in Int
      BY <2>1, ConstantsAssumption DEF TypeOK, Time, Entry, NoTimer
    <2>3. TypeOK'
      BY <2>1, <2>2, ConstantsAssumption DEF TypeOK
    <2>4. Registry' /\ Stack' /\ EngineAssertions'
      BY <2>1 DEF IInv, Registry, Stack, EngineAssertions, IsSet
    <2>5. WakeUp'
      BY <2>1, <2>2 DEF IInv, WakeUp
    <2>6. (pc = "idle") => Entries'
      <3> SUFFICES ASSUME pc = "idle", NEW e \in alarm_map_
                   PROVE  now + 1 <= e.time /\ e.time = deadline_[e.cb]
        BY <2>1 DEF Entries
      <3>1. now < e.time
        BY <2>1, <2>2 DEF IInv, WakeUp
      <3> QED
        BY <2>1, <2>2, <3>1 DEF IInv, Entries, Working
    <2> QED
      BY <2>1, <2>3, <2>4, <2>5, <2>6 DEF IInv, Working
  <1> QED
    BY <1>1, <1>2, <1>3

\* The engine's invariant is inductive.
LEMMA NextPreserves == IInv /\ [Next]_vars => IInv'
  <1> SUFFICES ASSUME IInv, [Next]_vars PROVE IInv'
    OBVIOUS
  <1>1. ASSUME MayCall, NEW a \in Alarm
        PROVE  /\ IsSet(a) <=> a \in registered_
    BY <1>1 DEF IInv, Registry, MayCall
  <1>2. ASSUME NEW a \in Alarm, NEW d \in Time \ {Zero}, Set(a, d)
        PROVE  IInv'
    BY <1>1, <1>2, RegisterPreserves, Zenon DEF Set
  <1>3. ASSUME NEW a \in Alarm, NEW d \in Time \ {Zero},
               NEW g \in Granularity, Update(a, d, g)
        PROVE  IInv'
    <2>1. CASE a \in registered_
      BY <1>1, <1>3, <2>1, ReregisterPreserves, Zenon DEF Update
    <2>2. CASE a \notin registered_
      BY <1>1, <1>3, <2>2, RegisterPreserves, Zenon DEF Update
    <2> QED
      BY <2>1, <2>2
  <1>4. CASE UNCHANGED vars
    BY <1>4 DEF vars, IInv, TypeOK, Registry, WakeUp, EngineAssertions,
                Working, Entries, Stack, IsSet
  <1> QED
    BY <1>2, <1>3, <1>4, CancelPreserves, EngineStepPreserves, RestPreserves
    DEF Next, AlarmCall

-----------------------------------------------------------------------------
(***************************************************************************)
(* The invariants of the runs, for every value of the constants.           *)
(***************************************************************************)

\* Every variable of the engine keeps its type.
THEOREM TypeCorrect == Spec => []TypeOK
  <1>1. IInv => TypeOK
    BY DEF IInv
  <1> QED
    BY <1>1, InitIInv, NextPreserves, PTL DEF Spec

\* The engine's set, its map, OnTimeout's vector, the registered_ flags and the
\* deadlines of the QuicAlarms agree in every reachable state.
THEOREM RegistryHolds == Spec => []Registry
  <1>1. IInv => Registry
    BY DEF IInv
  <1> QED
    BY <1>1, InitIInv, NextPreserves, PTL DEF Spec

\* An engine with a registered alarm always has its event scheduled in time.
THEOREM NoLostWakeUp == Spec => []WakeUp
  <1>1. IInv => WakeUp
    BY DEF IInv
  <1> QED
    BY <1>1, InitIInv, NextPreserves, PTL DEF Spec

\* UpdateTimer is never asked for a time that has passed and no alarm is
\* registered twice.
THEOREM AssertionsHold == Spec => []EngineAssertions
  <1>1. IInv => EngineAssertions
    BY DEF IInv
  <1> QED
    BY <1>1, InitIInv, NextPreserves, PTL DEF Spec

-----------------------------------------------------------------------------
(***************************************************************************)
(* The engine implements AlarmService.                                     *)
(***************************************************************************)

\* The clock advances only when every alarm that is set lies ahead.
LEMMA TickIsAdvance ==
    ASSUME IInv, Tick
    PROVE  Service!Advance
  <1>1. running = NoAlarm
    BY DEF Tick, IInv, Stack
  <1>2. ASSUME pc # "shutdown", NEW a \in Alarm, deadline_[a] # 0
        PROVE  deadline_[a] > now
    <2>1. pc = "idle" /\ Working /\ cbs = {}
      BY <1>2 DEF Tick, Working, IInv, Stack
    <2>2. a \in all_alarms_
      BY <1>2, <2>1 DEF IInv, Registry, Working, IsSet, Zero
    <2>3. PICK e \in alarm_map_ : e.cb = a
      BY <2>1, <2>2 DEF IInv, Registry, Working
    <2>4. /\ e.time \in Int /\ timer_ \in Int /\ deadline_[a] \in Int /\ now \in Int
      BY ConstantsAssumption DEF IInv, TypeOK, Time, Entry, NoTimer
    <2>5. now < e.time
      BY <2>1, <2>4 DEF Tick, IInv, WakeUp, Working
    <2> QED
      BY <2>1, <2>3, <2>4, <2>5 DEF IInv, Entries
  <1> QED
    BY <1>1, <1>2 DEF Tick, Service!Advance

\* Every step of the engine is a step of the service or leaves it unchanged.
LEMMA StepRefines == IInv /\ [Next]_vars => [Service!Next]_(Service!vars)
  <1> SUFFICES ASSUME IInv, [Next]_vars
               PROVE  Service!Next \/ UNCHANGED Service!vars
    OBVIOUS
  <1>1. ASSUME NEW a \in Alarm, NEW d \in Time \ {Zero}, Set(a, d)
        PROVE  Service!Set(a, d)
    BY <1>1 DEF Set, MayCall, IsSet, Zero, Service!Set
  <1>2. ASSUME NEW a \in Alarm, NEW d \in Time \ {Zero},
               NEW g \in Granularity, Update(a, d, g)
        PROVE  Service!Update(a, d, g)
    <2>1. d \in Int /\ deadline_[a] \in Int
      BY ConstantsAssumption DEF IInv, TypeOK, Time
    <2>2. Abs(d - deadline_[a]) = Service!Distance(d, deadline_[a])
      BY <2>1 DEF Abs, Service!Distance
    <2> QED
      BY <1>2, <2>2 DEF Update, MayCall, Service!Update
  <1>3. ASSUME NEW a \in Alarm, Cancel(a)
        PROVE  Service!Cancel(a)
    BY <1>3 DEF Cancel, MayCall, IsSet, Zero, Service!Cancel
  <1>4. CASE OnTimeout
    BY <1>4 DEF OnTimeout, Service!vars
  <1>5. ASSUME NEW a \in Alarm, OnAlarm(a)
        PROVE  Service!Fire(a)
    <2>1. IsSet(a) /\ deadline_[a] <= now
      BY <1>5 DEF OnAlarm, IInv, Registry, Working, Entries
    <2>2. running = NoAlarm
      BY <1>5 DEF OnAlarm, IInv, Stack
    <2> QED
      BY <1>5, <2>1, <2>2 DEF OnAlarm, IsSet, Zero, Service!Fire
  <1>6. CASE OnAlarmReturn
    BY <1>6 DEF OnAlarmReturn, IInv, Stack, Service!Return, Service!Next
  <1>7. CASE OnTimeoutReturn
    BY <1>7 DEF OnTimeoutReturn, UpdateTimer, Service!vars, Service!Close,
                Service!Next
  <1>8. CASE Shutdown
    BY <1>8 DEF Shutdown, Service!Close, Service!Next
  <1>9. CASE OnTimeoutAfterShutdown
    BY <1>9 DEF OnTimeoutAfterShutdown, Service!vars
  <1>10. CASE UNCHANGED vars
    BY <1>10 DEF vars, Service!vars
  <1> QED
    BY <1>1, <1>2, <1>3, <1>4, <1>5, <1>6, <1>7, <1>8, <1>9, <1>10, TickIsAdvance
    DEF Next, AlarmCall, EngineStep, Service!Next

\* The engine with its simulator event keeps the promise of quic_alarm.h: no
\* delegate runs early or for a cancelled alarm, and time never passes an
\* alarm that is due, for any number of alarms and any interleaving of the
\* calls the delegates make.
THEOREM EngineImplementsService == Spec => ImplementsAlarmService
  <1>1. Init => Service!Init
    BY DEF Init, Service!Init, Zero
  <1> QED
    BY <1>1, InitIInv, NextPreserves, StepRefines, PTL
    DEF Spec, ImplementsAlarmService, Service!Spec
=============================================================================
