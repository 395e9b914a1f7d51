---------------------------- MODULE AlarmEngine ----------------------------
(***************************************************************************)
(* Ns3QuicAlarmEngine, the object that turns every QuicAlarm of a QUIC     *)
(* endpoint into ONE ns-3 simulator event, with the BaseAlarm and the      *)
(* QuicAlarm each of its entries belongs to.                               *)
(*                                                                         *)
(* The simulator is single threaded: the hard part is re-entrancy.         *)
(* OnTimeout moves every due entry out of the engine before it calls the   *)
(* first of them, and each call runs a delegate that sets, moves and       *)
(* cancels alarms, the ones still waiting in cbs included.  So OnTimeout   *)
(* is split at its callbacks: OnTimeout, OnAlarm, one action per call the  *)
(* delegate makes, OnAlarmReturn, OnTimeoutReturn.                         *)
(*                                                                         *)
(* An AlarmRegToken is an iterator into alarm_map_; it is live exactly     *)
(* while the map holds an entry of its alarm, so no variable stores it.    *)
(* A failed assertion or the use of a dead iterator stops the program and  *)
(* is named in fault.                                                      *)
(***************************************************************************)
EXTENDS Integers

CONSTANTS
    Alarm,          \* the alarms created by Ns3AlarmFactory for one endpoint
    Horizon,        \* the simulated microsecond at which Simulator::Stop acts
    Granularity,    \* granularities QuicAlarm::Update is called with
    MaxCalls,       \* bound: alarm calls made at one simulated instant
    NoAlarm         \* no delegate is running

ASSUME ConstantsAssumption ==
    /\ Horizon \in Nat
    /\ MaxCalls \in Nat
    /\ Granularity \subseteq Nat
    /\ NoAlarm \notin Alarm

VARIABLES
    now,            \* ns3::Simulator::Now(), in microseconds
    alarm_map_,     \* the multimap: a set of [time, cb] entries
    all_alarms_,    \* the callbacks the engine believes registered
    timer_,         \* when the pending OnTimeout event is due, or NoTimer
    registered_,    \* the alarms whose BaseAlarm::registered_ is true
    deadline_,      \* QuicAlarm::deadline_; Zero is "not set"
    cbs,            \* OnTimeout's local vector: due, erased, not yet called
    running,        \* the alarm whose delegate is on the stack, or NoAlarm
    pc,             \* where the engine is: see Phase
    calls,          \* alarm calls made at this instant
    fault           \* "none", or why the program stopped

vars == <<now, alarm_map_, all_alarms_, timer_, registered_, deadline_,
          cbs, running, pc, calls, fault>>

Zero == 0
NoTimer == -1
Time == 0 .. Horizon + 1        \* one deadline lies past the end of the run
Entry == [time : Time, cb : Alarm]

\* "idle": no frame of the engine on the stack; "dispatch": in OnTimeout's
\* second loop; "callback": in a delegate called from it; "shutdown": the
\* engine was destroyed.
Phase == {"idle", "dispatch", "callback", "shutdown"}
Fault == {"none", "stale_token", "map_empty", "past_timer",
          "registered_twice", "freed_engine"}

\* alarm_map_.begin()->first of a map that is not empty.
Begin(map) ==
    CHOOSE t \in {e.time : e \in map} : \A e \in map : t <= e.time

\* Mutant of Due: also takes the entries of the next microsecond.
Due_Early == {e \in alarm_map_ : e.time <= now + 1}

\* The entries OnTimeout removes: those not after now.
Due == {e \in alarm_map_ : e.time <= now}

InMap(a) == \E e \in alarm_map_ : e.cb = a
Without(a) == {e \in alarm_map_ : e.cb # a}
\* QuicAlarm::IsSet.
IsSet(a) == deadline_[a] # Zero

\* std::abs of the difference QuicAlarm::Update computes.
Abs(n) == IF n < 0 THEN -n ELSE n

Init ==
    /\ now = 0
    /\ alarm_map_ = {}
    /\ all_alarms_ = {}
    /\ timer_ = NoTimer
    /\ registered_ = {}
    /\ deadline_ = [a \in Alarm |-> Zero]
    /\ cbs = {}
    /\ running = NoAlarm
    /\ pc = "idle"
    /\ calls = 0
    /\ fault = "none"

(***************************************************************************)
(* The engine's own operations, as the callers below use them.             *)
(***************************************************************************)

\* Cancels the pending event if there is one and schedules OnTimeout for the
\* first entry of map; NS_ASSERT_MSG(future_us >= now_us) on the way.
UpdateTimer(map) ==
    /\ timer_' = IF map = {} THEN NoTimer ELSE Begin(map)
    /\ fault' = IF map # {} /\ Begin(map) < now THEN "past_timer" ELSE "none"

\* Mutant of NotBeforeNow: no clamp.
NotBeforeNow_NoClamp(timeout) == timeout

\* RegisterAlarm's clamp of a deadline in the past.
NotBeforeNow(timeout) == IF timeout < now THEN now ELSE timeout

\* Mutant of ComesFirst: the timer is not moved for an earlier alarm.
ComesFirst_EmptyOnly(t) == alarm_map_ = {}

\* RegisterAlarm's test for a new first entry.
ComesFirst(t) == alarm_map_ = {} \/ t < Begin(alarm_map_)

\* A deadline in the past is moved to now.  An alarm already in all_alarms_
\* is not inserted again; OnRegistration checks that it was not registered.
RegisterAlarm(timeout, a) ==
    LET t == NotBeforeNow(timeout)
        insert == a \notin all_alarms_
        map == IF insert THEN alarm_map_ \cup {[time |-> t, cb |-> a]}
                         ELSE alarm_map_
    IN  /\ alarm_map_' = map
        /\ all_alarms_' = all_alarms_ \cup {a}
        /\ registered_' = IF insert THEN registered_ \cup {a} ELSE registered_
        /\ IF insert /\ a \in registered_
             THEN fault' = "registered_twice" /\ UNCHANGED timer_
             ELSE IF timer_ = NoTimer \/ ComesFirst(t)
                    THEN UpdateTimer(map)
                    ELSE UNCHANGED <<timer_, fault>>

\* Mutant of UnregisterIfRegistered: all_alarms_ keeps the alarm.
UnregisterIfRegistered_KeepSet(a) ==
    IF a \notin registered_
      THEN UNCHANGED <<alarm_map_, all_alarms_, registered_, fault>>
      ELSE IF ~InMap(a)
        THEN /\ fault' = "stale_token"
             /\ UNCHANGED <<alarm_map_, all_alarms_, registered_>>
        ELSE /\ alarm_map_' = Without(a)
             /\ registered_' = registered_ \ {a}
             /\ UNCHANGED <<all_alarms_, fault>>

\* BaseAlarm::UnregisterIfRegistered and the engine's UnregisterAlarm.  The
\* timer keeps running, even for an empty map.
UnregisterIfRegistered(a) ==
    IF a \notin registered_
      THEN UNCHANGED <<alarm_map_, all_alarms_, registered_, fault>>
      ELSE IF ~InMap(a)
        THEN /\ fault' = "stale_token"
             /\ UNCHANGED <<alarm_map_, all_alarms_, registered_>>
        ELSE /\ alarm_map_' = Without(a)
             /\ all_alarms_' = all_alarms_ \ {a}
             /\ registered_' = registered_ \ {a}
             /\ UNCHANGED fault

\* Moves the entry of a registered alarm; the new time is not clamped.
ReregisterAlarm(timeout, a) ==
    LET rest == Without(a)
        map == rest \cup {[time |-> timeout, cb |-> a]}
    IN  /\ UNCHANGED <<all_alarms_, registered_>>
        /\ IF ~InMap(a)
             THEN fault' = "stale_token" /\ UNCHANGED <<alarm_map_, timer_>>
             ELSE IF rest = {}
               THEN /\ fault' = "map_empty"
                    /\ alarm_map_' = {}
                    /\ UNCHANGED timer_
               ELSE /\ alarm_map_' = map
                    /\ IF timer_ = NoTimer \/ timeout < Begin(rest)
                         THEN UpdateTimer(map)
                         ELSE UNCHANGED <<timer_, fault>>

(***************************************************************************)
(* What the users of the alarms do: from a simulator event of their own    *)
(* (a packet, an application start) or from inside a delegate.             *)
(***************************************************************************)

MayCall ==
    /\ fault = "none"
    /\ pc \in {"idle", "callback"}
    /\ calls < MaxCalls

\* QuicAlarm::Set, legal while the alarm is not set.
Set(a, d) ==
    /\ MayCall
    /\ ~IsSet(a)
    /\ deadline_' = [deadline_ EXCEPT ![a] = d]
    /\ RegisterAlarm(d, a)
    /\ calls' = calls + 1
    /\ UNCHANGED <<now, cbs, running, pc>>

\* QuicAlarm::Cancel; also Update with an uninitialized deadline, and the
\* destruction of the alarm, which unregisters it the same way.
Cancel(a) ==
    /\ MayCall
    /\ IsSet(a)
    /\ deadline_' = [deadline_ EXCEPT ![a] = Zero]
    /\ UnregisterIfRegistered(a)
    /\ calls' = calls + 1
    /\ UNCHANGED <<now, timer_, cbs, running, pc>>

\* QuicAlarm::Update for a deadline at least g away from the current one
\* (for a nearer one it returns at once).  A set alarm is never moved to a
\* time that has passed: quiche takes the maximum with its clock first.
Update(a, d, g) ==
    /\ MayCall
    /\ IsSet(a) => d >= now
    /\ Abs(d - deadline_[a]) >= g
    /\ deadline_' = [deadline_ EXCEPT ![a] = d]
    /\ IF IsSet(a) /\ a \in registered_
         THEN ReregisterAlarm(d, a)
         ELSE RegisterAlarm(d, a)
    /\ calls' = calls + 1
    /\ UNCHANGED <<now, cbs, running, pc>>

(***************************************************************************)
(* What the simulator runs.                                                *)
(***************************************************************************)

\* OnTimeout up to its first callback.  The event that is executing no longer
\* counts as running, so timer_ is expired from here on.
OnTimeout ==
    /\ fault = "none"
    /\ pc = "idle"
    /\ timer_ = now
    /\ timer_' = NoTimer
    /\ alarm_map_' = alarm_map_ \ Due
    /\ all_alarms_' = all_alarms_ \ {e.cb : e \in Due}
    /\ cbs' = {e.cb : e \in Due}
    /\ pc' = "dispatch"
    /\ UNCHANGED <<now, registered_, deadline_, running, calls, fault>>

\* Ns3AlarmImpl::OnAlarm of the next callback: BaseAlarm::OnAlarm, then
\* QuicAlarm::Fire, which calls the delegate only if the alarm is set.
OnAlarm(a) ==
    /\ fault = "none"
    /\ pc = "dispatch"
    /\ a \in cbs
    /\ cbs' = cbs \ {a}
    /\ registered_' = registered_ \ {a}
    /\ deadline_' = [deadline_ EXCEPT ![a] = Zero]
    /\ IF IsSet(a) THEN running' = a /\ pc' = "callback"
                   ELSE UNCHANGED <<running, pc>>
    /\ UNCHANGED <<now, alarm_map_, all_alarms_, timer_, calls, fault>>

\* The delegate returns.  OnAlarm returns 0, so nothing is registered again.
OnAlarmReturn ==
    /\ fault = "none"
    /\ pc = "callback"
    /\ pc' = "dispatch"
    /\ running' = NoAlarm
    /\ UNCHANGED <<now, alarm_map_, all_alarms_, timer_, registered_,
                   deadline_, cbs, calls, fault>>

\* Mutant of OnTimeoutReturn: the trailing UpdateTimer is missing.
OnTimeoutReturn_NoTimer ==
    /\ fault = "none"
    /\ pc = "dispatch"
    /\ cbs = {}
    /\ pc' = "idle"
    /\ UNCHANGED <<now, alarm_map_, all_alarms_, timer_, registered_, deadline_,
                   cbs, running, calls, fault>>

\* The end of OnTimeout; no visitor is ever installed.
OnTimeoutReturn ==
    /\ fault = "none"
    /\ pc = "dispatch"
    /\ cbs = {}
    /\ UpdateTimer(alarm_map_)
    /\ pc' = "idle"
    /\ UNCHANGED <<now, alarm_map_, all_alarms_, registered_, deadline_,
                   cbs, running, calls>>

\* ~Ns3QuicAlarmEngine: every entry is dropped; timer_ is not cancelled.
Shutdown ==
    /\ fault = "none"
    /\ pc = "idle"
    /\ alarm_map_' = {}
    /\ all_alarms_' = all_alarms_ \ {e.cb : e \in alarm_map_}
    /\ registered_' = registered_ \ {e.cb : e \in alarm_map_}
    /\ pc' = "shutdown"
    /\ UNCHANGED <<now, timer_, deadline_, cbs, running, calls, fault>>

\* The event that Shutdown left scheduled calls OnTimeout on freed memory.
OnTimeoutAfterShutdown ==
    /\ fault = "none"
    /\ pc = "shutdown"
    /\ timer_ = now
    /\ fault' = "freed_engine"
    /\ UNCHANGED <<now, alarm_map_, all_alarms_, timer_, registered_,
                   deadline_, cbs, running, pc, calls>>

\* The simulator advances the clock once no event is due at this instant.
Tick ==
    /\ fault = "none"
    /\ pc \in {"idle", "shutdown"}
    /\ timer_ # now
    /\ now < Horizon
    /\ now' = now + 1
    /\ calls' = 0
    /\ UNCHANGED <<alarm_map_, all_alarms_, timer_, registered_, deadline_,
                   cbs, running, pc, fault>>

AlarmCall ==
    \E a \in Alarm :
        \/ \E d \in Time \ {Zero} :
             Set(a, d) \/ \E g \in Granularity : Update(a, d, g)
        \/ Cancel(a)

EngineStep ==
    \/ OnTimeout
    \/ \E a \in Alarm : OnAlarm(a)
    \/ OnAlarmReturn
    \/ OnTimeoutReturn

Next ==
    \/ AlarmCall
    \/ EngineStep
    \/ Tick
    \/ Shutdown
    \/ OnTimeoutAfterShutdown

Spec == Init /\ [][Next]_vars

\* The simulator executes due events and its clock advances; a delegate
\* returns.  Nothing is assumed of the users of the alarms.
Fairness == WF_vars(EngineStep) /\ WF_vars(Tick)

FairSpec == Spec /\ Fairness

-----------------------------------------------------------------------------
(***************************************************************************)
(* Properties.                                                             *)
(***************************************************************************)

\* Every variable has its type, the clock within the run.
TypeOK ==
    /\ now \in 0 .. Horizon
    /\ alarm_map_ \subseteq Entry
    /\ all_alarms_ \subseteq Alarm
    /\ timer_ \in Time \cup {NoTimer}
    /\ registered_ \subseteq Alarm
    /\ deadline_ \in [Alarm -> Time]
    /\ cbs \subseteq Alarm
    /\ running \in Alarm \cup {NoAlarm}
    /\ pc \in Phase
    /\ calls \in 0 .. MaxCalls
    /\ fault \in Fault

\* The four places that record an alarm agree while the engine works: the map
\* holds at most one entry of an alarm, all_alarms_ is the set of alarms in
\* the map, an alarm is registered_ exactly when it is in the map or waits in
\* OnTimeout's vector, never both, and QuicAlarm::IsSet says the same.
Registry ==
    (fault = "none" /\ pc # "shutdown") =>
        /\ all_alarms_ = {e.cb : e \in alarm_map_}
        /\ \A e, f \in alarm_map_ : e.cb = f.cb => e = f
        /\ cbs \cap all_alarms_ = {}
        /\ registered_ = all_alarms_ \cup cbs
        /\ registered_ = {a \in Alarm : IsSet(a)}

\* No wake-up is lost: whenever the engine is not inside OnTimeout and an
\* alarm is registered, the one simulator event is pending, not in the past
\* and no later than the first entry, though UnregisterAlarm never touches
\* the timer and ReregisterAlarm and RegisterAlarm only sometimes do.
WakeUp ==
    (fault = "none" /\ pc = "idle" /\ alarm_map_ # {}) =>
        /\ timer_ # NoTimer
        /\ now <= timer_
        /\ \A e \in alarm_map_ : timer_ <= e.time

\* The assertion of UpdateTimer (future_us >= now_us) and the check of
\* OnRegistration (an alarm is not registered twice) hold on every path that
\* reaches them, delegates that re-enter the engine included.
EngineAssertions == fault \notin {"past_timer", "registered_twice"}

\* quic_alarm.h: alarms are set, cancelled and updated as asked, no delegate
\* runs before its deadline or for a cancelled alarm, and the clock never
\* passes the deadline of a set alarm before its delegate has run.
Service == INSTANCE AlarmService WITH
    Deadline <- Time \ {Zero},
    deadline <- deadline_,
    open <- fault = "none" /\ pc # "shutdown"

ImplementsAlarmService == Service!Spec

\* A deadline within the run does not stay pending for ever: the alarm fires,
\* is cancelled or moved, or the engine is gone.
AlarmSettles ==
    \A a \in Alarm, d \in 1 .. Horizon :
        deadline_[a] = d ~> deadline_[a] # d \/ fault # "none" \/ pc = "shutdown"

\* UnregisterIfRegistered: "If the alarm was registered, unregister it."  The
\* token of a registered alarm always designates an entry of alarm_map_.
TokenIsLive == fault # "stale_token"
=============================================================================
