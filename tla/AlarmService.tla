---------------------------- MODULE AlarmService ----------------------------
(***************************************************************************)
(* What quic_alarm.h promises the users of a QuicAlarm, with no engine:    *)
(* an alarm has a deadline or none, its delegate runs when the deadline    *)
(* has come and not before, and time does not move on while an alarm is    *)
(* due.  The promise ends when the service is closed.                      *)
(***************************************************************************)
EXTENDS Integers

CONSTANTS Alarm, Deadline, Granularity, NoAlarm

VARIABLES
    now,        \* the clock
    deadline,   \* per alarm: its deadline, 0 when it is not set
    running,    \* the alarm whose delegate is running, or NoAlarm
    open        \* the service still holds its promise

vars == <<now, deadline, running, open>>

Init ==
    /\ now = 0
    /\ deadline = [a \in Alarm |-> 0]
    /\ running = NoAlarm
    /\ open = TRUE

Distance(m, n) == IF m < n THEN n - m ELSE m - n

\* "Sets the alarm to fire at |deadline|.  Must not be called while the alarm
\* is set."
Set(a, d) ==
    /\ open
    /\ deadline[a] = 0
    /\ deadline' = [deadline EXCEPT ![a] = d]
    /\ open' \in BOOLEAN
    /\ UNCHANGED <<now, running>>

\* "Cancels the alarm. ... guarantees that the delegates OnAlarm method will
\* not be called."
Cancel(a) ==
    /\ open
    /\ deadline[a] # 0
    /\ deadline' = [deadline EXCEPT ![a] = 0]
    /\ open' \in BOOLEAN
    /\ UNCHANGED <<now, running>>

\* "Cancels and sets the alarm if the |deadline| is farther from the current
\* deadline than |granularity|, and otherwise does nothing."
Update(a, d, g) ==
    /\ open
    /\ Distance(d, deadline[a]) >= g
    /\ deadline' = [deadline EXCEPT ![a] = d]
    /\ open' \in BOOLEAN
    /\ UNCHANGED <<now, running>>

\* "Invokes the delegates |OnAlarm| ... if the deadline has been exceeded."
Fire(a) ==
    /\ open
    /\ running = NoAlarm
    /\ deadline[a] # 0
    /\ deadline[a] <= now
    /\ deadline' = [deadline EXCEPT ![a] = 0]
    /\ running' = a
    /\ UNCHANGED <<now, open>>

Return ==
    /\ open
    /\ running # NoAlarm
    /\ running' = NoAlarm
    /\ UNCHANGED <<now, deadline, open>>

\* Time passes only when every alarm that is set lies ahead.
Advance ==
    /\ running = NoAlarm
    /\ open => \A a \in Alarm : deadline[a] # 0 => deadline[a] > now
    /\ now' = now + 1
    /\ UNCHANGED <<deadline, running, open>>

Close ==
    /\ open' = FALSE
    /\ UNCHANGED <<now, deadline, running>>

Next ==
    \/ \E a \in Alarm :
        \/ \E d \in Deadline :
             Set(a, d) \/ \E g \in Granularity : Update(a, d, g)
        \/ Cancel(a)
        \/ Fire(a)
    \/ Return
    \/ Advance
    \/ Close

Spec == Init /\ [][Next]_vars
=============================================================================
