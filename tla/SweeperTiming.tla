--------------------------- MODULE SweeperTiming ----------------------------
(* When a command that nobody answers is given up: the loop of the timeout  *)
(* sweeper and the rows it fails, in discrete time.  A sweep takes its time *)
(* stamp, then awaits one UPDATE; the loop sleeps after the sweep has       *)
(* ended, so the sweeps are further apart than the sweep interval.  The     *)
(* statements of other coroutines commit while a sweep is under way.        *)
EXTENDS Integers

CONSTANTS
    Commands,
    Timeout,        \* AXIS_CONTROL_COMMAND_TIMEOUT_SECONDS
    Interval,       \* AXIS_CONTROL_COMMAND_SWEEP_INTERVAL_SECONDS
    MaxDelay,       \* how long a coroutine waits to run, or for a statement
    MaxFails,       \* how many sweeps of a process may raise in a row
    None,           \* no sweep is under way
    MaxTime,        \* bound: how long a behaviour is followed
    MaxStarts       \* bound: how often the control plane is started

ASSUME TimesAssumption ==
    /\ Timeout \in Nat
    /\ Interval \in Nat \ {0}
    /\ MaxDelay \in Nat
    /\ MaxFails \in Nat
    /\ MaxTime \in Nat
    /\ MaxStarts \in Nat

ASSUME NoneAssumption == None \notin Int

VARIABLES
    now,        \* the time
    up,         \* is the control plane running?
    since,      \* when its sweeper was last started
    wake,       \* when the loop of the sweeper wakes up
    stamp,      \* datetime.now() of the sweep that is under way
    fails,      \* how many sweeps of this process have just raised in a row
    startsLeft,
    status,     \* status[c]: the request of command c, then its row
    issued,     \* issued[c]: issued_at
    saved       \* saved[c]: when its row was committed

loopVars == <<up, since, wake, stamp, fails, startsLeft>>
rowVars == <<status, issued, saved>>
vars == <<now, loopVars, rowVars>>

\* A command is not issued yet, waits for its INSERT, or has a row; a request
\* whose INSERT was never carried out is dropped.
Status == {"new", "saving", "dropped", "pending", "failed", "reported"}

TypeOK ==
    /\ now \in 0 .. MaxTime
    /\ up \in BOOLEAN
    /\ since \in 0 .. MaxTime
    /\ wake \in 0 .. MaxTime + Interval
    /\ stamp \in (0 .. MaxTime) \cup {None}
    /\ fails \in 0 .. MaxFails
    /\ startsLeft \in 0 .. MaxStarts
    /\ status \in [Commands -> Status]
    /\ issued \in [Commands -> 0 .. MaxTime]
    /\ saved \in [Commands -> 0 .. MaxTime]

Init ==
    /\ now = 0
    /\ up = FALSE
    /\ since = 0
    /\ wake = 0
    /\ stamp = None
    /\ fails = 0
    /\ startsLeft = MaxStarts
    /\ status = [c \in Commands |-> "new"]
    /\ issued = [c \in Commands |-> 0]
    /\ saved = [c \in Commands |-> 0]

-----------------------------------------------------------------------------
(* The rows: CommandDispatcher and the reports of the agents                *)

\* new_command takes the time, then the INSERT is awaited.
Issue(c) ==
    /\ up
    /\ status[c] = "new"
    /\ status' = [status EXCEPT ![c] = "saving"]
    /\ issued' = [issued EXCEPT ![c] = now]
    /\ UNCHANGED <<now, saved>> /\ UNCHANGED loopVars

\* The INSERT commits; it may outlive the process that sent it.
Save(c) ==
    /\ status[c] = "saving"
    /\ status' = [status EXCEPT ![c] = "pending"]
    /\ saved' = [saved EXCEPT ![c] = now]
    /\ UNCHANGED <<now, issued>> /\ UNCHANGED loopVars

\* The INSERT raises, or is lost with the process.
Drop(c) ==
    /\ status[c] = "saving"
    /\ status' = [status EXCEPT ![c] = "dropped"]
    /\ UNCHANGED <<now, issued, saved>> /\ UNCHANGED loopVars

\* The report of an agent makes the command terminal.
Report(c) ==
    /\ up
    /\ status[c] = "pending"
    /\ status' = [status EXCEPT ![c] = "reported"]
    /\ UNCHANGED <<now, issued, saved>> /\ UNCHANGED loopVars

-----------------------------------------------------------------------------
(* The loop: CommandTimeoutSweeper                                          *)

\* A loop that sleeps before its first sweep.
SleepsFirst == now + Interval

FirstWake == now

Start ==
    /\ ~up
    /\ startsLeft > 0
    /\ startsLeft' = startsLeft - 1
    /\ up' = TRUE
    /\ since' = now
    /\ wake' = FirstWake
    /\ fails' = 0
    /\ UNCHANGED <<now, stamp>> /\ UNCHANGED rowVars

\* The event loop gets to the sweeper, which takes the time.
Wake ==
    /\ up
    /\ stamp = None
    /\ now >= wake
    /\ stamp' = now
    /\ UNCHANGED <<now, up, since, wake, fails, startsLeft>>
    /\ UNCHANGED rowVars

\* A deadline computed from the wrong setting.
IntervalAgo == stamp - Interval

Deadline == stamp - Timeout

\* The UPDATE sees every row that was committed before the sweep began, and
\* may or may not see those that were committed while it was under way.
FailPendingOlderThan ==
    \E missed \in SUBSET {c \in Commands : saved[c] >= stamp} :
        status' = [c \in Commands |->
                      IF /\ status[c] = "pending"
                         /\ issued[c] < Deadline
                         /\ c \notin missed
                      THEN "failed" ELSE status[c]]

\* A loop that backs off after a sweep that raised.
BacksOff == now + (fails + 1) * Interval

NextWake == now + Interval

\* The sweep has ended, one way or the other, and the loop sleeps.
Sleep ==
    /\ stamp' = None
    /\ wake' = NextWake
    /\ UNCHANGED <<now, up, since, startsLeft, issued, saved>>

SweepReturns ==
    /\ stamp # None
    /\ FailPendingOlderThan
    /\ fails' = 0
    /\ Sleep

\* The sweep raises, with or without effect; the loop logs it and goes on.
SweepRaises ==
    /\ stamp # None
    /\ fails < MaxFails
    /\ fails' = fails + 1
    /\ FailPendingOlderThan \/ UNCHANGED status
    /\ Sleep

\* The process ends.  An UPDATE under way takes effect or not.
Stop ==
    /\ up
    /\ up' = FALSE
    /\ stamp' = None
    /\ \/ stamp # None /\ FailPendingOlderThan
       \/ UNCHANGED status
    /\ UNCHANGED <<now, since, wake, fails, startsLeft, issued, saved>>

-----------------------------------------------------------------------------
\* Time passes, but neither the event loop nor a statement takes longer than
\* MaxDelay.
Tick ==
    /\ now < MaxTime
    /\ up /\ stamp = None => now < wake + MaxDelay
    /\ stamp # None => now < stamp + MaxDelay
    /\ \A c \in Commands : status[c] = "saving" => now < issued[c] + MaxDelay
    /\ now' = now + 1
    /\ UNCHANGED loopVars /\ UNCHANGED rowVars

Next ==
    \/ \E c \in Commands : Issue(c) \/ Save(c) \/ Drop(c) \/ Report(c)
    \/ Start \/ Wake \/ SweepReturns \/ SweepRaises \/ Stop
    \/ Tick

Spec == Init /\ [][Next]_vars

-----------------------------------------------------------------------------
(* Properties                                                               *)

\* The longest time from one sweep's stamp to the next one's.
Period == Interval + 2 * MaxDelay

\* From this time on a sweep has to find the command.
Due(c) == IF issued[c] + Timeout >= saved[c] THEN issued[c] + Timeout ELSE saved[c]

\* A command nobody answers is failed in bounded time: one period after its
\* timeout and one more for each sweep that raised, or, when the control plane
\* was down, from its first sweep on, which start() does not delay.  (The
\* docstring, "within `timeout_seconds + sweep_interval_seconds` of being
\* issued", leaves out the time that the sweeps themselves take.)
TimelyTimeout ==
    \A c \in Commands :
        up /\ status[c] = "pending" =>
            \/ now <= Due(c) + (MaxFails + 1) * Period + MaxDelay
            \/ now <= since + MaxFails * Period + 2 * MaxDelay

\* An agent has the whole timeout for its answer ("wait this long for an agent
\* acknowledgement", ControlSettings), also when the control plane restarts:
\* until then the sweeper leaves its row alone.
NeverEarly ==
    \A c \in Commands : status[c] = "failed" => now > issued[c] + Timeout
=============================================================================
