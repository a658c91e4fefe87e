----------------------------- MODULE Heartbeat ------------------------------
(* The heartbeats of one agent and the reachability the control plane       *)
(* derives from them, in discrete time.  The subscriber stamps a beat with  *)
(* the control plane's own clock, so there is only one clock; the beats of  *)
(* one agent arrive in order and are handled one at a time.  A beat that    *)
(* fails to be published, meets no subscriber, or is dropped by the handler *)
(* leaves no trace: all of these are the loss of the beat.  A beat that is  *)
(* buffered by a client or the broker is under way until it is recorded.    *)
(* The agent holds the token of its row; without it (an override) every     *)
(* beat is dropped and the instance stays unknown.                          *)
EXTENDS Integers, Sequences

CONSTANTS
    Interval,       \* AXIS_AGENT_HEARTBEAT_INTERVAL_SECONDS
    StaleAfter,     \* AXIS_CONTROL_HEARTBEAT_STALE_SECONDS
    Jitter,         \* by how much a beat may be late at its publication
    MaxDelay,       \* how long a beat takes at most until it is recorded
    MaxLost,        \* how many beats in a row may be lost
    MaxTime,        \* bound: how long a behaviour is followed
    MaxStarts,      \* bound: how often the agent is started
    None            \* SQL NULL

ASSUME TimesAssumption ==
    /\ Interval \in Nat \ {0}
    /\ StaleAfter \in Nat
    /\ Jitter \in Nat
    /\ MaxDelay \in Nat
    /\ MaxLost \in Nat
    /\ MaxTime \in Nat
    /\ MaxStarts \in Nat

ASSUME NoneAssumption == None \notin Int

VARIABLES
    now,        \* the time
    alive,      \* is the agent's process running?
    born,       \* when it was last started
    died,       \* when it last ended
    due,        \* when its loop wakes up for the next beat
    missed,     \* how many beats in a row have just been lost
    flight,     \* the times at which the beats under way were published
    stamp,      \* the time the handler took for the first of them
    last,       \* column last_heartbeat_at
    startsLeft

agentVars == <<alive, born, died, due, missed, startsLeft>>
controlVars == <<stamp, last>>
vars == <<now, flight, agentVars, controlVars>>

TypeOK ==
    /\ now \in 0 .. MaxTime
    /\ alive \in BOOLEAN
    /\ born \in 0 .. MaxTime
    /\ died \in 0 .. MaxTime
    /\ due \in 0 .. MaxTime + Interval
    /\ missed \in 0 .. MaxLost
    /\ flight \in Seq(0 .. MaxTime)
    /\ stamp \in (0 .. MaxTime) \cup {None}
    /\ last \in (0 .. MaxTime) \cup {None}
    /\ startsLeft \in 0 .. MaxStarts

Init ==
    /\ now = 0
    /\ alive = FALSE
    /\ born = 0
    /\ died = 0
    /\ due = 0
    /\ missed = 0
    /\ flight = <<>>
    /\ stamp = None
    /\ last = None
    /\ startsLeft = MaxStarts

-----------------------------------------------------------------------------
(* The agent: HeartbeatPublisher                                            *)

\* A beat is published, or lost as the lost-th in a row.
Publish(lost) ==
    \/ flight' = Append(flight, now) /\ missed' = 0
    \/ lost <= MaxLost /\ missed' = lost /\ UNCHANGED flight

\* A publisher whose loop sleeps before the very first beat.
SleepsFirst == UNCHANGED flight /\ missed' = 0

\* start() publishes one beat before it starts the loop.
FirstBeat == Publish(1)

Start ==
    /\ startsLeft > 0
    /\ startsLeft' = startsLeft - 1
    /\ ~alive
    /\ alive' = TRUE
    /\ born' = now
    /\ FirstBeat
    /\ due' = now + Interval
    /\ UNCHANGED <<now, died>> /\ UNCHANGED controlVars

\* The loop wakes up, publishes, and sleeps for another interval.
Beat ==
    /\ alive
    /\ now >= due
    /\ Publish(missed + 1)
    /\ due' = now + Interval
    /\ UNCHANGED <<now, alive, born, died, startsLeft>>
    /\ UNCHANGED controlVars

\* The process ends, gracefully or not; beats under way stay under way.
Stop ==
    /\ alive
    /\ alive' = FALSE
    /\ died' = now
    /\ UNCHANGED <<now, born, due, missed, startsLeft, flight>>
    /\ UNCHANGED controlVars

-----------------------------------------------------------------------------
(* The control plane: HeartbeatSubscriber and reachability_of               *)

\* A subscriber that trusts the clock of an agent, here one that is ahead.
AgentsClock == now + StaleAfter

Utcnow == now

\* The handler has checked the token and takes the time of receipt ...
Receive ==
    /\ flight # <<>>
    /\ stamp = None
    /\ stamp' = Utcnow
    /\ UNCHANGED <<now, flight, last>> /\ UNCHANGED agentVars

\* ... which the UPDATE commits later.  The next beat is handled afterwards.
Record ==
    /\ stamp # None
    /\ last' = stamp
    /\ stamp' = None
    /\ flight' = Tail(flight)
    /\ UNCHANGED now /\ UNCHANGED agentVars

\* A comparison that excludes the boundary.
FreshStrictly(age) == age < StaleAfter

Fresh(age) == age <= StaleAfter

\* What GET /api/instances/{instance_id} answers now.
Reachability ==
    IF last = None THEN "unknown"
    ELSE IF Fresh(now - last) THEN "online" ELSE "offline"

-----------------------------------------------------------------------------
\* Time passes, but no beat is later than Jitter and MaxDelay allow.
Tick ==
    /\ now < MaxTime
    /\ alive => now < due + Jitter
    /\ flight # <<>> => now < Head(flight) + MaxDelay
    /\ now' = now + 1
    /\ UNCHANGED flight /\ UNCHANGED agentVars /\ UNCHANGED controlVars

Next == Start \/ Beat \/ Stop \/ Receive \/ Record \/ Tick

Spec == Init /\ [][Next]_vars

-----------------------------------------------------------------------------
(* Properties                                                               *)

\* The longest time between two recorded publications of a living agent.
Period == Interval + Jitter
Gap == (MaxLost + 1) * Period

\* The settings tolerate MaxLost lost beats.
Tolerant == StaleAfter >= Gap + MaxDelay

\* As long as no more than MaxLost beats in a row are lost, an agent that has
\* been seen since its start is not shown as offline ("a single dropped
\* publish does not flip an instance offline", HeartbeatPublisher).
NoFalseOffline ==
    alive /\ last # None /\ last >= born => Reachability = "online"

\* An agent that has come up is seen after the beats it may lose: nothing of
\* an earlier life delays it ("within milliseconds of the agent coming up",
\* if none is lost).
NewAgentIsSeen ==
    alive /\ now > born + MaxLost * Period + MaxDelay
        => last # None /\ last >= born

\* An agent that is gone is shown as offline once the stale window has passed
\* and its last beats have arrived.
DeathIsNoticed ==
    ~alive /\ now > died + MaxDelay + StaleAfter => Reachability # "online"
=============================================================================
