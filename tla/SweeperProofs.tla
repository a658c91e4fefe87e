--------------------------- MODULE SweeperProofs ----------------------------
(* Theorems of SweeperTiming, for any commands, times and bounds.           *)
EXTENDS SweeperTiming, TLAPS

\* When the sweeper is awake and when it sleeps.
LoopInv ==
    /\ up /\ stamp = None => now <= wake + MaxDelay /\ wake <= now + Interval
    /\ stamp # None => up /\ stamp <= now /\ now <= stamp + MaxDelay

\* A row is saved after it was issued, and failed after its timeout.
RowInv ==
    \A c \in Commands :
        /\ saved[c] <= now
        /\ status[c] = "failed" => now > issued[c] + Timeout

\* The loop is not late for a pending command: t is the time of its next sweep,
\* but for the sweeps that have raised.
InTime(c, t) ==
    \/ t <= Due(c) + Interval + MaxDelay + fails * Period
    \/ t <= since + fails * Period

\* A sweep that has yet to begin, or is under way, is in time.
WakeInv ==
    \A c \in Commands : up /\ status[c] = "pending" =>
        InTime(c, IF stamp = None THEN wake ELSE stamp - MaxDelay)

IInv == TypeOK /\ LoopInv /\ RowInv /\ WakeInv

-----------------------------------------------------------------------------
LEMMA InvInit == Init => IInv
<1> SUFFICES ASSUME Init PROVE IInv
  OBVIOUS
<1> USE TimesAssumption, NoneAssumption DEF Init
<1>1. TypeOK
  <2>1. 0 \in 0 .. MaxTime /\ 0 \in 0 .. MaxTime + Interval /\ 0 \in 0 .. MaxFails
        /\ MaxStarts \in 0 .. MaxStarts
    OBVIOUS
  <2>2. status \in [Commands -> Status]
    BY DEF Status
  <2> QED
    BY <2>1, <2>2 DEF TypeOK
<1>2. LoopInv /\ RowInv
  BY DEF LoopInv, RowInv
<1>3. \A c \in Commands : status[c] # "pending"
  OBVIOUS
<1> QED
  BY <1>1, <1>2, <1>3 DEF IInv, WakeInv

LEMMA TypeNext == TypeOK /\ [Next]_vars => TypeOK'
<1> SUFFICES ASSUME TypeOK, [Next]_vars PROVE TypeOK'
  OBVIOUS
<1> USE TimesAssumption, NoneAssumption DEF TypeOK, Status
<1>1. ASSUME FailPendingOlderThan
      PROVE  status' \in [Commands -> Status]
  BY <1>1 DEF FailPendingOlderThan
<1>2. ASSUME NEW c \in Commands, Issue(c) \/ Save(c) \/ Drop(c) \/ Report(c)
      PROVE  TypeOK'
  BY <1>2 DEF Issue, Save, Drop, Report, loopVars
<1>3. CASE Start
  BY <1>3 DEF Start, FirstWake, rowVars
<1>4. CASE Wake
  BY <1>4 DEF Wake, rowVars
<1>5. CASE SweepReturns
  BY <1>1, <1>5 DEF SweepReturns, Sleep, NextWake
<1>6. CASE SweepRaises
  BY <1>1, <1>6 DEF SweepRaises, Sleep, NextWake
<1>7. CASE Stop
  BY <1>1, <1>7 DEF Stop
<1>8. CASE Tick
  BY <1>8 DEF Tick, loopVars, rowVars
<1>9. CASE UNCHANGED vars
  BY <1>9 DEF vars, loopVars, rowVars
<1> QED
  BY <1>2, <1>3, <1>4, <1>5, <1>6, <1>7, <1>8, <1>9 DEF Next

LEMMA LoopNext == TypeOK /\ LoopInv /\ [Next]_vars => LoopInv'
<1> SUFFICES ASSUME TypeOK, LoopInv, [Next]_vars PROVE LoopInv'
  OBVIOUS
<1> USE TimesAssumption, NoneAssumption DEF TypeOK, LoopInv
<1>1. ASSUME UNCHANGED <<now, up, wake, stamp>> PROVE LoopInv'
  BY <1>1
<1>2. CASE Start
  BY <1>2 DEF Start, FirstWake
<1>3. CASE Wake
  BY <1>3 DEF Wake
<1>4. CASE SweepReturns \/ SweepRaises
  BY <1>4 DEF SweepReturns, SweepRaises, Sleep, NextWake
<1>5. CASE Stop
  BY <1>5 DEF Stop
<1>6. CASE Tick
  BY <1>6 DEF Tick, loopVars
<1> QED
  BY <1>1, <1>2, <1>3, <1>4, <1>5, <1>6
  DEF Next, Issue, Save, Drop, Report, loopVars, vars

-----------------------------------------------------------------------------
(* What a sweep does to a row                                               *)

\* A command that the UPDATE fails is older than the timeout; one it passes
\* over is not due at the stamp of the sweep.
LEMMA SweptRow ==
    ASSUME TypeOK, LoopInv, stamp # None, FailPendingOlderThan,
           NEW c \in Commands
    PROVE  /\ status'[c] = "failed" /\ status[c] # "failed"
                  => now > issued[c] + Timeout
           /\ status'[c] = "pending" => status[c] = "pending" /\ stamp <= Due(c)
           /\ status[c] = "failed" => status'[c] = "failed"
<1> USE TimesAssumption, NoneAssumption DEF TypeOK, LoopInv
<1>1. PICK missed \in SUBSET {k \in Commands : saved[k] >= stamp} :
          status' = [k \in Commands |->
                        IF /\ status[k] = "pending"
                           /\ issued[k] < Deadline
                           /\ k \notin missed
                        THEN "failed" ELSE status[k]]
  BY DEF FailPendingOlderThan
<1>2. /\ stamp \in Nat /\ saved[c] \in Nat /\ issued[c] \in Nat
      /\ c \in missed => saved[c] >= stamp
  BY <1>1
<1>3. status'[c] = IF /\ status[c] = "pending"
                      /\ issued[c] < Deadline
                      /\ c \notin missed
                   THEN "failed" ELSE status[c]
  BY <1>1
<1> QED
  BY <1>2, <1>3 DEF Deadline, Due

LEMMA RowNext == TypeOK /\ LoopInv /\ RowInv /\ [Next]_vars => RowInv'
<1> SUFFICES ASSUME TypeOK, LoopInv, RowInv, [Next]_vars,
                    NEW c \in Commands
             PROVE  /\ saved'[c] <= now'
                    /\ status'[c] = "failed" => now' > issued'[c] + Timeout
  BY DEF RowInv
<1> DEFINE Goal == /\ saved'[c] <= now'
                   /\ status'[c] = "failed" => now' > issued'[c] + Timeout
<1>1. /\ now \in Nat /\ saved[c] \in Nat /\ issued[c] \in Nat /\ Timeout \in Nat
      /\ saved[c] <= now
      /\ status[c] = "failed" => now > issued[c] + Timeout
  BY TimesAssumption DEF TypeOK, RowInv
<1>2. ASSUME UNCHANGED rowVars, now' \in {now, now + 1} PROVE Goal
  BY <1>1, <1>2 DEF rowVars
<1>3. ASSUME UNCHANGED <<now, issued, saved>>, stamp # None,
             FailPendingOlderThan \/ UNCHANGED status
      PROVE  Goal
  BY <1>1, <1>3, SweptRow
<1>4. ASSUME NEW k \in Commands, Issue(k) \/ Save(k) \/ Drop(k) \/ Report(k)
      PROVE  Goal
  BY <1>1, <1>4 DEF Issue, Save, Drop, Report, TypeOK
<1>5. CASE Start \/ Wake
  BY <1>2, <1>5 DEF Start, Wake
<1>6. CASE SweepReturns \/ SweepRaises
  BY <1>3, <1>6 DEF SweepReturns, SweepRaises, Sleep
<1>7. CASE Stop
  BY <1>2, <1>3, <1>7 DEF Stop, rowVars
<1>8. CASE Tick \/ UNCHANGED vars
  BY <1>2, <1>8 DEF Tick, vars
<1> QED
  BY <1>4, <1>5, <1>6, <1>7, <1>8 DEF Next

-----------------------------------------------------------------------------
(* Bounded time                                                             *)

LEMMA PeriodIs == Period \in Nat /\ Period = Interval + MaxDelay + MaxDelay
BY TimesAssumption DEF Period

LEMMA OneMore ==
    ASSUME NEW n \in Nat
    PROVE  /\ n * Period \in Nat
           /\ (n + 1) * Period = n * Period + Interval + MaxDelay + MaxDelay
<1>1. (n + 1) * Period = n * Period + Period /\ n * Period \in Nat
  BY PeriodIs
<1> QED
  BY <1>1, PeriodIs, TimesAssumption

LEMMA AtMost ==
    ASSUME NEW m \in Nat, NEW n \in 0 .. m
    PROVE  n * Period <= m * Period
<1>1. PICK d \in Nat : m = n + d
  <2>1. m - n \in Nat /\ m = n + (m - n)
    OBVIOUS
  <2> QED
    BY <2>1
<1>2. m * Period = n * Period + d * Period
  BY <1>1, PeriodIs
<1>3. n * Period \in Nat /\ d * Period \in Nat
  BY OneMore
<1> QED
  BY <1>2, <1>3

LEMMA NoneRaised == 0 * Period = 0
BY PeriodIs

LEMMA WakeNext == TypeOK /\ LoopInv /\ RowInv /\ WakeInv /\ [Next]_vars => WakeInv'
<1> SUFFICES ASSUME TypeOK, LoopInv, RowInv, WakeInv, [Next]_vars,
                    NEW c \in Commands, up', status'[c] = "pending"
             PROVE  InTime(c, IF stamp = None THEN wake ELSE stamp - MaxDelay)'
  BY DEF WakeInv
<1> DEFINE T == IF stamp = None THEN wake ELSE stamp - MaxDelay
<1>0. /\ now \in Nat /\ wake \in Nat /\ since \in Nat /\ fails \in Nat
      /\ saved[c] \in Nat /\ issued[c] \in Nat
      /\ Timeout \in Nat /\ Interval \in Nat /\ MaxDelay \in Nat
      /\ stamp # None => stamp \in Nat
      /\ None \notin Nat
  BY TimesAssumption, NoneAssumption DEF TypeOK
<1>1. Due(c) \in Nat
  BY <1>0 DEF Due
<1>2. up /\ status[c] = "pending" => InTime(c, T)
  BY DEF WakeInv
<1>3. /\ up /\ stamp = None => now <= wake + MaxDelay /\ wake <= now + Interval
      /\ stamp # None => up /\ stamp <= now /\ now <= stamp + MaxDelay
  BY DEF LoopInv
<1>4. ASSUME UNCHANGED <<up, since, wake, stamp, fails>>,
             status[c] = "pending", issued'[c] = issued[c], saved'[c] = saved[c]
      PROVE  InTime(c, T)'
  BY <1>2, <1>4 DEF InTime, Due
<1>5. ASSUME NEW k \in Commands,
             Issue(k) \/ Drop(k) \/ Report(k) \/ (Save(k) /\ k # c)
      PROVE  InTime(c, T)'
  BY <1>4, <1>5 DEF Issue, Save, Drop, Report, loopVars, TypeOK
<1>6. CASE Save(c)
  <2>1. saved'[c] = now /\ issued' = issued /\ now' = now /\ UNCHANGED loopVars
    BY <1>6 DEF Save, TypeOK
  <2>2. Due(c)' \in Nat /\ now <= Due(c)'
    BY <1>0, <2>1 DEF Due
  <2>3. T' = T /\ T <= now + Interval
    BY <1>0, <1>3, <2>1 DEF loopVars
  <2>4. fails' = fails /\ fails * Period \in Nat
    BY <1>0, <2>1, OneMore DEF loopVars
  <2>5. T' <= Due(c)' + Interval + MaxDelay + fails' * Period
    BY <1>0, <2>2, <2>3, <2>4
  <2> QED
    BY <2>5 DEF InTime
<1>7. CASE Start
  <2>1. stamp = None
    BY <1>3, <1>7 DEF Start
  <2>2. T' = now /\ since' = now /\ fails' = 0
    BY <1>7, <2>1 DEF Start, FirstWake
  <2>3. T' <= since' + fails' * Period
    BY <1>0, <2>2, NoneRaised
  <2> QED
    BY <2>3 DEF InTime
<1>8. CASE Wake
  <2>1. stamp = None /\ stamp' = now /\ status' = status
        /\ UNCHANGED <<since, fails, issued, saved, up>>
    BY <1>8 DEF Wake, rowVars
  <2>2. T' <= T /\ T' \in Int /\ T \in Int
    BY <1>0, <1>3, <2>1
  <2>3. InTime(c, T)
    BY <1>2, <2>1
  <2>4. fails * Period \in Nat /\ Due(c)' = Due(c)
    BY <1>0, <2>1, OneMore DEF Due
  <2> QED
    BY <1>0, <1>1, <2>1, <2>2, <2>3, <2>4 DEF InTime
<1>9. CASE SweepReturns
  <2>1. stamp # None /\ stamp' = None /\ wake' = now + Interval /\ fails' = 0
        /\ UNCHANGED <<issued, saved>>
    BY <1>9 DEF SweepReturns, Sleep, NextWake
  <2>2. stamp <= Due(c)
    BY <1>9, <2>1, SweptRow DEF SweepReturns
  <2>3. T' = now + Interval /\ Due(c)' = Due(c) /\ fails' * Period = 0
    BY <2>1, NoneRaised DEF Due
  <2>4. T' <= Due(c)' + Interval + MaxDelay + fails' * Period
    BY <1>0, <1>1, <1>3, <2>1, <2>2, <2>3
  <2> QED
    BY <2>4 DEF InTime
<1>10. CASE SweepRaises
  <2>1. stamp # None /\ stamp' = None /\ wake' = now + Interval
        /\ fails' = fails + 1 /\ UNCHANGED <<since, issued, saved>>
    BY <1>10 DEF SweepRaises, Sleep, NextWake
  <2>2. status[c] = "pending"
    BY <1>10, <2>1, SweptRow DEF SweepRaises
  <2>3. InTime(c, stamp - MaxDelay)
    BY <1>2, <1>3, <2>1, <2>2
  <2>4. /\ fails' * Period = fails * Period + Interval + MaxDelay + MaxDelay
        /\ fails * Period \in Nat
    BY <1>0, <2>1, OneMore
  <2>5. T' = now + Interval /\ now <= stamp + MaxDelay /\ Due(c)' = Due(c)
    BY <1>3, <2>1 DEF Due
  <2> QED
    BY <1>0, <1>1, <2>1, <2>3, <2>4, <2>5 DEF InTime
<1>11. CASE Stop
  BY <1>11 DEF Stop
<1>12. CASE Tick \/ UNCHANGED vars
  BY <1>4, <1>12 DEF Tick, vars, loopVars, rowVars
<1> QED
  BY <1>5, <1>6, <1>7, <1>8, <1>9, <1>10, <1>11, <1>12 DEF Next

LEMMA InvNext == IInv /\ [Next]_vars => IInv'
BY TypeNext, LoopNext, RowNext, WakeNext DEF IInv

LEMMA WakeInTime == IInv => TimelyTimeout
<1> SUFFICES ASSUME IInv, NEW c \in Commands, up, status[c] = "pending"
             PROVE  \/ now <= Due(c) + (MaxFails + 1) * Period + MaxDelay
                    \/ now <= since + MaxFails * Period + 2 * MaxDelay
  BY DEF TimelyTimeout
<1>0. /\ now \in Nat /\ wake \in Nat /\ since \in Nat /\ fails \in Nat
      /\ saved[c] \in Nat /\ issued[c] \in Nat
      /\ Timeout \in Nat /\ Interval \in Nat /\ MaxDelay \in Nat
      /\ stamp # None => stamp \in Nat
      /\ MaxFails \in Nat /\ fails <= MaxFails
  BY TimesAssumption DEF IInv, TypeOK
<1>1. Due(c) \in Nat
  BY <1>0 DEF Due
<1>2. \E t \in Int : InTime(c, t) /\ now <= t + MaxDelay + MaxDelay
  <2>1. CASE stamp = None
    BY <1>0, <2>1 DEF IInv, LoopInv, WakeInv
  <2>2. CASE stamp # None
    <3>1. stamp - MaxDelay \in Int /\ InTime(c, stamp - MaxDelay)
          /\ now <= stamp - MaxDelay + MaxDelay + MaxDelay
      BY <1>0, <2>2 DEF IInv, LoopInv, WakeInv
    <3> QED
      BY <3>1
  <2> QED
    BY <2>1, <2>2
<1>3. fails * Period \in Nat /\ MaxFails * Period \in Nat
  BY <1>0, OneMore
<1>4. fails * Period <= MaxFails * Period
  BY <1>0, AtMost
<1>5. (MaxFails + 1) * Period
          = MaxFails * Period + Interval + MaxDelay + MaxDelay
  BY <1>0, OneMore
<1> QED
  BY <1>0, <1>1, <1>2, <1>3, <1>4, <1>5 DEF InTime

-----------------------------------------------------------------------------
LEMMA Invariance == Spec => []IInv
<1> QED
  BY InvInit, InvNext, PTL DEF Spec

\* Every variable of the sweeper's timing keeps its type.
THEOREM SweeperTyped == Spec => []TypeOK
<1>1. IInv => TypeOK
  BY DEF IInv
<1> QED
  BY <1>1, Invariance, PTL

\* The sweeper leaves a command alone until its timeout has passed, for any
\* settings, also when the control plane restarts.
THEOREM SweepsAreNotEarly == Spec => []NeverEarly
<1>1. IInv => NeverEarly
  BY DEF IInv, RowInv, NeverEarly
<1> QED
  BY <1>1, Invariance, PTL

\* A command nobody answers is failed in bounded time, for any settings, any
\* delays and any number of sweeps that raise in a row.
THEOREM SweepsAreTimely == Spec => []TimelyTimeout
<1> QED
  BY WakeInTime, Invariance, PTL
=============================================================================
