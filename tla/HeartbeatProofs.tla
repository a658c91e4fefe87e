-------------------------- MODULE HeartbeatProofs ---------------------------
(* Theorems of Heartbeat, for any intervals, delays and losses.             *)
EXTENDS Heartbeat, SequenceTheorems, TLAPS

Flying == 1 .. Len(flight)

\* The beats under way are in order and not older than MaxDelay; the handler's
\* time is between the publication of the first one and now.
TimeInv ==
    /\ born <= now /\ died <= now
    /\ alive => now <= due + Jitter
    /\ \A i \in Flying : flight[i] <= now /\ now <= flight[i] + MaxDelay
    /\ \A i, j \in Flying : i <= j => flight[i] <= flight[j]
    /\ stamp # None => flight # <<>> /\ flight[1] <= stamp /\ stamp <= now
    /\ last # None => last <= now /\ (stamp # None => last <= stamp)

\* What an agent that is gone has left behind.
DeathInv ==
    ~alive => /\ \A i \in Flying : flight[i] <= died
              /\ last # None => last <= died + MaxDelay

\* An agent that was started has been seen, will be, or has lost every beat.
SeenInv ==
    alive => \/ last # None /\ last >= born
             \/ \E i \in Flying : /\ born <= flight[i]
                                  /\ flight[i] <= born + MaxLost * Period
             \/ missed > 0 /\ due + Jitter <= born + missed * Period

\* t is at most d later than the birth, or than the last beat that was
\* published and that is under way or recorded.
Since(t, d) ==
    \/ t <= born + d
    \/ flight # <<>> /\ t <= flight[Len(flight)] + d
    \/ flight = <<>> /\ last # None /\ t <= last + d

DueInv == alive => Since(due, missed * Period + Interval)

\* Neighbouring beats, the one recorded last included, are a Gap apart at
\* most, unless the second one came soon after the birth.
GapInv ==
    /\ \A i \in Flying : i + 1 \in Flying =>
           \/ flight[i + 1] <= born + Gap
           \/ flight[i + 1] <= flight[i] + Gap
    /\ flight # <<>> /\ last # None =>
           flight[1] <= born + Gap \/ flight[1] <= last + Gap

IInv == TypeOK /\ TimeInv /\ DeathInv /\ SeenInv /\ DueInv /\ GapInv

-----------------------------------------------------------------------------
(* Arithmetic and sequences                                                 *)

LEMMA PeriodIs == Period \in Nat /\ Period = Interval + Jitter
BY TimesAssumption DEF Period

LEMMA OneMore ==
    ASSUME NEW n \in Nat
    PROVE  /\ n * Period \in Nat
           /\ (n + 1) * Period = n * Period + Interval + Jitter
<1>1. (n + 1) * Period = n * Period + Period /\ n * Period \in Nat
  BY PeriodIs
<1> QED
  BY <1>1, PeriodIs, TimesAssumption

LEMMA AtMost ==
    ASSUME NEW m \in Nat, NEW n \in 0 .. m
    PROVE  n * Period <= m * Period
<1>1. PICK d \in Nat : m = n + d
  <2>1. m - n \in Nat /\ m = n + (m - n)
    OBVIOUS
  <2> QED
    BY <2>1
<1>2. m * Period = n * Period + d * Period
  BY <1>1, PeriodIs
<1>3. n * Period \in Nat /\ d * Period \in Nat
  BY OneMore
<1> QED
  BY <1>2, <1>3

LEMMA GapIs ==
    ASSUME NEW n \in 0 .. MaxLost
    PROVE  /\ Gap \in Nat /\ n * Period + Interval + Jitter <= Gap
           /\ MaxLost * Period <= Gap
<1>1. MaxLost \in Nat /\ n \in Nat
  BY TimesAssumption
<1>2. Gap = MaxLost * Period + Interval + Jitter /\ MaxLost * Period \in Nat
  BY <1>1, OneMore DEF Gap
<1>3. n * Period <= MaxLost * Period /\ n * Period \in Nat
  BY <1>1, AtMost, OneMore
<1> QED
  BY <1>2, <1>3, TimesAssumption

\* What Append and Tail leave under way.
LEMMA Appended ==
    ASSUME TypeOK, flight' = Append(flight, now)
    PROVE  /\ Len(flight)' = Len(flight) + 1 /\ Len(flight) \in Nat
           /\ Flying' = 1 .. Len(flight) + 1
           /\ flight' # <<>>
           /\ \A i \in Flying : flight'[i] = flight[i] /\ flight[i] \in Nat
           /\ flight'[Len(flight) + 1] = now
BY TimesAssumption DEF TypeOK, Flying

LEMMA Tailed ==
    ASSUME TypeOK, flight # <<>>, flight' = Tail(flight)
    PROVE  /\ Len(flight)' = Len(flight) - 1 /\ Len(flight) \in Nat \ {0}
           /\ Flying' = 1 .. Len(flight) - 1
           /\ \A i \in Flying : flight[i] \in Nat
           /\ \A i \in Flying' : i + 1 \in Flying /\ flight'[i] = flight[i + 1]
BY TimesAssumption DEF TypeOK, Flying

-----------------------------------------------------------------------------
LEMMA InvInit == Init => IInv
<1> SUFFICES ASSUME Init PROVE IInv
  OBVIOUS
<1> USE TimesAssumption, NoneAssumption DEF Init
<1>1. TypeOK
  <2>1. 0 \in 0 .. MaxTime /\ 0 \in 0 .. MaxTime + Interval /\ 0 \in 0 .. MaxLost
        /\ MaxStarts \in 0 .. MaxStarts /\ <<>> \in Seq(0 .. MaxTime)
    OBVIOUS
  <2> QED
    BY <2>1 DEF TypeOK
<1>2. Flying = {}
  BY DEF Flying
<1>3. /\ now = 0 /\ born = 0 /\ died = 0 /\ due = 0 /\ ~alive
      /\ stamp = None /\ last = None /\ flight = <<>>
  OBVIOUS
<1> HIDE DEF Init
<1>4. TimeInv
  BY <1>2, <1>3 DEF TimeInv
<1>5. DeathInv
  BY <1>2, <1>3 DEF DeathInv
<1>6. SeenInv /\ DueInv
  BY <1>3 DEF SeenInv, DueInv
<1>7. GapInv
  BY <1>2, <1>3 DEF GapInv
<1> QED
  BY <1>1, <1>4, <1>5, <1>6, <1>7 DEF IInv

LEMMA TypeNext == TypeOK /\ TimeInv /\ [Next]_vars => TypeOK'
<1> SUFFICES ASSUME TypeOK, TimeInv, [Next]_vars PROVE TypeOK'
  OBVIOUS
<1> USE TimesAssumption, NoneAssumption DEF TypeOK
<1>1. ASSUME NEW lost \in Nat, Publish(lost)
      PROVE  flight' \in Seq(0 .. MaxTime) /\ missed' \in 0 .. MaxLost
  <2>1. Append(flight, now) \in Seq(0 .. MaxTime) /\ 0 \in 0 .. MaxLost
    OBVIOUS
  <2>2. flight \in Seq(0 .. MaxTime) /\ MaxLost \in Nat
    OBVIOUS
  <2> HIDE DEF TypeOK
  <2>3. CASE flight' = Append(flight, now) /\ missed' = 0
    BY <2>1, <2>3
  <2>4. CASE lost <= MaxLost /\ missed' = lost /\ flight' = flight
    BY <2>2, <2>4
  <2> QED
    BY <1>1, <2>3, <2>4 DEF Publish
<1>2. CASE Start
  BY <1>1, <1>2 DEF Start, FirstBeat, controlVars
<1>3. CASE Beat
  <2>1. missed + 1 \in Nat
    OBVIOUS
  <2> QED
    BY <1>1, <1>3, <2>1 DEF Beat, controlVars
<1>4. CASE Stop
  BY <1>4 DEF Stop, controlVars
<1>5. CASE Receive
  BY <1>5 DEF Receive, Utcnow, agentVars
<1>6. CASE Record
  <2>1. flight # <<>>
    BY <1>6 DEF Record, TimeInv
  <2>2. Tail(flight) \in Seq(0 .. MaxTime)
    BY <2>1
  <2> QED
    BY <1>6, <2>2 DEF Record, agentVars
<1>7. CASE Tick
  BY <1>7 DEF Tick, agentVars, controlVars
<1>8. CASE UNCHANGED vars
  BY <1>8 DEF vars, agentVars, controlVars
<1> QED
  BY <1>2, <1>3, <1>4, <1>5, <1>6, <1>7, <1>8 DEF Next

\* The times and the beats, in the form the other lemmas use.
LEMMA Numbers ==
    ASSUME TypeOK
    PROVE  /\ now \in Nat /\ born \in Nat /\ died \in Nat /\ due \in Nat
           /\ missed \in Nat /\ missed \in 0 .. MaxLost
           /\ stamp # None => stamp \in Nat
           /\ last # None => last \in Nat
           /\ Interval \in Nat /\ Jitter \in Nat /\ MaxDelay \in Nat
           /\ MaxLost \in Nat
BY TimesAssumption DEF TypeOK

LEMMA Beats ==
    ASSUME TypeOK
    PROVE  /\ Len(flight) \in Nat /\ (flight # <<>> <=> Len(flight) > 0)
           /\ \A i \in Flying : flight[i] \in Nat /\ i \in Nat
<1>1. flight \in Seq(0 .. MaxTime) /\ MaxTime \in Nat
  BY TimesAssumption DEF TypeOK
<1> QED
  BY <1>1 DEF Flying

\* A step that leaves the queue, the handler and the table alone.
LEMMA TimeNext == TypeOK /\ TimeInv /\ [Next]_vars => TimeInv'
<1> SUFFICES ASSUME TypeOK, TimeInv, [Next]_vars PROVE TimeInv'
  OBVIOUS
<1>0. NoneAssumption /\ Flying = 1 .. Len(flight) /\ (Flying)' = 1 .. Len(flight)'
  BY NoneAssumption DEF Flying
<1>1. ASSUME flight' = Append(flight, now), now' = now, born' <= now, died' = died,
             UNCHANGED <<stamp, last>>, alive' => now <= due' + Jitter
      PROVE  TimeInv'
  <2>1. \A i \in Flying' : /\ flight'[i] <= now /\ now <= flight'[i] + MaxDelay
    BY <1>1, Appended, Beats, Numbers DEF TimeInv, Flying
  <2>2. \A i, j \in Flying' : i <= j => flight'[i] <= flight'[j]
    BY <1>1, Appended, Beats, Numbers DEF TimeInv, Flying
  <2>3. stamp # None => flight'[1] = flight[1]
    BY <1>1, Appended, Beats, Numbers DEF TimeInv, Flying
  <2> QED
    BY <1>1, <2>1, <2>2, <2>3, Appended DEF TimeInv
<1>2. ASSUME flight' = flight, now' = now, born' <= now, died' <= now,
             UNCHANGED <<stamp, last>>, alive' => now <= due' + Jitter
      PROVE  TimeInv'
  BY <1>2 DEF TimeInv, Flying
<1>3. CASE Start
  <2>1. /\ born' = now /\ died' = died /\ died <= now /\ now <= now /\ now' = now
        /\ now <= due' + Jitter /\ UNCHANGED <<stamp, last>>
    BY <1>3, Numbers DEF Start, TimeInv, controlVars
  <2>2. flight' = Append(flight, now) \/ flight' = flight
    BY <1>3 DEF Start, FirstBeat, Publish
  <2> QED
    BY <1>1, <1>2, <2>1, <2>2
<1>4. CASE Beat
  <2>1. /\ born' = born /\ died' = died /\ born <= now /\ died <= now /\ now' = now
        /\ now <= due' + Jitter /\ UNCHANGED <<stamp, last>>
    BY <1>4, Numbers DEF Beat, TimeInv, controlVars
  <2>2. flight' = Append(flight, now) \/ flight' = flight
    BY <1>4 DEF Beat, Publish
  <2> QED
    BY <1>1, <1>2, <2>1, <2>2
<1>5. CASE Stop
  BY <1>2, <1>5, Numbers DEF Stop, TimeInv, controlVars
<1>6. CASE Receive
  <2>1. flight # <<>> /\ stamp' = now
        /\ UNCHANGED <<now, flight, last, born, died, alive, due>>
    BY <1>6 DEF Receive, Utcnow, agentVars
  <2>2. flight[1] <= now
    BY <2>1, Beats, Numbers DEF TimeInv, Flying
  <2> QED
    BY <2>1, <2>2, Beats, Numbers DEF TimeInv, Flying
<1>7. CASE Record
  <2>1. /\ stamp # None /\ last' = stamp /\ stamp' = None /\ flight' = Tail(flight)
        /\ UNCHANGED <<now, born, died, alive, due>>
    BY <1>7 DEF Record, agentVars
  <2>2. flight # <<>> /\ stamp <= now
    BY <2>1 DEF TimeInv
  <2>3. \A i \in Flying' : /\ flight'[i] <= now /\ now <= flight'[i] + MaxDelay
    BY <2>1, <2>2, Tailed DEF TimeInv
  <2>4. \A i, j \in Flying' : i <= j => flight'[i] <= flight'[j]
    BY <2>1, <2>2, Tailed, Beats, Numbers DEF TimeInv, Flying
  <2> QED
    BY <2>1, <2>2, <2>3, <2>4 DEF TimeInv
<1>8. CASE Tick
  <2>1. /\ now' = now + 1 /\ UNCHANGED <<flight, stamp, last, born, died, alive, due>>
        /\ alive => now < due + Jitter
        /\ flight # <<>> => now < flight[1] + MaxDelay
    BY <1>8 DEF Tick, agentVars, controlVars
  <2>2. \A i \in Flying : flight[1] <= flight[i] /\ flight # <<>>
    <3> SUFFICES ASSUME NEW i \in Flying
                 PROVE  flight[1] <= flight[i] /\ flight # <<>>
      OBVIOUS
    <3>1. 1 \in Flying /\ 1 <= i /\ Len(flight) > 0
      BY Beats DEF Flying
    <3> QED
      BY <3>1, Beats DEF TimeInv
  <2>3. \A i \in Flying : flight[i] <= now + 1 /\ now + 1 <= flight[i] + MaxDelay
    <3> SUFFICES ASSUME NEW i \in Flying
                 PROVE  flight[i] <= now + 1 /\ now + 1 <= flight[i] + MaxDelay
      OBVIOUS
    <3>1. /\ flight[1] \in Nat /\ flight[i] \in Nat
          /\ now \in Nat /\ MaxDelay \in Nat
      BY Beats, Numbers DEF Flying
    <3>2. flight[1] <= flight[i] /\ now < flight[1] + MaxDelay
      BY <2>1, <2>2
    <3>3. flight[i] <= now
      BY DEF TimeInv
    <3> QED
      BY <3>1, <3>2, <3>3
  <2> QED
    BY <2>1, <2>3, Beats, Numbers DEF TimeInv, Flying
<1>9. CASE UNCHANGED vars
  BY <1>9 DEF vars, agentVars, controlVars, TimeInv, Flying
<1> QED
  BY <1>3, <1>4, <1>5, <1>6, <1>7, <1>8, <1>9 DEF Next

LEMMA DeathNext == TypeOK /\ TimeInv /\ DeathInv /\ [Next]_vars => DeathInv'
<1> SUFFICES ASSUME TypeOK, TimeInv, DeathInv, [Next]_vars, ~alive'
             PROVE  /\ \A i \in Flying' : flight'[i] <= died'
                    /\ last' # None => last' <= died' + MaxDelay
  BY DEF DeathInv
<1> DEFINE Goal == /\ \A i \in Flying' : flight'[i] <= died'
                   /\ last' # None => last' <= died' + MaxDelay
<1>1. CASE Start \/ Beat
  BY <1>1 DEF Start, Beat
<1>2. CASE Stop
  BY <1>2, Beats, Numbers DEF Stop, TimeInv, Flying, controlVars
<1>3. CASE Receive \/ Tick \/ UNCHANGED vars
  BY <1>3
  DEF Receive, Tick, vars, agentVars, controlVars, DeathInv, Flying
<1>4. CASE Record
  <2>1. /\ stamp # None /\ last' = stamp /\ flight' = Tail(flight)
        /\ UNCHANGED <<died, alive>>
    BY <1>4 DEF Record, agentVars
  <2>2. flight # <<>> /\ stamp <= now
    BY <2>1 DEF TimeInv
  <2>3. 1 \in Flying
    BY <2>2, Beats, Numbers DEF Flying
  <2>4. flight[1] <= died /\ now <= flight[1] + MaxDelay
    BY <2>1, <2>3 DEF TimeInv, DeathInv
  <2>5. stamp <= died + MaxDelay
    <3>1. stamp \in Nat /\ now \in Nat /\ died \in Nat /\ MaxDelay \in Nat
      BY <2>1, Numbers
    <3>2. flight[1] \in Nat
      BY <2>3, Beats
    <3> QED
      BY <2>2, <2>4, <3>1, <3>2
  <2>6. \A i \in Flying' : flight'[i] <= died'
    BY <2>1, <2>2, Tailed DEF DeathInv
  <2> QED
    BY <2>1, <2>5, <2>6
<1> QED
  BY <1>1, <1>2, <1>3, <1>4 DEF Next

LEMMA Later ==
    ASSUME TypeOK, NEW t \in Nat, NEW u \in Nat, NEW d \in Nat, NEW e \in Nat,
           Since(t, d), u + d <= t + e
    PROVE  Since(u, e)
<1>1. ASSUME NEW b \in Nat, t <= b + d
      PROVE  u <= b + e
  BY <1>1
<1>2. flight # <<>> => flight[Len(flight)] \in Nat
  BY Beats, Numbers DEF Flying
<1>3. born \in Nat /\ (last # None => last \in Nat)
  BY Numbers
<1> QED
  BY <1>1, <1>2, <1>3 DEF Since

\* A beat is published in time: at most d after the birth or the last one.
LEMMA BeatInTime ==
    ASSUME TypeOK, TimeInv, DueInv, alive
    PROVE  Since(now, missed * Period + Interval + Jitter) /\ Since(now, Gap)
<1>1. now <= due + Jitter /\ Since(due, missed * Period + Interval)
  BY DEF TimeInv, DueInv
<1>2. PICK m \in Nat : m = missed * Period
  BY Numbers, OneMore
<1>3. Gap \in Nat /\ m + Interval + Jitter <= Gap
  BY <1>2, Numbers, GapIs
<1>4. /\ now + (m + Interval) <= due + (m + Interval + Jitter)
      /\ now + (m + Interval) <= due + Gap
      /\ m + Interval \in Nat /\ m + Interval + Jitter \in Nat
  <2>1. /\ now \in Nat /\ due \in Nat /\ Interval \in Nat /\ Jitter \in Nat
        /\ m \in Nat
    BY Numbers
  <2> QED
    BY <1>1, <1>3, <2>1
<1>5. Since(now, m + Interval + Jitter) /\ Since(now, Gap)
  BY <1>1, <1>2, <1>3, <1>4, Later, Numbers
<1> QED
  BY <1>2, <1>5

LEMMA DueNext == TypeOK /\ TimeInv /\ DueInv /\ [Next]_vars => DueInv'
<1> SUFFICES ASSUME TypeOK, TimeInv, DueInv, [Next]_vars, alive'
             PROVE  Since(due, missed * Period + Interval)'
  BY DEF DueInv
<1> DEFINE Goal == Since(due, missed * Period + Interval)'
<1>1. CASE Start
  <2>1. born' = now /\ due' = now + Interval /\ missed' \in Nat
    BY <1>1, TimesAssumption DEF Start, FirstBeat, Publish
  <2>2. missed' * Period \in Nat
    BY <2>1, OneMore
  <2>3. due' <= born' + (missed' * Period + Interval)
    BY <2>1, <2>2, Numbers
  <2> QED
    BY <2>3 DEF Since
<1>2. CASE Beat
  <2>1. alive /\ due' = now + Interval /\ UNCHANGED <<now, born, last>>
    BY <1>2 DEF Beat, controlVars
  <2>2. CASE flight' = Append(flight, now) /\ missed' = 0
    <3>1. flight' # <<>> /\ flight'[Len(flight')] = now
      BY <2>2, Appended
    <3>2. missed' * Period \in Nat
      BY <2>2, OneMore
    <3>3. due' <= flight'[Len(flight')] + (missed' * Period + Interval)
      BY <2>1, <3>1, <3>2, Numbers
    <3> QED
      BY <3>1, <3>3 DEF Since
  <2>3. CASE missed' = missed + 1 /\ flight' = flight
    <3>1. Since(now, missed * Period + Interval + Jitter)
      BY <2>1, BeatInTime
    <3>2. /\ missed * Period \in Nat
          /\ missed' * Period = missed * Period + Interval + Jitter
      BY <2>3, Numbers, OneMore
    <3>3. PICK d \in Nat : d = missed * Period + Interval + Jitter
      BY <3>2, Numbers
    <3>4. PICK t \in Nat : t = now + Interval
      BY Numbers
    <3>5. Since(t, d + Interval)
      BY <3>1, <3>3, <3>4, Later, Numbers
    <3>6. due' = t /\ missed' * Period + Interval = d + Interval
      BY <2>1, <3>2, <3>3, <3>4
    <3> QED
      BY <2>1, <2>3, <3>5, <3>6 DEF Since
  <2> QED
    BY <1>2, <2>2, <2>3 DEF Beat, Publish
<1>3. CASE Stop
  BY <1>3 DEF Stop
<1>4. CASE Receive \/ Tick \/ UNCHANGED vars
  BY <1>4
  DEF Receive, Tick, vars, agentVars, controlVars, DueInv, Since
<1>5. CASE Record
  <2>1. /\ stamp # None /\ last' = stamp /\ flight' = Tail(flight)
        /\ UNCHANGED <<born, alive, due, missed>>
    BY <1>5 DEF Record, agentVars
  <2>2. flight # <<>> /\ flight[1] <= stamp
    BY <2>1 DEF TimeInv
  <2>3. Since(due, missed * Period + Interval)
    BY <2>1 DEF DueInv
  <2>4. missed * Period \in Nat
    BY Numbers, OneMore
  <2>5. CASE Len(flight) = 1
    <3>1. flight' = <<>>
      <4>1. Len(flight') = 0
        BY <2>1, <2>2, <2>5, Tailed
      <4>2. flight' \in Seq(0 .. MaxTime)
        BY TypeNext DEF TypeOK
      <4> QED
        BY <4>1, <4>2, EmptySeq
    <3>2. flight[1] \in Nat
      BY <2>2, Beats, Numbers DEF Flying
    <3> QED
      BY <2>1, <2>2, <2>3, <2>4, <2>5, <3>1, <3>2, Numbers DEF Since
  <2>6. CASE Len(flight) # 1
    <3>1. flight' # <<>> /\ flight'[Len(flight')] = flight[Len(flight)]
      BY <2>1, <2>2, <2>6, Tailed
    <3> QED
      BY <2>1, <2>2, <2>3, <3>1 DEF Since
  <2> QED
    BY <2>5, <2>6
<1> QED
  BY <1>1, <1>2, <1>3, <1>4, <1>5 DEF Next

LEMMA GapLater ==
    ASSUME NEW t \in Nat, NEW b \in Nat, NEW c \in Nat, b <= c, t <= b + Gap
    PROVE  t <= c + Gap
<1>1. Gap \in Nat
  <2>1. 0 \in 0 .. MaxLost
    BY TimesAssumption
  <2> QED
    BY <2>1, GapIs
<1> QED
  BY <1>1

LEMMA GapNext == TypeOK /\ TimeInv /\ DueInv /\ GapInv /\ [Next]_vars => GapInv'
<1> SUFFICES ASSUME TypeOK, TimeInv, DueInv, GapInv, [Next]_vars
             PROVE  GapInv'
  OBVIOUS
<1>0. Gap \in Nat
  BY Numbers, GapIs
<1>1. ASSUME flight' = Append(flight, now), last' = last, now \in Nat,
             born' \in Nat, born <= born',
             now <= born' + Gap \/ (born' = born /\ Since(now, Gap))
      PROVE  GapInv'
  <2>1. ASSUME NEW i \in Flying', i + 1 \in Flying'
        PROVE  \/ flight'[i + 1] <= born' + Gap
               \/ flight'[i + 1] <= flight'[i] + Gap
    <3>1. CASE i = Len(flight)
      <4>1. flight'[i + 1] = now /\ i \in Flying /\ flight'[i] = flight[i]
            /\ flight # <<>>
        BY <1>1, <2>1, <3>1, Appended, Beats, Numbers DEF Flying
      <4> QED
        BY <1>1, <3>1, <4>1 DEF Since
    <3>2. CASE i # Len(flight)
      <4>1. /\ i \in Flying /\ i + 1 \in Flying
            /\ flight'[i] = flight[i] /\ flight'[i + 1] = flight[i + 1]
            /\ flight[i + 1] \in Nat
        BY <1>1, <2>1, <3>2, Appended, Beats, Numbers DEF Flying
      <4>2. flight[i + 1] <= born + Gap \/ flight[i + 1] <= flight[i] + Gap
        BY <4>1 DEF GapInv
      <4>3. flight[i + 1] <= born + Gap => flight[i + 1] <= born' + Gap
        BY <1>1, <4>1, GapLater, Numbers
      <4> QED
        BY <4>1, <4>2, <4>3
    <3> QED
      BY <3>1, <3>2
  <2>2. ASSUME last' # None
        PROVE  flight'[1] <= born' + Gap \/ flight'[1] <= last' + Gap
    <3>1. CASE flight = <<>>
      <4>1. flight'[1] = now
        BY <1>1, <3>1, Appended, Numbers
      <4> QED
        BY <1>1, <2>2, <3>1, <4>1 DEF Since
    <3>2. CASE flight # <<>>
      <4>1. flight'[1] = flight[1] /\ flight[1] \in Nat
        BY <1>1, <3>2, Appended, Beats, Numbers DEF Flying
      <4>2. flight[1] <= born + Gap \/ flight[1] <= last + Gap
        BY <1>1, <2>2, <3>2 DEF GapInv
      <4>3. flight[1] <= born + Gap => flight[1] <= born' + Gap
        BY <1>1, <4>1, GapLater, Numbers
      <4> QED
        BY <1>1, <4>1, <4>2, <4>3
    <3> QED
      BY <3>1, <3>2
  <2> QED
    BY <2>1, <2>2 DEF GapInv
<1>2. ASSUME flight' = flight, last' = last, born' \in Nat, born <= born'
      PROVE  GapInv'
  <2>1. Flying' = Flying
    BY <1>2 DEF Flying
  <2>2. ASSUME NEW t \in Nat, t <= born + Gap PROVE t <= born' + Gap
    <3>1. born \in Nat
      BY Numbers
    <3> QED
      BY <1>2, <2>2, <3>1, GapLater
  <2>3. \A i \in Flying : flight[i] \in Nat
    BY Beats, Numbers
  <2>4. flight # <<>> => flight[1] \in Nat
    BY Beats, Numbers DEF Flying
  <2> QED
    BY <1>2, <2>1, <2>2, <2>3, <2>4 DEF GapInv
<1>3. CASE Start
  <2>1. born' = now /\ last' = last /\ born <= now /\ now \in Nat
        /\ now <= now + Gap
    BY <1>0, <1>3, Numbers DEF Start, controlVars, TimeInv
  <2> QED
    BY <1>1, <1>2, <1>3, <2>1 DEF Start, FirstBeat, Publish
<1>4. CASE Beat
  <2>1. born' = born /\ last' = last /\ born \in Nat /\ born <= born
        /\ now \in Nat
    BY <1>4, Numbers DEF Beat, controlVars
  <2>2. Since(now, Gap)
    BY <1>4, BeatInTime DEF Beat
  <2> QED
    BY <1>1, <1>2, <1>4, <2>1, <2>2 DEF Beat, Publish
<1>5. CASE Stop \/ Receive \/ Tick \/ UNCHANGED vars
  <2>1. /\ flight' = flight /\ last' = last /\ born' = born
        /\ born \in Nat /\ born <= born
    BY <1>5, Numbers
    DEF Stop, Receive, Tick, vars, agentVars, controlVars
  <2> QED
    BY <1>2, <2>1
<1>6. CASE Record
  <2>1. stamp # None /\ last' = stamp /\ flight' = Tail(flight) /\ born' = born
    BY <1>6 DEF Record, agentVars
  <2>2. flight # <<>> /\ flight[1] <= stamp
    BY <2>1 DEF TimeInv
  <2>3. \A i \in Flying' : /\ i + 1 \in Flying /\ flight'[i] = flight[i + 1]
                           /\ i \in Nat
    BY <2>1, <2>2, Tailed
  <2>4. ASSUME NEW i \in Flying', i + 1 \in Flying'
        PROVE  \/ flight'[i + 1] <= born' + Gap
               \/ flight'[i + 1] <= flight'[i] + Gap
    BY <2>1, <2>3, <2>4 DEF GapInv
  <2>5. ASSUME flight' # <<>>
        PROVE  flight'[1] <= born' + Gap \/ flight'[1] <= last' + Gap
    <3>1. 1 \in Flying /\ 1 + 1 \in Flying /\ flight'[1] = flight[1 + 1]
      <4>1. flight' \in Seq(0 .. MaxTime)
        BY TypeNext DEF TypeOK
      <4>2. Len(flight') > 0 /\ Len(flight') \in Nat
        BY <2>5, <4>1
      <4>3. 1 \in Flying'
        BY <4>2 DEF Flying
      <4> QED
        BY <2>2, <2>3, <4>3, Beats, Numbers DEF Flying
    <3>2. flight[1 + 1] <= born + Gap \/ flight[1 + 1] <= flight[1] + Gap
      BY <3>1 DEF GapInv
    <3>3. flight[1 + 1] \in Nat /\ flight[1] \in Nat /\ stamp \in Nat
      BY <2>1, <3>1, Beats, Numbers
    <3>4. flight[1 + 1] <= flight[1] + Gap => flight[1 + 1] <= stamp + Gap
      BY <2>2, <3>3, GapLater
    <3> QED
      BY <2>1, <3>1, <3>2, <3>4
  <2> QED
    BY <2>4, <2>5 DEF GapInv
<1> QED
  BY <1>3, <1>4, <1>5, <1>6 DEF Next

LEMMA SeenNext == TypeOK /\ TimeInv /\ SeenInv /\ [Next]_vars => SeenInv'
<1> SUFFICES ASSUME TypeOK, TimeInv, SeenInv, [Next]_vars, alive'
             PROVE  \/ last' # None /\ last' >= born'
                    \/ \E i \in Flying' :
                           /\ born' <= flight'[i]
                           /\ flight'[i] <= born' + MaxLost * Period
                    \/ missed' > 0 /\ due' + Jitter <= born' + missed' * Period
  BY DEF SeenInv
<1> DEFINE Goal == \/ last' # None /\ last' >= born'
                   \/ \E i \in Flying' :
                          /\ born' <= flight'[i]
                          /\ flight'[i] <= born' + MaxLost * Period
                   \/ missed' > 0 /\ due' + Jitter <= born' + missed' * Period
<1>0. PICK M \in Nat : M = MaxLost * Period
  BY Numbers, OneMore
<1>1. ASSUME flight' = Append(flight, now), born' <= now, now <= born' + M
      PROVE  Goal
  <2>1. Len(flight) + 1 \in Flying' /\ flight'[Len(flight) + 1] = now
    BY <1>1, Appended, Numbers
  <2> QED
    BY <1>0, <1>1, <2>1
<1>2. ASSUME NEW i \in Flying, flight' = Append(flight, now), born' = born,
             born <= flight[i], flight[i] <= born + M
      PROVE  Goal
  <2>1. i \in Flying' /\ flight'[i] = flight[i]
    BY <1>2, Appended, Beats, Numbers DEF Flying
  <2> QED
    BY <1>0, <1>2, <2>1
<1>3. CASE Start
  <2>1. born' = now /\ due' = now + Interval
    BY <1>3 DEF Start
  <2>2. CASE flight' = Append(flight, now)
    <3>1. born' <= now /\ now <= born' + M
      BY <2>1, Numbers
    <3> QED
      BY <1>1, <2>2, <3>1
  <2>3. CASE missed' = 1
    <3>1. 1 * Period = Interval + Jitter
      BY PeriodIs, TimesAssumption
    <3>2. due' + Jitter <= born' + missed' * Period
      BY <2>1, <2>3, <3>1, Numbers
    <3> QED
      BY <2>3, <3>2
  <2> QED
    BY <1>3, <2>2, <2>3 DEF Start, FirstBeat, Publish
<1>4. CASE Beat
  <2>1. alive /\ due' = now + Interval /\ born' = born /\ last' = last
        /\ born <= now /\ now <= due + Jitter
    BY <1>4 DEF Beat, controlVars, TimeInv
  <2>2. CASE last # None /\ last >= born
    BY <2>1, <2>2
  <2>3. ASSUME NEW i \in Flying, born <= flight[i], flight[i] <= born + M
        PROVE  Goal
    <3>1. CASE flight' = Append(flight, now)
      BY <1>2, <2>1, <2>3, <3>1
    <3>2. CASE flight' = flight
      BY <1>0, <2>1, <2>3, <3>2 DEF Flying
    <3> QED
      BY <1>4, <3>1, <3>2 DEF Beat, Publish
  <2>4. CASE missed > 0 /\ due + Jitter <= born + missed * Period
    <3>1. missed * Period <= M /\ missed * Period \in Nat
      BY <1>0, AtMost, OneMore, Numbers
    <3>2. CASE flight' = Append(flight, now)
      <4>1. now <= born' + M
        BY <2>1, <2>4, <3>1, Numbers
      <4> QED
        BY <1>1, <2>1, <3>2, <4>1
    <3>3. CASE missed' = missed + 1
      <4>1. missed' * Period = missed * Period + Interval + Jitter
        BY <3>3, OneMore, Numbers
      <4>2. PICK m \in Nat : m = missed * Period
        BY <3>1
      <4>3. due' + Jitter <= born' + (m + Interval + Jitter)
        <5>1. due + Jitter <= born + m
          BY <2>4, <4>2
        <5>2. /\ due \in Nat /\ now \in Nat /\ born \in Nat
              /\ Interval \in Nat /\ Jitter \in Nat
          BY Numbers
        <5> QED
          BY <2>1, <5>1, <5>2
      <4>4. missed' > 0
        BY <3>3, Numbers
      <4>5. missed' * Period = m + Interval + Jitter
        BY <4>1, <4>2
      <4>6. due' + Jitter <= born' + missed' * Period
        BY <4>3, <4>5
      <4> QED
        BY <4>4, <4>6
    <3> QED
      BY <1>4, <3>2, <3>3 DEF Beat, Publish
  <2> QED
    BY <1>0, <2>1, <2>2, <2>3, <2>4 DEF SeenInv
<1>5. CASE Stop
  BY <1>5 DEF Stop
<1>6. CASE Receive \/ Tick \/ UNCHANGED vars
  BY <1>6
  DEF Receive, Tick, vars, agentVars, controlVars, SeenInv, Flying
<1>7. CASE Record
  <2>1. /\ stamp # None /\ last' = stamp /\ flight' = Tail(flight)
        /\ UNCHANGED <<born, alive, due, missed>>
    BY <1>7 DEF Record, agentVars
  <2>2. flight # <<>> /\ flight[1] <= stamp /\ stamp <= now
    BY <2>1 DEF TimeInv
  <2>3. CASE last # None /\ last >= born
    <3>1. last <= stamp /\ last \in Nat /\ stamp \in Nat /\ born \in Nat
      BY <2>1, <2>3, Numbers DEF TimeInv
    <3> QED
      BY <2>1, <2>3, <3>1
  <2>4. ASSUME NEW i \in Flying, born <= flight[i], flight[i] <= born + M
        PROVE  Goal
    <3>1. CASE i = 1
      BY <2>1, <2>2, <2>4, <3>1, Beats, Numbers
    <3>2. CASE i # 1
      <4>1. i - 1 \in Flying' /\ flight'[i - 1] = flight[i]
        BY <2>1, <2>2, <3>2, Tailed, Beats, Numbers DEF Flying
      <4> QED
        BY <1>0, <2>1, <2>4, <4>1
    <3> QED
      BY <3>1, <3>2
  <2>5. CASE missed > 0 /\ due + Jitter <= born + missed * Period
    BY <2>1, <2>5
  <2> QED
    BY <1>0, <2>1, <2>3, <2>4, <2>5 DEF SeenInv
<1> QED
  BY <1>3, <1>4, <1>5, <1>6, <1>7 DEF Next

LEMMA InvNext == IInv /\ [Next]_vars => IInv'
BY TypeNext, TimeNext, DeathNext, SeenNext, DueNext, GapNext DEF IInv

LEMMA Invariance == Spec => []IInv
<1> QED
  BY InvInit, InvNext, PTL DEF Spec

-----------------------------------------------------------------------------
\* Every variable of the heartbeats keeps its type.
THEOREM HeartbeatTyped == Spec => []TypeOK
<1>1. IInv => TypeOK
  BY DEF IInv
<1> QED
  BY <1>1, Invariance, PTL

\* With a stale window of Gap + MaxDelay a living agent that has been seen is
\* never shown as offline, whatever the interval and the delays.
THEOREM LivingIsOnline == Tolerant => (Spec => []NoFalseOffline)
<1> SUFFICES ASSUME Tolerant PROVE Spec => []NoFalseOffline
  OBVIOUS
<1>1. IInv => NoFalseOffline
  <2> SUFFICES ASSUME IInv, alive, last # None, last >= born
               PROVE  Reachability = "online"
    BY DEF NoFalseOffline
  <2>1. TypeOK /\ TimeInv /\ DueInv /\ GapInv
    BY DEF IInv
  <2>2. now \in Nat /\ last \in Nat /\ born \in Nat /\ MaxDelay \in Nat
        /\ Gap \in Nat
    BY <2>1, Numbers, GapIs
  <2>3. now - last <= Gap + MaxDelay
    <3>1. CASE flight = <<>>
      <4>1. now <= born + Gap \/ now <= last + Gap
        BY <2>1, <3>1, BeatInTime DEF Since
      <4> QED
        BY <2>2, <4>1
    <3>2. CASE flight # <<>>
      <4>1. flight[1] \in Nat /\ now <= flight[1] + MaxDelay
        BY <2>1, <3>2, Beats, Numbers DEF TimeInv, Flying
      <4>2. flight[1] <= born + Gap \/ flight[1] <= last + Gap
        BY <2>1, <3>2 DEF GapInv
      <4> QED
        BY <2>2, <4>1, <4>2
    <3> QED
      BY <3>1, <3>2
  <2>4. StaleAfter \in Nat /\ StaleAfter >= Gap + MaxDelay
    BY TimesAssumption DEF Tolerant
  <2> QED
    BY <2>2, <2>3, <2>4 DEF Reachability, Fresh
<1> QED
  BY <1>1, Invariance, PTL

\* An agent that has come up is seen in bounded time, whatever its earlier
\* lives have left under way.
THEOREM BirthsAreSeen == Spec => []NewAgentIsSeen
<1>1. IInv => NewAgentIsSeen
  <2> SUFFICES ASSUME IInv, alive, now > born + MaxLost * Period + MaxDelay
               PROVE  last # None /\ last >= born
    BY DEF NewAgentIsSeen
  <2>1. TypeOK /\ TimeInv /\ SeenInv
    BY DEF IInv
  <2>2. PICK M \in Nat : M = MaxLost * Period
    BY <2>1, Numbers, OneMore
  <2>3. now \in Nat /\ born \in Nat /\ due \in Nat /\ MaxDelay \in Nat
        /\ Jitter \in Nat /\ now > born + M + MaxDelay
    BY <2>1, <2>2, Numbers
  <2>4. ~ \E i \in Flying : flight[i] <= born + M
    BY <2>1, <2>3, Beats, Numbers DEF TimeInv
  <2>5. ~ (missed > 0 /\ due + Jitter <= born + missed * Period)
    <3>1. missed * Period <= M /\ missed * Period \in Nat
      BY <2>1, <2>2, AtMost, OneMore, Numbers
    <3>2. now <= due + Jitter
      BY <2>1 DEF TimeInv
    <3> QED
      BY <2>3, <3>1, <3>2
  <2> QED
    BY <2>1, <2>2, <2>4, <2>5 DEF SeenInv
<1> QED
  BY <1>1, Invariance, PTL

\* An agent that is gone is not shown as online for longer than the stale
\* window and the delay of its last beats.
THEOREM DeathsAreNoticed == Spec => []DeathIsNoticed
<1>1. IInv => DeathIsNoticed
  <2> SUFFICES ASSUME IInv, ~alive, now > died + MaxDelay + StaleAfter,
                      last # None
               PROVE  ~Fresh(now - last)
    BY DEF DeathIsNoticed, Reachability
  <2>1. now \in Nat /\ died \in Nat /\ last \in Nat /\ MaxDelay \in Nat
        /\ StaleAfter \in Nat
    BY TimesAssumption, Numbers DEF IInv
  <2>2. last <= died + MaxDelay
    BY DEF IInv, DeathInv
  <2> QED
    BY <2>1, <2>2 DEF Fresh
<1> QED
  BY <1>1, Invariance, PTL
=============================================================================
