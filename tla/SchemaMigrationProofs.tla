----------------------- MODULE SchemaMigrationProofs ------------------------
(* The theorems of SchemaMigration, for any instances: whatever version the *)
(* database comes from, and however upgrades, registrations, commands,      *)
(* dumps and restores follow each other.                                    *)
EXTENDS SchemaMigration, TLAPS

-----------------------------------------------------------------------------
(* The invariant                                                            *)

\* A database that some version of the program may have left: a column holds
\* a value in every row or in none, and the one that is there means the intent.
Sound(cols, rows, st, wl, tok, int) ==
    /\ cols \in Versions
    /\ rows \subseteq Instances
    /\ cols = {} => rows = {}
    /\ st \in Column("status", OldStatus, cols, rows)
    /\ wl \in Column("workload_state", WorkloadState, cols, rows)
    /\ tok \in [Instances -> BOOLEAN]
    /\ int = [i \in Instances |-> Meaning(IF wl[i] = Null THEN st[i] ELSE wl[i])]

\* What is dumped may come back.
SchemaInv ==
    /\ up \in BOOLEAN
    /\ up => columns = Current
    /\ Sound(columns, present, status, workload, token, intent)
    /\ Sound(dump[1], dump[2], dump[3], dump[4], dump[5], dump[6])

-----------------------------------------------------------------------------
(* What the versions and columns are                                        *)

\* Either old, or new, or not there yet; the block makes all of them current.
LEMMA VersionForms ==
    ASSUME NEW cols \in Versions
    PROVE  /\ (cols \cup Current) \ {"status"} = Current
           /\ \/ cols = {}
              \/ "status" \in cols /\ "workload_state" \notin cols
              \/ "status" \notin cols /\ "workload_state" \in cols
BY DEF Versions, Current

LEMMA CurrentForm ==
    /\ Current \in Versions /\ Current # {}
    /\ "status" \notin Current /\ "workload_state" \in Current
BY DEF Versions, Current

LEMMA Meanings ==
    /\ \A s \in OldStatus : Meaning(s) \in WorkloadState
    /\ \A s \in WorkloadState : Meaning(s) = s
    /\ Meaning(Null) = Null
BY NullAssumption DEF OldStatus, WorkloadState, Meaning

\* In a database of the current version the intent is in the new column.
LEMMA SoundNow ==
    ASSUME NEW rows \in SUBSET Instances, NEW tok \in [Instances -> BOOLEAN],
           NEW st, st = [i \in Instances |-> Null],
           NEW wl \in [Instances -> WorkloadState \cup {Null}],
           \A i \in Instances : wl[i] # Null <=> i \in rows
    PROVE  Sound(Current, rows, st, wl, tok, wl)
<1>1. st \in Column("status", OldStatus, Current, rows)
  BY CurrentForm DEF Column
<1>2. wl \in Column("workload_state", WorkloadState, Current, rows)
  BY CurrentForm DEF Column
<1>3. \A i \in Instances :
          wl[i] = Meaning(IF wl[i] = Null THEN st[i] ELSE wl[i])
  BY Meanings
<1>4. wl = [i \in Instances |-> Meaning(IF wl[i] = Null THEN st[i] ELSE wl[i])]
  BY <1>3
<1> QED
  BY <1>1, <1>2, <1>4, CurrentForm DEF Sound

\* And the other way round.
LEMMA NowIsSo ==
    ASSUME NEW rows, NEW st, NEW wl, NEW tok, NEW int,
           Sound(Current, rows, st, wl, tok, int)
    PROVE  /\ rows \in SUBSET Instances /\ tok \in [Instances -> BOOLEAN]
           /\ st = [i \in Instances |-> Null]
           /\ wl \in [Instances -> WorkloadState \cup {Null}]
           /\ \A i \in Instances : wl[i] # Null <=> i \in rows
           /\ int = wl
<1>1. /\ st \in [Instances -> OldStatus \cup {Null}]
      /\ \A i \in Instances : st[i] = Null
  BY CurrentForm DEF Sound, Column
<1>2. st = [i \in Instances |-> Null]
  BY <1>1
<1>3. /\ wl \in [Instances -> WorkloadState \cup {Null}]
      /\ \A i \in Instances : wl[i] # Null <=> i \in rows
  BY CurrentForm DEF Sound, Column
<1>4. \A i \in Instances :
          Meaning(IF wl[i] = Null THEN st[i] ELSE wl[i]) = wl[i]
  BY <1>1, <1>3, Meanings
<1>5. int = [i \in Instances |-> Meaning(IF wl[i] = Null THEN st[i] ELSE wl[i])]
  BY DEF Sound
<1>6. int = [i \in Instances |-> wl[i]]
  BY <1>4, <1>5
<1> QED
  BY <1>2, <1>3, <1>6 DEF Sound

-----------------------------------------------------------------------------
(* Every step keeps the invariant                                           *)

\* The UPDATE gives every old row the meaning of its status, and leaves the
\* rows of a newer version alone.
LEMMA ApplyKeeps ==
    ASSUME Sound(columns, present, status, workload, token, intent), ApplySchema
    PROVE  /\ columns' = Current
           /\ Sound(columns, present, status, workload, token, intent)'
<1>1. columns' = Current
  BY VersionForms DEF ApplySchema, Added, Sound
<1>2. UNCHANGED <<present, token, intent>>
  BY DEF ApplySchema
<1>3. /\ status \in [Instances -> OldStatus \cup {Null}]
      /\ workload \in [Instances -> WorkloadState \cup {Null}]
      /\ \A i \in Instances : status[i] # Null <=> i \in present /\ "status" \in columns
      /\ \A i \in Instances :
             workload[i] # Null <=> i \in present /\ "workload_state" \in columns
      /\ present \in SUBSET Instances /\ token \in [Instances -> BOOLEAN]
  BY DEF Sound, Column
<1>4. \A i \in Instances :
          intent[i] = Meaning(IF workload[i] = Null THEN status[i] ELSE workload[i])
  BY DEF Sound
<1>5. intent = [i \in Instances |-> intent[i]]
  BY DEF Sound
<1>6. /\ status' = [i \in Instances |-> Null]
      /\ workload' = intent
      /\ \A i \in Instances : intent[i] \in WorkloadState \cup {Null}
      /\ \A i \in Instances : intent[i] # Null <=> i \in present
  <2>1. CASE "status" \in columns
    <3>1. AddedValue = Null /\ "workload_state" \notin columns
      BY <2>1, VersionForms DEF Sound, AddedValue
    <3>2. \A i \in Instances : workload[i] = Null
      BY <1>3, <3>1
    <3>3. \A i \in Instances : intent[i] = Meaning(status[i])
      BY <1>4, <3>2
    <3>4. \A i \in present : SplitStatus(i) = intent[i]
      BY <1>3, <3>1, <3>3 DEF SplitStatus
    <3>5. \A i \in Instances : i \notin present => intent[i] = Null
      BY <1>3, <3>3, Meanings
    <3>6. \A i \in present : intent[i] \in WorkloadState
      BY <1>3, <2>1, <3>3, Meanings
    <3>7. \A i \in Instances :
              (IF i \in present THEN SplitStatus(i) ELSE Null) = intent[i]
      BY <3>4, <3>5
    <3>8. workload' = [i \in Instances |-> intent[i]]
      BY <2>1, <3>7 DEF ApplySchema
    <3>9. status' = [i \in Instances |-> Null]
      BY <2>1 DEF ApplySchema
    <3> QED
      BY <1>3, <1>5, <3>5, <3>6, <3>8, <3>9, NullAssumption
  <2>2. CASE "status" \notin columns
    <3>1. UNCHANGED <<workload, status>>
      BY <2>2 DEF ApplySchema
    <3>2. \A i \in Instances : status[i] = Null
      BY <1>3, <2>2
    <3>3. \A i \in Instances : intent[i] = workload[i]
      BY <1>3, <1>4, <3>2, Meanings
    <3>4. present # {} => "workload_state" \in columns
      BY <2>2, VersionForms DEF Sound
    <3>5. status = [i \in Instances |-> Null]
      BY <1>3, <3>2
    <3>6. workload = [i \in Instances |-> intent[i]]
      BY <1>3, <3>3
    <3> QED
      BY <1>3, <1>5, <3>1, <3>3, <3>4, <3>5, <3>6
  <2> QED
    BY <2>1, <2>2
<1>7. intent \in [Instances -> WorkloadState \cup {Null}]
  BY <1>5, <1>6
<1>8. Sound(Current, present, status', intent, token, intent)
  BY <1>3, <1>6, <1>7, SoundNow
<1>9. Sound(columns', present', status', workload', token', intent')
  BY <1>1, <1>2, <1>6, <1>8
<1> QED
  BY <1>1, <1>9 DEF Sound

LEMMA SchemaNext ==
    ASSUME SchemaInv, [Next]_vars
    PROVE  SchemaInv'
<1> DEFINE Dumped == Sound(dump[1], dump[2], dump[3], dump[4], dump[5], dump[6])
           Stored == Sound(columns, present, status, workload, token, intent)
<1>0. Dumped /\ Stored /\ up \in BOOLEAN /\ (up => columns = Current)
  BY DEF SchemaInv
<1>1. CASE Start
  <2>1. Stored'
    BY <1>0, <1>1, ApplyKeeps DEF Start
  <2>2. columns' = Current
    BY <1>0, <1>1, ApplyKeeps DEF Start
  <2>3. Dumped' /\ up' \in BOOLEAN
    BY <1>0, <1>1 DEF Start, Sound
  <2> QED
    BY <2>1, <2>2, <2>3 DEF SchemaInv
<1>2. CASE Stop
  BY <1>0, <1>2 DEF Stop, database, SchemaInv, Sound
<1>3. CASE Dump
  <2>1. UNCHANGED <<up, columns, present, status, workload, token, intent>>
    BY <1>3 DEF Dump, database
  <2>2. /\ dump'[1] = columns /\ dump'[2] = present /\ dump'[3] = status
        /\ dump'[4] = workload /\ dump'[5] = token /\ dump'[6] = intent
    BY <1>3 DEF Dump, database
  <2>3. Stored' /\ Dumped'
    BY <1>0, <2>1, <2>2 DEF Sound
  <2> QED
    BY <1>0, <2>1, <2>3 DEF SchemaInv
<1>4. CASE Restore
  <2>1. Stored'
    BY <1>0, <1>4 DEF Restore, Sound
  <2>2. Dumped' /\ up' \in BOOLEAN /\ ~up'
    BY <1>0, <1>4 DEF Restore, Sound
  <2> QED
    BY <2>1, <2>2 DEF SchemaInv
<1>5. ASSUME up, NEW i \in Instances, NEW s \in WorkloadState,
             present' = present \cup {i},
             workload' = [workload EXCEPT ![i] = s],
             intent' = [intent EXCEPT ![i] = s],
             token' \in [Instances -> BOOLEAN],
             UNCHANGED <<up, columns, status, dump>>
      PROVE  SchemaInv'
  <2>1. columns = Current
    BY <1>0, <1>5
  <2>2. /\ present \in SUBSET Instances
        /\ status = [j \in Instances |-> Null]
        /\ workload \in [Instances -> WorkloadState \cup {Null}]
        /\ \A j \in Instances : workload[j] # Null <=> j \in present
        /\ intent = workload
    BY <1>0, <2>1, NowIsSo
  <2>3. workload' \in [Instances -> WorkloadState \cup {Null}]
    BY <1>5, <2>2
  <2>4. \A j \in Instances : workload'[j] # Null <=> j \in present'
    BY <1>5, <2>2, NullAssumption
  <2>5. intent' = workload' /\ present' \in SUBSET Instances
    BY <1>5, <2>2
  <2>6. Sound(Current, present', status, workload', token', workload')
    BY <1>5, <2>2, <2>3, <2>4, <2>5, SoundNow
  <2>7. Stored'
    BY <1>5, <2>1, <2>5, <2>6
  <2>8. Dumped'
    BY <1>0, <1>5 DEF Sound
  <2> QED
    BY <1>0, <1>5, <2>1, <2>7, <2>8 DEF SchemaInv
<1>6. ASSUME NEW i \in Instances, Register(i)
      PROVE  SchemaInv'
  <2>1. token' \in [Instances -> BOOLEAN]
    BY <1>0, <1>6 DEF Register, Sound
  <2>2. /\ up /\ present' = present \cup {i}
        /\ workload' = [workload EXCEPT ![i] = "unknown"]
        /\ intent' = [intent EXCEPT ![i] = "unknown"]
        /\ UNCHANGED <<up, columns, status, dump>>
    BY <1>6 DEF Register, Fresh
  <2> QED
    BY <1>5, <2>1, <2>2 DEF WorkloadState
<1>7. ASSUME NEW i \in Instances, NEW s \in {"enabled", "disabled"},
             UpdateWorkloadState(i, s)
      PROVE  SchemaInv'
  <2>1. token' \in [Instances -> BOOLEAN] /\ present' = present \cup {i}
    BY <1>0, <1>7 DEF UpdateWorkloadState, Sound
  <2>2. /\ up
        /\ workload' = [workload EXCEPT ![i] = s]
        /\ intent' = [intent EXCEPT ![i] = s]
        /\ UNCHANGED <<up, columns, status, dump>>
    BY <1>7 DEF UpdateWorkloadState
  <2> QED
    BY <1>5, <2>1, <2>2 DEF WorkloadState
<1>8. CASE UNCHANGED vars
  BY <1>0, <1>8 DEF vars, database, SchemaInv, Sound
<1> QED
  BY <1>1, <1>2, <1>3, <1>4, <1>6, <1>7, <1>8 DEF Next

LEMMA SchemaInit == Init => SchemaInv
<1> SUFFICES ASSUME Init PROVE SchemaInv
  OBVIOUS
<1>1. Sound(columns, present, status, workload, token, intent)
  BY DEF Init, Sound
<1>2. /\ dump[1] = columns /\ dump[2] = present /\ dump[3] = status
      /\ dump[4] = workload /\ dump[5] = token /\ dump[6] = intent
  BY DEF Init, database
<1> QED
  BY <1>1, <1>2 DEF Init, SchemaInv

\* What the invariant says of a running control plane.
LEMMA RunningSchema ==
    ASSUME SchemaInv, up
    PROVE  /\ columns = Current /\ workload = intent
           /\ \A i \in present : workload[i] \in WorkloadState
<1>1. columns = Current
  BY DEF SchemaInv
<1>2. /\ workload \in [Instances -> WorkloadState \cup {Null}]
      /\ \A i \in Instances : workload[i] # Null <=> i \in present
      /\ present \in SUBSET Instances /\ intent = workload
  BY <1>1, NowIsSo DEF SchemaInv
<1> QED
  BY <1>1, <1>2

-----------------------------------------------------------------------------
(* The theorems                                                             *)

\* Every column keeps its values, over any upgrade and any restored dump.
THEOREM SchemaTyped == Spec => []TypeOK
<1>1. SchemaInv /\ [Next]_vars => SchemaInv'
  BY SchemaNext
<1>2. SchemaInv => TypeOK
  <2> SUFFICES ASSUME SchemaInv PROVE TypeOK
    OBVIOUS
  <2>1. \A i \in Instances : /\ status[i] \in OldStatus \cup {Null}
                            /\ workload[i] \in WorkloadState \cup {Null}
    BY DEF SchemaInv, Sound, Column
  <2>2. \A i \in Instances :
            Meaning(IF workload[i] = Null THEN status[i] ELSE workload[i])
                \in WorkloadState \cup {Null}
    BY <2>1, Meanings
  <2>3. intent \in [Instances -> WorkloadState \cup {Null}]
    BY <2>2 DEF SchemaInv, Sound
  <2> QED
    BY <2>3 DEF SchemaInv, Sound, TypeOK
<1> QED
  BY <1>1, <1>2, SchemaInit, PTL DEF Spec

\* A running control plane finds the columns it names and the values it knows.
THEOREM StatementsAlwaysFit == Spec => []StatementsFit
<1>1. SchemaInv /\ [Next]_vars => SchemaInv'
  BY SchemaNext
<1>2. SchemaInv => StatementsFit
  BY RunningSchema DEF StatementsFit
<1> QED
  BY <1>1, <1>2, SchemaInit, PTL DEF Spec

\* The block never loses the workload state that was set last, in the history of
\* the database it is applied to: a restored dump brings its own.
THEOREM IntentAlwaysSurvives == Spec => []IntentSurvives
<1>1. SchemaInv /\ [Next]_vars => SchemaInv'
  BY SchemaNext
<1>2. SchemaInv => IntentSurvives
  BY RunningSchema DEF IntentSurvives
<1> QED
  BY <1>1, <1>2, SchemaInit, PTL DEF Spec
=============================================================================
