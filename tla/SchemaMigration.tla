-------------------------- MODULE SchemaMigration ---------------------------
(* The DDL block that every start of the control plane applies, to the      *)
(* database of any earlier version.  Before #3 an instance had one column   *)
(* status; before #8 it had no token.  The block has no arguments, so it is *)
(* one simple query: one transaction, which commits as a whole or not at    *)
(* all.  Between two starts the program writes rows, and an operator may    *)
(* restore a dump, taken by any version, while it is down.                  *)
CONSTANTS
    Instances,
    Null            \* SQL NULL, also for a column or a row that is not there

VARIABLES
    up,             \* is the control plane running?
    columns,        \* the columns whose existence depends on the version
    present,        \* the instances that have a row
    status,         \* status[i]: column status, before #3
    workload,       \* workload[i]: column workload_state
    token,          \* is column agent_token of row i not NULL?
    intent,         \* intent[i]: the state last set for i, before or after #3,
                    \* as of the last restored dump
    dump            \* a backup of the database, and of the intents at its time

database == <<columns, present, status, workload, token, intent>>
vars == <<up, database, dump>>

WorkloadState == {"unknown", "enabled", "disabled"}
OldStatus == {"unknown", "running", "disabled"}

ASSUME NullAssumption == Null \notin WorkloadState \cup OldStatus

Current == {"workload_state", "last_heartbeat_at", "agent_token", "failure_reason"}

\* What earlier versions may have left: no tables, a status, no token, no
\* reason of failure.
Versions ==
    {{}, Current} \cup
    {base \cup reason : base \in {{"status"}, {"workload_state", "last_heartbeat_at"}},
                        reason \in {{}, {"failure_reason"}}}

\* A column of these values that exists in every row, or not at all.
Column(name, Values, cols, rows) ==
    {f \in [Instances -> Values \cup {Null}] :
        \A i \in Instances : f[i] # Null <=> i \in rows /\ name \in cols}

\* The meaning of a value of either column: running is now called enabled.
Meaning(s) == IF s = "running" THEN "enabled" ELSE s

TypeOK ==
    /\ up \in BOOLEAN
    /\ columns \in Versions
    /\ present \subseteq Instances
    /\ status \in Column("status", OldStatus, columns, present)
    /\ workload \in Column("workload_state", WorkloadState, columns, present)
    /\ token \in [Instances -> BOOLEAN]
    /\ intent \in [Instances -> WorkloadState \cup {Null}]

Init ==
    /\ up = FALSE
    /\ columns \in Versions
    /\ present \in IF columns = {} THEN {{}} ELSE SUBSET Instances
    /\ status \in Column("status", OldStatus, columns, present)
    /\ workload \in Column("workload_state", WorkloadState, columns, present)
    /\ token = [i \in Instances |-> "agent_token" \in columns /\ i \in present]
    /\ intent = [i \in Instances |-> Meaning(IF workload[i] = Null THEN status[i]
                                             ELSE workload[i])]
    /\ dump = database

-----------------------------------------------------------------------------
(* schema.py: SCHEMA_DDL and apply_schema                                   *)

\* A block that trusts CREATE TABLE IF NOT EXISTS with the new columns.
WithoutAlter == IF columns = {} THEN Current ELSE columns \cup {"workload_state"}

\* Tables and columns that are missing are added.
Added == columns \cup Current

\* The column added to old rows, with a default.
AddedAsUnknown == "unknown"

AddedValue == Null

\* What the UPDATE leaves in the new column: it fills in what is still NULL.
\* No version has both columns, as the block that adds the new one drops the
\* old one in the same transaction: the UPDATE finds every row NULL.
SplitStatus(i) ==
    LET old == IF "workload_state" \in columns THEN workload[i] ELSE AddedValue IN
    IF old = Null THEN Meaning(status[i]) ELSE old

ApplySchema ==
    /\ columns' = Added \ {"status"}
    /\ IF "status" \in columns
       THEN /\ workload' = [i \in Instances |->
                               IF i \in present THEN SplitStatus(i) ELSE Null]
            /\ status' = [i \in Instances |-> Null]
       ELSE UNCHANGED <<workload, status>>
    /\ UNCHANGED <<present, token, intent>>

\* The pool is created, the schema applied, then everything else started.  A
\* start that fails is no step, or a Start that is followed by a Stop.
Start ==
    /\ ~up
    /\ up' = TRUE
    /\ ApplySchema
    /\ UNCHANGED dump

Stop ==
    /\ up
    /\ up' = FALSE
    /\ UNCHANGED <<database, dump>>

-----------------------------------------------------------------------------
(* What changes the rows between two starts                                 *)

\* A registration that still writes the old default.
Running == "running"

Fresh == "unknown"

\* A registration inserts a row with a token; no statement adds one later.
Register(i) ==
    /\ up
    /\ i \notin present
    /\ present' = present \cup {i}
    /\ workload' = [workload EXCEPT ![i] = Fresh]
    /\ token' = [token EXCEPT ![i] = TRUE]
    /\ intent' = [intent EXCEPT ![i] = "unknown"]
    /\ UNCHANGED <<up, columns, status, dump>>

\* Only an instance with a token is sent commands and has its reports heard.
UpdateWorkloadState(i, s) ==
    /\ up
    /\ i \in present /\ token[i]
    /\ workload' = [workload EXCEPT ![i] = s]
    /\ intent' = [intent EXCEPT ![i] = s]
    /\ UNCHANGED <<up, columns, present, status, token, dump>>

\* The backup job dumps the database as it is.
Dump ==
    /\ dump' = database
    /\ UNCHANGED <<up, database>>

\* The restore of .env.example: everything but PostgreSQL is down, and the
\* dump, taken with --clean --if-exists, replaces the tables that are in it.  A
\* dump of a database without tables drops nothing, and is no step.  The history
\* goes back with the data: what was set after the dump is given up.
Restore ==
    /\ ~up
    /\ dump[1] # {}
    /\ columns' = dump[1]
    /\ present' = dump[2]
    /\ status' = dump[3]
    /\ workload' = dump[4]
    /\ token' = dump[5]
    /\ intent' = dump[6]
    /\ UNCHANGED <<up, dump>>

Next ==
    \/ Start \/ Stop \/ Dump \/ Restore
    \/ \E i \in Instances : Register(i)
    \/ \E i \in Instances, s \in {"enabled", "disabled"} : UpdateWorkloadState(i, s)

Spec == Init /\ [][Next]_vars

-----------------------------------------------------------------------------
(* Properties                                                               *)

\* Whatever version the database comes from, the statements of a running
\* control plane find every column they name, and no value that the
\* enumeration WorkloadState would reject.
StatementsFit ==
    up => /\ Current \subseteq columns
          /\ \A i \in present : workload[i] \in WorkloadState

\* The workload state shown for an instance is the last one set for it, before
\* the upgrade or after it, however often the block is applied again ("only
\* changed by a successful enable/disable command", models.py).  After the
\* restore of a dump it is the last one set before that dump was taken.
IntentSurvives == up => \A i \in present : workload[i] = intent[i]
=============================================================================
