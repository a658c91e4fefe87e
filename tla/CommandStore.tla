---------------------------- MODULE CommandStore ----------------------------
(* The control plane's database: the command rows and the workload state of *)
(* the instance rows.  Each operator below is one SQL statement and hence   *)
(* one atomic step; whatever a service does between two statements is left  *)
(* to the modules that use them.                                            *)
EXTENDS Protocol

VARIABLES
    status,           \* status[c]: "none" while command c has no row
    failure_reason,   \* failure_reason[c]: "none" is SQL NULL
    workload          \* workload[i]: column workload_state of instance i

storeVars == <<status, failure_reason, workload>>

StoreTypeOK ==
    /\ status \in [Commands -> {"none", "pending"} \cup Terminal]
    /\ failure_reason \in [Commands -> {"none", TIMEOUT_FAILURE_REASON}]
    /\ workload \in [Instances -> WorkloadState]

StoreInit ==
    /\ status = [c \in Commands |-> "none"]
    /\ failure_reason = [c \in Commands |-> "none"]
    /\ workload = [i \in Instances |-> "unknown"]

\* INSERT INTO commands: a new row, pending, without a failure reason.
InsertPending(c) ==
    /\ status' = [status EXCEPT ![c] = "pending"]
    /\ UNCHANGED <<failure_reason, workload>>

\* A statement that finds the row by its id alone.
IsAnyRow(c) == status[c] # "none"

\* The WHERE clause of complete_if_pending.
IsPending(c) == status[c] = "pending"

\* UPDATE commands SET status WHERE id = c AND status = 'pending'.  The
\* failure reason is not written, not even for a reported failure.
CompleteIfPending(c, result) ==
    /\ status' = [status EXCEPT ![c] = IF IsPending(c) THEN result ELSE @]
    /\ UNCHANGED <<failure_reason, workload>>

\* UPDATE commands ... WHERE status = 'pending' AND issued_at < deadline,
\* one statement for all the commands of the set S.
FailPending(S) ==
    /\ status' = [c \in Commands |-> IF c \in S THEN "failed" ELSE status[c]]
    /\ failure_reason' = [c \in Commands |->
           IF c \in S THEN TIMEOUT_FAILURE_REASON ELSE failure_reason[c]]
    /\ UNCHANGED workload

\* UPDATE instances SET workload_state.
UpdateWorkloadState(i, state) ==
    /\ workload' = [workload EXCEPT ![i] = state]
    /\ UNCHANGED <<status, failure_reason>>
=============================================================================
