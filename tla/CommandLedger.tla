---------------------------- MODULE CommandLedger ---------------------------
(* What the command loop promises to an operator who looks only at the API: *)
(* a ledger of accepted commands and one workload state per instance.  A    *)
(* command is accepted once and settles once, either because the worker     *)
(* acknowledged it or because it timed out; the acknowledgement of a        *)
(* completed command and the flip of the workload state are one step.       *)
EXTENDS Protocol

VARIABLES
    request,          \* request[c]: {} or the accepted instance and type
    status,           \* status[c]: "none" until c is accepted
    failure_reason,
    workload

ledger == <<request, status, failure_reason, workload>>

Requests == [instance_id: Instances, type: CommandType]

Init ==
    /\ request = [c \in Commands |-> {}]
    /\ status = [c \in Commands |-> "none"]
    /\ failure_reason = [c \in Commands |-> "none"]
    /\ workload = [i \in Instances |-> "unknown"]

\* The API accepts a command: its row is saved.
Accept(c, r) ==
    /\ status[c] = "none"
    /\ request' = [request EXCEPT ![c] = {r}]
    /\ status' = [status EXCEPT ![c] = "pending"]
    /\ UNCHANGED <<failure_reason, workload>>

\* The worker did it: the command completes and the workload state follows.
Complete(c) ==
    /\ status[c] = "pending"
    /\ status' = [status EXCEPT ![c] = "completed"]
    /\ \E r \in request[c] :
           workload' = [workload EXCEPT ![r.instance_id] = StateOf(r.type)]
    /\ UNCHANGED <<request, failure_reason>>

\* The worker could not do it: nothing but the command changes.
Fail(c) ==
    /\ status[c] = "pending"
    /\ status' = [status EXCEPT ![c] = "failed"]
    /\ UNCHANGED <<request, failure_reason, workload>>

\* Nobody answered in time: several commands may time out together.
TimeOut(S) ==
    /\ S # {}
    /\ \A c \in S : status[c] = "pending"
    /\ status' = [c \in Commands |-> IF c \in S THEN "failed" ELSE status[c]]
    /\ failure_reason' = [c \in Commands |->
           IF c \in S THEN TIMEOUT_FAILURE_REASON ELSE failure_reason[c]]
    /\ UNCHANGED <<request, workload>>

Next ==
    \/ \E c \in Commands, r \in Requests : Accept(c, r)
    \/ \E c \in Commands : Complete(c)
    \/ \E c \in Commands : Fail(c)
    \/ \E S \in SUBSET Commands : TimeOut(S)

Spec == Init /\ [][Next]_ledger
=============================================================================
