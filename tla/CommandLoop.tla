---------------------------- MODULE CommandLoop -----------------------------
(* The command loop of the system: operators issue commands through the     *)
(* control plane, agents execute them and report, the control plane applies *)
(* the reports or times the commands out.  This module composes the control *)
(* plane, its store, the broker and the agents, and states what the loop    *)
(* promises.                                                                *)
EXTENDS ControlPlane, Agent

CONSTANTS
    MaxFaults,      \* bound: how many faults a behaviour may have
    FlipMayFail     \* may a fault hit between the two UPDATEs of a report?

ASSUME FaultsAssumption ==
    /\ MaxFaults \in Nat
    /\ FlipMayFail \in BOOLEAN

VARIABLE faultsLeft     \* the faults that may still happen

vars == <<storeVars, brokerVars, controlVars, agentVars, faultsLeft>>

TypeOK ==
    /\ StoreTypeOK
    /\ BrokerTypeOK
    /\ ControlTypeOK
    /\ AgentTypeOK
    /\ faultsLeft \in 0 .. MaxFaults

Init ==
    /\ StoreInit
    /\ BrokerInit
    /\ ControlInit
    /\ AgentInit
    /\ faultsLeft = MaxFaults

-----------------------------------------------------------------------------
(* Steps.  The control plane never touches the agents' state, the agents    *)
(* never touch the control plane's or its store's.                          *)

Request ==
    \/ \E i \in Instances, type \in CommandType : IssueCommand(i, type)
    \/ \E c \in Commands : SavePending(c)
    \/ \E c \in Commands : Publish(c)
    \/ \E c \in Commands : ProbeNoResponders(c)
    \/ \E c \in Commands : ProbeTimeout(c)

ControlStart == ControlConnect \/ ControlSubscribe \/ ControlServe

ControlStep ==
    /\ Request \/ HandleReport \/ FlipWorkload \/ Expire \/ Sweep
       \/ ControlStart \/ ControlReconnects
    /\ UNCHANGED agentVars

AgentStep ==
    /\ \E i \in Instances :
           \/ AgentStart(i)
           \/ AgentReceive(i)
           \/ ComposeSucceeds(i)
           \/ ComposeFails(i)
           \/ AgentReconnects(i)
    /\ UNCHANGED storeVars /\ UNCHANGED controlVars

BrokerStep ==
    /\ RouteCommand \/ \E i \in Instances : RouteReport(i)
    /\ UNCHANGED storeVars /\ UNCHANGED controlVars /\ UNCHANGED agentVars

FlipIsSafe == FlipMayFail \/ flipping = {}

ControlFault ==
    /\ \/ \E c \in Commands : SaveFails(c)
       \/ \E c \in Commands : PublishFails(c)
       \/ ReportFails
       \/ FlipIsSafe /\ FlipFails
       \/ FlipIsSafe /\ ControlStop
    /\ UNCHANGED agentVars

AgentFault ==
    /\ \E i \in Instances : AgentStop(i)
    /\ UNCHANGED storeVars /\ UNCHANGED controlVars

LinkFault ==
    /\ DetachControl \/ \E i \in Instances : DetachAgent(i)
    /\ UNCHANGED storeVars /\ UNCHANGED controlVars /\ UNCHANGED agentVars

Step == (ControlStep \/ AgentStep \/ BrokerStep) /\ UNCHANGED faultsLeft

Fault ==
    /\ faultsLeft > 0
    /\ faultsLeft' = faultsLeft - 1
    /\ ControlFault \/ AgentFault \/ LinkFault

Next == Step \/ Fault

Spec == Init /\ [][Next]_vars

Alone(A) == A /\ UNCHANGED agentVars /\ UNCHANGED faultsLeft

\* The event loop of the control plane gets to every coroutine, the clock
\* advances, and the container is restarted when its process ends.  Nothing
\* is assumed of the agents, of the broker or of the operators.
Fairness ==
    /\ WF_vars(Alone(Expire))
    /\ WF_vars(Alone(Sweep))
    /\ WF_vars(Alone(ControlStart))
    /\ WF_vars(Alone(ControlReconnects))
    /\ \A c \in Commands : /\ WF_vars(Alone(SavePending(c)))
                           /\ WF_vars(Alone(Publish(c)))
                           /\ WF_vars(Alone(ProbeTimeout(c)))

FairSpec == Spec /\ Fairness

-----------------------------------------------------------------------------
(* Where a command is, and which commands an instance has.                  *)

Issued == 1 .. Len(orders)
CommandsOf(i) == {c \in Issued : orders[c].instance_id = i}

InQueue(q, c) == \E n \in 1 .. Len(q) : q[n].command_id = c

\* The command has left the control plane: it is under way to the agent, or
\* has been handed to docker compose.
Published(c) ==
    \/ InQueue(ctlOut, c)
    \/ \E i \in Instances : InQueue(inbox[i], c)
    \/ outcome[c] # "none"

ReportInTransit(c) ==
    \/ InQueue(reports, c)
    \/ \E i \in Instances : InQueue(agentOut[i], c)

Executed(c) == outcome[c] \in {"ok", "error"}
-----------------------------------------------------------------------------
(* Safety                                                                   *)

\* CommandDispatcher: "persist the command first, then publish"; a command
\* that any agent may see or run has a row, whatever failed in between.
PublishedIsPersisted ==
    \A c \in Commands : Published(c) => status[c] # "none"

\* A terminal status is earned: `completed` only if docker compose succeeded
\* on the worker, `failed` without the sweeper's reason only if it raised.
OutcomeJustified ==
    \A c \in Commands :
        /\ status[c] = "completed" => outcome[c] = "ok"
        /\ status[c] = "failed" /\ failure_reason[c] = "none"
               => outcome[c] = "error"

\* Terminal means terminal: neither a late report nor the sweeper changes the
\* status or the reason of a command that has reached a terminal state.
TerminalIsTerminal ==
    [][\A c \in Commands : status[c] \in Terminal =>
           /\ status'[c] = status[c]
           /\ failure_reason'[c] = failure_reason[c]]_vars

\* docker compose is launched at most once for a command, although the
\* publisher cannot tell a lost command from a delivered one.
ExecutedAtMostOnce ==
    [][\A i \in Instances : \A m \in running'[i] \ running[i] :
           outcome[m.command_id] = "none"]_vars

\* The answer `no_listeners` is definitive (NatsCommandPublisher): no agent
\* has the command and none ever runs it.
NoListenersIsDefinitive ==
    \A c \in Commands : dispatch[c] = "no_listeners" => ~Published(c)

\* Until something breaks no report is lost: a command that was executed and
\* is not terminal has its report on the way.  This rests on the start-up
\* order of main() and on flush() after subscribe().
NoReportLost ==
    faultsLeft = MaxFaults =>
        \A c \in Commands :
            Executed(c) /\ status[c] = "pending" => ReportInTransit(c)

\* WorkloadState: "only changed by a successful enable/disable command".
OnlyCompletionsMoveWorkload ==
    \A i \in Instances :
        \/ workload[i] = "unknown"
        \/ \E c \in CommandsOf(i) :
               /\ status[c] = "completed"
               /\ workload[i] = StateOf(orders[c].type)

\* StatusHandler: "on a completed disable/enable command the corresponding
\* instance workload state flips": once the handler is done, an instance with
\* a completed command shows the state of one of its completed commands.
CompletedCommandFlips ==
    flipping = {} =>
        \A i \in Instances :
            (\E c \in CommandsOf(i) : status[c] = "completed") =>
                \E c \in CommandsOf(i) :
                    /\ status[c] = "completed"
                    /\ workload[i] = StateOf(orders[c].type)

\* When all the commands of an instance have completed, the state the control
\* plane shows is the one the worker is really in, in whatever order the
\* commands were dispatched, routed, executed and reported.
WorkloadMatchesWorker ==
    \A i \in Instances :
        /\ flipping = {}
        /\ CommandsOf(i) # {}
        /\ \A c \in CommandsOf(i) : status[c] = "completed"
        => workload[i] = stack[i]
-----------------------------------------------------------------------------
(* Liveness                                                                 *)

\* No command stays pending: whatever becomes of the agent, of the messages
\* and of the process that dispatched it, the sweeper ends it.
EveryCommandSettles ==
    \A c \in Commands : status[c] = "pending" ~> status[c] \in Terminal

\* Every request to issue a command is answered (or its process has died).
EveryRequestIsAnswered ==
    \A c \in Commands : dispatch[c] # "idle" ~> dispatch[c] \in Answers
-----------------------------------------------------------------------------
(* Refinement                                                               *)

\* The workload state an operator may count on: a flip whose completion is
\* recorded counts as done.
SettledWorkload ==
    [i \in Instances |->
        IF \E m \in flipping : m.instance_id = i
        THEN StateOf((CHOOSE m \in flipping : m.instance_id = i).type)
        ELSE workload[i]]

Ledger == INSTANCE CommandLedger WITH
    request <- [c \in Commands |->
                   IF status[c] = "none" THEN {} ELSE {orders[c]}],
    workload <- SettledWorkload

\* As long as no fault separates the two UPDATEs of a report, the loop keeps
\* the promise of CommandLedger.
LedgerSpec == Ledger!Spec
-----------------------------------------------------------------------------
(* What the comments of the code say and the code does not do               *)

\* registration.py says of an agent with the override token that it "will
\* still subscribe and run commands": a command it takes off its subscription
\* is one it starts to run.
ReceivedIsRun ==
    [][\A i \in Instances :
           (/\ inbox[i] # <<>> /\ inbox'[i] = Tail(inbox[i])
            /\ UNCHANGED faultsLeft)
               => Head(inbox[i]) \in running'[i]]_vars

\* `delivered_now` is documented as "reached anyone": a command answered so
\* has left the control plane and met a subscriber.
DeliveredNowReached ==
    \A c \in Commands : dispatch[c] = "delivered_now" =>
        ~InQueue(ctlOut, c) /\ c \notin unheard
=============================================================================
