------------------------------- MODULE Agent --------------------------------
(* The sidecar of a worker: it receives commands on commands.<instance_id>, *)
(* checks the agent token, runs docker compose and reports the outcome.     *)
EXTENDS Broker

VARIABLES
    running,   \* running[i]: the command agent i executes, as a set
    stack,     \* stack[i]: the state of the worker's compose stack
    outcome    \* outcome[c]: what became of command c on its worker

agentVars == <<running, stack, outcome>>

AgentTypeOK ==
    /\ running \in [Instances -> SUBSET CommandMessages]
    /\ stack \in [Instances -> WorkloadState]
    /\ outcome \in [Commands -> {"none", "started", "ok", "error"}]

AgentInit ==
    /\ running = [i \in Instances |-> {}]
    /\ stack = [i \in Instances |-> "unknown"]
    /\ outcome = [c \in Commands |-> "none"]

\* The process comes up, connects and subscribes; start() returns only once
\* the broker has acknowledged the subscription.
AgentStart(i) ==
    /\ i \notin subscribed
    /\ linked' = linked \cup {i}
    /\ subscribed' = subscribed \cup {i}
    /\ UNCHANGED <<ctlOut, inbox, agentOut, reports, unheard>>
    /\ UNCHANGED agentVars

\* An agent without a token of its own (override mode) accepts nothing.
AcceptsCommand(i, m) == VerifyAgentToken(m.agent_token, AgentToken[i])

\* The callback returns before the client hands it the next message.
IsIdle(i) == running[i] = {}

\* The callback _on_command up to the launch of docker compose.
AgentReceive(i) ==
    /\ i \in subscribed
    /\ IsIdle(i)
    /\ inbox[i] # <<>>
    /\ LET m == Head(inbox[i]) IN
       /\ inbox' = [inbox EXCEPT ![i] = Tail(@)]
       /\ IF AcceptsCommand(i, m)
          THEN /\ running' = [running EXCEPT ![i] = @ \cup {m}]
               /\ outcome' = [outcome EXCEPT ![m.command_id] = "started"]
          ELSE UNCHANGED <<running, outcome>>
    /\ UNCHANGED <<linked, subscribed, ctlOut, agentOut, reports, unheard,
                   stack>>

\* An agent that swallows the exception of the compose runner.
SwallowsErrors(ok) == "completed"

\* What _execute returns for a compose run that succeeded or raised.
ReportedStatus(ok) == IF ok THEN "completed" ELSE "failed"

Report(m, ok, i) ==
    [command_id |-> m.command_id, instance_id |-> m.instance_id,
     type |-> m.type, status |-> ReportedStatus(ok),
     agent_token |-> AgentToken[i]]

\* docker compose returns and the report is published.  A run that raised
\* leaves the stack in an unknown state: some containers may have obeyed.
ComposeReturns(i, m, ok) ==
    /\ m \in running[i]
    /\ running' = [running EXCEPT ![i] = @ \ {m}]
    /\ stack' = [stack EXCEPT ![i] = IF ok THEN StateOf(m.type) ELSE "unknown"]
    /\ outcome' = [outcome EXCEPT ![m.command_id] =
                       IF ok THEN "ok" ELSE "error"]
    /\ agentOut' = [agentOut EXCEPT ![i] = Append(@, Report(m, ok, i))]
    /\ UNCHANGED <<linked, subscribed, ctlOut, inbox, reports, unheard>>

ComposeSucceeds(i) == \E m \in running[i] : ComposeReturns(i, m, TRUE)
ComposeFails(i) == \E m \in running[i] : ComposeReturns(i, m, FALSE)

\* The process crashes, or stops gracefully and cancels its callback: the
\* commands it had not handled are gone, a compose run is cut short, and a
\* report that was not on the wire yet is never sent.
AgentStop(i) ==
    /\ i \in subscribed
    /\ linked' = linked \ {i}
    /\ subscribed' = subscribed \ {i}
    /\ inbox' = [inbox EXCEPT ![i] = <<>>]
    /\ \E n \in 0 .. Len(agentOut[i]) :
           agentOut' = [agentOut EXCEPT ![i] = DropBack(@, n)]
    /\ running' = [running EXCEPT ![i] = {}]
    /\ stack' = [stack EXCEPT ![i] = IF IsIdle(i) THEN @ ELSE "unknown"]
    /\ UNCHANGED <<outcome, ctlOut, reports, unheard>>

AgentReconnects(i) == i \in subscribed /\ Reattach(i) /\ UNCHANGED agentVars
=============================================================================
