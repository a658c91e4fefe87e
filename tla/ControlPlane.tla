---------------------------- MODULE ControlPlane ----------------------------
(* The control-plane process: the HTTP request that dispatches a command,   *)
(* the subscriber that applies status reports, the sweeper that times       *)
(* commands out, and the order in which main() starts them.  All of them    *)
(* are coroutines of one event loop: a step ends where the code awaits, and *)
(* any other coroutine may run before the next one begins.                  *)
EXTENDS CommandStore, Broker

VARIABLES
    phase,      \* how far main() has come: see Phases
    orders,     \* orders[c]: the instance and type of command c, as issued
    dispatch,   \* dispatch[c]: where the request that issued c stands
    overdue,    \* the commands 1 .. overdue are older than the timeout
    flipping    \* completed reports whose workload flip is still to come

controlVars == <<phase, orders, dispatch, overdue, flipping>>

Phases == {"down", "connected", "listening", "serving"}

Order == [instance_id: Instances, type: CommandType]

Answers == DeliveryHint \cup {"aborted"}

DispatchSteps == {"idle", "saving", "publishing", "probing"} \cup Answers

ControlTypeOK ==
    /\ phase \in Phases
    /\ orders \in Seq(Order)
    /\ Len(orders) <= MaxCommands
    /\ dispatch \in [Commands -> DispatchSteps]
    /\ overdue \in 0 .. Len(orders)
    /\ flipping \in SUBSET StatusMessages

ControlInit ==
    /\ phase = "down"
    /\ orders = <<>>
    /\ dispatch = [c \in Commands |-> "idle"]
    /\ overdue = 0
    /\ flipping = {}

-----------------------------------------------------------------------------
(* POST /api/instances/{instance_id}/commands                               *)

\* The token lookup succeeds (no token: 404, and nothing happened) and the
\* command is created, stamped with the time of issue.
IssueCommand(i, type) ==
    /\ phase = "serving"
    /\ Len(orders) < MaxCommands
    /\ RowToken[i] # NoToken
    /\ orders' = Append(orders, [instance_id |-> i, type |-> type])
    /\ dispatch' = [dispatch EXCEPT ![Len(orders) + 1] = "saving"]
    /\ UNCHANGED <<phase, overdue, flipping>>
    /\ UNCHANGED storeVars /\ UNCHANGED brokerVars

SavePending(c) ==
    /\ dispatch[c] = "saving"
    /\ InsertPending(c)
    /\ dispatch' = [dispatch EXCEPT ![c] = "publishing"]
    /\ UNCHANGED <<phase, orders, overdue, flipping>> /\ UNCHANGED brokerVars

\* The INSERT raises and the request fails with a 500; when it was the reply
\* that was lost, the row is there all the same.
SaveFails(c) ==
    /\ dispatch[c] = "saving"
    /\ InsertPending(c) \/ UNCHANGED storeVars
    /\ dispatch' = [dispatch EXCEPT ![c] = "aborted"]
    /\ UNCHANGED <<phase, orders, overdue, flipping>> /\ UNCHANGED brokerVars

\* A dispatcher that publishes without waiting for the INSERT.
PublishesUnsaved(c) == dispatch[c] \in {"saving", "publishing"}

ReadyToPublish(c) == dispatch[c] = "publishing"

CommandMessage(c) ==
    [command_id |-> c, instance_id |-> orders[c].instance_id,
     type |-> orders[c].type, agent_token |-> RowToken[orders[c].instance_id]]

\* nc.request writes the command to the connection (or, while reconnecting,
\* to the client's buffer) and starts to wait for the probe.
Publish(c) ==
    /\ ReadyToPublish(c)
    /\ ctlOut' = Append(ctlOut, CommandMessage(c))
    /\ dispatch' = [dispatch EXCEPT ![c] = "probing"]
    /\ UNCHANGED <<phase, orders, overdue, flipping>> /\ UNCHANGED storeVars
    /\ UNCHANGED <<linked, subscribed, inbox, agentOut, reports, unheard>>

\* nc.request raises before it wrote anything: the client is closed, or its
\* buffer is full.
PublishFails(c) ==
    /\ ReadyToPublish(c)
    /\ dispatch' = [dispatch EXCEPT ![c] = "unknown"]
    /\ UNCHANGED <<phase, orders, overdue, flipping>> /\ UNCHANGED storeVars
    /\ UNCHANGED brokerVars

\* A publisher that takes silence for the absence of a subscriber.
TakesSilenceForNobody(c) == dispatch[c] = "probing"

HearsNoResponders(c) == c \in unheard

\* The broker's 503 arrives within the probe timeout.
ProbeNoResponders(c) ==
    /\ dispatch[c] = "probing"
    /\ HearsNoResponders(c)
    /\ dispatch' = [dispatch EXCEPT ![c] = "no_listeners"]
    /\ unheard' = unheard \ {c}
    /\ UNCHANGED <<phase, orders, overdue, flipping>> /\ UNCHANGED storeVars
    /\ UNCHANGED <<linked, subscribed, ctlOut, inbox, agentOut, reports>>

\* Publishers that retry on a timeout, or answer something undocumented.
RetriesAfterTimeout == "publishing"
AnswersTimeout == "timed_out"

\* What the request does when the probe times out: agents never reply.
AfterProbeTimeout == "delivered_now"

ProbeTimeout(c) ==
    /\ dispatch[c] = "probing"
    /\ dispatch' = [dispatch EXCEPT ![c] = AfterProbeTimeout]
    /\ UNCHANGED <<phase, orders, overdue, flipping>> /\ UNCHANGED storeVars
    /\ UNCHANGED brokerVars

-----------------------------------------------------------------------------
(* The subscriber on status.> and StatusHandler.handle                      *)

\* A subscriber that handles every report in a task of its own.
HandlesConcurrently == reports # <<>>

\* The callback handles one report to the end before it gets the next.
HandlerIsIdle == flipping = {}

AuthenticReport(m) ==
    VerifyAgentToken(m.agent_token, RowToken[m.instance_id])

\* Handlers that do not look at the status, or know only one of the types.
FlipsOnAnyReport(m) == m.status \in Terminal
FlipsOnlyToEnabled(m) == m.status = "completed" /\ m.type = "enable"

\* Does the workload state flip once the report is recorded?
FlipsWorkload(m) == m.status = "completed"

\* The report is verified and, if its command is still pending, recorded.
\* The flip is another statement, after another await.
HandleReport ==
    /\ reports # <<>>
    /\ HandlerIsIdle
    /\ LET m == Head(reports) IN
       IF AuthenticReport(m) /\ IsPending(m.command_id)
       THEN /\ CompleteIfPending(m.command_id, m.status)
            /\ flipping' = IF FlipsWorkload(m) THEN flipping \cup {m}
                           ELSE flipping
       ELSE UNCHANGED storeVars /\ UNCHANGED flipping
    /\ reports' = Tail(reports)
    /\ UNCHANGED <<phase, orders, dispatch, overdue>>
    /\ UNCHANGED <<linked, subscribed, ctlOut, inbox, agentOut, unheard>>

\* The token lookup or the first UPDATE raises: logged, and the report gone.
ReportFails ==
    /\ reports # <<>>
    /\ HandlerIsIdle
    /\ reports' = Tail(reports)
    /\ UNCHANGED controlVars /\ UNCHANGED storeVars
    /\ UNCHANGED <<linked, subscribed, ctlOut, inbox, agentOut, unheard>>

FlipWorkload ==
    \E m \in flipping :
        /\ UpdateWorkloadState(m.instance_id, StateOf(m.type))
        /\ flipping' = flipping \ {m}
        /\ UNCHANGED <<phase, orders, dispatch, overdue>>
        /\ UNCHANGED brokerVars

\* The second UPDATE raises: logged by the subscriber, never retried.
FlipFails ==
    /\ flipping # {}
    /\ flipping' = {}
    /\ UNCHANGED <<phase, orders, dispatch, overdue>>
    /\ UNCHANGED storeVars /\ UNCHANGED brokerVars

-----------------------------------------------------------------------------
(* The sweeper                                                              *)

\* The oldest command that was not overdue reaches command_timeout_seconds.
Expire ==
    /\ overdue < Len(orders)
    /\ overdue' = overdue + 1
    /\ UNCHANGED <<phase, orders, dispatch, flipping>>
    /\ UNCHANGED storeVars /\ UNCHANGED brokerVars

\* Sweepers that forget the status, or know only what this process answered.
SweepsSettled(c) == status[c] # "none" /\ c <= overdue
SweepsAnswered(c) ==
    status[c] = "pending" /\ c <= overdue /\ dispatch[c] \in DeliveryHint

Sweepable(c) == status[c] = "pending" /\ c <= overdue

\* The loop starts when the subscriptions stand, before HTTP is served.
Sweep ==
    /\ phase \in {"listening", "serving"}
    /\ \E c \in Commands : Sweepable(c)
    /\ FailPending({c \in Commands : Sweepable(c)})
    /\ UNCHANGED controlVars /\ UNCHANGED brokerVars

-----------------------------------------------------------------------------
(* main(): start-up in order, and the end of the process                    *)

\* The schema is applied and the connection to the broker is up.
ControlConnect ==
    /\ phase = "down"
    /\ phase' = "connected"
    /\ linked' = linked \cup {Control}
    /\ UNCHANGED <<orders, dispatch, overdue, flipping>>
    /\ UNCHANGED storeVars
    /\ UNCHANGED <<subscribed, ctlOut, inbox, agentOut, reports, unheard>>

\* The status subscription is acknowledged by the broker.
ControlSubscribe ==
    /\ phase = "connected"
    /\ Control \in linked
    /\ phase' = "listening"
    /\ subscribed' = subscribed \cup {Control}
    /\ UNCHANGED <<orders, dispatch, overdue, flipping>>
    /\ UNCHANGED storeVars
    /\ UNCHANGED <<linked, ctlOut, inbox, agentOut, reports, unheard>>

\* A start-up that does not wait for the subscriptions.
ServesBeforeListening == phase \in {"connected", "listening"}

\* HTTP comes last.
ReadyToServe == phase = "listening"

ControlServe ==
    /\ ReadyToServe
    /\ phase' = "serving"
    /\ UNCHANGED <<orders, dispatch, overdue, flipping>>
    /\ UNCHANGED storeVars /\ UNCHANGED brokerVars

Unanswered(c) == dispatch[c] \in {"saving", "publishing", "probing"}

\* The process crashes, or shuts down and cancels its handlers.  All that was
\* in its memory is gone; the database keeps what was committed.
ControlStop ==
    /\ phase # "down"
    /\ phase' = "down"
    /\ dispatch' = [c \in Commands |->
           IF Unanswered(c) THEN "aborted" ELSE dispatch[c]]
    /\ flipping' = {}
    /\ linked' = linked \ {Control}
    /\ subscribed' = subscribed \ {Control}
    /\ \E n \in 0 .. Len(ctlOut) : ctlOut' = DropBack(ctlOut, n)
    /\ reports' = <<>>
    /\ unheard' = {}
    /\ UNCHANGED <<orders, overdue, inbox, agentOut>> /\ UNCHANGED storeVars

ControlReconnects ==
    /\ phase # "down"
    /\ Reattach(Control)
    /\ UNCHANGED controlVars /\ UNCHANGED storeVars
=============================================================================
