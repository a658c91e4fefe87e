------------------------------- MODULE Broker -------------------------------
(* The NATS broker as its two kinds of client use it (the broker itself is  *)
(* not part of the repository).  Core NATS delivers at most once: a message *)
(* that reaches the broker while nobody subscribed is attached is dropped,  *)
(* and for a request the broker answers with a 503.  Each connection is     *)
(* first in, first out in both directions; each subscription hands its      *)
(* messages to its callback one at a time, from a queue in the client.      *)
EXTENDS Protocol

VARIABLES
    linked,       \* the clients whose connection to the broker is up
    subscribed,   \* the clients that hold a subscription
    ctlOut,       \* commands written by the control plane, not yet routed
    inbox,        \* inbox[i]: commands routed to agent i, not yet handled
    agentOut,     \* agentOut[i]: reports written by agent i, not yet routed
    reports,      \* reports routed to the control plane, not yet handled
    unheard       \* the commands whose 503 is on its way to the control plane

brokerVars ==
    <<linked, subscribed, ctlOut, inbox, agentOut, reports, unheard>>

Clients == Instances \cup {Control}

BrokerTypeOK ==
    /\ linked \in SUBSET Clients
    /\ subscribed \in SUBSET Clients
    /\ ctlOut \in Seq(CommandMessages)
    /\ inbox \in [Instances -> Seq(CommandMessages)]
    /\ agentOut \in [Instances -> Seq(StatusMessages)]
    /\ reports \in Seq(StatusMessages)
    /\ unheard \in SUBSET Commands

BrokerInit ==
    /\ linked = {}
    /\ subscribed = {}
    /\ ctlOut = <<>>
    /\ inbox = [i \in Instances |-> <<>>]
    /\ agentOut = [i \in Instances |-> <<>>]
    /\ reports = <<>>
    /\ unheard = {}

\* The two ways a queue loses messages when its connection breaks: what was
\* already sent is lost from the front of an output buffer, and what had not
\* arrived yet from the back of an input queue.
DropFront(q, n) == SubSeq(q, n + 1, Len(q))
DropBack(q, n) == SubSeq(q, 1, Len(q) - n)

Listening(x) == x \in linked /\ x \in subscribed

\* What a client wrote reaches the broker while its connection is up, and
\* also after its process is gone; not while it is reconnecting.
Flowing(x) == x \in linked \/ x \notin subscribed

\* The broker takes the next command from the control plane's connection.
RouteCommand ==
    /\ ctlOut # <<>>
    /\ Flowing(Control)
    /\ LET m == Head(ctlOut)
           i == m.instance_id IN
       /\ ctlOut' = Tail(ctlOut)
       /\ IF Listening(i)
          THEN /\ inbox' = [inbox EXCEPT ![i] = Append(@, m)]
               /\ UNCHANGED unheard
          ELSE /\ unheard' = unheard \cup {m.command_id}
               /\ UNCHANGED inbox
    /\ UNCHANGED <<linked, subscribed, agentOut, reports>>

\* The broker takes the next report from the connection of agent i.
RouteReport(i) ==
    /\ agentOut[i] # <<>>
    /\ Flowing(i)
    /\ agentOut' = [agentOut EXCEPT ![i] = Tail(@)]
    /\ reports' = IF Listening(Control)
                  THEN Append(reports, Head(agentOut[i])) ELSE reports
    /\ UNCHANGED <<linked, subscribed, ctlOut, inbox, unheard>>

\* The connection of the control plane breaks; its process lives on and will
\* reconnect, keeping what it had not written and had already received.
DetachControl ==
    /\ Control \in linked
    /\ linked' = linked \ {Control}
    /\ \E n \in 0 .. Len(ctlOut) : ctlOut' = DropFront(ctlOut, n)
    /\ \E n \in 0 .. Len(reports) : reports' = DropBack(reports, n)
    /\ unheard' = {}
    /\ UNCHANGED <<subscribed, inbox, agentOut>>

\* The same for the connection of agent i.
DetachAgent(i) ==
    /\ i \in linked
    /\ linked' = linked \ {i}
    /\ \E n \in 0 .. Len(agentOut[i]) :
           agentOut' = [agentOut EXCEPT ![i] = DropFront(@, n)]
    /\ \E n \in 0 .. Len(inbox[i]) :
           inbox' = [inbox EXCEPT ![i] = DropBack(@, n)]
    /\ UNCHANGED <<subscribed, ctlOut, reports, unheard>>

\* A client that lives reconnects; the library renews its subscriptions.
Reattach(x) ==
    /\ x \notin linked
    /\ linked' = linked \cup {x}
    /\ UNCHANGED <<subscribed, ctlOut, inbox, agentOut, reports, unheard>>
=============================================================================
