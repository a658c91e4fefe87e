------------------------- MODULE CommandLoopSafety --------------------------
(* The safety theorems of CommandLoop, for any constants.  The argument has *)
(* three layers: where a request stands tells whether its row exists        *)
(* (StatusInv); every command is in at most one place between its dispatch  *)
(* and its execution (OnceInv); and a report tells what its worker really   *)
(* did (ReportInv).                                                         *)
EXTENDS CommandLoopProofs

-----------------------------------------------------------------------------
(* The contents of a queue                                                  *)

Elems(q) == {q[n] : n \in 1 .. Len(q)}

\* No two messages of a queue carry the same command.
NoDup(q) ==
    \A k, n \in 1 .. Len(q) : q[k].command_id = q[n].command_id => k = n

LEMMA QueueAppend ==
    ASSUME NEW S, NEW q \in Seq(S), NEW e \in S
    PROVE  /\ Elems(Append(q, e)) = Elems(q) \cup {e}
           /\ /\ NoDup(q)
              /\ \A m \in Elems(q) : m.command_id # e.command_id
              => NoDup(Append(q, e))
<1>1. /\ Len(q) \in Nat
      /\ Len(Append(q, e)) = Len(q) + 1
      /\ \A k \in 1 .. Len(q) : Append(q, e)[k] = q[k]
      /\ Append(q, e)[Len(q) + 1] = e
  OBVIOUS
<1>2. 1 .. Len(Append(q, e)) = (1 .. Len(q)) \cup {Len(q) + 1}
  BY <1>1
<1>3. Elems(Append(q, e)) = Elems(q) \cup {e}
  BY <1>1, <1>2 DEF Elems
<1>4. ASSUME NoDup(q), \A m \in Elems(q) : m.command_id # e.command_id
      PROVE  NoDup(Append(q, e))
  BY <1>1, <1>2, <1>4 DEF NoDup, Elems
<1> QED
  BY <1>3, <1>4

LEMMA QueueTail ==
    ASSUME NEW S, NEW q \in Seq(S), q # <<>>
    PROVE  /\ Head(q) \in Elems(q)
           /\ Elems(Tail(q)) \subseteq Elems(q)
           /\ NoDup(q) => /\ NoDup(Tail(q))
                          /\ \A m \in Elems(Tail(q)) :
                                 m.command_id # Head(q).command_id
<1>1. /\ Len(q) \in Nat /\ Len(q) >= 1
      /\ Len(Tail(q)) = Len(q) - 1
      /\ \A k \in 1 .. Len(q) - 1 : Tail(q)[k] = q[k + 1]
      /\ Head(q) = q[1]
  BY HeadTailProperties, LenProperties, EmptySeq
<1>2. \A k \in 1 .. Len(q) - 1 : k + 1 \in 1 .. Len(q) /\ k + 1 # 1
  BY <1>1
<1>3. Head(q) \in Elems(q) /\ Elems(Tail(q)) \subseteq Elems(q)
  BY <1>1, <1>2 DEF Elems
<1>4. ASSUME NoDup(q) PROVE NoDup(Tail(q))
  BY <1>1, <1>2, <1>4 DEF NoDup
<1>5. ASSUME NoDup(q), NEW m \in Elems(Tail(q))
      PROVE  m.command_id # Head(q).command_id
  BY <1>1, <1>2, <1>5 DEF NoDup, Elems
<1> QED
  BY <1>3, <1>4, <1>5

LEMMA QueueDrop ==
    ASSUME NEW S, NEW q \in Seq(S), NEW d \in 0 .. Len(q)
    PROVE  /\ Elems(DropFront(q, d)) \subseteq Elems(q)
           /\ Elems(DropBack(q, d)) \subseteq Elems(q)
           /\ NoDup(q) => NoDup(DropFront(q, d)) /\ NoDup(DropBack(q, d))
<1>1. Len(q) \in Nat /\ \A k \in 1 .. Len(q) : q[k] \in S
  BY LenProperties
<1>2. /\ Len(DropFront(q, d)) = Len(q) - d
      /\ \A k \in 1 .. Len(q) - d : DropFront(q, d)[k] = q[k + d]
  <2>1. /\ Len(SubSeq(q, d + 1, Len(q))) = Len(q) - d
        /\ \A k \in 1 .. Len(q) - (d + 1) + 1 :
               SubSeq(q, d + 1, Len(q))[k] = q[(d + 1) + k - 1]
    BY <1>1, SubSeqProperties
  <2> QED
    BY <1>1, <2>1 DEF DropFront
<1>3. /\ Len(DropBack(q, d)) = Len(q) - d
      /\ \A k \in 1 .. Len(q) - d : DropBack(q, d)[k] = q[k]
  BY <1>1, SubSeqProperties DEF DropBack
<1>4. \A k \in 1 .. Len(q) - d : k + d \in 1 .. Len(q) /\ k \in 1 .. Len(q)
  BY <1>1
<1>5. /\ Elems(DropFront(q, d)) \subseteq Elems(q)
      /\ Elems(DropBack(q, d)) \subseteq Elems(q)
  BY <1>2, <1>3, <1>4 DEF Elems
<1>6. ASSUME NoDup(q) PROVE NoDup(DropFront(q, d))
  <2> SUFFICES ASSUME NEW k \in 1 .. Len(q) - d, NEW n \in 1 .. Len(q) - d,
                      q[k + d].command_id = q[n + d].command_id
               PROVE  k = n
    BY <1>2 DEF NoDup
  <2>1. k + d = n + d
    BY <1>4, <1>6 DEF NoDup
  <2> QED
    BY <1>1, <2>1
<1>7. ASSUME NoDup(q) PROVE NoDup(DropBack(q, d))
  BY <1>3, <1>4, <1>7 DEF NoDup
<1> QED
  BY <1>5, <1>6, <1>7

LEMMA QueueEmpty == Elems(<<>>) = {} /\ NoDup(<<>>)
BY DEF Elems, NoDup

LEMMA QueueHas ==
    ASSUME NEW q, NEW c
    PROVE  InQueue(q, c) <=> \E m \in Elems(q) : m.command_id = c
BY DEF InQueue, Elems

-----------------------------------------------------------------------------
(* Layer 1: requests and rows                                               *)

\* A request that has passed the INSERT has a row, one that has not passed
\* it has none; an aborted request may be of either kind.
StatusInv ==
    \A c \in Commands :
        /\ dispatch[c] \in {"idle", "saving"} => status[c] = "none"
        /\ dispatch[c] \notin {"idle", "saving", "aborted"}
               => status[c] # "none"

\* The request is past the point where it publishes its command.
Sent(c) ==
    /\ c <= Len(orders)
    /\ dispatch[c] \notin {"idle", "saving", "publishing"}
    /\ status[c] # "none"

\* What no step undoes.
Advance(c) ==
    /\ Sent(c) => Sent(c)'
    /\ c <= Len(orders) => CommandMessage(c)' = CommandMessage(c)
    /\ status[c] \in Terminal => /\ status'[c] = status[c]
                                 /\ failure_reason'[c] = failure_reason[c]

Layer1 == StatusInv' /\ \A c \in Commands : Advance(c)

\* A step that leaves the requests and the rows alone.
LEMMA StatusUnchanged ==
    ASSUME StatusInv, UNCHANGED <<orders, dispatch>>, UNCHANGED storeVars
    PROVE  Layer1
BY DEF StatusInv, Layer1, Advance, Sent, CommandMessage, storeVars

\* A step of a request that stays behind, or gets past, the publication.
LEMMA StatusDispatch ==
    ASSUME Typed, StatusInv, UNCHANGED <<orders>>, UNCHANGED storeVars,
           NEW c \in Commands, NEW step \in {"probing"} \cup Answers,
           dispatch[c] \in {"publishing", "probing"},
           dispatch' = [dispatch EXCEPT ![c] = step]
    PROVE  Layer1
BY DEF Typed, ControlTypeOK, StatusInv, Layer1, Advance, Sent,
       CommandMessage, storeVars, Answers, DeliveryHint

LEMMA StatusRequest ==
    ASSUME Typed, StatusInv, Request
    PROVE  Layer1
<1>1. ASSUME NEW i \in Instances, NEW type \in CommandType,
             IssueCommand(i, type)
      PROVE  Layer1
  <2> DEFINE o == [instance_id |-> i, type |-> type]
             new == Len(orders) + 1
  <2>1. /\ Len(orders) \in Nat
        /\ orders' = Append(orders, o)
        /\ Len(orders') = new
        /\ \A c \in 1 .. Len(orders) : orders'[c] = orders[c]
    BY <1>1 DEF Typed, ControlTypeOK, IssueCommand, Order
  <2>2. /\ dispatch' = [dispatch EXCEPT ![new] = "saving"]
        /\ dispatch \in [Commands -> DispatchSteps]
        /\ UNCHANGED <<status, failure_reason>>
    BY <1>1 DEF IssueCommand, storeVars, Typed, ControlTypeOK
  <2>3. \A c \in Commands : c <= Len(orders) =>
            /\ c # new /\ c \in 1 .. Len(orders)
            /\ orders'[c] = orders[c] /\ dispatch'[c] = dispatch[c]
    BY <2>1, <2>2 DEF Commands
  <2>4. \A c \in Commands : ~(c <= Len(orders)) => dispatch[c] = "idle"
    BY DEF Typed, DispatchIssued
  <2>5. StatusInv'
    BY <2>1, <2>2, <2>3, <2>4 DEF StatusInv
  <2>6. ASSUME NEW c \in Commands PROVE Advance(c)
    BY <2>1, <2>2, <2>3 DEF Advance, Sent, CommandMessage, Commands
  <2> QED
    BY <2>5, <2>6 DEF Layer1
<1>2. ASSUME NEW c \in Commands, SavePending(c)
      PROVE  Layer1
  BY <1>2
  DEF Typed, StoreTypeOK, ControlTypeOK, SavePending, InsertPending,
      StatusInv, Layer1, Advance, Sent, CommandMessage, Terminal
<1>3. ASSUME NEW c \in Commands, Publish(c)
      PROVE  Layer1
  BY <1>3, StatusDispatch DEF Publish, ReadyToPublish
<1>4. ASSUME NEW c \in Commands, ProbeNoResponders(c)
      PROVE  Layer1
  BY <1>4, StatusDispatch DEF ProbeNoResponders, Answers, DeliveryHint
<1>5. ASSUME NEW c \in Commands, ProbeTimeout(c)
      PROVE  Layer1
  BY <1>5, StatusDispatch
  DEF ProbeTimeout, AfterProbeTimeout, Answers, DeliveryHint
<1> QED
  BY <1>1, <1>2, <1>3, <1>4, <1>5 DEF Request

LEMMA StatusControlStep ==
    ASSUME Typed, StatusInv, ControlStep
    PROVE  Layer1
<1>1. CASE Request
  BY <1>1, StatusRequest
<1>2. CASE HandleReport
  <2> DEFINE m == Head(reports)
  <2>1. m \in StatusMessages
    BY <1>2 DEF Typed, BrokerTypeOK, HandleReport
  <2>2. m.status \in Terminal /\ m.command_id \in Commands
    BY <2>1 DEF StatusMessages
  <2>3. UNCHANGED <<orders, dispatch, failure_reason>>
    BY <1>2 DEF HandleReport, CompleteIfPending, storeVars
  <2>4. \/ status' = status
        \/ /\ status[m.command_id] = "pending"
           /\ status' = [status EXCEPT ![m.command_id] = m.status]
    BY <1>2 DEF HandleReport, CompleteIfPending, IsPending, storeVars
  <2> HIDE DEF m
  <2> QED
    BY <2>2, <2>3, <2>4
    DEF Typed, StoreTypeOK, StatusInv, Layer1, Advance, Sent, CommandMessage,
        Terminal
<1>3. CASE FlipWorkload
  BY <1>3
  DEF FlipWorkload, UpdateWorkloadState, StatusInv, Layer1, Advance, Sent,
      CommandMessage
<1>4. CASE Expire
  BY <1>4, StatusUnchanged DEF Expire
<1>5. CASE Sweep
  BY <1>5
  DEF Sweep, FailPending, Sweepable, controlVars, StatusInv, Layer1, Advance,
      Sent, CommandMessage, Terminal
<1>6. CASE ControlStart
  BY <1>6, StatusUnchanged
  DEF ControlStart, ControlConnect, ControlSubscribe, ControlServe
<1>7. CASE ControlReconnects
  BY <1>7, StatusUnchanged DEF ControlReconnects, controlVars
<1> QED
  BY <1>1, <1>2, <1>3, <1>4, <1>5, <1>6, <1>7 DEF ControlStep

LEMMA StatusControlFault ==
    ASSUME Typed, StatusInv, ControlFault
    PROVE  Layer1
<1>1. ASSUME NEW c \in Commands, SaveFails(c)
      PROVE  Layer1
  <2>1. /\ dispatch[c] = "saving"
        /\ dispatch' = [dispatch EXCEPT ![c] = "aborted"]
        /\ UNCHANGED <<orders, failure_reason>>
        /\ status' = status \/ status' = [status EXCEPT ![c] = "pending"]
    BY <1>1 DEF SaveFails, InsertPending, storeVars
  <2> QED
    BY <2>1
    DEF Typed, StoreTypeOK, ControlTypeOK, StatusInv, Layer1, Advance, Sent,
        CommandMessage, Terminal
<1>2. ASSUME NEW c \in Commands, PublishFails(c)
      PROVE  Layer1
  BY <1>2, StatusDispatch
  DEF PublishFails, ReadyToPublish, Answers, DeliveryHint
<1>3. CASE ReportFails \/ FlipFails
  BY <1>3, StatusUnchanged DEF ReportFails, FlipFails, controlVars
<1>4. CASE ControlStop
  BY <1>4
  DEF ControlStop, Unanswered, storeVars, StatusInv, Layer1, Advance, Sent,
      CommandMessage
<1> QED
  BY <1>1, <1>2, <1>3, <1>4 DEF ControlFault

LEMMA StatusNext ==
    ASSUME Typed, StatusInv, [Next]_vars
    PROVE  Layer1
<1>1. CASE ControlStep
  BY <1>1, StatusControlStep
<1>2. CASE ControlFault
  BY <1>2, StatusControlFault
<1>3. CASE AgentStep \/ BrokerStep \/ AgentFault \/ LinkFault
  BY <1>3, StatusUnchanged
  DEF AgentStep, BrokerStep, AgentFault, LinkFault, controlVars
<1>4. CASE UNCHANGED vars
  BY <1>4, StatusUnchanged DEF vars, controlVars
<1> QED
  BY <1>1, <1>2, <1>3, <1>4 DEF Next, Step, Fault

\* Terminal means terminal, for commands of any number and any mix of late
\* reports, sweeps and faults.
THEOREM TerminalStays == Spec => TerminalIsTerminal
<1>1. Init => Typed /\ StatusInv
  BY InitType DEF Init, StoreInit, ControlInit, StatusInv
<1>2. Typed /\ StatusInv /\ [Next]_vars => (Typed /\ StatusInv)'
  BY NextType, StatusNext DEF Layer1
<1>3. Typed /\ StatusInv /\ [Next]_vars =>
          [\A c \in Commands : status[c] \in Terminal =>
               /\ status'[c] = status[c]
               /\ failure_reason'[c] = failure_reason[c]]_vars
  BY StatusNext DEF Layer1, Advance
<1> QED
  BY <1>1, <1>2, <1>3, PTL DEF Spec, TerminalIsTerminal

-----------------------------------------------------------------------------
(* Layer 2: a command is in one place at a time                             *)

\* The message is the one its request published.
Genuine(m) ==
    /\ m.command_id \in Commands
    /\ Sent(m.command_id)
    /\ m = CommandMessage(m.command_id)

\* Moreover no agent has seen it yet.
Fresh(m) == Genuine(m) /\ outcome[m.command_id] = "none"

QueueInv ==
    /\ NoDup(ctlOut)
    /\ \A m \in Elems(ctlOut) : Fresh(m)
    /\ \A i \in Instances :
           /\ NoDup(inbox[i])
           /\ \A m \in Elems(inbox[i]) :
                  /\ Fresh(m)
                  /\ m.instance_id = i
                  /\ \A n \in Elems(ctlOut) : n.command_id # m.command_id

RunInv ==
    /\ \A i \in Instances : \A m \in running[i] :
           /\ Genuine(m)
           /\ m.instance_id = i
           /\ outcome[m.command_id] = "started"
    /\ \A c \in Commands : outcome[c] # "none" => Sent(c)

\* The command was published, and no agent has it or ever had it.
Unreached(c) ==
    /\ Sent(c)
    /\ outcome[c] = "none"
    /\ \A m \in Elems(ctlOut) : m.command_id # c
    /\ \A i \in Instances : \A m \in Elems(inbox[i]) : m.command_id # c

\* A 503 was sent, or has been answered to the operator.
Refused(c) == c \in unheard \/ dispatch[c] = "no_listeners"

HintInv == \A c \in Commands : Refused(c) => Unreached(c)

OnceInv == QueueInv /\ RunInv /\ HintInv

LEMMA GenuineStays ==
    ASSUME NEW m, Genuine(m), Advance(m.command_id)
    PROVE  Genuine(m)'
BY DEF Genuine, Advance, Sent

\* A step that publishes, delivers and executes nothing: queues may only
\* shrink.  All the steps but four are of this kind.
Calm ==
    /\ NoDup(ctlOut') /\ Elems(ctlOut') \subseteq Elems(ctlOut)
    /\ \A i \in Instances :
           /\ NoDup(inbox'[i])
           /\ Elems(inbox'[i]) \subseteq Elems(inbox[i])
           /\ running'[i] \subseteq running[i]
    /\ UNCHANGED outcome
    /\ \A c \in Commands : Refused(c)' => Refused(c)

LEMMA CalmStep ==
    ASSUME OnceInv, Calm, \A c \in Commands : Advance(c)
    PROVE  OnceInv'
<1>1. ASSUME NEW m, Genuine(m) PROVE Genuine(m)'
  BY <1>1, GenuineStays DEF Genuine
<1>2. ASSUME NEW m, Fresh(m) PROVE Fresh(m)'
  BY <1>1, <1>2 DEF Fresh, Calm
<1>3. QueueInv'
  BY <1>2 DEF OnceInv, QueueInv, Calm
<1>4. RunInv'
  BY <1>1 DEF OnceInv, RunInv, Calm, Advance
<1>5. HintInv'
  BY DEF OnceInv, HintInv, Unreached, Calm, Advance
<1> QED
  BY <1>3, <1>4, <1>5 DEF OnceInv

\* Steps that do not touch the way of a command to its agent.
LEMMA CalmAway ==
    ASSUME OnceInv, UNCHANGED <<ctlOut, inbox, running, outcome>>,
           \A c \in Commands : Refused(c)' => Refused(c)
    PROVE  Calm
BY DEF OnceInv, QueueInv, Calm

LEMMA CalmControlStep ==
    ASSUME Typed, StatusInv, OnceInv, ControlStep,
           \A c \in Commands : ~Publish(c)
    PROVE  Calm
<1> USE DEF agentVars, brokerVars
<1>1. ASSUME NEW i \in Instances, NEW type \in CommandType,
             IssueCommand(i, type)
      PROVE  Calm
  BY <1>1, CalmAway
  DEF ControlStep, IssueCommand, Refused, Typed, ControlTypeOK
<1>2. ASSUME NEW c \in Commands, SavePending(c)
      PROVE  Calm
  BY <1>2, CalmAway
  DEF ControlStep, SavePending, Refused, Typed, ControlTypeOK
<1>3. ASSUME NEW c \in Commands, ProbeNoResponders(c)
      PROVE  Calm
  BY <1>3, CalmAway
  DEF ControlStep, ProbeNoResponders, HearsNoResponders, Refused, Typed,
      ControlTypeOK
<1>4. ASSUME NEW c \in Commands, ProbeTimeout(c)
      PROVE  Calm
  BY <1>4, CalmAway
  DEF ControlStep, ProbeTimeout, AfterProbeTimeout, Refused, Typed,
      ControlTypeOK
<1>5. CASE HandleReport
  BY <1>5, CalmAway DEF ControlStep, HandleReport, Refused
<1>6. CASE FlipWorkload
  BY <1>6, CalmAway DEF ControlStep, FlipWorkload, Refused
<1>7. CASE Expire
  BY <1>7, CalmAway DEF ControlStep, Expire, Refused
<1>8. CASE Sweep
  BY <1>8, CalmAway DEF ControlStep, Sweep, Refused, controlVars
<1>9. CASE ControlStart
  BY <1>9, CalmAway
  DEF ControlStep, ControlStart, ControlConnect, ControlSubscribe,
      ControlServe, Refused
<1>10. CASE ControlReconnects
  BY <1>10, CalmAway
  DEF ControlStep, ControlReconnects, Reattach, Refused, controlVars
<1> QED
  BY <1>1, <1>2, <1>3, <1>4, <1>5, <1>6, <1>7, <1>8, <1>9, <1>10
  DEF ControlStep, Request

LEMMA CalmControlFault ==
    ASSUME Typed, StatusInv, OnceInv, ControlFault
    PROVE  Calm
<1> USE DEF agentVars, brokerVars
<1>1. ASSUME NEW c \in Commands, SaveFails(c)
      PROVE  Calm
  BY <1>1, CalmAway
  DEF ControlFault, SaveFails, Refused, Typed, ControlTypeOK
<1>2. ASSUME NEW c \in Commands, PublishFails(c)
      PROVE  Calm
  BY <1>2, CalmAway
  DEF ControlFault, PublishFails, Refused, Typed, ControlTypeOK
<1>3. CASE ReportFails \/ FlipFails
  BY <1>3, CalmAway
  DEF ControlFault, ReportFails, FlipFails, Refused, controlVars
<1>4. CASE ControlStop
  <2>1. PICK n \in 0 .. Len(ctlOut) : ctlOut' = DropBack(ctlOut, n)
    BY <1>4 DEF ControlStop
  <2>2. NoDup(ctlOut') /\ Elems(ctlOut') \subseteq Elems(ctlOut)
    BY <2>1, QueueDrop DEF Typed, BrokerTypeOK, OnceInv, QueueInv
  <2>3. \A c \in Commands : Refused(c)' => Refused(c)
    BY <1>4 DEF ControlStop, Refused
  <2> QED
    BY <1>4, <2>2, <2>3
    DEF ControlFault, ControlStop, Calm, OnceInv, QueueInv
<1> QED
  BY <1>1, <1>2, <1>3, <1>4 DEF ControlFault

LEMMA CalmLinkFault ==
    ASSUME Typed, OnceInv, LinkFault
    PROVE  Calm
<1> USE DEF agentVars, controlVars
<1>1. CASE DetachControl
  <2>1. PICK n \in 0 .. Len(ctlOut) : ctlOut' = DropFront(ctlOut, n)
    BY <1>1 DEF DetachControl
  <2>2. NoDup(ctlOut') /\ Elems(ctlOut') \subseteq Elems(ctlOut)
    BY <2>1, QueueDrop DEF Typed, BrokerTypeOK, OnceInv, QueueInv
  <2>3. \A c \in Commands : Refused(c)' => Refused(c)
    BY <1>1 DEF LinkFault, DetachControl, Refused
  <2> QED
    BY <1>1, <2>2, <2>3
    DEF LinkFault, DetachControl, Calm, OnceInv, QueueInv
<1>2. ASSUME NEW i \in Instances, DetachAgent(i)
      PROVE  Calm
  <2>1. PICK n \in 0 .. Len(inbox[i]) :
            inbox' = [inbox EXCEPT ![i] = DropBack(@, n)]
    BY <1>2 DEF DetachAgent
  <2>2. /\ NoDup(DropBack(inbox[i], n))
        /\ Elems(DropBack(inbox[i], n)) \subseteq Elems(inbox[i])
    BY QueueDrop DEF Typed, BrokerTypeOK, OnceInv, QueueInv
  <2>3. \A j \in Instances : /\ NoDup(inbox'[j])
                             /\ Elems(inbox'[j]) \subseteq Elems(inbox[j])
    BY <2>1, <2>2 DEF Typed, BrokerTypeOK, OnceInv, QueueInv
  <2> QED
    BY <1>2, <2>3
    DEF LinkFault, DetachAgent, Calm, OnceInv, QueueInv, Refused
<1> QED
  BY <1>1, <1>2 DEF LinkFault

LEMMA CalmAgentFault ==
    ASSUME Typed, OnceInv, AgentFault
    PROVE  Calm
<1>1. PICK i \in Instances : AgentStop(i)
  BY DEF AgentFault
<1>2. \A j \in Instances : /\ NoDup(inbox'[j])
                           /\ Elems(inbox'[j]) \subseteq Elems(inbox[j])
                           /\ running'[j] \subseteq running[j]
  BY <1>1, QueueEmpty
  DEF AgentStop, Typed, BrokerTypeOK, AgentTypeOK, OnceInv, QueueInv
<1> QED
  BY <1>1, <1>2
  DEF AgentFault, AgentStop, controlVars, Calm, OnceInv, QueueInv, Refused

\* The first of the four: a request publishes its command.
LEMMA OncePublish ==
    ASSUME Typed, StatusInv, OnceInv, NEW p \in Commands, Publish(p),
           UNCHANGED agentVars, \A c \in Commands : Advance(c)
    PROVE  OnceInv'
<1>0. PICK m : m = CommandMessage(p)
  OBVIOUS
<1>1. /\ ctlOut' = Append(ctlOut, m)
      /\ dispatch[p] = "publishing" /\ dispatch'[p] = "probing"
      /\ \A c \in Commands : dispatch'[c] = "no_listeners" =>
             dispatch[c] = "no_listeners"
      /\ UNCHANGED <<inbox, unheard, outcome, running>>
  BY <1>0 DEF Publish, ReadyToPublish, Typed, ControlTypeOK, agentVars
<1>2. /\ p <= Len(orders) /\ orders' = orders
      /\ status[p] # "none" /\ status' = status
  BY DEF Publish, ReadyToPublish, Typed, DispatchIssued, StatusInv, storeVars
<1>3. m.command_id = p /\ Genuine(m)'
  BY <1>0, <1>1, <1>2 DEF Genuine, Sent, CommandMessage
<1>4. ~Sent(p)
  BY <1>1 DEF Sent
<1>5. outcome[p] = "none" /\ ~Refused(p)
  BY <1>4 DEF OnceInv, RunInv, HintInv, Unreached
<1>6. /\ \A n \in Elems(ctlOut) : n.command_id # p
      /\ \A i \in Instances : \A n \in Elems(inbox[i]) : n.command_id # p
  BY <1>4 DEF OnceInv, QueueInv, Fresh, Genuine
<1>7. ASSUME NEW n, Genuine(n) PROVE Genuine(n)'
  BY <1>7, GenuineStays DEF Genuine
<1>8. ctlOut \in Seq(CommandMessages \cup {m})
  BY DEF Typed, BrokerTypeOK
<1>9. Elems(ctlOut') = Elems(ctlOut) \cup {m} /\ NoDup(ctlOut')
  <2>1. m \in CommandMessages \cup {m}
    OBVIOUS
  <2>2. NoDup(ctlOut)
    BY DEF OnceInv, QueueInv
  <2> QED
    BY <1>1, <1>3, <1>6, <1>8, <2>1, <2>2, QueueAppend
<1>10. QueueInv'
  BY <1>1, <1>3, <1>5, <1>6, <1>7, <1>9 DEF OnceInv, QueueInv, Fresh
<1>11. RunInv'
  BY <1>1, <1>7 DEF OnceInv, RunInv, Advance
<1>12. HintInv'
  BY <1>1, <1>3, <1>5, <1>9
  DEF OnceInv, HintInv, Unreached, Refused, Advance
<1> QED
  BY <1>10, <1>11, <1>12 DEF OnceInv

\* The second: the broker routes a command, or finds nobody listening.
LEMMA OnceRoute ==
    ASSUME Typed, OnceInv, RouteCommand, UNCHANGED <<outcome, running>>,
           UNCHANGED dispatch, \A c \in Commands : Advance(c)
    PROVE  OnceInv'
<1>0. PICK m, i : m = Head(ctlOut) /\ i = m.instance_id
  OBVIOUS
<1>1. /\ ctlOut # <<>> /\ ctlOut \in Seq(CommandMessages)
      /\ ctlOut' = Tail(ctlOut)
      /\ inbox \in [Instances -> Seq(CommandMessages)]
      /\ \/ inbox' = [inbox EXCEPT ![i] = Append(@, m)] /\ unheard' = unheard
         \/ inbox' = inbox /\ unheard' = unheard \cup {m.command_id}
  BY <1>0 DEF RouteCommand, Typed, BrokerTypeOK
<1>2. /\ m \in Elems(ctlOut)
      /\ Elems(ctlOut') \subseteq Elems(ctlOut)
      /\ NoDup(ctlOut')
      /\ \A n \in Elems(ctlOut') : n.command_id # m.command_id
  BY <1>0, <1>1, QueueTail DEF OnceInv, QueueInv
<1>3. m \in CommandMessages /\ i \in Instances
  <2>1. m \in CommandMessages
    BY <1>0, <1>1
  <2> QED
    BY <1>0, <2>1 DEF CommandMessages
<1>4. Fresh(m) /\ m.command_id \in Commands /\ m.instance_id = i
  BY <1>0, <1>2 DEF OnceInv, QueueInv, Fresh, Genuine
<1>5. \A j \in Instances : \A n \in Elems(inbox[j]) :
          n.command_id # m.command_id
  BY <1>2 DEF OnceInv, QueueInv
<1>6. ~Refused(m.command_id)
  BY <1>2, <1>4 DEF OnceInv, HintInv, Unreached
<1>7. ASSUME NEW n, Fresh(n) PROVE Fresh(n)'
  BY <1>7, GenuineStays DEF Fresh, Genuine
<1>8. CASE inbox' = [inbox EXCEPT ![i] = Append(@, m)] /\ unheard' = unheard
  <2>1. /\ Elems(inbox'[i]) = Elems(inbox[i]) \cup {m}
        /\ NoDup(inbox'[i])
    <3>1. inbox[i] \in Seq(CommandMessages) /\ NoDup(inbox[i])
      BY <1>1, <1>3 DEF OnceInv, QueueInv
    <3>2. inbox'[i] = Append(inbox[i], m)
      BY <1>1, <1>3, <1>8
    <3> QED
      BY <1>3, <1>5, <3>1, <3>2, QueueAppend
  <2>2. \A j \in Instances : j # i => inbox'[j] = inbox[j]
    BY <1>1, <1>8
  <2>3. QueueInv'
    BY <1>2, <1>4, <1>7, <2>1, <2>2 DEF OnceInv, QueueInv
  <2>4. RunInv'
    BY GenuineStays DEF OnceInv, RunInv, Genuine, Advance
  <2>5. HintInv'
    BY <1>2, <1>6, <1>8, <2>1, <2>2
    DEF OnceInv, HintInv, Unreached, Refused, Advance
  <2> QED
    BY <2>3, <2>4, <2>5 DEF OnceInv
<1>9. CASE inbox' = inbox /\ unheard' = unheard \cup {m.command_id}
  <2>1. QueueInv'
    BY <1>2, <1>7, <1>9 DEF OnceInv, QueueInv
  <2>2. RunInv'
    BY GenuineStays DEF OnceInv, RunInv, Genuine, Advance
  <2>3. Unreached(m.command_id)'
    BY <1>2, <1>4, <1>5, <1>9
    DEF Unreached, Fresh, Genuine, Advance
  <2>4. HintInv'
    BY <1>2, <1>9, <2>3 DEF OnceInv, HintInv, Unreached, Refused, Advance
  <2> QED
    BY <2>1, <2>2, <2>4 DEF OnceInv
<1> QED
  BY <1>1, <1>8, <1>9

\* What the step launches was never launched before.
FirstLaunches ==
    \A i \in Instances : \A m \in running'[i] \ running[i] :
        outcome[m.command_id] = "none"

\* The third: an agent takes a command off its subscription.
LEMMA OnceReceive ==
    ASSUME Typed, OnceInv, NEW i \in Instances, AgentReceive(i),
           UNCHANGED dispatch, \A c \in Commands : Advance(c)
    PROVE  OnceInv' /\ FirstLaunches
<1>0. PICK m : m = Head(inbox[i])
  OBVIOUS
<1>1. /\ inbox \in [Instances -> Seq(CommandMessages)]
      /\ inbox[i] \in Seq(CommandMessages) /\ inbox[i] # <<>>
      /\ inbox' = [inbox EXCEPT ![i] = Tail(@)]
      /\ \/ /\ running' = [running EXCEPT ![i] = @ \cup {m}]
            /\ outcome' = [outcome EXCEPT ![m.command_id] = "started"]
         \/ UNCHANGED <<running, outcome>>
      /\ UNCHANGED <<ctlOut, unheard>>
      /\ outcome \in [Commands -> {"none", "started", "ok", "error"}]
      /\ running \in [Instances -> SUBSET CommandMessages]
  BY <1>0 DEF AgentReceive, Typed, BrokerTypeOK, AgentTypeOK
<1>2. /\ m \in Elems(inbox[i])
      /\ Elems(Tail(inbox[i])) \subseteq Elems(inbox[i])
      /\ NoDup(Tail(inbox[i]))
      /\ \A n \in Elems(Tail(inbox[i])) : n.command_id # m.command_id
  BY <1>0, <1>1, QueueTail DEF OnceInv, QueueInv
<1>3. /\ inbox'[i] = Tail(inbox[i])
      /\ \A j \in Instances : j # i => inbox'[j] = inbox[j]
  BY <1>1
<1>4. Fresh(m) /\ m.command_id \in Commands /\ m.instance_id = i
  BY <1>2 DEF OnceInv, QueueInv, Fresh, Genuine
<1>5. \A n \in Elems(ctlOut) : n.command_id # m.command_id
  BY <1>2 DEF OnceInv, QueueInv
<1>6. \A j \in Instances : \A n \in Elems(inbox'[j]) :
          n.command_id # m.command_id
  <2> SUFFICES ASSUME NEW j \in Instances, j # i, NEW n \in Elems(inbox[j])
               PROVE  n.command_id # m.command_id
    BY <1>2, <1>3
  <2>1. n.instance_id = j /\ Genuine(n) /\ Genuine(m)
    BY <1>4 DEF OnceInv, QueueInv, Fresh
  <2> QED
    BY <1>4, <2>1 DEF Genuine
<1>7. ~Refused(m.command_id)
  BY <1>2, <1>4 DEF OnceInv, HintInv, Unreached
<1>8. ASSUME NEW n, Genuine(n) PROVE Genuine(n)'
  BY <1>8, GenuineStays DEF Genuine
<1>9. \A c \in Commands : c # m.command_id => outcome'[c] = outcome[c]
  BY <1>1
<1>10. ASSUME NEW n, Fresh(n), n.command_id # m.command_id PROVE Fresh(n)'
  BY <1>8, <1>9, <1>10 DEF Fresh, Genuine
<1>11. \A j \in Instances : /\ NoDup(inbox'[j])
                            /\ Elems(inbox'[j]) \subseteq Elems(inbox[j])
  BY <1>2, <1>3 DEF OnceInv, QueueInv
<1>12. QueueInv'
  BY <1>1, <1>5, <1>6, <1>10, <1>11 DEF OnceInv, QueueInv
<1>13. RunInv'
  <2>1. CASE UNCHANGED <<running, outcome>>
    BY <1>8, <2>1 DEF OnceInv, RunInv, Advance
  <2>2. CASE /\ running' = [running EXCEPT ![i] = @ \cup {m}]
             /\ outcome' = [outcome EXCEPT ![m.command_id] = "started"]
    <3>1. outcome'[m.command_id] = "started"
      BY <1>1, <1>4, <2>2
    <3>2. \A j \in Instances : \A n \in running'[j] :
              n \in running[j] \/ (j = i /\ n = m)
      BY <1>1, <2>2
    <3>3. Sent(m.command_id)'
      BY <1>4, <1>8 DEF Fresh, Genuine
    <3>4. ASSUME NEW j \in Instances, NEW n \in running'[j]
          PROVE  Genuine(n)' /\ n.instance_id = j
                 /\ outcome'[n.command_id] = "started"
      <4>1. CASE j = i /\ n = m
        BY <1>4, <1>8, <3>1, <4>1 DEF Fresh
      <4>2. CASE n \in running[j]
        <5>1. Genuine(n) /\ n.instance_id = j
              /\ outcome[n.command_id] = "started"
          BY <4>2 DEF OnceInv, RunInv
        <5>2. n.command_id \in Commands
          BY <5>1 DEF Genuine
        <5> QED
          BY <1>8, <1>9, <3>1, <5>1, <5>2
      <4> QED
        BY <3>2, <4>1, <4>2
    <3> QED
      BY <1>9, <3>3, <3>4 DEF OnceInv, RunInv, Advance
  <2> QED
    BY <1>1, <2>1, <2>2
<1>14. HintInv'
  <2> SUFFICES ASSUME NEW c \in Commands, Refused(c)'
               PROVE  Unreached(c)'
    BY DEF HintInv
  <2>1. Refused(c) /\ Unreached(c) /\ c # m.command_id
    BY <1>1, <1>7 DEF OnceInv, HintInv, Refused
  <2>2. Sent(c)' /\ outcome'[c] = "none"
    BY <1>9, <2>1 DEF Unreached, Advance
  <2> QED
    BY <1>1, <1>11, <2>1, <2>2 DEF Unreached
<1>15. ASSUME NEW j \in Instances, NEW n \in running'[j] \ running[j]
       PROVE  n = m
  <2>1. CASE running' = running
    BY <2>1
  <2>2. CASE running' = [running EXCEPT ![i] = @ \cup {m}]
    BY <1>1, <2>2
  <2> QED
    BY <1>1, <2>1, <2>2
<1> QED
  BY <1>4, <1>12, <1>13, <1>14, <1>15 DEF OnceInv, Fresh, FirstLaunches

\* The fourth: docker compose returns.
LEMMA OnceReturns ==
    ASSUME Typed, OnceInv, NEW i \in Instances, NEW m \in running[i],
           NEW ok \in BOOLEAN, ComposeReturns(i, m, ok),
           UNCHANGED dispatch, \A c \in Commands : Advance(c)
    PROVE  OnceInv'
<1>1. /\ running' = [running EXCEPT ![i] = @ \ {m}]
      /\ outcome' = [outcome EXCEPT ![m.command_id] =
                         IF ok THEN "ok" ELSE "error"]
      /\ UNCHANGED <<ctlOut, inbox, unheard>>
      /\ outcome \in [Commands -> {"none", "started", "ok", "error"}]
      /\ running \in [Instances -> SUBSET CommandMessages]
  BY DEF ComposeReturns, Typed, AgentTypeOK
<1>2. /\ Genuine(m) /\ m.instance_id = i
      /\ outcome[m.command_id] = "started"
  BY DEF OnceInv, RunInv
<1>3. \A c \in Commands : c # m.command_id => outcome'[c] = outcome[c]
  BY <1>1
<1>4. ASSUME NEW n, Genuine(n) PROVE Genuine(n)'
  BY <1>4, GenuineStays DEF Genuine
<1>5. ASSUME NEW n, Fresh(n) PROVE Fresh(n)'
  BY <1>2, <1>3, <1>4, <1>5 DEF Fresh, Genuine
<1>6. QueueInv'
  BY <1>1, <1>5 DEF OnceInv, QueueInv
<1>7. ASSUME NEW j \in Instances, NEW n \in running'[j]
      PROVE  Genuine(n)' /\ n.instance_id = j
             /\ outcome'[n.command_id] = "started"
  <2>1. n \in running[j] /\ (j = i => n # m)
    BY <1>1
  <2>2. Genuine(n) /\ n.instance_id = j /\ outcome[n.command_id] = "started"
    BY <2>1 DEF OnceInv, RunInv
  <2>3. n.command_id # m.command_id
    BY <1>2, <2>1, <2>2 DEF Genuine
  <2> QED
    BY <1>3, <1>4, <2>2, <2>3 DEF Genuine
<1>8. RunInv'
  BY <1>2, <1>3, <1>7 DEF OnceInv, RunInv, Advance
<1>9. HintInv'
  BY <1>1, <1>2, <1>3 DEF OnceInv, HintInv, Unreached, Refused, Advance
<1> QED
  BY <1>6, <1>8, <1>9 DEF OnceInv

LEMMA OnceNext ==
    ASSUME Typed, StatusInv, OnceInv, [Next]_vars
    PROVE  OnceInv' /\ FirstLaunches
<1>0. \A c \in Commands : Advance(c)
  BY StatusNext DEF Layer1
<1>1. ASSUME Calm PROVE OnceInv' /\ FirstLaunches
  BY <1>0, <1>1, CalmStep DEF Calm, FirstLaunches
<1>2. ASSUME OnceInv', UNCHANGED running PROVE OnceInv' /\ FirstLaunches
  BY <1>2 DEF FirstLaunches
<1>3. CASE ControlStep
  <2>1. ASSUME NEW c \in Commands, Publish(c) PROVE OnceInv' /\ FirstLaunches
    BY <1>0, <1>2, <1>3, <2>1, OncePublish DEF ControlStep, agentVars
  <2>2. CASE \A c \in Commands : ~Publish(c)
    BY <1>1, <1>3, <2>2, CalmControlStep
  <2> QED
    BY <2>1, <2>2
<1>4. CASE BrokerStep
  <2>1. CASE RouteCommand
    BY <1>0, <1>2, <1>4, <2>1, OnceRoute DEF BrokerStep, agentVars, controlVars
  <2>2. CASE \E i \in Instances : RouteReport(i)
    BY <1>1, <1>4, <2>2, CalmAway
    DEF BrokerStep, RouteReport, agentVars, controlVars, Refused
  <2> QED
    BY <1>4, <2>1, <2>2 DEF BrokerStep
<1>5. CASE AgentStep
  <2>1. PICK i \in Instances :
            \/ AgentStart(i)
            \/ AgentReceive(i)
            \/ ComposeSucceeds(i)
            \/ ComposeFails(i)
            \/ AgentReconnects(i)
    BY <1>5 DEF AgentStep
  <2>2. UNCHANGED dispatch
    BY <1>5 DEF AgentStep, controlVars
  <2>3. CASE AgentStart(i) \/ AgentReconnects(i)
    BY <1>1, <2>2, <2>3, CalmAway
    DEF AgentStart, AgentReconnects, Reattach, agentVars, Refused
  <2>4. CASE AgentReceive(i)
    BY <1>0, <2>2, <2>4, OnceReceive
  <2>5. CASE ComposeSucceeds(i) \/ ComposeFails(i)
    <3>1. PICK m \in running[i], ok \in BOOLEAN : ComposeReturns(i, m, ok)
      BY <2>5 DEF ComposeSucceeds, ComposeFails
    <3>2. OnceInv'
      BY <1>0, <2>2, <3>1, OnceReturns
    <3>3. FirstLaunches
      BY <3>1 DEF ComposeReturns, FirstLaunches, Typed, AgentTypeOK
    <3> QED
      BY <3>2, <3>3
  <2> QED
    BY <2>1, <2>3, <2>4, <2>5
<1>6. CASE ControlFault
  BY <1>1, <1>6, CalmControlFault
<1>7. CASE AgentFault \/ LinkFault
  BY <1>1, <1>7, CalmAgentFault, CalmLinkFault
<1>8. CASE UNCHANGED vars
  BY <1>1, <1>8, CalmAway
  DEF vars, brokerVars, agentVars, controlVars, Refused
<1> QED
  BY <1>3, <1>4, <1>5, <1>6, <1>7, <1>8 DEF Next, Step, Fault

\* The invariant of the first two layers.
Layers == Typed /\ StatusInv /\ OnceInv

LEMMA LayersInit == Init => Layers
BY InitType, QueueEmpty
DEF Init, StoreInit, BrokerInit, ControlInit, AgentInit, Layers, StatusInv,
    OnceInv, QueueInv, RunInv, HintInv, Refused

LEMMA LayersNext == Layers /\ [Next]_vars => Layers'
BY NextType, StatusNext, OnceNext DEF Layers, Layer1

\* A command is handed to docker compose at most once, in whatever way links
\* break and processes restart: AgentReceive launches only what was never
\* launched before, on any worker.
THEOREM LaunchedAtMostOnce == Spec => ExecutedAtMostOnce
<1>1. Layers /\ [Next]_vars =>
          [\A i \in Instances : \A m \in running'[i] \ running[i] :
               outcome[m.command_id] = "none"]_vars
  BY OnceNext DEF Layers, FirstLaunches
<1> QED
  BY <1>1, LayersInit, LayersNext, PTL DEF Spec, ExecutedAtMostOnce

\* A command on its way to an agent, or seen by one, has a row: the INSERT of
\* CommandDispatcher precedes the publication.
THEOREM RowBeforeMessage == Spec => []PublishedIsPersisted
<1>1. Layers => PublishedIsPersisted
  <2> SUFFICES ASSUME Layers, NEW c \in Commands, Published(c)
               PROVE  status[c] # "none"
    BY DEF PublishedIsPersisted
  <2>1. Sent(c)
    BY QueueHas
    DEF Published, Layers, OnceInv, QueueInv, RunInv, Fresh, Genuine
  <2> QED
    BY <2>1 DEF Sent
<1> QED
  BY <1>1, LayersInit, LayersNext, PTL DEF Spec

\* A request that was answered no_listeners is never executed: its command is
\* nowhere, and no step puts it anywhere again.
THEOREM NoListenersStands == Spec => []NoListenersIsDefinitive
<1>1. Layers => NoListenersIsDefinitive
  <2> SUFFICES ASSUME Layers, NEW c \in Commands,
                      dispatch[c] = "no_listeners"
               PROVE  ~Published(c)
    BY DEF NoListenersIsDefinitive
  <2>1. Unreached(c)
    BY DEF Layers, OnceInv, HintInv, Refused
  <2> QED
    BY <2>1, QueueHas DEF Published, Unreached
<1> QED
  BY <1>1, LayersInit, LayersNext, PTL DEF Spec

-----------------------------------------------------------------------------
(* Layer 3: reports are true                                                *)

\* The report is about the command as it was issued, and says what became of
\* it on the worker.
Truthful(r) ==
    /\ r.command_id \in Commands
    /\ Sent(r.command_id)
    /\ r.instance_id = orders[r.command_id].instance_id
    /\ r.type = orders[r.command_id].type
    /\ r.status = "completed" => outcome[r.command_id] = "ok"
    /\ r.status = "failed" => outcome[r.command_id] = "error"

TransitInv ==
    /\ \A r \in Elems(reports) : Truthful(r)
    /\ \A i \in Instances : \A r \in Elems(agentOut[i]) : Truthful(r)
    /\ \A r \in flipping : /\ Truthful(r)
                           /\ r.status = "completed"
                           /\ status[r.command_id] = "completed"

\* OnlyCompletionsMoveWorkload, with a witness that was sent.
MovedInv ==
    \A i \in Instances :
        \/ workload[i] = "unknown"
        \/ \E c \in Commands :
               /\ Sent(c)
               /\ orders[c].instance_id = i
               /\ status[c] = "completed"
               /\ workload[i] = StateOf(orders[c].type)

ReportInv == TransitInv /\ OutcomeJustified /\ MovedInv

\* What a worker has done it has done.
DoneStays == \A c \in Commands : Executed(c) => outcome'[c] = outcome[c]

LEMMA DoneNext ==
    ASSUME Layers, [Next]_vars
    PROVE  DoneStays
<1>1. CASE UNCHANGED outcome
  BY <1>1 DEF DoneStays
<1>2. ASSUME NEW i \in Instances, AgentReceive(i) PROVE DoneStays
  <2>1. /\ Head(inbox[i]) \in Elems(inbox[i])
        /\ outcome[Head(inbox[i]).command_id] = "none"
    BY <1>2, QueueTail
    DEF AgentReceive, Layers, Typed, BrokerTypeOK, OnceInv, QueueInv, Fresh
  <2> QED
    BY <1>2, <2>1
    DEF AgentReceive, DoneStays, Executed, Layers, Typed, AgentTypeOK
<1>3. ASSUME NEW i \in Instances, NEW m \in running[i], NEW ok \in BOOLEAN,
             ComposeReturns(i, m, ok)
      PROVE  DoneStays
  <2>1. outcome[m.command_id] = "started"
    BY DEF Layers, OnceInv, RunInv
  <2> QED
    BY <1>3, <2>1
    DEF ComposeReturns, DoneStays, Executed, Layers, Typed, AgentTypeOK
<1>4. CASE AgentStep
  BY <1>1, <1>2, <1>3, <1>4
  DEF AgentStep, AgentStart, AgentReconnects, ComposeSucceeds, ComposeFails,
      agentVars
<1> QED
  BY <1>1, <1>4
  DEF Next, Step, Fault, ControlStep, BrokerStep, ControlFault, AgentFault,
      AgentStop, LinkFault, agentVars, vars

LEMMA TruthfulStays ==
    ASSUME NEW r, Truthful(r), Advance(r.command_id), DoneStays
    PROVE  Truthful(r)'
<1>1. /\ Sent(r.command_id)'
      /\ CommandMessage(r.command_id)' = CommandMessage(r.command_id)
  BY DEF Truthful, Advance, Sent
<1>2. /\ orders'[r.command_id].instance_id = orders[r.command_id].instance_id
      /\ orders'[r.command_id].type = orders[r.command_id].type
  BY <1>1 DEF CommandMessage
<1> QED
  BY <1>1, <1>2 DEF Truthful, DoneStays, Executed

\* A command that was justified, or moved a workload state, still is.
LEMMA JustifiedStays ==
    ASSUME NEW c \in Commands, OutcomeJustified, Advance(c), DoneStays,
           status[c] \in Terminal
    PROVE  /\ status'[c] = "completed" => outcome'[c] = "ok"
           /\ status'[c] = "failed" /\ failure_reason'[c] = "none"
                  => outcome'[c] = "error"
BY DEF OutcomeJustified, Advance, DoneStays, Executed, Terminal

LEMMA MovedStays ==
    ASSUME MovedInv, \A c \in Commands : Advance(c), NEW i \in Instances,
           workload'[i] = workload[i]
    PROVE  \/ workload'[i] = "unknown"
           \/ \E c \in Commands :
                  /\ Sent(c)'
                  /\ orders'[c].instance_id = i
                  /\ status'[c] = "completed"
                  /\ workload'[i] = StateOf(orders'[c].type)
<1>1. CASE workload[i] = "unknown"
  BY <1>1
<1>2. ASSUME NEW c \in Commands, Sent(c), orders[c].instance_id = i,
             status[c] = "completed", workload[i] = StateOf(orders[c].type)
      PROVE  /\ Sent(c)'
             /\ orders'[c].instance_id = i
             /\ status'[c] = "completed"
             /\ workload'[i] = StateOf(orders'[c].type)
  <2>1. CommandMessage(c)' = CommandMessage(c) /\ Sent(c)'
    BY <1>2 DEF Advance, Sent
  <2>2. /\ orders'[c].instance_id = orders[c].instance_id
        /\ orders'[c].type = orders[c].type
    BY <2>1 DEF CommandMessage
  <2> QED
    BY <1>2, <2>1, <2>2 DEF Advance, Terminal
<1> QED
  BY <1>1, <1>2 DEF MovedInv

\* A step that settles no command, moves no workload state and writes no
\* report.  All the steps but five are of this kind.
Quiet ==
    /\ UNCHANGED workload
    /\ \A c \in Commands : status'[c] \in Terminal => status[c] \in Terminal
    /\ Elems(reports') \subseteq Elems(reports)
    /\ \A i \in Instances : Elems(agentOut'[i]) \subseteq Elems(agentOut[i])
    /\ flipping' \subseteq flipping

LEMMA QuietStep ==
    ASSUME ReportInv, Quiet, \A c \in Commands : Advance(c), DoneStays
    PROVE  ReportInv'
<1>1. ASSUME NEW r, Truthful(r) PROVE Truthful(r)'
  BY <1>1, TruthfulStays DEF Truthful
<1>2. ASSUME NEW r \in flipping PROVE status'[r.command_id] = "completed"
  BY DEF ReportInv, TransitInv, Truthful, Advance, Terminal
<1>3. TransitInv'
  BY <1>1, <1>2 DEF ReportInv, TransitInv, Quiet
<1>4. OutcomeJustified'
  <2> SUFFICES ASSUME NEW c \in Commands, status'[c] \in Terminal
               PROVE  /\ status'[c] = "completed" => outcome'[c] = "ok"
                      /\ status'[c] = "failed" /\ failure_reason'[c] = "none"
                             => outcome'[c] = "error"
    BY DEF OutcomeJustified, Terminal
  <2> QED
    BY JustifiedStays DEF ReportInv, Quiet
<1>5. MovedInv'
  BY MovedStays DEF ReportInv, Quiet, MovedInv
<1> QED
  BY <1>3, <1>4, <1>5 DEF ReportInv

LEMMA QuietAway ==
    ASSUME UNCHANGED <<status, workload, reports, agentOut, flipping>>
    PROVE  Quiet
BY DEF Quiet

LEMMA QuietControlStep ==
    ASSUME Typed, ControlStep, ~HandleReport, ~FlipWorkload, ~Sweep
    PROVE  Quiet
<1> USE DEF storeVars, brokerVars, controlVars
<1>1. CASE Request
  <2>1. ASSUME NEW c \in Commands, SavePending(c) PROVE Quiet
    BY <2>1
    DEF SavePending, InsertPending, Quiet, Typed, StoreTypeOK, Terminal
  <2> QED
    BY <1>1, <2>1, QuietAway
    DEF Request, IssueCommand, Publish, ProbeNoResponders, ProbeTimeout
<1>2. CASE Expire
  BY <1>2, QuietAway DEF Expire
<1>3. CASE ControlStart
  BY <1>3, QuietAway
  DEF ControlStart, ControlConnect, ControlSubscribe, ControlServe
<1>4. CASE ControlReconnects
  BY <1>4, QuietAway DEF ControlReconnects, Reattach
<1> QED
  BY <1>1, <1>2, <1>3, <1>4 DEF ControlStep

LEMMA QuietControlFault ==
    ASSUME Typed, ControlFault
    PROVE  Quiet
<1> USE DEF storeVars, brokerVars, controlVars
<1>1. ASSUME NEW c \in Commands, SaveFails(c) PROVE Quiet
  BY <1>1
  DEF SaveFails, InsertPending, Quiet, Typed, StoreTypeOK, Terminal
<1>2. ASSUME NEW c \in Commands, PublishFails(c) PROVE Quiet
  BY <1>2, QuietAway DEF PublishFails
<1>3. CASE ReportFails
  BY <1>3, QueueTail DEF ReportFails, Quiet, Typed, BrokerTypeOK
<1>4. CASE FlipFails
  BY <1>4 DEF FlipFails, Quiet
<1>5. CASE ControlStop
  BY <1>5, QueueEmpty DEF ControlStop, Quiet
<1> QED
  BY <1>1, <1>2, <1>3, <1>4, <1>5 DEF ControlFault

LEMMA QuietOutsideFault ==
    ASSUME Typed, AgentFault \/ LinkFault
    PROVE  Quiet
<1> USE DEF storeVars, brokerVars, controlVars
<1>1. ASSUME NEW i \in Instances, NEW q, q \in Seq(StatusMessages),
             agentOut' = [agentOut EXCEPT ![i] = q],
             Elems(q) \subseteq Elems(agentOut[i])
      PROVE  \A j \in Instances :
                 Elems(agentOut'[j]) \subseteq Elems(agentOut[j])
  BY <1>1 DEF Typed, BrokerTypeOK
<1>2. ASSUME NEW i \in Instances, AgentStop(i), AgentFault PROVE Quiet
  <2>1. PICK n \in 0 .. Len(agentOut[i]) :
            agentOut' = [agentOut EXCEPT ![i] = DropBack(agentOut[i], n)]
    BY <1>2 DEF AgentStop
  <2>2. agentOut[i] \in Seq(StatusMessages)
    BY DEF Typed, BrokerTypeOK
  <2>3. \A j \in Instances : Elems(agentOut'[j]) \subseteq Elems(agentOut[j])
    BY <1>1, <2>1, <2>2, QueueDrop, DropType
  <2> QED
    BY <1>2, <2>3 DEF AgentFault, AgentStop, Quiet
<1>3. ASSUME NEW i \in Instances, DetachAgent(i), LinkFault PROVE Quiet
  <2>1. PICK n \in 0 .. Len(agentOut[i]) :
            agentOut' = [agentOut EXCEPT ![i] = DropFront(agentOut[i], n)]
    BY <1>3 DEF DetachAgent
  <2>2. agentOut[i] \in Seq(StatusMessages)
    BY DEF Typed, BrokerTypeOK
  <2>3. \A j \in Instances : Elems(agentOut'[j]) \subseteq Elems(agentOut[j])
    BY <1>1, <2>1, <2>2, QueueDrop, DropType
  <2> QED
    BY <1>3, <2>3 DEF LinkFault, DetachAgent, Quiet
<1>4. CASE DetachControl /\ LinkFault
  <2>1. PICK n \in 0 .. Len(reports) : reports' = DropBack(reports, n)
    BY <1>4 DEF DetachControl
  <2>2. Elems(reports') \subseteq Elems(reports)
    BY <2>1, QueueDrop DEF Typed, BrokerTypeOK
  <2> QED
    BY <1>4, <2>2 DEF LinkFault, DetachControl, Quiet
<1> QED
  BY <1>2, <1>3, <1>4 DEF AgentFault, LinkFault

\* The first step that is not quiet: a report is recorded.  It settles its
\* command as the worker did, and may leave a flip of the workload state to do.
LEMMA ReportHandled ==
    ASSUME Layers, ReportInv, HandleReport, UNCHANGED outcome,
           \A c \in Commands : Advance(c)
    PROVE  ReportInv'
<1>0. PICK m : m = Head(reports)
  OBVIOUS
<1>1. /\ Truthful(m) /\ m.status \in Terminal /\ m.command_id \in Commands
      /\ Elems(reports') \subseteq Elems(reports)
  <2>1. reports # <<>> /\ reports \in Seq(StatusMessages)
    BY DEF HandleReport, Layers, Typed, BrokerTypeOK
  <2>2. m \in Elems(reports) /\ Elems(Tail(reports)) \subseteq Elems(reports)
    BY <1>0, <2>1, QueueTail
  <2>3. m \in StatusMessages
    BY <1>0, <2>1
  <2> QED
    BY <2>2, <2>3
    DEF HandleReport, StatusMessages, ReportInv, TransitInv
<1>2. /\ UNCHANGED <<agentOut, workload, failure_reason, outcome>>
      /\ \/ UNCHANGED <<status, flipping>>
         \/ /\ status' = [status EXCEPT ![m.command_id] = m.status]
            /\ \/ flipping' = flipping
               \/ m.status = "completed" /\ flipping' = flipping \cup {m}
  BY <1>0
  DEF HandleReport, CompleteIfPending, IsPending, FlipsWorkload, storeVars
<1>3. status \in [Commands -> {"none", "pending"} \cup Terminal]
  BY DEF Layers, Typed, StoreTypeOK
<1>4. DoneStays
  BY <1>2 DEF DoneStays
<1>5. ASSUME NEW r, Truthful(r) PROVE Truthful(r)'
  BY <1>4, <1>5, TruthfulStays DEF Truthful
<1>6. ASSUME NEW r \in flipping' PROVE /\ Truthful(r) /\ r.status = "completed"
                                      /\ status'[r.command_id] = "completed"
  <2>1. CASE r \in flipping
    BY <2>1 DEF ReportInv, TransitInv, Truthful, Advance, Terminal
  <2>2. CASE r \notin flipping
    BY <1>1, <1>2, <1>3, <2>2
  <2> QED
    BY <2>1, <2>2
<1>7. TransitInv'
  BY <1>1, <1>2, <1>5, <1>6 DEF ReportInv, TransitInv
<1>8. OutcomeJustified'
  <2> SUFFICES ASSUME NEW c \in Commands
               PROVE  /\ status'[c] = "completed" => outcome'[c] = "ok"
                      /\ status'[c] = "failed" /\ failure_reason'[c] = "none"
                             => outcome'[c] = "error"
    BY DEF OutcomeJustified
  <2>1. CASE status'[c] = status[c]
    BY <1>2, <2>1 DEF ReportInv, OutcomeJustified
  <2>2. CASE status'[c] # status[c]
    <3>1. c = m.command_id /\ status'[c] = m.status
      BY <1>1, <1>2, <1>3, <2>2
    <3> QED
      BY <1>1, <1>2, <3>1 DEF Truthful
  <2> QED
    BY <2>1, <2>2
<1>9. MovedInv'
  BY <1>2, MovedStays DEF ReportInv, MovedInv
<1> QED
  BY <1>7, <1>8, <1>9 DEF ReportInv

\* The second: the workload state follows a completed command.
LEMMA WorkloadFlipped ==
    ASSUME Layers, ReportInv, FlipWorkload, UNCHANGED outcome,
           \A c \in Commands : Advance(c)
    PROVE  ReportInv'
<1>1. PICK m \in flipping :
          /\ workload' = [workload EXCEPT ![m.instance_id] = StateOf(m.type)]
          /\ flipping' = flipping \ {m}
          /\ UNCHANGED <<status, failure_reason, orders, dispatch>>
          /\ UNCHANGED <<reports, agentOut>>
  BY DEF FlipWorkload, UpdateWorkloadState, brokerVars
<1>2. workload \in [Instances -> WorkloadState]
  BY DEF Layers, Typed, StoreTypeOK
<1>3. Truthful(m) /\ status[m.command_id] = "completed"
  BY DEF ReportInv, TransitInv
<1>4. DoneStays
  BY DEF DoneStays
<1>5. ASSUME NEW r, Truthful(r) PROVE Truthful(r)'
  BY <1>4, <1>5, TruthfulStays DEF Truthful
<1>6. TransitInv'
  BY <1>1, <1>5 DEF ReportInv, TransitInv
<1>7. OutcomeJustified'
  BY <1>1 DEF ReportInv, OutcomeJustified
<1>8. MovedInv'
  <2> SUFFICES ASSUME NEW i \in Instances
               PROVE  \/ workload'[i] = "unknown"
                      \/ \E c \in Commands :
                             /\ Sent(c)'
                             /\ orders'[c].instance_id = i
                             /\ status'[c] = "completed"
                             /\ workload'[i] = StateOf(orders'[c].type)
    BY DEF MovedInv
  <2>1. CASE i = m.instance_id
    <3>1. workload'[i] = StateOf(m.type)
      BY <1>1, <1>2, <2>1
    <3> QED
      BY <1>1, <1>3, <1>5, <2>1, <3>1 DEF Truthful
  <2>2. CASE i # m.instance_id
    BY <1>1, <1>2, <2>2, MovedStays DEF ReportInv
  <2> QED
    BY <2>1, <2>2
<1> QED
  BY <1>6, <1>7, <1>8 DEF ReportInv

\* The third: the sweeper fails commands, and says so in the reason.
LEMMA CommandsSwept ==
    ASSUME Layers, ReportInv, Sweep, UNCHANGED outcome,
           \A c \in Commands : Advance(c)
    PROVE  ReportInv'
<1>1. /\ UNCHANGED <<workload, reports, agentOut, flipping>>
      /\ \A c \in Commands : status'[c] # status[c] =>
             status'[c] = "failed" /\ failure_reason'[c] # "none"
      /\ \A c \in Commands : status'[c] = status[c] =>
             failure_reason'[c] = failure_reason[c]
  BY DEF Sweep, FailPending, Sweepable, TIMEOUT_FAILURE_REASON, controlVars,
         brokerVars
<1>2. DoneStays
  BY DEF DoneStays
<1>3. ASSUME NEW r, Truthful(r) PROVE Truthful(r)'
  BY <1>2, <1>3, TruthfulStays DEF Truthful
<1>4. TransitInv'
  <2>1. ASSUME NEW r \in flipping PROVE status'[r.command_id] = "completed"
    BY DEF ReportInv, TransitInv, Truthful, Advance, Terminal
  <2> QED
    BY <1>1, <1>3, <2>1 DEF ReportInv, TransitInv
<1>5. OutcomeJustified'
  BY <1>1 DEF ReportInv, OutcomeJustified
<1>6. MovedInv'
  BY <1>1, MovedStays DEF ReportInv, MovedInv
<1> QED
  BY <1>4, <1>5, <1>6 DEF ReportInv

\* The fourth: the broker routes a report.
LEMMA ReportRouted ==
    ASSUME Layers, ReportInv, NEW i \in Instances, RouteReport(i),
           UNCHANGED storeVars, UNCHANGED controlVars, UNCHANGED outcome,
           \A c \in Commands : Advance(c)
    PROVE  ReportInv'
<1>0. PICK m : m = Head(agentOut[i])
  OBVIOUS
<1>1. /\ agentOut \in [Instances -> Seq(StatusMessages)]
      /\ agentOut[i] \in Seq(StatusMessages) /\ agentOut[i] # <<>>
      /\ reports \in Seq(StatusMessages)
      /\ agentOut' = [agentOut EXCEPT ![i] = Tail(@)]
      /\ reports' = Append(reports, m) \/ reports' = reports
  BY <1>0 DEF RouteReport, Layers, Typed, BrokerTypeOK
<1>2. /\ m \in Elems(agentOut[i]) /\ m \in StatusMessages
      /\ Elems(Tail(agentOut[i])) \subseteq Elems(agentOut[i])
  BY <1>0, <1>1, QueueTail
<1>3. Elems(reports') \subseteq Elems(reports) \cup {m}
  BY <1>1, <1>2, QueueAppend
<1>4. \A j \in Instances : Elems(agentOut'[j]) \subseteq Elems(agentOut[j])
  BY <1>1, <1>2
<1>5. DoneStays
  BY DEF DoneStays
<1>6. ASSUME NEW r, Truthful(r) PROVE Truthful(r)'
  BY <1>5, <1>6, TruthfulStays DEF Truthful
<1>7. TransitInv'
  BY <1>2, <1>3, <1>4, <1>6 DEF ReportInv, TransitInv, storeVars, controlVars
<1>8. OutcomeJustified'
  BY DEF ReportInv, OutcomeJustified, storeVars
<1>9. MovedInv'
  BY MovedStays DEF ReportInv, MovedInv, storeVars
<1> QED
  BY <1>7, <1>8, <1>9 DEF ReportInv

\* The fifth: docker compose returns, and the agent writes its report.
LEMMA ReportWritten ==
    ASSUME Layers, ReportInv, NEW i \in Instances, NEW m \in running[i],
           NEW ok \in BOOLEAN, ComposeReturns(i, m, ok),
           UNCHANGED storeVars, UNCHANGED controlVars,
           \A c \in Commands : Advance(c), DoneStays
    PROVE  ReportInv'
<1>0. PICK r : r = Report(m, ok, i)
  OBVIOUS
<1>1. /\ agentOut \in [Instances -> Seq(StatusMessages)]
      /\ agentOut[i] \in Seq(StatusMessages)
      /\ agentOut' = [agentOut EXCEPT ![i] = Append(@, r)]
      /\ outcome' = [outcome EXCEPT ![m.command_id] =
                         IF ok THEN "ok" ELSE "error"]
      /\ outcome \in [Commands -> {"none", "started", "ok", "error"}]
      /\ UNCHANGED reports
  BY <1>0 DEF ComposeReturns, Layers, Typed, BrokerTypeOK, AgentTypeOK
<1>2. /\ Genuine(m) /\ m.instance_id = i
  BY DEF Layers, OnceInv, RunInv
<1>3. Truthful(r)'
  <2>1. /\ r.command_id = m.command_id /\ m.command_id \in Commands
        /\ r.instance_id = i /\ r.type = m.type
        /\ r.status = IF ok THEN "completed" ELSE "failed"
    BY <1>0, <1>2 DEF Report, ReportedStatus, Genuine
  <2>2. /\ Genuine(m)'
        /\ m.instance_id = orders'[m.command_id].instance_id
        /\ m.type = orders'[m.command_id].type
    <3>1. Genuine(m)'
      BY <1>2, GenuineStays DEF Genuine
    <3> QED
      BY <3>1 DEF Genuine, CommandMessage
  <2>3. outcome'[m.command_id] = IF ok THEN "ok" ELSE "error"
    BY <1>1, <2>1
  <2> QED
    BY <1>2, <2>1, <2>2, <2>3 DEF Truthful, Genuine
<1>4. ASSUME NEW j \in Instances, NEW n \in Elems(agentOut'[j])
      PROVE  n \in Elems(agentOut[j]) \/ n = r
  <2>1. CASE j = i
    <3>1. agentOut'[i] = Append(agentOut[i], r)
      BY <1>1
    <3>2. agentOut[i] \in Seq(StatusMessages \cup {r})
      BY <1>1
    <3>3. r \in StatusMessages \cup {r}
      OBVIOUS
    <3> QED
      BY <1>4, <2>1, <3>1, <3>2, <3>3, QueueAppend
  <2>2. CASE j # i
    BY <1>1, <1>4, <2>2
  <2> QED
    BY <2>1, <2>2
<1>5. ASSUME NEW n, Truthful(n) PROVE Truthful(n)'
  BY <1>5, TruthfulStays DEF Truthful
<1>6. TransitInv'
  BY <1>1, <1>3, <1>4, <1>5
  DEF ReportInv, TransitInv, storeVars, controlVars
<1>7. OutcomeJustified'
  BY DEF ReportInv, OutcomeJustified, storeVars, DoneStays, Executed
<1>8. MovedInv'
  BY MovedStays DEF ReportInv, MovedInv, storeVars
<1> QED
  BY <1>6, <1>7, <1>8 DEF ReportInv

LEMMA ReportNext ==
    ASSUME Layers, ReportInv, [Next]_vars
    PROVE  ReportInv'
<1>0. /\ Typed
      /\ \A c \in Commands : Advance(c)
      /\ DoneStays
  BY StatusNext, DoneNext DEF Layers, Layer1
<1>1. CASE Quiet
  BY <1>0, <1>1, QuietStep
<1>2. CASE ControlStep
  BY <1>0, <1>1, <1>2, QuietControlStep, ReportHandled, WorkloadFlipped,
     CommandsSwept
  DEF ControlStep, agentVars
<1>3. CASE BrokerStep
  BY <1>0, <1>1, <1>3, QuietAway, ReportRouted
  DEF BrokerStep, RouteCommand, agentVars, storeVars, controlVars
<1>4. ASSUME NEW i \in Instances, NEW m \in running[i], NEW ok \in BOOLEAN,
             ComposeReturns(i, m, ok), AgentStep
      PROVE  ReportInv'
  BY <1>0, <1>4, ReportWritten DEF AgentStep
<1>5. CASE AgentStep
  BY <1>1, <1>4, <1>5, QuietAway
  DEF AgentStep, AgentStart, AgentReceive, ComposeSucceeds, ComposeFails,
      AgentReconnects, Reattach, storeVars, controlVars
<1>6. CASE Fault
  BY <1>0, <1>1, <1>6, QuietControlFault, QuietOutsideFault DEF Fault
<1>7. CASE UNCHANGED vars
  BY <1>1, <1>7, QuietAway DEF vars, storeVars, brokerVars, controlVars
<1> QED
  BY <1>2, <1>3, <1>5, <1>6, <1>7 DEF Next, Step

LEMMA ReportInit == Init => ReportInv
BY QueueEmpty
DEF Init, StoreInit, BrokerInit, ControlInit, ReportInv, TransitInv,
    OutcomeJustified, MovedInv

\* A terminal status is earned: completed if docker compose succeeded on the
\* worker, failed if it raised or the sweeper gave the command up.
THEOREM OutcomesAreJustified == Spec => []OutcomeJustified
<1>1. ReportInv => OutcomeJustified
  BY DEF ReportInv
<1> QED
  BY <1>1, LayersInit, LayersNext, ReportInit, ReportNext, PTL DEF Spec

\* The workload state an instance shows is the one a completed command of that
\* instance asked for: StatusHandler moves it for no other reason.
THEOREM WorkloadIsEarned == Spec => []OnlyCompletionsMoveWorkload
<1>1. Layers /\ ReportInv => OnlyCompletionsMoveWorkload
  <2> SUFFICES ASSUME Layers, ReportInv, NEW i \in Instances,
                      workload[i] # "unknown"
               PROVE  \E c \in CommandsOf(i) :
                          /\ status[c] = "completed"
                          /\ workload[i] = StateOf(orders[c].type)
    BY DEF OnlyCompletionsMoveWorkload
  <2>1. PICK c \in Commands : /\ Sent(c)
                              /\ orders[c].instance_id = i
                              /\ status[c] = "completed"
                              /\ workload[i] = StateOf(orders[c].type)
    BY DEF ReportInv, MovedInv
  <2>2. c \in CommandsOf(i)
    BY <2>1
    DEF CommandsOf, Issued, Sent, Commands, Layers, Typed, ControlTypeOK
  <2> QED
    BY <2>1, <2>2
<1> QED
  BY <1>1, LayersInit, LayersNext, ReportInit, ReportNext, PTL DEF Spec
=============================================================================
