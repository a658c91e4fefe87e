------------------------- MODULE CommandLoopProofs --------------------------
(* Theorems of CommandLoop, for any instances, tokens, number of commands   *)
(* and number of faults, and whether or not a flip may be lost.             *)
EXTENDS CommandLoop, SequenceTheorems, TLAPS

-----------------------------------------------------------------------------
(* Queues                                                                   *)

\* What a broken connection leaves of a queue is a queue.
LEMMA DropType ==
    ASSUME NEW S, NEW q \in Seq(S), NEW n \in 0 .. Len(q)
    PROVE  DropFront(q, n) \in Seq(S) /\ DropBack(q, n) \in Seq(S)
<1>1. Len(q) \in Nat /\ \A k \in 1 .. Len(q) : q[k] \in S
  BY LenProperties
<1>2. SubSeq(q, n + 1, Len(q)) \in Seq(S)
  BY <1>1, SubSeqProperties
<1>3. SubSeq(q, 1, Len(q) - n) \in Seq(S)
  BY <1>1, SubSeqProperties
<1> QED
  BY <1>2, <1>3 DEF DropFront, DropBack

\* A family of queues stays one when a queue of it gets a new element.
LEMMA AppendType ==
    ASSUME NEW S, NEW T, NEW f \in [T -> Seq(S)], NEW t \in T, NEW e \in S
    PROVE  [f EXCEPT ![t] = Append(@, e)] \in [T -> Seq(S)]
OBVIOUS

-----------------------------------------------------------------------------
(* Type correctness                                                         *)

\* Only commands that were issued have a request in progress; the type of a
\* published message depends on it.
DispatchIssued == \A c \in Commands : dispatch[c] # "idle" => c <= Len(orders)

\* A step that leaves the variables of a component alone keeps its type.
LEMMA StoreUnchanged == StoreTypeOK /\ UNCHANGED storeVars => StoreTypeOK'
BY DEF StoreTypeOK, storeVars

LEMMA BrokerUnchanged == BrokerTypeOK /\ UNCHANGED brokerVars => BrokerTypeOK'
BY DEF BrokerTypeOK, brokerVars

LEMMA ControlUnchanged ==
    ControlTypeOK /\ UNCHANGED controlVars => ControlTypeOK'
BY DEF ControlTypeOK, controlVars

LEMMA AgentUnchanged == AgentTypeOK /\ UNCHANGED agentVars => AgentTypeOK'
BY DEF AgentTypeOK, agentVars

Typed ==
    /\ StoreTypeOK
    /\ BrokerTypeOK
    /\ ControlTypeOK
    /\ AgentTypeOK
    /\ DispatchIssued

\* The steps of a request are well typed.
LEMMA RequestType ==
    ASSUME Typed, Request, UNCHANGED agentVars
    PROVE  Typed'
<1> USE BoundAssumption
<1>0. AgentTypeOK'
  BY AgentUnchanged DEF Typed
<1>1. ASSUME NEW i \in Instances, NEW type \in CommandType,
             IssueCommand(i, type)
      PROVE  Typed'
  <2>1. StoreTypeOK' /\ BrokerTypeOK'
    BY <1>1, StoreUnchanged, BrokerUnchanged DEF Typed, IssueCommand
  <2>2. /\ orders' \in Seq(Order)
        /\ Len(orders') = Len(orders) + 1
        /\ Len(orders) + 1 \in Commands
    BY <1>1 DEF Typed, ControlTypeOK, IssueCommand, Order, Commands
  <2>3. ControlTypeOK'
    BY <1>1, <2>2
    DEF Typed, ControlTypeOK, IssueCommand, DispatchSteps, Commands
  <2>4. DispatchIssued'
    BY <1>1, <2>2
    DEF Typed, ControlTypeOK, DispatchIssued, IssueCommand, Commands
  <2> QED BY <1>0, <2>1, <2>3, <2>4 DEF Typed
<1>2. ASSUME NEW c \in Commands, SavePending(c)
      PROVE  Typed'
  BY <1>0, <1>2, BrokerUnchanged
  DEF Typed, StoreTypeOK, ControlTypeOK, SavePending, InsertPending,
      DispatchSteps, DispatchIssued
<1>3. ASSUME NEW c \in Commands, Publish(c)
      PROVE  Typed'
  <2>1. c \in 1 .. Len(orders)
    BY <1>3 DEF Typed, Publish, ReadyToPublish, DispatchIssued, Commands
  <2>2. orders[c] \in Order
    BY <2>1 DEF Typed, ControlTypeOK
  <2>3. RowToken[orders[c].instance_id] \in Tokens \cup {NoToken}
    BY <2>2, TokensAssumption DEF Order
  <2>4. CommandMessage(c) \in CommandMessages
    BY <2>2, <2>3 DEF CommandMessage, CommandMessages, Order
  <2>5. BrokerTypeOK'
    BY <1>3, <2>4 DEF Typed, BrokerTypeOK, Publish
  <2> QED
    BY <1>0, <1>3, <2>5, StoreUnchanged
    DEF Typed, ControlTypeOK, Publish, ReadyToPublish, DispatchSteps,
        DispatchIssued
<1>4. ASSUME NEW c \in Commands, ProbeNoResponders(c)
      PROVE  Typed'
  BY <1>0, <1>4, StoreUnchanged
  DEF Typed, BrokerTypeOK, ControlTypeOK, ProbeNoResponders, DispatchSteps,
      Answers, DeliveryHint, DispatchIssued
<1>5. ASSUME NEW c \in Commands, ProbeTimeout(c)
      PROVE  Typed'
  BY <1>0, <1>5, StoreUnchanged, BrokerUnchanged
  DEF Typed, ControlTypeOK, ProbeTimeout, AfterProbeTimeout, DispatchSteps,
      Answers, DeliveryHint, DispatchIssued
<1> QED
  BY <1>1, <1>2, <1>3, <1>4, <1>5 DEF Request

\* So are the other steps of the control plane: the report handler, the
\* sweeper, the clock, start-up and reconnection.
LEMMA ControlStepType ==
    ASSUME Typed, ControlStep
    PROVE  Typed'
<1>0. AgentTypeOK' /\ UNCHANGED agentVars
  BY AgentUnchanged DEF Typed, ControlStep
<1>1. CASE Request
  BY <1>0, <1>1, RequestType
<1>2. CASE HandleReport
  <2> DEFINE m == Head(reports)
  <2>1. m \in StatusMessages /\ Tail(reports) \in Seq(StatusMessages)
    BY <1>2 DEF Typed, BrokerTypeOK, HandleReport
  <2>2. m.status \in Terminal
    BY <2>1 DEF StatusMessages
  <2>3. StoreTypeOK'
    BY <1>2, <2>2, StoreUnchanged
    DEF Typed, StoreTypeOK, HandleReport, CompleteIfPending
  <2>4. BrokerTypeOK'
    BY <1>2, <2>1 DEF Typed, BrokerTypeOK, HandleReport
  <2>5. ControlTypeOK' /\ DispatchIssued'
    BY <1>2, <2>1 DEF Typed, ControlTypeOK, HandleReport, DispatchIssued
  <2> QED
    BY <1>0, <2>3, <2>4, <2>5 DEF Typed
<1>3. CASE FlipWorkload
  <2>1. StoreTypeOK'
    BY <1>3
    DEF Typed, StoreTypeOK, FlipWorkload, UpdateWorkloadState, StateOf,
        WorkloadState
  <2> QED
    BY <1>0, <1>3, <2>1, BrokerUnchanged
    DEF Typed, ControlTypeOK, FlipWorkload, DispatchIssued
<1>4. CASE Expire
  BY <1>0, <1>4, StoreUnchanged, BrokerUnchanged
  DEF Typed, ControlTypeOK, Expire, DispatchIssued
<1>5. CASE Sweep
  <2>1. StoreTypeOK'
    BY <1>5 DEF Typed, StoreTypeOK, Sweep, FailPending, Terminal
  <2> QED
    BY <1>0, <1>5, <2>1, BrokerUnchanged, ControlUnchanged
    DEF Typed, Sweep, DispatchIssued, controlVars
<1>6. CASE ControlStart
  BY <1>0, <1>6, StoreUnchanged, BrokerUnchanged
  DEF Typed, BrokerTypeOK, ControlTypeOK, ControlStart, ControlConnect,
      ControlSubscribe, ControlServe, Phases, Clients, DispatchIssued
<1>7. CASE ControlReconnects
  BY <1>0, <1>7, StoreUnchanged, ControlUnchanged
  DEF Typed, BrokerTypeOK, ControlReconnects, Reattach, Clients,
      DispatchIssued, controlVars
<1> QED
  BY <1>1, <1>2, <1>3, <1>4, <1>5, <1>6, <1>7 DEF ControlStep

\* And the steps of the agents.
LEMMA AgentStepType ==
    ASSUME Typed, AgentStep
    PROVE  Typed'
<1>0. StoreTypeOK' /\ ControlTypeOK' /\ DispatchIssued'
  BY StoreUnchanged, ControlUnchanged
  DEF Typed, AgentStep, DispatchIssued, controlVars
<1>1. PICK i \in Instances :
          \/ AgentStart(i)
          \/ AgentReceive(i)
          \/ ComposeSucceeds(i)
          \/ ComposeFails(i)
          \/ AgentReconnects(i)
  BY DEF AgentStep
<1>2. CASE AgentStart(i)
  BY <1>0, <1>2, AgentUnchanged DEF Typed, BrokerTypeOK, AgentStart, Clients
<1>3. CASE AgentReceive(i)
  <2> DEFINE m == Head(inbox[i])
  <2>1. m \in CommandMessages /\ Tail(inbox[i]) \in Seq(CommandMessages)
    BY <1>3 DEF Typed, BrokerTypeOK, AgentReceive
  <2>2. BrokerTypeOK'
    BY <1>3, <2>1 DEF Typed, BrokerTypeOK, AgentReceive
  <2>3. AgentTypeOK'
    BY <1>3, <2>1 DEF Typed, AgentTypeOK, AgentReceive, CommandMessages
  <2> QED
    BY <1>0, <2>2, <2>3 DEF Typed
<1>4. ASSUME NEW m \in running[i], NEW ok \in BOOLEAN, ComposeReturns(i, m, ok)
      PROVE  Typed'
  <2>1. m \in CommandMessages
    BY DEF Typed, AgentTypeOK
  <2>2. AgentToken[i] \in Tokens \cup {NoToken}
    BY TokensAssumption
  <2>3. Report(m, ok, i) \in StatusMessages
    BY <2>1, <2>2
    DEF Report, ReportedStatus, StatusMessages, CommandMessages, Terminal
  <2>4. BrokerTypeOK'
    BY <1>4, <2>3 DEF Typed, BrokerTypeOK, ComposeReturns
  <2>5. AgentTypeOK'
    BY <1>4, <2>1
    DEF Typed, AgentTypeOK, ComposeReturns, StateOf, WorkloadState
  <2> QED
    BY <1>0, <2>4, <2>5 DEF Typed
<1>5. CASE AgentReconnects(i)
  BY <1>0, <1>5, AgentUnchanged
  DEF Typed, BrokerTypeOK, AgentReconnects, Reattach, Clients
<1> QED
  BY <1>1, <1>2, <1>3, <1>4, <1>5 DEF ComposeSucceeds, ComposeFails

\* And the steps of the broker.
LEMMA BrokerStepType ==
    ASSUME Typed, BrokerStep
    PROVE  Typed'
<1>0. StoreTypeOK' /\ ControlTypeOK' /\ AgentTypeOK' /\ DispatchIssued'
  BY StoreUnchanged, ControlUnchanged, AgentUnchanged
  DEF Typed, BrokerStep, DispatchIssued, controlVars
<1>1. CASE RouteCommand
  <2> DEFINE m == Head(ctlOut)
  <2>1. m \in CommandMessages /\ Tail(ctlOut) \in Seq(CommandMessages)
    BY <1>1 DEF Typed, BrokerTypeOK, RouteCommand
  <2>2. m.instance_id \in Instances /\ m.command_id \in Commands
    BY <2>1 DEF CommandMessages
  <2>3. inbox' \in [Instances -> Seq(CommandMessages)]
    <3> DEFINE i == m.instance_id
    <3>1. inbox' = inbox \/ inbox' = [inbox EXCEPT ![i] = Append(@, m)]
      BY <1>1 DEF RouteCommand
    <3>2. inbox \in [Instances -> Seq(CommandMessages)] /\ i \in Instances
      BY <2>2 DEF Typed, BrokerTypeOK
    <3> HIDE DEF m, i
    <3>3. [inbox EXCEPT ![i] = Append(@, m)]
              \in [Instances -> Seq(CommandMessages)]
      BY <2>1, <3>2, AppendType
    <3> QED
      BY <3>1, <3>2, <3>3
  <2>4. unheard' \in SUBSET Commands
    BY <1>1, <2>2 DEF Typed, BrokerTypeOK, RouteCommand
  <2> QED
    BY <1>0, <1>1, <2>1, <2>3, <2>4 DEF Typed, BrokerTypeOK, RouteCommand
<1>2. ASSUME NEW i \in Instances, RouteReport(i)
      PROVE  Typed'
  <2>1. /\ Head(agentOut[i]) \in StatusMessages
        /\ Tail(agentOut[i]) \in Seq(StatusMessages)
    BY <1>2 DEF Typed, BrokerTypeOK, RouteReport
  <2> QED
    BY <1>0, <1>2, <2>1 DEF Typed, BrokerTypeOK, RouteReport
<1> QED
  BY <1>1, <1>2 DEF BrokerStep

\* And every fault.
LEMMA FaultType ==
    ASSUME Typed, ControlFault \/ AgentFault \/ LinkFault
    PROVE  Typed'
<1>1. CASE ControlFault
  <2>0. AgentTypeOK'
    BY <1>1, AgentUnchanged DEF Typed, ControlFault
  <2>1. ASSUME NEW c \in Commands, SaveFails(c)
        PROVE  Typed'
    BY <2>0, <2>1, BrokerUnchanged, StoreUnchanged
    DEF Typed, StoreTypeOK, ControlTypeOK, SaveFails, InsertPending,
        DispatchSteps, Answers, DispatchIssued
  <2>2. ASSUME NEW c \in Commands, PublishFails(c)
        PROVE  Typed'
    BY <2>0, <2>2, BrokerUnchanged, StoreUnchanged
    DEF Typed, ControlTypeOK, PublishFails, ReadyToPublish, DispatchSteps,
        Answers, DeliveryHint, DispatchIssued
  <2>3. CASE ReportFails
    BY <2>0, <2>3, StoreUnchanged, ControlUnchanged
    DEF Typed, BrokerTypeOK, ReportFails, DispatchIssued, controlVars
  <2>4. CASE FlipFails
    BY <2>0, <2>4, StoreUnchanged, BrokerUnchanged
    DEF Typed, ControlTypeOK, FlipFails, DispatchIssued
  <2>5. CASE ControlStop
    <3>1. BrokerTypeOK'
      BY <2>5, DropType DEF Typed, BrokerTypeOK, ControlStop
    <3>2. ControlTypeOK' /\ DispatchIssued'
      BY <2>5
      DEF Typed, ControlTypeOK, ControlStop, Unanswered, DispatchSteps,
          Answers, Phases, DispatchIssued
    <3> QED
      BY <2>0, <2>5, <3>1, <3>2, StoreUnchanged DEF Typed, ControlStop
  <2> QED
    BY <1>1, <2>1, <2>2, <2>3, <2>4, <2>5 DEF ControlFault
<1>2. CASE AgentFault
  <2>0. StoreTypeOK' /\ ControlTypeOK' /\ DispatchIssued'
    BY <1>2, StoreUnchanged, ControlUnchanged
    DEF Typed, AgentFault, DispatchIssued, controlVars
  <2>1. PICK i \in Instances : AgentStop(i)
    BY <1>2 DEF AgentFault
  <2>2. PICK n \in 0 .. Len(agentOut[i]) :
            agentOut' = [agentOut EXCEPT ![i] = DropBack(@, n)]
    BY <2>1 DEF AgentStop
  <2>3. DropBack(agentOut[i], n) \in Seq(StatusMessages)
    BY DropType DEF Typed, BrokerTypeOK
  <2>4. BrokerTypeOK'
    BY <2>1, <2>2, <2>3 DEF Typed, BrokerTypeOK, AgentStop
  <2>5. AgentTypeOK'
    BY <2>1 DEF Typed, AgentTypeOK, AgentStop, WorkloadState
  <2> QED
    BY <2>0, <2>4, <2>5 DEF Typed
<1>3. CASE LinkFault
  <2>0. StoreTypeOK' /\ ControlTypeOK' /\ AgentTypeOK' /\ DispatchIssued'
    BY <1>3, StoreUnchanged, ControlUnchanged, AgentUnchanged
    DEF Typed, LinkFault, DispatchIssued, controlVars
  <2>1. CASE DetachControl
    BY <2>0, <2>1, DropType DEF Typed, BrokerTypeOK, DetachControl
  <2>2. ASSUME NEW i \in Instances, DetachAgent(i)
        PROVE  Typed'
    <3>1. PICK n \in 0 .. Len(agentOut[i]) :
              agentOut' = [agentOut EXCEPT ![i] = DropFront(@, n)]
      BY <2>2 DEF DetachAgent
    <3>2. PICK k \in 0 .. Len(inbox[i]) :
              inbox' = [inbox EXCEPT ![i] = DropBack(@, k)]
      BY <2>2 DEF DetachAgent
    <3>3. /\ DropFront(agentOut[i], n) \in Seq(StatusMessages)
          /\ DropBack(inbox[i], k) \in Seq(CommandMessages)
      BY DropType DEF Typed, BrokerTypeOK
    <3> QED
      BY <2>0, <2>2, <3>1, <3>2, <3>3 DEF Typed, BrokerTypeOK, DetachAgent
  <2> QED
    BY <1>3, <2>1, <2>2 DEF LinkFault
<1> QED
  BY <1>1, <1>2, <1>3

\* What holds initially is well typed, and every step keeps it so.
LEMMA InitType == Init => Typed
BY BoundAssumption
DEF Init, StoreInit, BrokerInit, ControlInit, AgentInit, Typed, StoreTypeOK,
    BrokerTypeOK, ControlTypeOK, AgentTypeOK, Phases, DispatchSteps, Order,
    WorkloadState, DispatchIssued

LEMMA NextType == Typed /\ [Next]_vars => Typed'
<1> SUFFICES ASSUME Typed, [Next]_vars PROVE Typed'
  OBVIOUS
<1>1. CASE Step
  BY <1>1, ControlStepType, AgentStepType, BrokerStepType DEF Step
<1>2. CASE Fault
  BY <1>2, FaultType DEF Fault
<1>3. CASE UNCHANGED vars
  BY <1>3, StoreUnchanged, BrokerUnchanged, ControlUnchanged, AgentUnchanged
  DEF Typed, vars, DispatchIssued, controlVars
<1> QED
  BY <1>1, <1>2, <1>3 DEF Next

\* Every variable keeps its type in every behaviour.
THEOREM TypeCorrect == Spec => []TypeOK
<1>1. Init => Typed /\ faultsLeft \in 0 .. MaxFaults
  BY InitType, FaultsAssumption DEF Init
<1>2. /\ Typed /\ faultsLeft \in 0 .. MaxFaults
      /\ [Next]_vars
      => (Typed /\ faultsLeft \in 0 .. MaxFaults)'
  <2> SUFFICES ASSUME Typed, faultsLeft \in 0 .. MaxFaults, [Next]_vars
               PROVE  Typed' /\ faultsLeft' \in 0 .. MaxFaults
    OBVIOUS
  <2>1. faultsLeft' \in 0 .. MaxFaults
    BY FaultsAssumption DEF Next, Step, Fault, vars
  <2> QED
    BY <2>1, NextType
<1>3. Typed /\ faultsLeft \in 0 .. MaxFaults => TypeOK
  BY DEF Typed, TypeOK
<1> QED
  BY <1>1, <1>2, <1>3, PTL DEF Spec
=============================================================================
