------------------------- MODULE CommandLedgerProofs --------------------------
(* The command loop implements CommandLedger, for any constants, as long as *)
(* no fault separates the two UPDATEs of a report; what an operator may     *)
(* conclude from the ledger holds of the loop; and reports arrive, in the   *)
(* order in which the workers wrote them.                                   *)
EXTENDS CommandLoopSafety

-----------------------------------------------------------------------------
(* The mapping                                                              *)

\* The ledger speaks the same protocol.
LEMMA SameProtocol ==
    /\ Ledger!Commands = Commands
    /\ Ledger!Requests = Order
    /\ Ledger!TIMEOUT_FAILURE_REASON = TIMEOUT_FAILURE_REASON
    /\ \A type : Ledger!StateOf(type) = StateOf(type)
BY DEF Ledger!Commands, Commands, Ledger!Requests, Order,
       Ledger!CommandType, CommandType, Ledger!TIMEOUT_FAILURE_REASON,
       TIMEOUT_FAILURE_REASON, Ledger!StateOf, StateOf

\* The accepted commands, as the refinement maps them.
AcceptedRequests ==
    [c \in Commands |-> IF status[c] = "none" THEN {} ELSE {orders[c]}]

\* The handler has at most one flip to do: it handles one report at a time.
OneFlip == flipping = {} \/ \E m \in flipping : flipping = {m}

\* The workload states when the flips of S are counted as done.
SettleOf(S, w) ==
    [i \in Instances |->
        IF \E m \in S : m.instance_id = i
        THEN StateOf((CHOOSE m \in S : m.instance_id = i).type)
        ELSE w[i]]

LEMMA SettleNone ==
    ASSUME NEW w \in [Instances -> WorkloadState]
    PROVE  SettleOf({}, w) = w
BY DEF SettleOf

LEMMA SettleOne ==
    ASSUME NEW w \in [Instances -> WorkloadState], NEW m,
           m.instance_id \in Instances
    PROVE  SettleOf({m}, w) = [w EXCEPT ![m.instance_id] = StateOf(m.type)]
<1>1. ASSUME NEW i \in Instances, m.instance_id = i
      PROVE  (CHOOSE n \in {m} : n.instance_id = i) = m
  BY <1>1
<1>2. ASSUME NEW i \in Instances
      PROVE  SettleOf({m}, w)[i]
                 = [w EXCEPT ![m.instance_id] = StateOf(m.type)][i]
  <2>1. CASE m.instance_id = i
    BY <1>1, <2>1 DEF SettleOf
  <2>2. CASE m.instance_id # i
    BY <2>2 DEF SettleOf
  <2> QED
    BY <2>1, <2>2
<1> QED
  BY <1>2 DEF SettleOf

\* A command that has a row stays the one that was issued.
RowsKept ==
    \A c \in Commands : status[c] # "none" =>
        /\ c \in 1 .. Len(orders)
        /\ orders'[c] = orders[c]

LEMMA RowsAreKept ==
    ASSUME Typed, StatusInv, [Next]_vars
    PROVE  RowsKept
<1>1. ASSUME NEW c \in Commands, status[c] # "none"
      PROVE  c \in 1 .. Len(orders)
  BY <1>1 DEF Typed, StatusInv, DispatchIssued, ControlTypeOK, Commands
<1>2. CASE UNCHANGED orders
  BY <1>1, <1>2 DEF RowsKept
<1>3. ASSUME NEW i \in Instances, NEW type \in CommandType,
             IssueCommand(i, type)
      PROVE  RowsKept
  <2>1. \A c \in 1 .. Len(orders) : orders'[c] = orders[c]
    BY <1>3 DEF IssueCommand, Typed, ControlTypeOK, Order
  <2> QED
    BY <1>1, <2>1 DEF RowsKept
<1>4. CASE ControlStep
  <2>1. CASE Request
    BY <1>2, <1>3, <2>1
    DEF Request, SavePending, Publish, ProbeNoResponders, ProbeTimeout
  <2>2. CASE ~Request
    BY <1>2, <1>4, <2>2
    DEF ControlStep, HandleReport, FlipWorkload, Expire, Sweep, ControlStart,
        ControlConnect, ControlSubscribe, ControlServe, ControlReconnects,
        controlVars
  <2> QED
    BY <2>1, <2>2
<1>5. CASE ControlFault
  BY <1>2, <1>5
  DEF ControlFault, SaveFails, PublishFails, ReportFails, FlipFails,
      ControlStop, controlVars
<1>6. CASE AgentStep \/ BrokerStep \/ AgentFault \/ LinkFault \/ UNCHANGED vars
  BY <1>2, <1>6
  DEF AgentStep, BrokerStep, AgentFault, LinkFault, vars, controlVars
<1> QED
  BY <1>4, <1>5, <1>6 DEF Next, Step, Fault

\* A step that neither saves nor settles a command is no step of the ledger.
LEMMA LedgerStutters ==
    ASSUME RowsKept, UNCHANGED <<status, failure_reason>>,
           SettledWorkload' = SettledWorkload
    PROVE  UNCHANGED Ledger!ledger
BY DEF RowsKept, Ledger!ledger

LEMMA LedgerRests ==
    ASSUME RowsKept, UNCHANGED storeVars, UNCHANGED flipping
    PROVE  UNCHANGED Ledger!ledger
BY LedgerStutters DEF SettledWorkload, storeVars

-----------------------------------------------------------------------------
(* The steps of the ledger                                                  *)

\* The INSERT of a row, whether or not its reply arrives, accepts a command.
LEMMA SaveAccepts ==
    ASSUME Typed, StatusInv, RowsKept, NEW c \in Commands,
           dispatch[c] = "saving", InsertPending(c), UNCHANGED orders,
           UNCHANGED flipping
    PROVE  \E r \in Ledger!Requests : Ledger!Accept(c, r)
<1>1. c \in 1 .. Len(orders)
  BY DEF Typed, DispatchIssued, ControlTypeOK, Commands
<1>2. PICK r \in Ledger!Requests : r = orders[c]
  BY <1>1, SameProtocol DEF Typed, ControlTypeOK
<1>3. /\ status[c] = "none"
      /\ status' = [status EXCEPT ![c] = "pending"]
      /\ status \in [Commands -> {"none", "pending"} \cup Terminal]
      /\ UNCHANGED <<failure_reason, workload>>
  BY DEF StatusInv, InsertPending, Typed, StoreTypeOK
<1>4. AcceptedRequests' = [AcceptedRequests EXCEPT ![c] = {r}]
  BY <1>2, <1>3 DEF AcceptedRequests
<1>5. SettledWorkload' = SettledWorkload
  BY <1>3 DEF SettledWorkload
<1>6. Ledger!Accept(c, r)
  BY <1>3, <1>4, <1>5 DEF Ledger!Accept, AcceptedRequests
<1> QED
  BY <1>6

\* A report that finds its command pending completes it together with the
\* flip that is still to come, or fails it.
LEMMA ReportSettles ==
    ASSUME Layers, ReportInv, RowsKept, HandleReport
    PROVE  /\ \/ \E c \in Commands : Ledger!Complete(c) \/ Ledger!Fail(c)
              \/ UNCHANGED Ledger!ledger
           /\ OneFlip'
<1>0. PICK m : m = Head(reports)
  OBVIOUS
<1>1. /\ Truthful(m) /\ m.status \in Terminal /\ m.command_id \in Commands
      /\ m.instance_id \in Instances
  <2>1. reports # <<>> /\ reports \in Seq(StatusMessages)
    BY DEF HandleReport, Layers, Typed, BrokerTypeOK
  <2>2. m \in Elems(reports) /\ m \in StatusMessages
    BY <1>0, <2>1, QueueTail
  <2> QED
    BY <2>2 DEF StatusMessages, ReportInv, TransitInv
<1>2. /\ flipping = {}
      /\ UNCHANGED orders
      /\ \/ UNCHANGED storeVars /\ UNCHANGED flipping
         \/ /\ status[m.command_id] = "pending"
            /\ status' = [status EXCEPT ![m.command_id] = m.status]
            /\ UNCHANGED <<failure_reason, workload>>
            /\ flipping' = IF m.status = "completed" THEN {m} ELSE {}
  BY <1>0
  DEF HandleReport, HandlerIsIdle, CompleteIfPending, IsPending, FlipsWorkload
<1>3. /\ status \in [Commands -> {"none", "pending"} \cup Terminal]
      /\ workload \in [Instances -> WorkloadState]
  BY DEF Layers, Typed, StoreTypeOK
<1>4. SettledWorkload = workload
  <2>1. SettledWorkload = SettleOf({}, workload)
    BY <1>2 DEF SettledWorkload, SettleOf
  <2> QED
    BY <1>3, <2>1, SettleNone
<1>5. CASE UNCHANGED storeVars /\ UNCHANGED flipping
  BY <1>2, <1>5, LedgerRests DEF OneFlip
<1>6. CASE /\ status[m.command_id] = "pending"
           /\ status' = [status EXCEPT ![m.command_id] = m.status]
           /\ UNCHANGED <<failure_reason, workload>>
           /\ flipping' = IF m.status = "completed" THEN {m} ELSE {}
  <2>1. PICK c \in Commands : c = m.command_id
    BY <1>1
  <2>2. AcceptedRequests' = AcceptedRequests
    BY <1>1, <1>2, <1>3, <1>6 DEF AcceptedRequests, Terminal
  <2>3. AcceptedRequests[c] = {orders[c]}
    BY <1>6, <2>1 DEF AcceptedRequests
  <2>4. CASE m.status = "completed"
    <3>1. SettledWorkload' = SettleOf({m}, workload)
      BY <1>6, <2>4 DEF SettledWorkload, SettleOf
    <3>2. SettledWorkload'
              = [workload EXCEPT ![m.instance_id] = StateOf(m.type)]
      BY <1>1, <1>3, <3>1, SettleOne
    <3>3. m.instance_id = orders[c].instance_id /\ m.type = orders[c].type
      BY <1>1, <2>1 DEF Truthful
    <3>4. Ledger!Complete(c)
      BY <1>4, <1>6, <2>1, <2>2, <2>3, <2>4, <3>2, <3>3, SameProtocol
      DEF Ledger!Complete, AcceptedRequests
    <3> QED
      BY <1>6, <2>4, <3>4 DEF OneFlip
  <2>5. CASE m.status = "failed"
    <3>1. SettledWorkload' = SettledWorkload
      BY <1>2, <1>6, <2>5 DEF SettledWorkload
    <3>2. Ledger!Fail(c)
      BY <1>6, <2>1, <2>2, <2>5, <3>1 DEF Ledger!Fail, AcceptedRequests
    <3> QED
      BY <1>6, <2>5, <3>2 DEF OneFlip
  <2> QED
    BY <1>1, <2>4, <2>5 DEF Terminal
<1> QED
  BY <1>2, <1>5, <1>6

\* The second UPDATE was already counted as done.
LEMMA FlipStutters ==
    ASSUME Layers, ReportInv, OneFlip, RowsKept, FlipWorkload
    PROVE  UNCHANGED Ledger!ledger /\ OneFlip'
<1>1. PICK m \in flipping :
          /\ workload' = [workload EXCEPT ![m.instance_id] = StateOf(m.type)]
          /\ flipping' = flipping \ {m}
          /\ UNCHANGED <<status, failure_reason>>
  BY DEF FlipWorkload, UpdateWorkloadState
<1>2. flipping = {m} /\ flipping' = {}
  BY <1>1 DEF OneFlip
<1>3. m.instance_id \in Instances /\ workload \in [Instances -> WorkloadState]
  BY DEF Layers, Typed, StoreTypeOK, ControlTypeOK, StatusMessages
<1>4. workload' \in [Instances -> WorkloadState]
  BY <1>1, <1>3 DEF StateOf, WorkloadState
<1>5. SettledWorkload = [workload EXCEPT ![m.instance_id] = StateOf(m.type)]
  <2>1. SettledWorkload = SettleOf({m}, workload)
    BY <1>2 DEF SettledWorkload, SettleOf
  <2> QED
    BY <1>3, <2>1, SettleOne
<1>6. SettledWorkload' = workload'
  <2>1. SettledWorkload' = SettleOf({}, workload')
    BY <1>2 DEF SettledWorkload, SettleOf
  <2> QED
    BY <1>4, <2>1, SettleNone
<1> QED
  BY <1>1, <1>2, <1>5, <1>6, LedgerStutters DEF OneFlip

\* One sweep times out all the commands it finds.
LEMMA SweepTimesOut ==
    ASSUME Typed, Sweep
    PROVE  \E S \in SUBSET Commands : Ledger!TimeOut(S)
<1>1. PICK S \in SUBSET Commands : S = {c \in Commands : Sweepable(c)}
  OBVIOUS
<1>2. /\ S # {} /\ \A c \in S : status[c] = "pending"
      /\ FailPending(S)
      /\ UNCHANGED <<orders, flipping, workload>>
  BY <1>1 DEF Sweep, Sweepable, FailPending, controlVars
<1>3. AcceptedRequests' = AcceptedRequests
  BY <1>2 DEF AcceptedRequests, FailPending
<1>4. SettledWorkload' = SettledWorkload
  BY <1>2 DEF SettledWorkload
<1>5. Ledger!TimeOut(S)
  BY <1>2, <1>3, <1>4, SameProtocol
  DEF Ledger!TimeOut, AcceptedRequests, FailPending
<1> QED
  BY <1>5

LEMMA LedgerControlStep ==
    ASSUME Layers, ReportInv, OneFlip, RowsKept, ControlStep
    PROVE  [Ledger!Next]_(Ledger!ledger) /\ OneFlip'
<1> USE DEF storeVars, controlVars
<1>1. ASSUME NEW c \in Commands, SavePending(c)
      PROVE  Ledger!Next /\ OneFlip'
  <2>1. \E r \in Ledger!Requests : Ledger!Accept(c, r)
    BY <1>1, SaveAccepts DEF SavePending, Layers
  <2> QED
    BY <1>1, <2>1, SameProtocol DEF Ledger!Next, SavePending, OneFlip
<1>2. CASE Request
  BY <1>1, <1>2, LedgerRests
  DEF Request, IssueCommand, Publish, ProbeNoResponders, ProbeTimeout, OneFlip
<1>3. CASE HandleReport
  BY <1>3, ReportSettles, SameProtocol DEF Ledger!Next
<1>4. CASE FlipWorkload
  BY <1>4, FlipStutters
<1>5. CASE Sweep
  <2>1. Ledger!Next
    BY <1>5, SweepTimesOut, SameProtocol DEF Layers, Ledger!Next
  <2> QED
    BY <1>5, <2>1 DEF Sweep, OneFlip
<1>6. CASE Expire \/ ControlStart \/ ControlReconnects
  BY <1>6, LedgerRests
  DEF Expire, ControlStart, ControlConnect, ControlSubscribe, ControlServe,
      ControlReconnects, OneFlip
<1> QED
  BY <1>2, <1>3, <1>4, <1>5, <1>6 DEF ControlStep

\* A fault that does not separate the two UPDATEs finds no flip to lose.
LEMMA LedgerControlFault ==
    ASSUME FlipMayFail = FALSE, Layers, OneFlip, RowsKept, ControlFault
    PROVE  [Ledger!Next]_(Ledger!ledger) /\ OneFlip'
<1> USE DEF storeVars, controlVars
<1>1. ASSUME NEW c \in Commands, SaveFails(c)
      PROVE  [Ledger!Next]_(Ledger!ledger) /\ OneFlip'
  <2>1. CASE InsertPending(c)
    <3>1. \E r \in Ledger!Requests : Ledger!Accept(c, r)
      BY <1>1, <2>1, SaveAccepts DEF SaveFails, Layers
    <3> QED
      BY <1>1, <3>1, SameProtocol DEF Ledger!Next, SaveFails, OneFlip
  <2>2. CASE UNCHANGED storeVars
    BY <1>1, <2>2, LedgerRests DEF SaveFails, OneFlip
  <2> QED
    BY <1>1, <2>1, <2>2 DEF SaveFails
<1>2. CASE \E c \in Commands : PublishFails(c)
  BY <1>2, LedgerRests DEF PublishFails, OneFlip
<1>3. CASE ReportFails
  BY <1>3, LedgerRests DEF ReportFails, OneFlip
<1>4. CASE FlipIsSafe /\ (FlipFails \/ ControlStop)
  <2>1. flipping = {} /\ flipping' = {} /\ UNCHANGED storeVars
    BY <1>4 DEF FlipIsSafe, FlipFails, ControlStop
  <2> QED
    BY <2>1, LedgerRests DEF OneFlip
<1> QED
  BY <1>1, <1>2, <1>3, <1>4 DEF ControlFault

LEMMA LedgerNext ==
    ASSUME FlipMayFail = FALSE, Layers, ReportInv, OneFlip, [Next]_vars
    PROVE  [Ledger!Next]_(Ledger!ledger) /\ OneFlip'
<1>1. RowsKept
  BY RowsAreKept DEF Layers
<1>2. CASE ControlStep
  BY <1>1, <1>2, LedgerControlStep
<1>3. CASE ControlFault
  BY <1>1, <1>3, LedgerControlFault
<1>4. CASE AgentStep \/ BrokerStep \/ AgentFault \/ LinkFault \/ UNCHANGED vars
  BY <1>1, <1>4, LedgerRests
  DEF AgentStep, BrokerStep, AgentFault, LinkFault, vars, controlVars, OneFlip
<1> QED
  BY <1>2, <1>3, <1>4 DEF Next, Step, Fault

LEMMA LedgerInit == Init => Ledger!Init /\ OneFlip
<1> SUFFICES ASSUME Init PROVE Ledger!Init /\ OneFlip
  OBVIOUS
<1>1. SettledWorkload = [i \in Instances |-> "unknown"]
  BY DEF Init, StoreInit, ControlInit, SettledWorkload
<1> QED
  BY <1>1, SameProtocol DEF Init, StoreInit, ControlInit, Ledger!Init, OneFlip

\* The command loop implements CommandLedger: every command is accepted once
\* and settles once, and the completion of a command and the flip of its
\* workload state look like one step to an operator who counts a flip under
\* way as done.  The hypothesis leaves out only the faults that hit between
\* the two transactions of StatusHandler.handle.
THEOREM LoopKeepsLedger == FlipMayFail = FALSE => (Spec => LedgerSpec)
<1> SUFFICES ASSUME FlipMayFail = FALSE PROVE Spec => LedgerSpec
  OBVIOUS
<1>1. Init => Layers /\ ReportInv /\ OneFlip /\ Ledger!Init
  BY LayersInit, ReportInit, LedgerInit
<1>2. Layers /\ ReportInv /\ OneFlip /\ [Next]_vars =>
          /\ Layers' /\ ReportInv' /\ OneFlip'
          /\ [Ledger!Next]_(Ledger!ledger)
  BY LayersNext, ReportNext, LedgerNext
<1> QED
  BY <1>1, <1>2, PTL DEF Spec, LedgerSpec, Ledger!Spec

-----------------------------------------------------------------------------
(* What the ledger tells about the workload states                          *)

\* If a command of an instance has completed, the instance shows what one of
\* its completed commands asked for.
CompletionIsShown ==
    \A c \in Commands : status[c] = "completed" =>
        \A r \in AcceptedRequests[c] :
            \E d \in Commands :
                /\ status[d] = "completed"
                /\ \E s \in AcceptedRequests[d] :
                       /\ s.instance_id = r.instance_id
                       /\ SettledWorkload[r.instance_id] = StateOf(s.type)

\* Only accepted commands have a request, which names an instance.
LEMMA AcceptedType ==
    ASSUME Typed, StatusInv
    PROVE  /\ AcceptedRequests \in [Commands -> SUBSET Order]
           /\ \A c \in Commands : status[c] = "none" <=> AcceptedRequests[c] = {}
           /\ \A c \in Commands : \A r, s \in AcceptedRequests[c] : r = s
<1>1. ASSUME NEW c \in Commands, status[c] # "none"
      PROVE  orders[c] \in Order
  BY <1>1 DEF Typed, StatusInv, DispatchIssued, ControlTypeOK, Commands
<1> QED
  BY <1>1 DEF AcceptedRequests

\* It follows from the steps of the ledger alone.
LEMMA ShownNext ==
    ASSUME Typed, StatusInv, CompletionIsShown,
           [Ledger!Next]_(Ledger!ledger)
    PROVE  CompletionIsShown'
<1> DEFINE req == AcceptedRequests
           done == SettledWorkload
<1>0. /\ req \in [Commands -> SUBSET Order]
      /\ \A c \in Commands : status[c] = "none" <=> req[c] = {}
      /\ \A c \in Commands : \A r, s \in req[c] : r = s
      /\ status \in [Commands -> {"none", "pending"} \cup Terminal]
      /\ done = [i \in Instances |-> done[i]]
  BY AcceptedType DEF Typed, StoreTypeOK, SettledWorkload
<1>1. CASE UNCHANGED Ledger!ledger
  <2>1. status' = status /\ req' = req /\ done' = done
    BY <1>1 DEF Ledger!ledger, AcceptedRequests
  <2> HIDE DEF req, done
  <2> QED
    BY <2>1 DEF CompletionIsShown, req, done
<1>2. ASSUME \A c \in Commands : status'[c] = "completed" <=>
                                     status[c] = "completed",
             \A c \in Commands : status[c] # "none" => req'[c] = req[c],
             done' = done
      PROVE  CompletionIsShown'
  BY <1>2 DEF CompletionIsShown
<1>3. ASSUME NEW c \in Commands, NEW r \in Order, Ledger!Accept(c, r)
      PROVE  CompletionIsShown'
  <2>1. /\ status[c] = "none"
        /\ status' = [status EXCEPT ![c] = "pending"]
        /\ req' = [req EXCEPT ![c] = {r}]
        /\ done' = done
    BY <1>3 DEF Ledger!Accept, AcceptedRequests
  <2> HIDE DEF req, done
  <2> QED
    BY <1>0, <1>2, <2>1
<1>4. ASSUME NEW c \in Commands, Ledger!Fail(c)
      PROVE  CompletionIsShown'
  <2>1. /\ status[c] = "pending"
        /\ status' = [status EXCEPT ![c] = "failed"]
        /\ req' = req /\ done' = done
    BY <1>4 DEF Ledger!Fail, AcceptedRequests
  <2> HIDE DEF req, done
  <2> QED
    BY <1>0, <1>2, <2>1
<1>5. ASSUME NEW S \in SUBSET Commands, Ledger!TimeOut(S)
      PROVE  CompletionIsShown'
  <2>1. /\ \A c \in S : status[c] = "pending"
        /\ status' = [c \in Commands |->
                          IF c \in S THEN "failed" ELSE status[c]]
        /\ req' = req /\ done' = done
    BY <1>5, SameProtocol DEF Ledger!TimeOut, AcceptedRequests
  <2> HIDE DEF req, done
  <2> QED
    BY <1>0, <1>2, <2>1
<1>6. ASSUME NEW c \in Commands, Ledger!Complete(c)
      PROVE  CompletionIsShown'
  <2>1. /\ status' = [status EXCEPT ![c] = "completed"]
        /\ \E r \in req[c] :
               done' = [done EXCEPT ![r.instance_id] = StateOf(r.type)]
        /\ req' = req
    BY <1>6, SameProtocol DEF Ledger!Complete, AcceptedRequests
  <2> HIDE DEF req, done
  <2>2. PICK r \in req[c] :
            done' = [done EXCEPT ![r.instance_id] = StateOf(r.type)]
    BY <2>1
  <2>3. r.instance_id \in Instances
    BY <1>0 DEF Order
  <2>4. status'[c] = "completed" /\ done'[r.instance_id] = StateOf(r.type)
    BY <1>0, <2>1, <2>2, <2>3
  <2> SUFFICES ASSUME NEW b \in Commands, status'[b] = "completed",
                      NEW q \in req[b]
               PROVE  \E d \in Commands :
                          /\ status'[d] = "completed"
                          /\ \E s \in req[d] :
                                 /\ s.instance_id = q.instance_id
                                 /\ done'[q.instance_id] = StateOf(s.type)
    BY <2>1 DEF CompletionIsShown, req, done
  <2>5. CASE q.instance_id = r.instance_id
    BY <2>2, <2>4, <2>5
  <2>6. CASE q.instance_id # r.instance_id
    <3>1. b # c /\ q.instance_id \in Instances
      BY <1>0, <2>2, <2>6 DEF Order
    <3>2. status[b] = "completed"
      BY <1>0, <2>1, <3>1
    <3>3. PICK d \in Commands :
              /\ status[d] = "completed"
              /\ \E s \in req[d] : /\ s.instance_id = q.instance_id
                                   /\ done[q.instance_id] = StateOf(s.type)
      BY <3>2 DEF CompletionIsShown, req, done
    <3>4. status'[d] = "completed"
          /\ done'[q.instance_id] = done[q.instance_id]
      BY <1>0, <2>1, <2>2, <2>6, <3>1, <3>3
    <3> QED
      BY <3>3, <3>4
  <2> QED
    BY <2>5, <2>6
<1> QED
  BY <1>1, <1>3, <1>4, <1>5, <1>6, SameProtocol DEF Ledger!Next

\* With no flip under way the settled workload state is the stored one.
LEMMA ShownIsStored ==
    ASSUME Layers, CompletionIsShown
    PROVE  CompletedCommandFlips
<1> SUFFICES ASSUME flipping = {}, NEW i \in Instances,
                    NEW c \in CommandsOf(i), status[c] = "completed"
             PROVE  \E d \in CommandsOf(i) :
                        /\ status[d] = "completed"
                        /\ workload[i] = StateOf(orders[d].type)
  BY DEF CompletedCommandFlips
<1>1. c \in Commands /\ orders[c].instance_id = i
  BY BoundAssumption
  DEF CommandsOf, Issued, Layers, Typed, ControlTypeOK, Commands
<1>2. SettledWorkload[i] = workload[i]
  BY DEF SettledWorkload
<1>3. orders[c] \in AcceptedRequests[c]
  BY <1>1 DEF AcceptedRequests
<1>4. PICK d \in Commands :
          /\ status[d] = "completed"
          /\ \E s \in AcceptedRequests[d] :
                 /\ s.instance_id = i
                 /\ SettledWorkload[i] = StateOf(s.type)
  BY <1>1, <1>3 DEF CompletionIsShown
<1>5. orders[d].instance_id = i /\ workload[i] = StateOf(orders[d].type)
  BY <1>2, <1>4 DEF AcceptedRequests
<1>6. d \in CommandsOf(i)
  <2>1. dispatch[d] # "idle"
    BY <1>4 DEF Layers, StatusInv
  <2>2. d \in 1 .. Len(orders)
    BY <2>1 DEF Layers, Typed, DispatchIssued, ControlTypeOK, Commands
  <2> QED
    BY <1>5, <2>2 DEF CommandsOf, Issued
<1> QED
  BY <1>4, <1>5, <1>6

\* Between two reports an instance with a completed command shows the state
\* of one of its completed commands, unless a fault hit between the two
\* transactions of StatusHandler.handle.
THEOREM CompletionsFlip == FlipMayFail = FALSE => (Spec => []CompletedCommandFlips)
<1> SUFFICES ASSUME FlipMayFail = FALSE PROVE Spec => []CompletedCommandFlips
  OBVIOUS
<1> DEFINE Inv == Layers /\ ReportInv /\ OneFlip /\ CompletionIsShown
<1>1. Init => Inv
  <2>1. Init => CompletionIsShown
    BY DEF Init, StoreInit, CompletionIsShown
  <2> QED
    BY <2>1, LayersInit, ReportInit, LedgerInit
<1>2. Inv /\ [Next]_vars => Inv'
  BY LayersNext, ReportNext, LedgerNext, ShownNext DEF Layers
<1>3. Inv => CompletedCommandFlips
  BY ShownIsStored
<1> QED
  BY <1>1, <1>2, <1>3, PTL DEF Spec

-----------------------------------------------------------------------------
(* Reports without faults                                                   *)

\* The start-up order of main(): a command is issued only once the control
\* plane hears the reports.
HearsInv ==
    /\ orders # <<>> => phase = "serving"
    /\ phase # "down" => Control \in linked
    /\ phase \in {"listening", "serving"} => Control \in subscribed

\* The tokens agree wherever a command was accepted, so that the report on it
\* will be.
TokenInv ==
    /\ \A i \in Instances : \A m \in running[i] : AcceptsCommand(i, m)
    /\ \A r \in Elems(reports) : AuthenticReport(r)
    /\ \A i \in Instances : \A r \in Elems(agentOut[i]) : AuthenticReport(r)

\* The report on the command is on its way.
UnderWay(c) ==
    \/ \E r \in Elems(reports) : r.command_id = c
    \/ \E i \in Instances : \E r \in Elems(agentOut[i]) : r.command_id = c

DeliveryInv ==
    \A c \in Commands : Executed(c) /\ status[c] = "pending" => UnderWay(c)

FaultFreeInv ==
    faultsLeft = MaxFaults => HearsInv /\ TokenInv /\ DeliveryInv

LEMMA QueueRest ==
    ASSUME NEW S, NEW q \in Seq(S), q # <<>>, NEW m \in Elems(q), m # Head(q)
    PROVE  m \in Elems(Tail(q))
<1>1. /\ Len(q) \in Nat /\ Len(q) >= 1
      /\ Len(Tail(q)) = Len(q) - 1
      /\ \A k \in 1 .. Len(q) - 1 : Tail(q)[k] = q[k + 1]
      /\ Head(q) = q[1]
  BY HeadTailProperties, LenProperties, EmptySeq
<1>2. PICK n \in 1 .. Len(q) : m = q[n]
  BY DEF Elems
<1>3. n - 1 \in 1 .. Len(q) - 1 /\ q[(n - 1) + 1] = m
  BY <1>1, <1>2
<1>4. Tail(q)[n - 1] = m
  BY <1>1, <1>3
<1> QED
  BY <1>1, <1>3, <1>4 DEF Elems

\* Steps that touch neither the links nor the commands that run nor the
\* reports on their way, and make no executed command pending.
LEMMA DeliveryAway ==
    ASSUME TokenInv, DeliveryInv, UNCHANGED <<reports, agentOut>>,
           \A i \in Instances : running'[i] \subseteq running[i],
           \A c \in Commands : Executed(c)' => Executed(c),
           \A c \in Commands :
               Executed(c) /\ status'[c] = "pending" => status[c] = "pending"
    PROVE  TokenInv' /\ DeliveryInv'
BY DEF TokenInv, AuthenticReport, AcceptsCommand, DeliveryInv, UnderWay

LEMMA DeliveryControl ==
    ASSUME Layers, ReportInv, HearsInv, TokenInv, DeliveryInv, ControlStep
    PROVE  HearsInv' /\ TokenInv' /\ DeliveryInv'
<1> USE DEF agentVars, storeVars, controlVars
<1>0. /\ UNCHANGED <<running, outcome>>
      /\ \A c \in Commands : Executed(c)' => Executed(c)
      /\ \A i \in Instances : running'[i] \subseteq running[i]
  BY DEF ControlStep, Executed
<1>1. ASSUME NEW i \in Instances, NEW type \in CommandType,
             IssueCommand(i, type)
      PROVE  HearsInv' /\ TokenInv' /\ DeliveryInv'
  <2>1. HearsInv'
    BY <1>1 DEF IssueCommand, HearsInv, brokerVars
  <2> QED
    BY <1>0, <1>1, <2>1, DeliveryAway DEF IssueCommand, brokerVars
<1>2. ASSUME NEW c \in Commands, SavePending(c)
      PROVE  HearsInv' /\ TokenInv' /\ DeliveryInv'
  <2>1. HearsInv'
    BY <1>2 DEF SavePending, HearsInv, brokerVars
  <2>2. ~Executed(c)
    BY <1>2 DEF SavePending, Executed, Layers, StatusInv, OnceInv, RunInv, Sent
  <2>3. \A d \in Commands : d # c => status'[d] = status[d]
    BY <1>2 DEF SavePending, InsertPending, Layers, Typed, StoreTypeOK
  <2> QED
    BY <1>0, <1>2, <2>1, <2>2, <2>3, DeliveryAway DEF SavePending, brokerVars
<1>3. CASE \E c \in Commands :
               Publish(c) \/ ProbeNoResponders(c) \/ ProbeTimeout(c)
  <2>1. HearsInv'
    BY <1>3 DEF Publish, ProbeNoResponders, ProbeTimeout, HearsInv, brokerVars
  <2> QED
    BY <1>0, <1>3, <2>1, DeliveryAway
    DEF Publish, ProbeNoResponders, ProbeTimeout, brokerVars
<1>4. CASE FlipWorkload \/ Expire \/ Sweep
  <2>1. HearsInv'
    BY <1>4 DEF FlipWorkload, Expire, Sweep, HearsInv, brokerVars
  <2>2. \A c \in Commands : status'[c] = "pending" => status[c] = "pending"
    BY <1>4
    DEF FlipWorkload, UpdateWorkloadState, Expire, Sweep, FailPending
  <2> QED
    BY <1>0, <1>4, <2>1, <2>2, DeliveryAway
    DEF FlipWorkload, Expire, Sweep, brokerVars
<1>5. CASE ControlStart \/ ControlReconnects
  <2>1. HearsInv'
    BY <1>5
    DEF ControlStart, ControlConnect, ControlSubscribe, ControlServe,
        ReadyToServe, ControlReconnects, Reattach, HearsInv, brokerVars
  <2> QED
    BY <1>0, <1>5, <2>1, DeliveryAway
    DEF ControlStart, ControlConnect, ControlSubscribe, ControlServe,
        ControlReconnects, Reattach, brokerVars
<1>6. CASE HandleReport
  <2>0. PICK m : m = Head(reports)
    OBVIOUS
  <2>1. /\ reports # <<>> /\ reports \in Seq(StatusMessages)
        /\ reports' = Tail(reports)
        /\ m \in StatusMessages
    BY <1>6, <2>0 DEF HandleReport, Layers, Typed, BrokerTypeOK
  <2>2. /\ m \in Elems(reports) /\ Elems(reports') \subseteq Elems(reports)
        /\ m.command_id \in Commands /\ m.status \in Terminal
        /\ AuthenticReport(m)
    <3>1. m \in Elems(reports) /\ Elems(Tail(reports)) \subseteq Elems(reports)
      BY <2>0, <2>1, QueueTail
    <3> QED
      BY <2>1, <3>1 DEF StatusMessages, TokenInv
  <2>3. /\ UNCHANGED agentOut
        /\ UNCHANGED <<orders, phase, linked, subscribed>>
        /\ IF status[m.command_id] = "pending"
           THEN status' = [status EXCEPT ![m.command_id] = m.status]
           ELSE UNCHANGED status
    BY <1>6, <2>0, <2>2 DEF HandleReport, CompleteIfPending, IsPending
  <2>4. HearsInv'
    BY <2>3 DEF HearsInv
  <2>5. TokenInv'
    BY <1>0, <2>2, <2>3 DEF TokenInv, AcceptsCommand, AuthenticReport
  <2>6. status'[m.command_id] # "pending"
    BY <2>2, <2>3 DEF Layers, Typed, StoreTypeOK, Terminal
  <2>7. ASSUME NEW c \in Commands, Executed(c)', status'[c] = "pending"
        PROVE  UnderWay(c)'
    <3>1. c # m.command_id /\ status[c] = "pending" /\ Executed(c)
      BY <1>0, <2>2, <2>3, <2>6, <2>7 DEF Layers, Typed, StoreTypeOK
    <3>2. UnderWay(c)
      BY <3>1 DEF DeliveryInv
    <3>3. ASSUME NEW r \in Elems(reports), r.command_id = c
          PROVE  r \in Elems(reports')
      BY <2>0, <2>1, <3>1, <3>3, QueueRest
    <3> QED
      BY <2>3, <3>2, <3>3 DEF UnderWay
  <2> QED
    BY <2>4, <2>5, <2>7 DEF DeliveryInv
<1> QED
  BY <1>1, <1>2, <1>3, <1>4, <1>5, <1>6 DEF ControlStep, Request

\* The broker hands every report to the control plane, which listens.
LEMMA DeliveryBroker ==
    ASSUME Layers, ReportInv, HearsInv, TokenInv, DeliveryInv, BrokerStep
    PROVE  HearsInv' /\ TokenInv' /\ DeliveryInv'
<1> USE DEF agentVars, storeVars, controlVars
<1>0. HearsInv' /\ UNCHANGED <<running, outcome, status>>
  BY DEF BrokerStep, RouteCommand, RouteReport, HearsInv
<1>1. CASE RouteCommand
  BY <1>0, <1>1, DeliveryAway DEF RouteCommand, Executed
<1>2. ASSUME NEW i \in Instances, RouteReport(i)
      PROVE  TokenInv' /\ DeliveryInv'
  <2>0. PICK m : m = Head(agentOut[i])
    OBVIOUS
  <2>1. /\ agentOut \in [Instances -> Seq(StatusMessages)]
        /\ agentOut[i] \in Seq(StatusMessages) /\ agentOut[i] # <<>>
        /\ agentOut' = [agentOut EXCEPT ![i] = Tail(@)]
        /\ reports \in Seq(StatusMessages)
    BY <1>2 DEF RouteReport, Layers, Typed, BrokerTypeOK
  <2>2. /\ m \in Elems(agentOut[i]) /\ m \in StatusMessages
        /\ Elems(Tail(agentOut[i])) \subseteq Elems(agentOut[i])
    BY <2>0, <2>1, QueueTail
  <2>3. Listening(Control)
    <3>1. Sent(m.command_id) /\ m.command_id \in 1 .. MaxCommands
      BY <2>2 DEF ReportInv, TransitInv, Truthful, Commands
    <3>2. orders # <<>>
      BY <3>1, EmptySeq, BoundAssumption
      DEF Sent, Layers, Typed, ControlTypeOK
    <3> QED
      BY <3>2 DEF HearsInv, Listening
  <2>4. reports' = Append(reports, m)
    BY <1>2, <2>0, <2>3 DEF RouteReport
  <2>5. Elems(reports') = Elems(reports) \cup {m}
    BY <2>1, <2>2, <2>4, QueueAppend
  <2>6. \A j \in Instances : /\ Elems(agentOut'[j]) \subseteq Elems(agentOut[j])
                             /\ \A r \in Elems(agentOut[j]) :
                                    r = m \/ r \in Elems(agentOut'[j])
    BY <2>0, <2>1, <2>2, QueueRest
  <2>7. TokenInv'
    BY <1>0, <2>2, <2>5, <2>6 DEF TokenInv, AcceptsCommand, AuthenticReport
  <2>8. DeliveryInv'
    BY <1>0, <2>5, <2>6 DEF DeliveryInv, UnderWay, Executed
  <2> QED
    BY <2>7, <2>8
<1> QED
  BY <1>0, <1>1, <1>2 DEF BrokerStep

\* An agent runs only what carries its own token, and reports with it.
LEMMA DeliveryAgent ==
    ASSUME Layers, ReportInv, HearsInv, TokenInv, DeliveryInv, AgentStep
    PROVE  HearsInv' /\ TokenInv' /\ DeliveryInv'
<1> USE DEF agentVars, storeVars, controlVars
<1>0. HearsInv' /\ UNCHANGED status
  BY DEF AgentStep, AgentStart, AgentReceive, ComposeSucceeds, ComposeFails,
         ComposeReturns, AgentReconnects, Reattach, HearsInv
<1>1. ASSUME NEW i \in Instances, AgentStart(i) \/ AgentReconnects(i)
      PROVE  TokenInv' /\ DeliveryInv'
  BY <1>0, <1>1, DeliveryAway
  DEF AgentStart, AgentReconnects, Reattach, Executed
<1>2. ASSUME NEW i \in Instances, AgentReceive(i)
      PROVE  TokenInv' /\ DeliveryInv'
  <2>0. PICK m : m = Head(inbox[i])
    OBVIOUS
  <2>1. /\ \/ UNCHANGED <<running, outcome>>
           \/ /\ AcceptsCommand(i, m)
              /\ running' = [running EXCEPT ![i] = @ \cup {m}]
              /\ outcome' = [outcome EXCEPT ![m.command_id] = "started"]
        /\ UNCHANGED <<reports, agentOut>>
    BY <1>2, <2>0 DEF AgentReceive
  <2>2. TokenInv'
    BY <2>1
    DEF TokenInv, AcceptsCommand, AuthenticReport, Layers, Typed, AgentTypeOK
  <2>3. \A c \in Commands : Executed(c)' => Executed(c)
    BY <2>1 DEF Executed, Layers, Typed, AgentTypeOK
  <2> QED
    BY <1>0, <2>1, <2>2, <2>3 DEF DeliveryInv, UnderWay
<1>3. ASSUME NEW i \in Instances, NEW m \in running[i], NEW ok \in BOOLEAN,
             ComposeReturns(i, m, ok)
      PROVE  TokenInv' /\ DeliveryInv'
  <2>0. PICK r : r = Report(m, ok, i)
    OBVIOUS
  <2>1. /\ agentOut \in [Instances -> Seq(StatusMessages)]
        /\ agentOut[i] \in Seq(StatusMessages \cup {r})
        /\ agentOut' = [agentOut EXCEPT ![i] = Append(@, r)]
        /\ outcome \in [Commands -> {"none", "started", "ok", "error"}]
        /\ \A c \in Commands :
               c # m.command_id => outcome'[c] = outcome[c]
        /\ \A j \in Instances : running'[j] \subseteq running[j]
        /\ UNCHANGED reports
    BY <1>3, <2>0 DEF ComposeReturns, Layers, Typed, BrokerTypeOK, AgentTypeOK
  <2>2. /\ Genuine(m) /\ m.instance_id = i
        /\ VerifyAgentToken(m.agent_token, AgentToken[i])
    BY DEF Layers, OnceInv, RunInv, TokenInv, AcceptsCommand
  <2>3. r.command_id = m.command_id /\ AuthenticReport(r)
    BY <2>0, <2>2
    DEF Report, AuthenticReport, VerifyAgentToken, Genuine, CommandMessage
  <2>4. Elems(agentOut'[i]) = Elems(agentOut[i]) \cup {r}
    <3>1. agentOut'[i] = Append(agentOut[i], r)
      BY <2>1
    <3>2. r \in StatusMessages \cup {r}
      OBVIOUS
    <3> QED
      BY <2>1, <3>1, <3>2, QueueAppend
  <2>5. \A j \in Instances : j # i => agentOut'[j] = agentOut[j]
    BY <2>1
  <2>6. TokenInv'
    BY <2>1, <2>3, <2>4, <2>5 DEF TokenInv, AcceptsCommand, AuthenticReport
  <2>7. ASSUME NEW c \in Commands, Executed(c)', status'[c] = "pending"
        PROVE  UnderWay(c)'
    <3>1. CASE c = m.command_id
      BY <2>3, <2>4, <3>1 DEF UnderWay
    <3>2. CASE c # m.command_id
      BY <1>0, <2>1, <2>4, <2>5, <2>7, <3>2
      DEF DeliveryInv, UnderWay, Executed
    <3> QED
      BY <3>1, <3>2
  <2> QED
    BY <2>6, <2>7 DEF DeliveryInv
<1> QED
  BY <1>0, <1>1, <1>2, <1>3 DEF AgentStep, ComposeSucceeds, ComposeFails

LEMMA FaultFreeNext ==
    ASSUME Layers, ReportInv, FaultFreeInv, faultsLeft \in 0 .. MaxFaults,
           [Next]_vars
    PROVE  FaultFreeInv' /\ faultsLeft' \in 0 .. MaxFaults
<1>1. faultsLeft' \in 0 .. MaxFaults
  BY FaultsAssumption DEF Next, Step, Fault, vars
<1>2. CASE Fault
  <2>1. faultsLeft' # MaxFaults
    BY <1>2, FaultsAssumption DEF Fault
  <2> QED
    BY <1>1, <2>1 DEF FaultFreeInv
<1>3. CASE Step
  BY <1>1, <1>3, DeliveryControl, DeliveryBroker, DeliveryAgent
  DEF Step, FaultFreeInv
<1>4. CASE UNCHANGED vars
  <2>1. ASSUME HearsInv, TokenInv, DeliveryInv
        PROVE  HearsInv' /\ TokenInv' /\ DeliveryInv'
    BY <1>4, <2>1, DeliveryAway
    DEF vars, storeVars, brokerVars, agentVars, controlVars, HearsInv, Executed
  <2> QED
    BY <1>1, <1>4, <2>1 DEF FaultFreeInv, vars
<1> QED
  BY <1>2, <1>3, <1>4 DEF Next

\* Until a fault happens the report on every executed command is on its way
\* as long as the command is pending: the control plane hears reports before
\* it serves requests, and what an agent accepts is answered with the token
\* the control plane expects.
THEOREM ReportsArrive == Spec => []NoReportLost
<1> DEFINE Inv == /\ Layers /\ ReportInv /\ FaultFreeInv
                  /\ faultsLeft \in 0 .. MaxFaults
<1>1. Init => Inv
  <2>1. Init => HearsInv /\ TokenInv /\ DeliveryInv
    BY QueueEmpty
    DEF Init, BrokerInit, ControlInit, AgentInit, HearsInv, TokenInv,
        DeliveryInv, Executed
  <2> QED
    BY <2>1, LayersInit, ReportInit, FaultsAssumption DEF Init, FaultFreeInv
<1>2. Inv /\ [Next]_vars => Inv'
  BY LayersNext, ReportNext, FaultFreeNext
<1>3. Inv => NoReportLost
  BY QueueHas
  DEF NoReportLost, FaultFreeInv, DeliveryInv, UnderWay, ReportInTransit
<1> QED
  BY <1>1, <1>2, <1>3, PTL DEF Spec

-----------------------------------------------------------------------------
(* Queues of reports                                                        *)

\* What a queue holds about instance i, and the last of it.
Of(i, q) == {m \in Elems(q) : m.instance_id = i}

Lasts(i, q) ==
    {q[n] : n \in {k \in 1 .. Len(q) :
                       /\ q[k].instance_id = i
                       /\ \A l \in k + 1 .. Len(q) : q[l].instance_id # i}}

\* As far as instance i is concerned p ends as q does.
Follows(i, q, p) ==
    /\ Lasts(i, p) \subseteq Lasts(i, q)
    /\ Of(i, p) = {} => Of(i, q) = {}

\* p is what is left of q; nothing has come in between or behind.
Sheds(q, p) ==
    /\ NoDup(p)
    /\ Elems(p) \subseteq Elems(q)
    /\ \A i \in Instances : Of(i, q) \subseteq Elems(p) => Follows(i, q, p)

LEMMA ShedsNone ==
    ASSUME NEW q, NoDup(q)
    PROVE  Sheds(q, q)
BY DEF Sheds, Follows

LEMMA ShedsAll ==
    ASSUME NEW q
    PROVE  Sheds(q, <<>>)
BY QueueEmpty DEF Sheds, Follows, Of, Lasts

LEMMA LastsAppend ==
    ASSUME NEW S, NEW q \in Seq(S), NEW e \in S, NEW i
    PROVE  /\ e.instance_id = i => /\ Lasts(i, Append(q, e)) \subseteq {e}
                                   /\ Of(i, Append(q, e)) # {}
           /\ e.instance_id # i => Follows(i, q, Append(q, e))
<1>1. /\ Len(q) \in Nat
      /\ Len(Append(q, e)) = Len(q) + 1
      /\ \A k \in 1 .. Len(q) : Append(q, e)[k] = q[k]
      /\ Append(q, e)[Len(q) + 1] = e
  OBVIOUS
<1>2. Elems(Append(q, e)) = Elems(q) \cup {e}
  BY QueueAppend
<1>3. ASSUME NEW k \in 1 .. Len(q) + 1,
             Append(q, e)[k].instance_id = i,
             \A l \in k + 1 .. Len(q) + 1 : Append(q, e)[l].instance_id # i
      PROVE  IF e.instance_id = i THEN Append(q, e)[k] = e
             ELSE Append(q, e)[k] \in Lasts(i, q)
  <2>1. CASE e.instance_id = i
    <3>1. Len(q) + 1 \notin k + 1 .. Len(q) + 1
      BY <1>1, <1>3, <2>1
    <3>2. k = Len(q) + 1
      BY <1>1, <3>1
    <3> QED
      BY <1>1, <2>1, <3>2
  <2>2. CASE e.instance_id # i
    <3>1. k # Len(q) + 1
      BY <1>1, <1>3, <2>2
    <3>2. k \in 1 .. Len(q)
      BY <1>1, <3>1
    <3>3. \A l \in k + 1 .. Len(q) : q[l].instance_id # i
      BY <1>1, <1>3, <3>2
    <3>4. Append(q, e)[k] = q[k] /\ q[k].instance_id = i
      BY <1>1, <1>3, <3>2
    <3> QED
      BY <2>2, <3>2, <3>3, <3>4 DEF Lasts
  <2> QED
    BY <2>1, <2>2
<1>4. \A m \in Lasts(i, Append(q, e)) :
          IF e.instance_id = i THEN m = e ELSE m \in Lasts(i, q)
  BY <1>1, <1>3 DEF Lasts
<1>5. e.instance_id = i => e \in Of(i, Append(q, e))
  BY <1>2 DEF Of
<1>6. Of(i, Append(q, e)) = {} => Of(i, q) = {}
  BY <1>2 DEF Of
<1> QED
  BY <1>4, <1>5, <1>6 DEF Follows

LEMMA LastsTail ==
    ASSUME NEW S, NEW q \in Seq(S), q # <<>>, NEW i
    PROVE  /\ Lasts(i, Tail(q)) \subseteq Lasts(i, q)
           /\ Of(i, Tail(q)) = {} => Of(i, q) \subseteq {Head(q)}
           /\ Of(i, Tail(q)) = {} /\ Head(q).instance_id = i
                  => Head(q) \in Lasts(i, q)
<1>1. /\ Len(q) \in Nat /\ Len(q) >= 1
      /\ Len(Tail(q)) = Len(q) - 1
      /\ \A k \in 1 .. Len(q) - 1 : Tail(q)[k] = q[k + 1]
      /\ Head(q) = q[1]
  BY HeadTailProperties, LenProperties, EmptySeq
<1>2. ASSUME NEW k \in 1 .. Len(q) - 1,
             Tail(q)[k].instance_id = i,
             \A l \in k + 1 .. Len(q) - 1 : Tail(q)[l].instance_id # i
      PROVE  Tail(q)[k] \in Lasts(i, q)
  <2>1. ASSUME NEW l \in (k + 1) + 1 .. Len(q)
        PROVE  q[l].instance_id # i
    <3>1. l - 1 \in k + 1 .. Len(q) - 1 /\ l - 1 \in 1 .. Len(q) - 1
          /\ (l - 1) + 1 = l
      BY <1>1, <2>1
    <3>2. Tail(q)[l - 1] = q[l]
      BY <1>1, <3>1
    <3> QED
      BY <1>2, <3>1, <3>2
  <2>2. k + 1 \in 1 .. Len(q) /\ Tail(q)[k] = q[k + 1]
    BY <1>1
  <2> QED
    BY <1>2, <2>1, <2>2 DEF Lasts
<1>3. Lasts(i, Tail(q)) \subseteq Lasts(i, q)
  BY <1>1, <1>2 DEF Lasts
<1>4. Of(i, Tail(q)) = {} => Of(i, q) \subseteq {Head(q)}
  BY QueueRest DEF Of
<1>5. ASSUME Of(i, Tail(q)) = {}, Head(q).instance_id = i
      PROVE  Head(q) \in Lasts(i, q)
  <2>1. ASSUME NEW l \in 2 .. Len(q)
        PROVE  q[l].instance_id # i
    <3>1. l - 1 \in 1 .. Len(q) - 1 /\ (l - 1) + 1 = l
      BY <1>1, <2>1
    <3>2. Tail(q)[l - 1] = q[l]
      BY <1>1, <3>1
    <3>3. q[l] \in Elems(Tail(q))
      BY <1>1, <3>1, <3>2 DEF Elems
    <3> QED
      BY <1>5, <3>3 DEF Of
  <2>2. 1 \in 1 .. Len(q) /\ 1 + 1 = 2
    BY <1>1
  <2> QED
    BY <1>1, <1>5, <2>1, <2>2 DEF Lasts
<1> QED
  BY <1>3, <1>4, <1>5

LEMMA ShedsTail ==
    ASSUME NEW S, NEW q \in Seq(S), q # <<>>, NoDup(q)
    PROVE  Sheds(q, Tail(q))
<1>1. /\ NoDup(Tail(q)) /\ Elems(Tail(q)) \subseteq Elems(q)
      /\ Head(q) \in Elems(q) /\ Head(q) \notin Elems(Tail(q))
  BY QueueTail
<1>2. ASSUME NEW i \in Instances, Of(i, q) \subseteq Elems(Tail(q))
      PROVE  Follows(i, q, Tail(q))
  <2>1. Head(q) \notin Of(i, q)
    BY <1>1, <1>2
  <2>2. Of(i, Tail(q)) = {} => Of(i, q) = {}
    BY <2>1, LastsTail
  <2> QED
    BY <2>2, LastsTail DEF Follows
<1> QED
  BY <1>1, <1>2 DEF Sheds

LEMMA ShedsDrop ==
    ASSUME NEW S, NEW q \in Seq(S), NEW d \in 0 .. Len(q), NoDup(q)
    PROVE  Sheds(q, DropFront(q, d)) /\ Sheds(q, DropBack(q, d))
<1>1. Len(q) \in Nat /\ \A k \in 1 .. Len(q) : q[k] \in S
  BY LenProperties
<1>2. /\ Len(DropFront(q, d)) = Len(q) - d
      /\ \A k \in 1 .. Len(q) - d : DropFront(q, d)[k] = q[k + d]
  <2>1. /\ Len(SubSeq(q, d + 1, Len(q))) = Len(q) - d
        /\ \A k \in 1 .. Len(q) - (d + 1) + 1 :
               SubSeq(q, d + 1, Len(q))[k] = q[(d + 1) + k - 1]
    BY <1>1, SubSeqProperties
  <2> QED
    BY <1>1, <2>1 DEF DropFront
<1>3. /\ Len(DropBack(q, d)) = Len(q) - d
      /\ \A k \in 1 .. Len(q) - d : DropBack(q, d)[k] = q[k]
  BY <1>1, SubSeqProperties DEF DropBack
<1>4. ASSUME NEW i \in Instances, NEW p, Of(i, q) \subseteq Elems(p)
      PROVE  Of(i, p) = {} => Of(i, q) = {}
  BY <1>4 DEF Of
<1>5. ASSUME NEW i \in Instances
      PROVE  Lasts(i, DropFront(q, d)) \subseteq Lasts(i, q)
  <2> SUFFICES ASSUME NEW k \in 1 .. Len(q) - d,
                      q[k + d].instance_id = i,
                      \A l \in k + 1 .. Len(q) - d :
                          DropFront(q, d)[l].instance_id # i
               PROVE  q[k + d] \in Lasts(i, q)
    BY <1>2 DEF Lasts
  <2>1. ASSUME NEW l \in (k + d) + 1 .. Len(q)
        PROVE  q[l].instance_id # i
    <3>1. l - d \in k + 1 .. Len(q) - d /\ l - d \in 1 .. Len(q) - d
          /\ (l - d) + d = l
      BY <1>1, <2>1
    <3> QED
      BY <1>2, <3>1
  <2>2. k + d \in 1 .. Len(q)
    BY <1>1
  <2> QED
    BY <2>1, <2>2 DEF Lasts
<1>6. ASSUME NEW i \in Instances, Of(i, q) \subseteq Elems(DropBack(q, d))
      PROVE  Lasts(i, DropBack(q, d)) \subseteq Lasts(i, q)
  <2>1. ASSUME NEW l \in Len(q) - d + 1 .. Len(q), q[l].instance_id = i
        PROVE  FALSE
    <3>1. l \in 1 .. Len(q)
      BY <1>1, <2>1
    <3>2. q[l] \in Elems(DropBack(q, d))
      BY <1>6, <2>1, <3>1 DEF Of, Elems
    <3>3. PICK k \in 1 .. Len(q) - d : q[l] = q[k]
      BY <1>3, <3>2 DEF Elems
    <3>4. k \in 1 .. Len(q)
      BY <1>1
    <3>5. k = l
      BY <3>1, <3>3, <3>4 DEF NoDup
    <3> QED
      BY <1>1, <2>1, <3>5
  <2> SUFFICES ASSUME NEW k \in 1 .. Len(q) - d,
                      q[k].instance_id = i,
                      \A l \in k + 1 .. Len(q) - d :
                          DropBack(q, d)[l].instance_id # i
               PROVE  q[k] \in Lasts(i, q)
    BY <1>3 DEF Lasts
  <2>2. ASSUME NEW l \in k + 1 .. Len(q)
        PROVE  q[l].instance_id # i
    <3>1. CASE l \in k + 1 .. Len(q) - d
      <4>1. l \in 1 .. Len(q) - d
        BY <1>1, <3>1
      <4> QED
        BY <1>3, <3>1, <4>1
    <3>2. CASE l \in Len(q) - d + 1 .. Len(q)
      BY <2>1, <3>2
    <3> QED
      BY <1>1, <3>1, <3>2
  <2>3. k \in 1 .. Len(q)
    BY <1>1
  <2> QED
    BY <2>2, <2>3 DEF Lasts
<1> QED
  BY <1>4, <1>5, <1>6, QueueDrop DEF Sheds, Follows

-----------------------------------------------------------------------------
(* A command is reported once                                               *)

UniqueInv ==
    /\ NoDup(reports)
    /\ \A r \in Elems(reports) : status[r.command_id] # "completed"
    /\ \A i \in Instances :
           /\ NoDup(agentOut[i])
           /\ \A r \in Elems(agentOut[i]) :
                  /\ r.instance_id = i
                  /\ status[r.command_id] # "completed"
                  /\ \A s \in Elems(reports) : s.command_id # r.command_id

\* The step writes no report and delivers none.
Shedding ==
    /\ Sheds(reports, reports')
    /\ \A i \in Instances : Sheds(agentOut[i], agentOut'[i])

Completing(c) == status'[c] = "completed" /\ status[c] # "completed"

LEMMA CompletionsReported ==
    ASSUME Layers, ReportInv, [Next]_vars, NEW c \in Commands, Completing(c)
    PROVE  HandleReport /\ c = Head(reports).command_id
<1>0. status \in [Commands -> {"none", "pending"} \cup Terminal]
  BY DEF Layers, Typed, StoreTypeOK
<1>1. ~UNCHANGED status
  BY DEF Completing
<1>2. ASSUME NEW d \in Commands, status' = [status EXCEPT ![d] = "pending"]
      PROVE  FALSE
  BY <1>0, <1>2 DEF Completing
<1>3. CASE Sweep
  BY <1>3 DEF Sweep, FailPending, Completing
<1>4. CASE HandleReport
  <2>1. PICK m : m = Head(reports)
    OBVIOUS
  <2>2. status' = [status EXCEPT ![m.command_id] = m.status]
    BY <1>0, <1>1, <1>4, <2>1
    DEF HandleReport, CompleteIfPending, storeVars, IsPending
  <2> QED
    BY <1>0, <1>4, <2>1, <2>2 DEF Completing
<1> QED
  BY <1>1, <1>2, <1>3, <1>4
  DEF Next, Step, Fault, ControlStep, AgentStep, BrokerStep, ControlFault,
      AgentFault, LinkFault, Request, ControlStart, IssueCommand, SavePending,
      InsertPending, Publish, ProbeNoResponders, ProbeTimeout, FlipWorkload,
      UpdateWorkloadState, Expire, ControlConnect, ControlSubscribe,
      ControlServe, ControlReconnects, SaveFails, PublishFails, ReportFails,
      FlipFails, ControlStop, storeVars, vars

LEMMA QueueOnce ==
    ASSUME NEW q, NoDup(q), NEW a \in Elems(q), NEW b \in Elems(q),
           a.command_id = b.command_id
    PROVE  a = b
BY DEF NoDup, Elems

\* What is lost was the only report on its command.
LEMMA GoneReport ==
    ASSUME ReportInv, UniqueInv, Shedding, NEW r,
           \/ r \in Elems(reports) /\ r \notin Elems(reports')
           \/ \E i \in Instances :
                  r \in Elems(agentOut[i]) /\ r \notin Elems(agentOut'[i])
    PROVE  ~UnderWay(r.command_id)'
<1> SUFFICES ASSUME NEW s, s.command_id = r.command_id,
                    \/ s \in Elems(reports')
                    \/ \E i \in Instances : s \in Elems(agentOut'[i])
             PROVE  FALSE
  BY DEF UnderWay
<1>1. CASE s \in Elems(reports')
  <2>1. s \in Elems(reports)
    BY <1>1 DEF Shedding, Sheds
  <2>2. r \in Elems(reports)
    BY <2>1 DEF UniqueInv
  <2>3. s = r
    BY <2>1, <2>2, QueueOnce DEF UniqueInv
  <2>4. r \notin Elems(reports')
    BY <2>2 DEF UniqueInv
  <2> QED
    BY <1>1, <2>3, <2>4
<1>2. ASSUME NEW i \in Instances, s \in Elems(agentOut'[i])
      PROVE  FALSE
  <2>1. s \in Elems(agentOut[i])
    BY <1>2 DEF Shedding, Sheds
  <2>2. r \notin Elems(reports)
    BY <2>1 DEF UniqueInv
  <2>3. PICK j \in Instances :
            r \in Elems(agentOut[j]) /\ r \notin Elems(agentOut'[j])
    BY <2>2
  <2>4. r.instance_id = s.instance_id
    BY <2>1, <2>3 DEF ReportInv, TransitInv, Truthful
  <2>5. i = j
    BY <2>1, <2>3, <2>4 DEF UniqueInv
  <2>6. s = r
    BY <2>1, <2>3, <2>5, QueueOnce DEF UniqueInv
  <2> QED
    BY <1>2, <2>3, <2>5, <2>6
<1> QED
  BY <1>1, <1>2

LEMMA UniqueShed ==
    ASSUME ReportInv, UniqueInv, Shedding,
           \A c \in Commands : Completing(c) => ~UnderWay(c)'
    PROVE  UniqueInv'
<1>1. ASSUME NEW r, Truthful(r), status[r.command_id] # "completed",
             \/ r \in Elems(reports')
             \/ \E i \in Instances : r \in Elems(agentOut'[i])
      PROVE  status'[r.command_id] # "completed"
  BY <1>1 DEF Truthful, Completing, UnderWay
<1>2. ASSUME NEW r \in Elems(reports')
      PROVE  status'[r.command_id] # "completed"
  BY <1>1, <1>2 DEF Shedding, Sheds, UniqueInv, ReportInv, TransitInv
<1>3. ASSUME NEW i \in Instances, NEW r \in Elems(agentOut'[i])
      PROVE  /\ r.instance_id = i
             /\ status'[r.command_id] # "completed"
             /\ \A s \in Elems(reports') : s.command_id # r.command_id
  <2>1. /\ r \in Elems(agentOut[i])
        /\ Elems(reports') \subseteq Elems(reports)
    BY <1>3 DEF Shedding, Sheds
  <2> QED
    BY <1>1, <1>3, <2>1 DEF UniqueInv, ReportInv, TransitInv
<1> QED
  BY <1>2, <1>3 DEF UniqueInv, Shedding, Sheds

LEMMA SheddingStays ==
    ASSUME UniqueInv, UNCHANGED <<reports, agentOut>>
    PROVE  Shedding
BY ShedsNone DEF UniqueInv, Shedding

LEMMA SheddingTail ==
    ASSUME Typed, UniqueInv, reports # <<>>, reports' = Tail(reports),
           UNCHANGED agentOut
    PROVE  Shedding
<1>1. reports \in Seq(StatusMessages) /\ NoDup(reports)
  BY DEF Typed, BrokerTypeOK, UniqueInv
<1>2. Sheds(reports, Tail(reports))
  BY <1>1, ShedsTail
<1> QED
  BY <1>2, ShedsNone DEF UniqueInv, Shedding

LEMMA SheddingControl ==
    ASSUME Typed, UniqueInv, ControlStep \/ ControlFault
    PROVE  Shedding
<1> USE DEF brokerVars
<1>1. CASE HandleReport \/ ReportFails
  BY <1>1, SheddingTail DEF HandleReport, ReportFails
<1>2. CASE ControlStop
  <2>1. Sheds(reports, reports')
    BY <1>2, ShedsAll DEF ControlStop
  <2> QED
    BY <1>2, <2>1, ShedsNone DEF ControlStop, UniqueInv, Shedding
<1>3. CASE UNCHANGED <<reports, agentOut>>
  BY <1>3, SheddingStays
<1> QED
  BY <1>1, <1>2, <1>3
  DEF ControlStep, ControlFault, Request, ControlStart, IssueCommand,
      SavePending, Publish, ProbeNoResponders, ProbeTimeout, FlipWorkload,
      Expire, Sweep, ControlConnect, ControlSubscribe, ControlServe,
      ControlReconnects, Reattach, SaveFails, PublishFails, FlipFails

\* One connection loses reports.
LEMMA SheddingOne ==
    ASSUME Typed, UniqueInv, UNCHANGED reports, NEW i \in Instances, NEW p,
           Sheds(agentOut[i], p), agentOut' = [agentOut EXCEPT ![i] = p]
    PROVE  Shedding
<1>1. agentOut \in [Instances -> Seq(StatusMessages)]
  BY DEF Typed, BrokerTypeOK
<1>2. ASSUME NEW j \in Instances
      PROVE  Sheds(agentOut[j], agentOut'[j])
  <2>1. CASE j = i
    BY <1>1, <2>1
  <2>2. CASE j # i
    BY <1>1, <2>2, ShedsNone DEF UniqueInv
  <2> QED
    BY <2>1, <2>2
<1> QED
  BY <1>2, ShedsNone DEF UniqueInv, Shedding

LEMMA SheddingOutside ==
    ASSUME Typed, UniqueInv, AgentFault \/ LinkFault
    PROVE  Shedding
<1>0. /\ reports \in Seq(StatusMessages) /\ NoDup(reports)
      /\ agentOut \in [Instances -> Seq(StatusMessages)]
      /\ \A i \in Instances : NoDup(agentOut[i])
  BY DEF Typed, BrokerTypeOK, UniqueInv
<1>1. CASE DetachControl
  <2>1. PICK n \in 0 .. Len(reports) : reports' = DropBack(reports, n)
    BY <1>1 DEF DetachControl
  <2>2. Sheds(reports, reports')
    BY <1>0, <2>1, ShedsDrop
  <2> QED
    BY <1>1, <2>2, ShedsNone DEF DetachControl, UniqueInv, Shedding
<1>2. ASSUME NEW i \in Instances, DetachAgent(i)
      PROVE  Shedding
  <2>1. PICK n \in 0 .. Len(agentOut[i]) :
            agentOut' = [agentOut EXCEPT ![i] = DropFront(@, n)]
    BY <1>2 DEF DetachAgent
  <2>2. Sheds(agentOut[i], DropFront(agentOut[i], n))
    BY <1>0, ShedsDrop
  <2> QED
    BY <1>2, <2>1, <2>2, SheddingOne DEF DetachAgent
<1>3. ASSUME NEW i \in Instances, AgentStop(i)
      PROVE  Shedding
  <2>1. PICK n \in 0 .. Len(agentOut[i]) :
            agentOut' = [agentOut EXCEPT ![i] = DropBack(@, n)]
    BY <1>3 DEF AgentStop
  <2>2. Sheds(agentOut[i], DropBack(agentOut[i], n))
    BY <1>0, ShedsDrop
  <2> QED
    BY <1>3, <2>1, <2>2, SheddingOne DEF AgentStop
<1> QED
  BY <1>1, <1>2, <1>3 DEF AgentFault, LinkFault

\* A report reaches the broker while nobody listens.
LEMMA SheddingUnheard ==
    ASSUME Typed, UniqueInv, NEW i \in Instances, RouteReport(i),
           ~Listening(Control)
    PROVE  Shedding
<1>1. /\ agentOut[i] \in Seq(StatusMessages) /\ agentOut[i] # <<>>
      /\ NoDup(agentOut[i])
      /\ agentOut' = [agentOut EXCEPT ![i] = Tail(@)]
      /\ UNCHANGED reports
  BY DEF Typed, BrokerTypeOK, UniqueInv, RouteReport
<1>2. Sheds(agentOut[i], Tail(agentOut[i]))
  BY <1>1, ShedsTail
<1> QED
  BY <1>1, <1>2, SheddingOne

\* It moves from one queue to the other.
LEMMA UniqueRouted ==
    ASSUME Typed, ReportInv, UniqueInv, NEW i \in Instances, RouteReport(i),
           Listening(Control), UNCHANGED status
    PROVE  UniqueInv' /\ \A c \in Commands : UnderWay(c)' => UnderWay(c)
<1>0. PICK m : m = Head(agentOut[i])
  OBVIOUS
<1>1. /\ agentOut \in [Instances -> Seq(StatusMessages)]
      /\ agentOut[i] \in Seq(StatusMessages) /\ agentOut[i] # <<>>
      /\ agentOut' = [agentOut EXCEPT ![i] = Tail(@)]
      /\ reports \in Seq(StatusMessages)
      /\ reports' = Append(reports, m)
  BY <1>0 DEF RouteReport, Typed, BrokerTypeOK
<1>2. /\ m \in Elems(agentOut[i]) /\ m \in StatusMessages
      /\ Elems(Tail(agentOut[i])) \subseteq Elems(agentOut[i])
      /\ NoDup(Tail(agentOut[i]))
      /\ \A r \in Elems(Tail(agentOut[i])) : r.command_id # m.command_id
  <2>1. NoDup(agentOut[i])
    BY DEF UniqueInv
  <2> QED
    BY <1>0, <1>1, <2>1, QueueTail, HeadTailProperties
<1>3. /\ Elems(reports') = Elems(reports) \cup {m}
      /\ NoDup(reports')
  <2>1. NoDup(reports) /\ \A r \in Elems(reports) : r.command_id # m.command_id
    BY <1>2 DEF UniqueInv
  <2> QED
    BY <1>1, <1>2, <2>1, QueueAppend
<1>4. ASSUME NEW j \in Instances
      PROVE  /\ Elems(agentOut'[j]) \subseteq Elems(agentOut[j])
             /\ NoDup(agentOut'[j])
             /\ \A r \in Elems(agentOut'[j]) : r.command_id # m.command_id
  <2>1. CASE j = i
    BY <1>1, <1>2, <2>1
  <2>2. CASE j # i
    <3>1. agentOut'[j] = agentOut[j] /\ NoDup(agentOut[j])
      BY <1>1, <2>2 DEF UniqueInv
    <3>2. ASSUME NEW r \in Elems(agentOut[j]), r.command_id = m.command_id
          PROVE  FALSE
      <4>1. r.instance_id = m.instance_id
        BY <1>2, <3>2 DEF ReportInv, TransitInv, Truthful
      <4> QED
        BY <1>2, <2>2, <4>1 DEF UniqueInv
    <3> QED
      BY <3>1, <3>2
  <2> QED
    BY <2>1, <2>2
<1>5. UniqueInv'
  BY <1>2, <1>3, <1>4 DEF UniqueInv
<1>6. \A c \in Commands : UnderWay(c)' => UnderWay(c)
  BY <1>2, <1>3, <1>4 DEF UnderWay
<1> QED
  BY <1>5, <1>6

\* It is written when its command ends, and the command had not ended before.
LEMMA UniqueWritten ==
    ASSUME Layers, ReportInv, UniqueInv, NEW i \in Instances,
           NEW m \in running[i], NEW ok \in BOOLEAN, ComposeReturns(i, m, ok),
           UNCHANGED status
    PROVE  /\ UniqueInv'
           /\ \A c \in Commands : UnderWay(c)' => UnderWay(c) \/ c = m.command_id
<1>0. PICK e : e = Report(m, ok, i)
  OBVIOUS
<1>1. /\ agentOut \in [Instances -> Seq(StatusMessages)]
      /\ agentOut[i] \in Seq(StatusMessages \cup {e})
      /\ agentOut' = [agentOut EXCEPT ![i] = Append(@, e)]
      /\ UNCHANGED reports
  BY <1>0 DEF ComposeReturns, Layers, Typed, BrokerTypeOK
<1>2. /\ Genuine(m) /\ m.instance_id = i
      /\ outcome[m.command_id] = "started"
  BY DEF Layers, OnceInv, RunInv
<1>3. e.command_id = m.command_id /\ e.instance_id = i
  BY <1>0, <1>2 DEF Report
<1>4. status[e.command_id] # "completed"
  BY <1>2, <1>3 DEF ReportInv, OutcomeJustified, Genuine
<1>5. ASSUME NEW r, Truthful(r), r \in StatusMessages
      PROVE  r.command_id # e.command_id
  BY <1>2, <1>3, <1>5 DEF Truthful, StatusMessages, Terminal
<1>6. ASSUME NEW r \in Elems(reports) PROVE r.command_id # e.command_id
  <2>1. reports \in Seq(StatusMessages) /\ Truthful(r)
    BY <1>6 DEF Layers, Typed, BrokerTypeOK, ReportInv, TransitInv
  <2>2. r \in StatusMessages
    BY <1>6, <2>1, ElementOfSeq DEF Elems
  <2> QED
    BY <1>5, <2>1, <2>2
<1>7. ASSUME NEW j \in Instances, NEW r \in Elems(agentOut[j])
      PROVE  r.command_id # e.command_id
  <2>1. agentOut[j] \in Seq(StatusMessages) /\ Truthful(r)
    BY <1>1, <1>7 DEF ReportInv, TransitInv
  <2>2. r \in StatusMessages
    BY <1>7, <2>1, ElementOfSeq DEF Elems
  <2> QED
    BY <1>5, <2>1, <2>2
<1>8. ASSUME NEW j \in Instances
      PROVE  /\ NoDup(agentOut'[j])
             /\ \/ Elems(agentOut'[j]) = Elems(agentOut[j])
                \/ j = i /\ Elems(agentOut'[j]) = Elems(agentOut[j]) \cup {e}
  <2>1. CASE j = i
    <3>0. agentOut[i] \in Seq(StatusMessages \cup {e})
      BY <1>1
    <3>1. agentOut'[i] = Append(agentOut[i], e) /\ NoDup(agentOut[i])
      BY <1>1 DEF UniqueInv
    <3>2. e \in StatusMessages \cup {e}
      OBVIOUS
    <3>3. \A r \in Elems(agentOut[i]) : r.command_id # e.command_id
      BY <1>7
    <3>4. /\ Elems(Append(agentOut[i], e)) = Elems(agentOut[i]) \cup {e}
          /\ NoDup(Append(agentOut[i], e))
      BY <3>0, <3>1, <3>2, <3>3, QueueAppend
    <3> QED
      BY <2>1, <3>1, <3>4
  <2>2. CASE j # i
    BY <1>1, <2>2 DEF UniqueInv
  <2> QED
    BY <2>1, <2>2
<1>9. ASSUME NEW j \in Instances, NEW r \in Elems(agentOut'[j])
      PROVE  /\ r.instance_id = j
             /\ status'[r.command_id] # "completed"
             /\ \A s \in Elems(reports') : s.command_id # r.command_id
  <2>1. CASE r \in Elems(agentOut[j])
    BY <1>1, <2>1 DEF UniqueInv
  <2>2. CASE r = e /\ j = i
    BY <1>1, <1>3, <1>4, <1>6, <2>2
  <2> QED
    BY <1>8, <1>9, <2>1, <2>2
<1>10. UniqueInv'
  BY <1>1, <1>8, <1>9 DEF UniqueInv
<1>11. \A c \in Commands : UnderWay(c)' => UnderWay(c) \/ c = m.command_id
  BY <1>1, <1>3, <1>8 DEF UnderWay
<1> QED
  BY <1>10, <1>11

LEMMA UniqueNext ==
    ASSUME Layers, ReportInv, UniqueInv, [Next]_vars
    PROVE  /\ UniqueInv'
           /\ \A c \in Commands : Completing(c) => UnderWay(c)
           /\ \A c \in Commands :
                  UnderWay(c)' => UnderWay(c) \/ outcome[c] = "started"
<1>1. ASSUME NEW c \in Commands, Completing(c)
      PROVE  UnderWay(c) /\ ~UnderWay(c)'
  <2>0. PICK m : m = Head(reports)
    OBVIOUS
  <2>1. /\ HandleReport /\ c = m.command_id
        /\ reports # <<>> /\ reports' = Tail(reports) /\ UNCHANGED agentOut
    BY <1>1, <2>0, CompletionsReported DEF HandleReport
  <2>2. reports \in Seq(StatusMessages) /\ NoDup(reports)
    BY DEF Layers, Typed, BrokerTypeOK, UniqueInv
  <2>3. m \in Elems(reports) /\ m \notin Elems(reports')
    BY <2>0, <2>1, <2>2, QueueTail
  <2>4. Shedding
    BY <2>1, SheddingTail DEF Layers
  <2> QED
    BY <2>1, <2>3, <2>4, GoneReport DEF UnderWay
<1>2. CASE Shedding
  <2>1. UniqueInv'
    BY <1>1, <1>2, UniqueShed
  <2>2. \A c \in Commands : UnderWay(c)' => UnderWay(c)
    BY <1>2 DEF Shedding, Sheds, UnderWay
  <2> QED
    BY <1>1, <2>1, <2>2
<1>3. CASE ControlStep \/ ControlFault \/ AgentFault \/ LinkFault
  BY <1>2, <1>3, SheddingControl, SheddingOutside DEF Layers
<1>4. CASE UNCHANGED <<reports, agentOut>>
  BY <1>2, <1>4, SheddingStays
<1>5. CASE BrokerStep
  <2>1. UNCHANGED status
    BY <1>5 DEF BrokerStep, storeVars
  <2>2. ASSUME NEW i \in Instances, RouteReport(i), Listening(Control)
        PROVE  UniqueInv' /\ \A c \in Commands : UnderWay(c)' => UnderWay(c)
    BY <2>1, <2>2, UniqueRouted DEF Layers
  <2>3. ASSUME NEW i \in Instances, RouteReport(i), ~Listening(Control)
        PROVE  Shedding
    BY <2>3, SheddingUnheard DEF Layers
  <2> QED
    BY <1>1, <1>2, <1>4, <1>5, <2>2, <2>3 DEF BrokerStep, RouteCommand
<1>6. CASE AgentStep
  <2>1. UNCHANGED status
    BY <1>6 DEF AgentStep, storeVars
  <2>2. ASSUME NEW i \in Instances, NEW m \in running[i], NEW ok \in BOOLEAN,
               ComposeReturns(i, m, ok)
        PROVE  /\ UniqueInv'
               /\ \A c \in Commands :
                      UnderWay(c)' => UnderWay(c) \/ outcome[c] = "started"
    <3>1. outcome[m.command_id] = "started"
      BY DEF Layers, OnceInv, RunInv
    <3> QED
      BY <2>1, <2>2, <3>1, UniqueWritten
  <2>3. CASE \E i \in Instances : ComposeSucceeds(i) \/ ComposeFails(i)
    BY <1>1, <2>2, <2>3 DEF ComposeSucceeds, ComposeFails, ComposeReturns
  <2> QED
    BY <1>4, <1>6, <2>3
    DEF AgentStep, AgentStart, AgentReceive, AgentReconnects, Reattach
<1> QED
  BY <1>3, <1>4, <1>5, <1>6 DEF Next, Step, Fault, vars, brokerVars

-----------------------------------------------------------------------------
(* What is lost stays lost                                                  *)

Runs(c) == \E i \in Instances : \E m \in running[i] : m.command_id = c

\* The command will never be recorded as completed: it failed, or its agent
\* stopped while it ran, or its report is gone.
Lost(c) ==
    \/ status[c] = "failed"
    \/ outcome[c] = "error"
    \/ outcome[c] = "ok" /\ status[c] # "completed" /\ ~UnderWay(c)
    \/ outcome[c] = "started" /\ ~Runs(c)

\* A command that does not run any more does not start again.
LEMMA EndedStays ==
    ASSUME Layers, [Next]_vars, NEW c \in Commands,
           outcome[c] = "started", ~Runs(c)
    PROVE  outcome'[c] = "started" /\ ~Runs(c)'
<1>0. /\ outcome \in [Commands -> {"none", "started", "ok", "error"}]
      /\ running \in [Instances -> SUBSET CommandMessages]
  BY DEF Layers, Typed, AgentTypeOK
<1>1. CASE /\ UNCHANGED outcome
           /\ \A i \in Instances : running'[i] \subseteq running[i]
  BY <1>1 DEF Runs
<1>2. ASSUME NEW i \in Instances, AgentReceive(i)
      PROVE  outcome'[c] = "started" /\ ~Runs(c)'
  <2>0. PICK m : m = Head(inbox[i])
    OBVIOUS
  <2>1. /\ inbox[i] \in Seq(CommandMessages) /\ inbox[i] # <<>>
        /\ \/ UNCHANGED <<running, outcome>>
           \/ /\ running' = [running EXCEPT ![i] = @ \cup {m}]
              /\ outcome' = [outcome EXCEPT ![m.command_id] = "started"]
    BY <1>2, <2>0 DEF AgentReceive, Layers, Typed, BrokerTypeOK
  <2>2. m \in Elems(inbox[i])
    BY <2>0, <2>1, QueueTail
  <2>3. m.command_id # c
    BY <2>2 DEF Layers, OnceInv, QueueInv, Fresh
  <2>4. \A j \in Instances : running'[j] \subseteq running[j] \cup {m}
    BY <1>0, <2>1
  <2> QED
    BY <1>0, <2>1, <2>3, <2>4 DEF Runs
<1>3. ASSUME NEW i \in Instances, NEW m \in running[i], NEW ok \in BOOLEAN,
             ComposeReturns(i, m, ok)
      PROVE  outcome'[c] = "started" /\ ~Runs(c)'
  <2>1. m.command_id # c
    BY DEF Runs
  <2> QED
    BY <1>0, <1>3, <2>1 DEF ComposeReturns, Runs
<1>4. ASSUME NEW i \in Instances, AgentStop(i)
      PROVE  outcome'[c] = "started" /\ ~Runs(c)'
  BY <1>0, <1>1, <1>4 DEF AgentStop
<1>5. CASE AgentStep
  BY <1>1, <1>2, <1>3, <1>5
  DEF AgentStep, AgentStart, AgentReconnects, ComposeSucceeds, ComposeFails,
      agentVars
<1> QED
  BY <1>1, <1>4, <1>5
  DEF Next, Step, Fault, ControlStep, BrokerStep, ControlFault, AgentFault,
      LinkFault, agentVars, vars

LEMMA LostStays ==
    ASSUME Layers, ReportInv, UniqueInv, [Next]_vars, NEW c \in Commands,
           Lost(c)
    PROVE  Lost(c)'
<1>1. CASE status[c] = "failed"
  BY <1>1, StatusNext DEF Layers, Layer1, Advance, Terminal, Lost
<1>2. CASE outcome[c] = "error"
  BY <1>2, DoneNext DEF DoneStays, Executed, Lost
<1>3. CASE outcome[c] = "ok" /\ status[c] # "completed" /\ ~UnderWay(c)
  <2>1. outcome'[c] = "ok"
    BY <1>3, DoneNext DEF DoneStays, Executed
  <2>2. status'[c] # "completed" /\ ~UnderWay(c)'
    BY <1>3, UniqueNext DEF Completing
  <2> QED
    BY <2>1, <2>2 DEF Lost
<1>4. CASE outcome[c] = "started" /\ ~Runs(c)
  BY <1>4, EndedStays DEF Lost
<1> QED
  BY <1>1, <1>2, <1>3, <1>4 DEF Lost

LEMMA LostIsNotCompleted ==
    ASSUME OutcomeJustified, NEW c \in Commands, Lost(c)
    PROVE  status[c] # "completed"
BY DEF OutcomeJustified, Lost

\* An instance one of whose commands is lost.
Doomed(i) == \E c \in CommandsOf(i) : Lost(c)

LEMMA LostIsIssued ==
    ASSUME Typed, StatusInv, OnceInv, NEW c \in Commands, Lost(c)
    PROVE  c \in Issued /\ status[c] # "none"
<1>1. status[c] # "none"
  BY DEF OnceInv, RunInv, Sent, Lost
<1> QED
  BY <1>1 DEF Typed, StatusInv, DispatchIssued, ControlTypeOK, Commands, Issued

LEMMA DoomedStays ==
    ASSUME Layers, ReportInv, UniqueInv, [Next]_vars, NEW i, Doomed(i)
    PROVE  Doomed(i)'
<1>1. PICK c \in Issued : orders[c].instance_id = i /\ Lost(c)
  BY DEF Doomed, CommandsOf
<1>2. c \in Commands
  BY <1>1, BoundAssumption
  DEF Issued, Commands, Layers, Typed, ControlTypeOK
<1>3. status[c] # "none"
  BY <1>1, <1>2, LostIsIssued DEF Layers
<1>4. Lost(c)'
  BY <1>1, <1>2, LostStays
<1>5. orders'[c] = orders[c]
  BY <1>2, <1>3, RowsAreKept DEF Layers, RowsKept
<1>6. c \in Issued'
  <2>1. Typed' /\ StatusInv' /\ OnceInv'
    BY LayersNext DEF Layers
  <2>2. status'[c] # "none"
    BY <1>2, <1>4, <2>1 DEF OnceInv, RunInv, Sent, Lost
  <2> QED
    BY <1>2, <2>1, <2>2
    DEF Typed, StatusInv, DispatchIssued, ControlTypeOK, Commands, Issued
<1> QED
  BY <1>1, <1>4, <1>5, <1>6 DEF Doomed, CommandsOf

-----------------------------------------------------------------------------
(* The workload state ends where the worker ended                           *)

\* The latest of what an agent has written and the control plane has not yet
\* handled says where the worker is; if there is nothing, the control plane
\* knows, once the flip under way is done.
Agrees(i) ==
    /\ \A m \in Lasts(i, agentOut[i]) : stack[i] = StateOf(m.type)
    /\ Of(i, agentOut[i]) = {} =>
           /\ \A m \in Lasts(i, reports) : stack[i] = StateOf(m.type)
           /\ Of(i, reports) = {} => stack[i] = SettledWorkload[i]

MatchInv == \A i \in Instances : Doomed(i) \/ Agrees(i)

LEMMA AgreesFollow ==
    ASSUME NEW i \in Instances, Agrees(i),
           Follows(i, reports, reports'),
           Follows(i, agentOut[i], agentOut'[i]),
           stack'[i] = stack[i],
           SettledWorkload'[i] = SettledWorkload[i]
    PROVE  Agrees(i)'
BY DEF Agrees, Follows

\* A report that is gone, on a command that is not recorded as completed.
LEMMA LossDooms ==
    ASSUME Layers, [Next]_vars, NEW r, Truthful(r), r.status \in Terminal,
           status'[r.command_id] # "completed", ~UnderWay(r.command_id)'
    PROVE  Doomed(r.instance_id)'
<1>1. Truthful(r)'
  BY StatusNext, DoneNext, TruthfulStays DEF Layers, Layer1, Truthful
<1>2. PICK c \in Commands : c = r.command_id
  BY <1>1 DEF Truthful
<1>3. Lost(c)'
  BY <1>1, <1>2 DEF Truthful, Terminal, Lost
<1>4. c \in Issued' /\ orders'[c].instance_id = r.instance_id
  <2>1. orders' \in Seq(Order)
    BY LayersNext DEF Layers, Typed, ControlTypeOK
  <2> QED
    BY <1>1, <1>2, <2>1, LenProperties, BoundAssumption
    DEF Truthful, Sent, Issued, Commands
<1> QED
  BY <1>3, <1>4 DEF Doomed, CommandsOf

\* A step that only loses reports dooms an instance or changes nothing for it.
LEMMA MatchShed ==
    ASSUME Layers, ReportInv, UniqueInv, [Next]_vars, Shedding,
           NEW i \in Instances, Agrees(i),
           stack'[i] = stack[i],
           SettledWorkload'[i] = SettledWorkload[i],
           \A c \in Commands : ~Completing(c)
    PROVE  Doomed(i)' \/ Agrees(i)'
<1>0. /\ reports \in Seq(StatusMessages)
      /\ agentOut[i] \in Seq(StatusMessages)
  BY DEF Layers, Typed, BrokerTypeOK
<1>1. ASSUME NEW r \in StatusMessages, r.instance_id = i, Truthful(r),
             status[r.command_id] # "completed", ~UnderWay(r.command_id)'
      PROVE  Doomed(i)'
  <2>1. r.status \in Terminal /\ status'[r.command_id] # "completed"
    BY <1>1 DEF StatusMessages, Truthful, Completing
  <2> QED
    BY <1>1, <2>1, LossDooms
<1>2. ASSUME NEW r \in Of(i, reports), r \notin Elems(reports')
      PROVE  Doomed(i)'
  <2>1. r \in Elems(reports) /\ r.instance_id = i
    BY DEF Of
  <2>2. r \in StatusMessages
    BY <1>0, <2>1, ElementOfSeq DEF Elems
  <2>3. ~UnderWay(r.command_id)'
    BY <1>2, <2>1, GoneReport
  <2> QED
    BY <1>1, <2>1, <2>2, <2>3 DEF UniqueInv, ReportInv, TransitInv
<1>3. ASSUME NEW r \in Of(i, agentOut[i]), r \notin Elems(agentOut'[i])
      PROVE  Doomed(i)'
  <2>1. r \in Elems(agentOut[i]) /\ r.instance_id = i
    BY DEF Of
  <2>2. r \in StatusMessages
    BY <1>0, <2>1, ElementOfSeq DEF Elems
  <2>3. ~UnderWay(r.command_id)'
    BY <1>3, <2>1, GoneReport
  <2> QED
    BY <1>1, <2>1, <2>2, <2>3 DEF UniqueInv, ReportInv, TransitInv
<1>4. CASE /\ Of(i, reports) \subseteq Elems(reports')
           /\ Of(i, agentOut[i]) \subseteq Elems(agentOut'[i])
  <2>1. /\ Follows(i, reports, reports')
        /\ Follows(i, agentOut[i], agentOut'[i])
    BY <1>4 DEF Shedding, Sheds
  <2> QED
    BY <2>1, AgreesFollow
<1> QED
  BY <1>2, <1>3, <1>4

\* The handler records the completion that its report is about.
LEMMA MatchHandled ==
    ASSUME Layers, ReportInv, UniqueInv, [Next]_vars, HandleReport,
           UNCHANGED stack, NEW i \in Instances, Agrees(i)
    PROVE  Doomed(i)' \/ Agrees(i)'
<1>0. PICK m : m = Head(reports)
  OBVIOUS
<1>1. /\ reports \in Seq(StatusMessages) /\ reports # <<>>
      /\ reports' = Tail(reports) /\ UNCHANGED agentOut
      /\ m \in Elems(reports) /\ m \in StatusMessages
      /\ workload \in [Instances -> WorkloadState]
  <2>1. /\ reports \in Seq(StatusMessages) /\ reports # <<>>
        /\ reports' = Tail(reports) /\ UNCHANGED agentOut
    BY DEF HandleReport, Layers, Typed, BrokerTypeOK
  <2> QED
    BY <1>0, <2>1, QueueTail, HeadTailProperties
    DEF Layers, Typed, StoreTypeOK
<1>2. Shedding
  BY <1>1, SheddingTail DEF Layers
<1>3. /\ flipping = {} /\ UNCHANGED workload
      /\ \/ flipping' = {} /\ UNCHANGED status
         \/ /\ status' = [status EXCEPT ![m.command_id] = m.status]
            /\ flipping' = IF m.status = "completed" THEN {m} ELSE {}
  BY <1>0
  DEF HandleReport, HandlerIsIdle, CompleteIfPending, FlipsWorkload, storeVars
<1>4. CASE flipping' = {}
  <2>1. SettledWorkload' = SettledWorkload
    BY <1>3, <1>4 DEF SettledWorkload
  <2>2. \A c \in Commands : ~Completing(c)
    <3>1. status \in [Commands -> {"none", "pending"} \cup Terminal]
      BY DEF Layers, Typed, StoreTypeOK
    <3> QED
      BY <1>3, <1>4, <3>1 DEF Completing
  <2> QED
    BY <1>2, <2>1, <2>2, MatchShed
<1>5. CASE flipping' = {m}
  <2>1. m.instance_id \in Instances
    BY <1>1 DEF StatusMessages
  <2>2. SettledWorkload = workload
    <3>1. SettledWorkload = SettleOf({}, workload)
      BY <1>3 DEF SettledWorkload, SettleOf
    <3> QED
      BY <1>1, <3>1, SettleNone
  <2>3. SettledWorkload' = [workload EXCEPT ![m.instance_id] = StateOf(m.type)]
    <3>1. SettledWorkload' = SettleOf({m}, workload)
      BY <1>3, <1>5 DEF SettledWorkload, SettleOf
    <3> QED
      BY <1>1, <2>1, <3>1, SettleOne
  <2>4. /\ Lasts(i, reports') \subseteq Lasts(i, reports)
        /\ Of(i, reports') = {} => Of(i, reports) \subseteq {m}
        /\ Of(i, reports') = {} /\ m.instance_id = i => m \in Lasts(i, reports)
    BY <1>0, <1>1, LastsTail
  <2>5. CASE m.instance_id = i
    <3>1. SettledWorkload'[i] = StateOf(m.type)
      BY <1>1, <2>3, <2>5
    <3> QED
      BY <1>1, <2>4, <2>5, <3>1 DEF Agrees
  <2>6. CASE m.instance_id # i
    <3>1. SettledWorkload'[i] = SettledWorkload[i]
      BY <1>1, <2>2, <2>3, <2>6
    <3>2. Of(i, reports') = {} => Of(i, reports) = {}
      BY <2>4, <2>6 DEF Of
    <3> QED
      BY <1>1, <2>4, <3>1, <3>2 DEF Agrees
  <2> QED
    BY <2>5, <2>6
<1> QED
  BY <1>3, <1>4, <1>5

\* Reports of one instance keep their order on the way.
LEMMA MatchRouted ==
    ASSUME Layers, ReportInv, UniqueInv, NEW j \in Instances, RouteReport(j),
           Listening(Control), UNCHANGED stack, UNCHANGED SettledWorkload,
           NEW i \in Instances, Agrees(i)
    PROVE  Agrees(i)'
<1>0. PICK m : m = Head(agentOut[j])
  OBVIOUS
<1>1. /\ agentOut \in [Instances -> Seq(StatusMessages)]
      /\ agentOut[j] \in Seq(StatusMessages) /\ agentOut[j] # <<>>
      /\ agentOut' = [agentOut EXCEPT ![j] = Tail(@)]
      /\ reports \in Seq(StatusMessages)
      /\ reports' = Append(reports, m)
  BY <1>0 DEF RouteReport, Layers, Typed, BrokerTypeOK
<1>2. m \in StatusMessages /\ m.instance_id = j
  <2>1. m \in Elems(agentOut[j])
    BY <1>0, <1>1, QueueTail
  <2> QED
    BY <1>0, <1>1, <2>1, HeadTailProperties DEF UniqueInv
<1>3. /\ m.instance_id = i => /\ Lasts(i, reports') \subseteq {m}
                              /\ Of(i, reports') # {}
      /\ m.instance_id # i => Follows(i, reports, reports')
  BY <1>1, <1>2, LastsAppend
<1>4. CASE i = j
  <2>1. /\ Lasts(i, Tail(agentOut[i])) \subseteq Lasts(i, agentOut[i])
        /\ Of(i, Tail(agentOut[i])) = {} => m \in Lasts(i, agentOut[i])
    BY <1>0, <1>1, <1>2, <1>4, LastsTail
  <2>2. agentOut'[i] = Tail(agentOut[i])
    BY <1>1, <1>4
  <2> QED
    BY <1>2, <1>3, <1>4, <2>1, <2>2 DEF Agrees
<1>5. CASE i # j
  <2>1. agentOut'[i] = agentOut[i]
    BY <1>1, <1>5
  <2>2. Follows(i, agentOut[i], agentOut'[i])
    BY <2>1 DEF Follows
  <2> QED
    BY <1>2, <1>3, <1>5, <2>2, AgreesFollow
<1> QED
  BY <1>4, <1>5

\* A worker that has done what a command asked for says so last.
LEMMA MatchWritten ==
    ASSUME Layers, ReportInv, UniqueInv, [Next]_vars, NEW j \in Instances,
           NEW m \in running[j], NEW ok \in BOOLEAN, ComposeReturns(j, m, ok),
           UNCHANGED SettledWorkload, NEW i \in Instances, Agrees(i)
    PROVE  Doomed(i)' \/ Agrees(i)'
<1>0. PICK e : e = Report(m, ok, j)
  OBVIOUS
<1>1. /\ agentOut \in [Instances -> Seq(StatusMessages)]
      /\ agentOut[j] \in Seq(StatusMessages \cup {e})
      /\ agentOut' = [agentOut EXCEPT ![j] = Append(@, e)]
      /\ stack \in [Instances -> WorkloadState]
      /\ stack' = [stack EXCEPT ![j] =
                       IF ok THEN StateOf(m.type) ELSE "unknown"]
      /\ outcome \in [Commands -> {"none", "started", "ok", "error"}]
      /\ outcome' = [outcome EXCEPT ![m.command_id] =
                         IF ok THEN "ok" ELSE "error"]
      /\ UNCHANGED reports
  BY <1>0 DEF ComposeReturns, Layers, Typed, BrokerTypeOK, AgentTypeOK
<1>2. Genuine(m) /\ m.instance_id = j
  BY DEF Layers, OnceInv, RunInv
<1>3. e.instance_id = j /\ e.type = m.type
  BY <1>0, <1>2 DEF Report
<1>4. CASE i # j
  <2>1. /\ agentOut'[i] = agentOut[i] /\ stack'[i] = stack[i]
    BY <1>1, <1>4
  <2> QED
    BY <1>1, <2>1 DEF Agrees
<1>5. CASE i = j /\ ok
  <2>1. agentOut'[i] = Append(agentOut[i], e)
    BY <1>1, <1>5
  <2>2. Lasts(i, agentOut'[i]) \subseteq {e} /\ Of(i, agentOut'[i]) # {}
    <3>1. agentOut[i] \in Seq(StatusMessages \cup {e})
      BY <1>1, <1>5
    <3>2. e.instance_id = i
      BY <1>3, <1>5
    <3>3. /\ Lasts(i, Append(agentOut[i], e)) \subseteq {e}
          /\ Of(i, Append(agentOut[i], e)) # {}
      <4>1. PICK T : T = StatusMessages \cup {e}
        OBVIOUS
      <4>2. PICK q \in Seq(T) : q = agentOut[i]
        BY <3>1, <4>1
      <4>3. e \in T
        BY <4>1
      <4>4. Lasts(i, Append(q, e)) \subseteq {e} /\ Of(i, Append(q, e)) # {}
        BY <3>2, <4>3, LastsAppend
      <4> QED
        BY <4>2, <4>4
    <3> QED
      BY <2>1, <3>3
  <2>3. stack'[i] = StateOf(e.type)
    BY <1>1, <1>3, <1>5
  <2> QED
    BY <2>2, <2>3 DEF Agrees
<1>6. CASE i = j /\ ~ok
  <2>1. PICK c \in Commands : c = m.command_id
    BY <1>2 DEF Genuine
  <2>2. Genuine(m)'
    BY <1>2, GenuineStays, StatusNext DEF Genuine, Layers, Layer1
  <2>3. Lost(c)'
    BY <1>1, <1>6, <2>1 DEF Lost
  <2>4. c \in Issued' /\ orders'[c].instance_id = i
    <3>1. orders' \in Seq(Order)
      BY LayersNext DEF Layers, Typed, ControlTypeOK
    <3> QED
      BY <1>2, <1>6, <2>1, <2>2, <3>1, LenProperties, BoundAssumption
      DEF Genuine, Sent, CommandMessage, Issued, Commands
  <2> QED
    BY <2>3, <2>4 DEF Doomed, CommandsOf
<1> QED
  BY <1>4, <1>5, <1>6

\* An agent that is stopped while a command runs will never report on it.
LEMMA StopDooms ==
    ASSUME Layers, [Next]_vars, NEW i \in Instances, AgentStop(i),
           NEW m \in running[i]
    PROVE  Doomed(i)'
<1>1. /\ Genuine(m) /\ m.instance_id = i
      /\ outcome[m.command_id] = "started"
  BY DEF Layers, OnceInv, RunInv
<1>2. PICK c \in Commands : c = m.command_id
  BY <1>1 DEF Genuine
<1>3. Genuine(m)'
  BY <1>1, GenuineStays, StatusNext DEF Genuine, Layers, Layer1
<1>4. /\ running \in [Instances -> SUBSET CommandMessages]
      /\ running' = [running EXCEPT ![i] = {}]
      /\ UNCHANGED outcome
  BY DEF AgentStop, Layers, Typed, AgentTypeOK
<1>5. ASSUME NEW j \in Instances, NEW n \in running'[j], n.command_id = c
      PROVE  FALSE
  <2>1. j # i /\ n \in running[j]
    BY <1>4, <1>5
  <2>2. Genuine(n) /\ n.instance_id = j
    BY <2>1 DEF Layers, OnceInv, RunInv
  <2>3. n = m
    BY <1>1, <1>2, <1>5, <2>2 DEF Genuine
  <2> QED
    BY <1>1, <2>1, <2>2, <2>3
<1>6. Lost(c)'
  BY <1>1, <1>2, <1>4, <1>5 DEF Lost, Runs
<1>7. c \in Issued' /\ orders'[c].instance_id = i
  <2>1. orders' \in Seq(Order)
    BY LayersNext DEF Layers, Typed, ControlTypeOK
  <2> QED
    BY <1>1, <1>2, <1>3, <2>1, LenProperties, BoundAssumption
    DEF Genuine, Sent, CommandMessage, Issued, Commands
<1> QED
  BY <1>6, <1>7 DEF Doomed, CommandsOf

LEMMA MatchNext ==
    ASSUME FlipMayFail = FALSE, Layers, ReportInv, OneFlip, UniqueInv,
           MatchInv, [Next]_vars
    PROVE  MatchInv'
<1> SUFFICES ASSUME NEW i \in Instances, Agrees(i)
             PROVE  Doomed(i)' \/ Agrees(i)'
  BY DoomedStays DEF MatchInv
<1>0. ASSUME UNCHANGED <<workload, flipping>>
      PROVE  SettledWorkload' = SettledWorkload
  BY <1>0 DEF SettledWorkload
<1>1. ASSUME Shedding, ~HandleReport, stack'[i] = stack[i],
             SettledWorkload' = SettledWorkload
      PROVE  Doomed(i)' \/ Agrees(i)'
  BY <1>1, CompletionsReported, MatchShed
<1>2. CASE UNCHANGED <<reports, agentOut, stack, workload, flipping, status>>
  <2>1. Shedding
    BY <1>2, SheddingStays
  <2>2. \A c \in Commands : ~Completing(c)
    BY <1>2 DEF Completing
  <2> QED
    BY <1>0, <1>2, <2>1, <2>2, MatchShed
<1>3. CASE ControlStep
  <2>1. Shedding /\ UNCHANGED stack
    BY <1>3, SheddingControl DEF Layers, ControlStep, agentVars
  <2>2. CASE HandleReport
    BY <2>1, <2>2, MatchHandled
  <2>3. CASE FlipWorkload
    <3>1. SettledWorkload' = SettledWorkload
      BY <2>3, FlipStutters, RowsAreKept DEF Layers, Ledger!ledger
    <3>2. ~HandleReport
      BY <2>3 DEF FlipWorkload, HandleReport, HandlerIsIdle
    <3> QED
      BY <1>1, <2>1, <3>1, <3>2
  <2>4. CASE ~HandleReport /\ UNCHANGED <<workload, flipping>>
    BY <1>0, <1>1, <2>1, <2>4
  <2> QED
    BY <1>3, <2>2, <2>3, <2>4
    DEF ControlStep, Request, ControlStart, IssueCommand, SavePending,
        InsertPending, Publish, ProbeNoResponders, ProbeTimeout, Expire, Sweep,
        FailPending, ControlConnect, ControlSubscribe, ControlServe,
        ControlReconnects, storeVars, controlVars
<1>4. CASE ControlFault
  <2>1. Shedding /\ UNCHANGED stack
    BY <1>4, SheddingControl DEF Layers, ControlFault, agentVars
  <2>2. UNCHANGED <<workload, flipping>>
    BY <1>4
    DEF ControlFault, SaveFails, InsertPending, PublishFails, ReportFails,
        FlipIsSafe, FlipFails, ControlStop, storeVars, controlVars
  <2>3. CASE HandleReport
    BY <2>1, <2>3, MatchHandled
  <2> QED
    BY <1>0, <1>1, <2>1, <2>2, <2>3
<1>5. CASE AgentFault \/ LinkFault \/ AgentStep \/ BrokerStep
  <2>1. /\ UNCHANGED <<workload, flipping, status>>
        /\ \A c \in Commands : ~Completing(c)
    BY <1>5
    DEF AgentFault, LinkFault, AgentStep, BrokerStep, storeVars, controlVars,
        Completing
  <2>2. SettledWorkload' = SettledWorkload
    BY <1>0, <2>1
  <2>3. ASSUME Shedding, stack'[i] = stack[i]
        PROVE  Doomed(i)' \/ Agrees(i)'
    BY <2>1, <2>2, <2>3, MatchShed
  <2>4. CASE LinkFault
    BY <2>3, <2>4, SheddingOutside DEF LinkFault, agentVars, Layers
  <2>5. ASSUME NEW j \in Instances, AgentFault, AgentStop(j)
        PROVE  Doomed(i)' \/ Agrees(i)'
    <3>1. CASE i = j /\ running[i] # {}
      BY <2>5, <3>1, StopDooms
    <3>2. CASE i # j \/ running[i] = {}
      <4>1. stack'[i] = stack[i]
        BY <2>5, <3>2 DEF AgentStop, IsIdle, Layers, Typed, AgentTypeOK
      <4> QED
        BY <2>3, <2>5, <4>1, SheddingOutside DEF Layers
    <3> QED
      BY <3>1, <3>2
  <2>6. ASSUME NEW j \in Instances, RouteReport(j), BrokerStep
        PROVE  Doomed(i)' \/ Agrees(i)'
    <3>1. UNCHANGED stack
      BY <2>6 DEF BrokerStep, agentVars
    <3>2. CASE Listening(Control)
      BY <2>2, <2>6, <3>1, <3>2, MatchRouted
    <3>3. CASE ~Listening(Control)
      BY <2>3, <2>6, <3>1, <3>3, SheddingUnheard DEF Layers
    <3> QED
      BY <3>2, <3>3
  <2>7. ASSUME NEW j \in Instances, NEW m \in running[j], NEW ok \in BOOLEAN,
               ComposeReturns(j, m, ok)
        PROVE  Doomed(i)' \/ Agrees(i)'
    BY <2>2, <2>7, MatchWritten
  <2> QED
    BY <1>2, <1>5, <2>1, <2>4, <2>5, <2>6, <2>7
    DEF AgentFault, AgentStep, AgentStart, AgentReceive, AgentReconnects,
        Reattach, ComposeSucceeds, ComposeFails, BrokerStep, RouteCommand,
        agentVars
<1> QED
  BY <1>2, <1>3, <1>4, <1>5
  DEF Next, Step, Fault, vars, brokerVars, storeVars, agentVars, controlVars

\* Reports on a worker reach the control plane in the order in which the worker
\* ended its commands, and none is dropped unless its command stays short of
\* completed: so when all the commands of an instance have completed, and the
\* flip of the last one is done, the workload state is the state of the worker.
THEOREM WorkloadFollowsWorker ==
    FlipMayFail = FALSE => (Spec => []WorkloadMatchesWorker)
<1> SUFFICES ASSUME FlipMayFail = FALSE
             PROVE  Spec => []WorkloadMatchesWorker
  OBVIOUS
<1> DEFINE Inv == Layers /\ ReportInv /\ OneFlip /\ UniqueInv /\ MatchInv
<1>1. Init => Inv
  <2> SUFFICES ASSUME Init PROVE Inv
    OBVIOUS
  <2>1. UniqueInv
    BY QueueEmpty DEF Init, BrokerInit, UniqueInv
  <2>2. SettledWorkload = [i \in Instances |-> "unknown"]
    BY DEF Init, StoreInit, ControlInit, SettledWorkload
  <2>3. \A i : Lasts(i, <<>>) = {}
    BY DEF Lasts
  <2>4. ASSUME NEW i \in Instances PROVE Agrees(i)
    <3>1. agentOut[i] = <<>> /\ reports = <<>> /\ stack[i] = "unknown"
      BY DEF Init, BrokerInit, AgentInit
    <3> QED
      BY <2>2, <2>3, <3>1 DEF Agrees
  <2> QED
    BY <2>1, <2>4, LayersInit, ReportInit, LedgerInit DEF MatchInv
<1>2. Inv /\ [Next]_vars => Inv'
  BY LayersNext, ReportNext, LedgerNext, UniqueNext, MatchNext
<1>3. Inv => WorkloadMatchesWorker
  <2> SUFFICES ASSUME Inv, NEW i \in Instances, flipping = {},
                      \A c \in CommandsOf(i) : status[c] = "completed"
               PROVE  workload[i] = stack[i]
    BY DEF WorkloadMatchesWorker
  <2>1. CommandsOf(i) \subseteq Commands
    BY BoundAssumption
    DEF CommandsOf, Issued, Commands, Layers, Typed, ControlTypeOK
  <2>2. Agrees(i)
    BY <2>1, LostIsNotCompleted DEF MatchInv, Doomed, ReportInv
  <2>3. ASSUME NEW r, Truthful(r), r.instance_id = i
        PROVE  status[r.command_id] = "completed"
    <3>1. Len(orders) \in Nat
      BY LenProperties DEF Layers, Typed, ControlTypeOK
    <3>2. r.command_id \in 1 .. MaxCommands /\ r.command_id <= Len(orders)
      BY <2>3 DEF Truthful, Sent, Commands
    <3>3. r.command_id \in Issued
      BY <3>1, <3>2, BoundAssumption DEF Issued
    <3> QED
      BY <2>3, <3>3 DEF Truthful, CommandsOf
  <2>4. Of(i, agentOut[i]) = {} /\ Of(i, reports) = {}
    BY <2>3 DEF Of, UniqueInv, ReportInv, TransitInv
  <2>5. SettledWorkload[i] = workload[i]
    BY DEF SettledWorkload
  <2> QED
    BY <2>2, <2>4, <2>5 DEF Agrees
<1> QED
  BY <1>1, <1>2, <1>3, PTL DEF Spec
=============================================================================
