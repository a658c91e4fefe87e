------------------------- MODULE RegistrationProofs -------------------------
(* Theorems of Registration, for any agents, projects, settings and bounds. *)
EXTENDS Registration, FiniteSetTheorems, TLAPS

\* Every variable keeps its type: the retries stay within MaxAttempts, and
\* what is on disk is never anything but the number of a call.
Typed ==
    /\ proc \in [Hosts -> Proc]
    /\ attempt \in [Hosts -> 0 .. MaxAttempts]
    /\ awaited \in [Hosts -> Calls \cup {None}]
    /\ used \in [Hosts -> Calls \cup {None}]
    /\ tmp \in [Hosts -> Calls \cup {None, Torn}]
    /\ disk \in [Hosts -> Calls \cup {None}]
    /\ caller \in [Calls -> Hosts \cup {None}]
    /\ handler \in [Calls -> Handler]
    /\ found \in [Calls -> Calls \cup {None}]
    /\ project \in [Projects -> Calls \cup {None}]
    /\ row \in [Calls -> Calls \cup {None}]

-----------------------------------------------------------------------------
(* The control plane's side                                                 *)

\* A call that was made has a caller; one that has found its project found
\* the row of that name; a row refers to that row.
CallOK(k) ==
    /\ handler[k] = "none" => row[k] = None
    /\ handler[k] # "none" => caller[k] \in Hosts
    /\ handler[k] = "conflict" => project[NameOf(k)] # None
    /\ handler[k] = "instance" => /\ found[k] # None
                                  /\ found[k] = project[NameOf(k)]
    /\ handler[k] = "replied" => row[k] # None
    /\ row[k] # None => row[k] = project[NameOf(k)]

CallInv == \A k \in Calls : CallOK(k)

\* What no step undoes: calls keep their callers, names and calls their rows.
Keeps ==
    /\ \A k \in Calls : /\ handler[k] # "none" => /\ handler'[k] # "none"
                                                 /\ caller'[k] = caller[k]
                        /\ row[k] # None => row'[k] = row[k]
    /\ \A n \in Projects : project[n] # None => project'[n] = project[n]

LEMMA CallUnchanged ==
    ASSUME CallInv, UNCHANGED controlVars
    PROVE  CallInv' /\ Keeps
BY DEF CallInv, CallOK, Keeps, controlVars, NameOf

\* The end of a handler in any way that leaves the tables alone.
LEMMA CallEnds ==
    ASSUME Typed, CallInv, NEW j \in Calls, handler[j] \in Busy,
           NEW end \in {"failed", "lost"},
           handler' = [handler EXCEPT ![j] = end],
           UNCHANGED <<caller, found, project, row>>
    PROVE  CallInv' /\ Keeps
BY DEF Typed, CallInv, CallOK, Keeps, NameOf, Busy, Handler

\* The project row of a call appears, or is there already.
LEMMA ProjectAdded ==
    ASSUME Typed, CallInv, NEW j \in Calls, handler[j] = "project",
           AddProject(j)
    PROVE  /\ NameOf(j) \in Projects
           /\ project'[NameOf(j)] # None
           /\ project[NameOf(j)] = None => project'[NameOf(j)] = j
           /\ \A n \in Projects : project[n] # None => project'[n] = project[n]
           /\ project' \in [Projects -> Calls \cup {None}]
<1>1. caller[j] \in Hosts /\ NameOf(j) \in Projects
  BY SettingsAssumption DEF CallInv, CallOK, NameOf
<1> QED
  BY <1>1, NoneAssumption DEF Typed, AddProject

\* Every step of a handler, failures included, keeps the invariant.
LEMMA CallProject ==
    ASSUME Typed, CallInv, NEW j \in Calls, handler[j] = "project",
           AddProject(j), UNCHANGED <<caller, row>>,
           \/ /\ project[NameOf(j)] = None
              /\ found' = [found EXCEPT ![j] = j]
              /\ handler' = [handler EXCEPT ![j] = "instance"]
           \/ /\ project[NameOf(j)] # None
              /\ found' = found
              /\ handler' = [handler EXCEPT ![j] = "conflict"]
           \/ /\ found' = found
              /\ handler' = [handler EXCEPT ![j] = "failed"]
    PROVE  CallInv' /\ Keeps
<1>1. /\ \A k \in Calls : k # j => /\ handler'[k] = handler[k]
                                   /\ found'[k] = found[k]
      /\ \A k \in Calls : row'[k] = row[k] /\ caller'[k] = caller[k]
      /\ handler'[j] \in {"instance", "conflict", "failed"}
      /\ handler'[j] = "instance" => /\ found'[j] = j
                                     /\ project[NameOf(j)] = None
  BY DEF Typed
<1>2. \A k \in Calls : NameOf(k)' = NameOf(k)
  BY <1>1 DEF NameOf
<1>3. \A k \in Calls : handler[k] # "none" => NameOf(k) \in Projects
  BY SettingsAssumption DEF CallInv, CallOK, NameOf
<1>4. Keeps
  BY <1>1, ProjectAdded DEF Keeps
<1>5. ASSUME NEW k \in Calls PROVE CallOK(k)'
  <2>1. CASE k = j
    BY <1>1, <1>2, <2>1, ProjectAdded, NoneAssumption DEF CallInv, CallOK
  <2>2. CASE k # j
    BY <1>1, <1>2, <1>3, <1>4, <2>2, NoneAssumption
    DEF CallInv, CallOK, Keeps
  <2> QED
    BY <2>1, <2>2
<1> QED
  BY <1>4, <1>5 DEF CallInv

LEMMA CallInstance ==
    ASSUME Typed, CallInv, NEW j \in Calls, handler[j] = "instance",
           AddInstance(j), NEW end \in {"replied", "failed"},
           handler' = [handler EXCEPT ![j] = end],
           UNCHANGED <<caller, found, project>>
    PROVE  CallInv' /\ Keeps
BY DEF Typed, CallInv, CallOK, Keeps, NameOf, AddInstance

LEMMA CallNext ==
    ASSUME Typed, CallInv, [Next]_vars
    PROVE  CallInv' /\ Keeps
<1>1. ASSUME NEW j \in Calls, InsertProject(j) PROVE CallInv' /\ Keeps
  BY <1>1, CallProject DEF InsertProject, AfterConflict
<1>2. ASSUME NEW j \in Calls, SelectProject(j) PROVE CallInv' /\ Keeps
  BY <1>2 DEF SelectProject, ProjectOfName, Typed, CallInv, CallOK, Keeps,
              NameOf
<1>3. ASSUME NEW j \in Calls, InsertInstance(j) PROVE CallInv' /\ Keeps
  BY <1>3, CallInstance DEF InsertInstance
<1>4. ASSUME NEW j \in Calls, HandlerFails(j) PROVE CallInv' /\ Keeps
  <2>1. CASE UNCHANGED <<project, row>>
    BY <1>4, <2>1, CallEnds DEF HandlerFails
  <2>2. CASE handler[j] = "project" /\ AddProject(j) /\ UNCHANGED row
    BY <1>4, <2>2, CallProject DEF HandlerFails
  <2>3. CASE handler[j] = "instance" /\ AddInstance(j) /\ UNCHANGED project
    BY <1>4, <2>3, CallInstance DEF HandlerFails
  <2> QED
    BY <1>4, <2>1, <2>2, <2>3 DEF HandlerFails
<1>5. ASSUME NEW h \in Hosts, NEW k \in Calls, Register(h, k)
      PROVE  CallInv' /\ Keeps
  BY <1>5, NoneAssumption
  DEF Register, Typed, CallInv, CallOK, Keeps, NameOf
<1>6. ASSUME NEW h \in Hosts, Unreachable(h) PROVE CallInv' /\ Keeps
  <2>1. CASE UNCHANGED handler
    BY <1>6, <2>1, CallUnchanged DEF Unreachable, controlVars
  <2>2. CASE /\ handler[awaited[h]] \in Busy
             /\ handler' = [handler EXCEPT ![awaited[h]] = "lost"]
    <3>1. CASE awaited[h] \in Calls
      BY <1>6, <2>2, <3>1, CallEnds DEF Unreachable
    <3>2. CASE awaited[h] \notin Calls
      <4>1. UNCHANGED handler
        BY <2>2, <3>2 DEF Typed
      <4> QED
        BY <2>1, <4>1
    <3> QED
      BY <3>1, <3>2
  <2> QED
    BY <1>6, <2>1, <2>2 DEF Unreachable
<1>7. ASSUME NEW h \in Hosts,
             \/ Boot(h) \/ ReplyArrives(h) \/ ErrorArrives(h) \/ WriteTmp(h)
             \/ Replace(h) \/ AgentStop(h) \/ ResetIdentity(h) \/ Crash(h)
      PROVE  CallInv' /\ Keeps
  BY <1>7, CallUnchanged
  DEF Boot, ReplyArrives, ErrorArrives, WriteTmp, Replace, AgentStop,
      ResetIdentity, Crash
<1>8. CASE UNCHANGED vars
  BY <1>8, CallUnchanged DEF vars
<1> QED
  BY <1>1, <1>2, <1>3, <1>4, <1>5, <1>6, <1>7, <1>8
  DEF Next, Step, Fault, Reset, AgentStep, HandlerStep

-----------------------------------------------------------------------------
(* The agents' side                                                         *)

\* Identity k was made for agent h, and its row is committed.
Registered(h, k) == k \in Calls /\ caller[k] = h /\ row[k] # None

HostOK(h) ==
    /\ awaited[h] # None => caller[awaited[h]] = h
                            /\ handler[awaited[h]] # "none"
    /\ proc[h] = "waiting" => awaited[h] # None
    /\ used[h] # None => Registered(h, used[h])
    /\ proc[h] \in {"saving", "replacing"} => used[h] # None
    /\ proc[h] = "replacing" => tmp[h] = used[h]
    /\ disk[h] # None => Registered(h, disk[h])
    /\ proc[h] = "running" /\ h \notin Overridden
           => used[h] = disk[h] /\ disk[h] # None

HostInv == \A h \in Hosts : HostOK(h)

\* The state of agent h is left alone; the control plane may do anything.
Same(h) ==
    /\ proc'[h] = proc[h] /\ awaited'[h] = awaited[h] /\ used'[h] = used[h]
    /\ tmp'[h] = tmp[h] /\ disk'[h] = disk[h]

LEMMA RegisteredStays ==
    ASSUME CallInv, Keeps, NEW h \in Hosts, NEW k, Registered(h, k)
    PROVE  Registered(h, k)'
BY DEF CallInv, CallOK, Keeps, Registered

LEMMA HostSame ==
    ASSUME Typed, CallInv, Keeps, NEW h \in Hosts, HostOK(h), Same(h)
    PROVE  HostOK(h)'
<1>1. \A k : Registered(h, k) => Registered(h, k)'
  BY RegisteredStays
<1>2. awaited[h] # None => awaited[h] \in Calls
  BY DEF Typed
<1> QED
  BY <1>1, <1>2 DEF HostOK, Same, Keeps

\* A step of agent h concerns no other agent.
LEMMA HostsSame ==
    ASSUME Typed, CallInv, Keeps, HostInv, NEW h \in Hosts, HostOK(h)',
           \A g \in Hosts : g # h => Same(g)
    PROVE  HostInv'
BY HostSame DEF HostInv

LEMMA HostNext ==
    ASSUME Typed, CallInv, HostInv, [Next]_vars
    PROVE  HostInv'
<1> USE CallNext
<1> USE DEF agentVars, controlVars
<1>1. ASSUME UNCHANGED agentVars PROVE HostInv'
  BY <1>1, HostSame DEF HostInv, Same
<1>2. ASSUME NEW h \in Hosts, Boot(h) PROVE HostInv'
  <2>1. \A g \in Hosts : g # h => Same(g)
    BY <1>2 DEF Boot, Same, Typed
  <2>2. HostOK(h)'
    BY <1>2 DEF Boot, HasIdentity, HostInv, HostOK, Typed, Registered
  <2> QED
    BY <2>1, <2>2, HostsSame
<1>3. ASSUME NEW h \in Hosts, NEW k \in Calls, Register(h, k) PROVE HostInv'
  <2>1. \A g \in Hosts : g # h => Same(g)
    BY <1>3 DEF Register, Same, Typed
  <2>2. \A j : Registered(h, j) => Registered(h, j)'
    BY RegisteredStays
  <2>3. HostOK(h)'
    BY <1>3, <2>2, NoneAssumption DEF Register, HostInv, HostOK, Typed
  <2> QED
    BY <2>1, <2>3, HostsSame
<1>4. ASSUME NEW h \in Hosts, ReplyArrives(h) PROVE HostInv'
  <2>1. \A g \in Hosts : g # h => Same(g)
    BY <1>4 DEF ReplyArrives, Same, Typed
  <2>2. awaited[h] \in Calls /\ Registered(h, awaited[h])
    BY <1>4
    DEF ReplyArrives, HostInv, HostOK, Typed, CallInv, CallOK, Registered
  <2>3. HostOK(h)'
    BY <1>4, <2>2 DEF ReplyArrives, HostInv, HostOK, Typed, Registered
  <2> QED
    BY <2>1, <2>3, HostsSame
<1>5. ASSUME NEW h \in Hosts, WriteTmp(h) \/ Replace(h) PROVE HostInv'
  <2>1. \A g \in Hosts : g # h => Same(g)
    BY <1>5 DEF WriteTmp, Replace, Same, Typed
  <2>2. HostOK(h)'
    BY <1>5 DEF WriteTmp, Replace, HostInv, HostOK, Typed, Registered
  <2> QED
    BY <2>1, <2>2, HostsSame
<1>6. ASSUME NEW h \in Hosts,
             ErrorArrives(h) \/ AgentStop(h) \/ Crash(h) \/ ResetIdentity(h)
      PROVE  HostInv'
  <2>1. \A g \in Hosts : g # h => Same(g)
    BY <1>6
    DEF ErrorArrives, AgentStop, Crash, ResetIdentity, Exit, TornFile, Same,
        Typed
  <2>2. HostOK(h)'
    BY <1>6
    DEF ErrorArrives, AgentStop, Crash, ResetIdentity, Exit, TornFile,
        HostInv, HostOK, Typed, Registered
  <2> QED
    BY <2>1, <2>2, HostsSame
<1>7. ASSUME NEW h \in Hosts, Unreachable(h) PROVE HostInv'
  <2>1. \A g \in Hosts : g # h => Same(g)
    BY <1>7 DEF Unreachable, Exit, Same, Typed
  <2>2. \A j : Registered(h, j) => Registered(h, j)'
    BY RegisteredStays
  <2>3. HostOK(h)'
    BY <1>7, <2>2 DEF Unreachable, Exit, HostInv, HostOK, Typed
  <2> QED
    BY <2>1, <2>3, HostsSame
<1>8. CASE UNCHANGED vars
  BY <1>1, <1>8 DEF vars
<1> QED
  BY <1>1, <1>2, <1>3, <1>4, <1>5, <1>6, <1>7, <1>8
  DEF Next, Step, Fault, Reset, AgentStep, HandlerStep, InsertProject,
      SelectProject, InsertInstance, HandlerFails

-----------------------------------------------------------------------------
(* Types and theorems                                                       *)

\* A process that is about to call has an attempt left.
AttemptInv ==
    \A h \in Hosts : /\ proc[h] = "down" => attempt[h] = 0
                     /\ proc[h] = "registering" => attempt[h] < MaxAttempts

LEMMA AttemptNext ==
    ASSUME Typed, AttemptInv, [Next]_vars
    PROVE  AttemptInv' /\ attempt' \in [Hosts -> 0 .. MaxAttempts]
<1> USE SettingsAssumption
<1> USE DEF Typed, AttemptInv, agentVars, Proc
<1>1. ASSUME NEW h \in Hosts, AgentStep(h)
      PROVE  AttemptInv' /\ attempt' \in [Hosts -> 0 .. MaxAttempts]
  BY <1>1
  DEF AgentStep, Boot, Register, ReplyArrives, ErrorArrives, WriteTmp,
      Replace, Exit
<1>2. ASSUME NEW h \in Hosts,
             AgentStop(h) \/ ResetIdentity(h) \/ Unreachable(h) \/ Crash(h)
      PROVE  AttemptInv' /\ attempt' \in [Hosts -> 0 .. MaxAttempts]
  BY <1>2 DEF AgentStop, ResetIdentity, Unreachable, MayRetry, Crash, Exit
<1> QED
  BY <1>1, <1>2
  DEF Next, Step, Fault, Reset, HandlerStep, InsertProject, SelectProject,
      InsertInstance, HandlerFails, vars

LEMMA TypeNext ==
    ASSUME Typed, CallInv, HostInv, AttemptInv, [Next]_vars
    PROVE  Typed'
<1> USE NoneAssumption
<1> USE DEF Typed, agentVars, controlVars, Proc, Handler, Busy
<1>0. attempt' \in [Hosts -> 0 .. MaxAttempts]
  BY AttemptNext
<1>1. ASSUME NEW h \in Hosts, NEW k \in Calls, Register(h, k) PROVE Typed'
  BY <1>0, <1>1 DEF Register
<1>2. ASSUME NEW h \in Hosts,
             Boot(h) \/ ReplyArrives(h) \/ ErrorArrives(h) \/ WriteTmp(h)
      PROVE  Typed'
  BY <1>0, <1>2 DEF Boot, ReplyArrives, ErrorArrives, WriteTmp, Exit
<1>3. ASSUME NEW h \in Hosts, Replace(h) PROVE Typed'
  BY <1>0, <1>3 DEF Replace, HostInv, HostOK
<1>4. ASSUME NEW h \in Hosts,
             AgentStop(h) \/ ResetIdentity(h) \/ Unreachable(h) \/ Crash(h)
      PROVE  Typed'
  BY <1>0, <1>4
  DEF AgentStop, ResetIdentity, Unreachable, Crash, Exit, TornFile
<1>5. ASSUME NEW j \in Calls, InsertProject(j) PROVE Typed'
  BY <1>0, <1>5, ProjectAdded DEF InsertProject, AfterConflict
<1>6. ASSUME NEW j \in Calls, SelectProject(j) \/ InsertInstance(j)
      PROVE  Typed'
  <2>1. NameOf(j) \in Projects
    BY <1>6, SettingsAssumption
    DEF SelectProject, InsertInstance, CallInv, CallOK, NameOf
  <2> QED
    BY <1>0, <1>6, <2>1
    DEF SelectProject, InsertInstance, AddInstance, ProjectOfName
<1>7. ASSUME NEW j \in Calls, HandlerFails(j) PROVE Typed'
  BY <1>0, <1>7, ProjectAdded DEF HandlerFails, AddInstance
<1>8. CASE UNCHANGED vars
  BY <1>8 DEF vars
<1> QED
  BY <1>1, <1>2, <1>3, <1>4, <1>5, <1>6, <1>7, <1>8
  DEF Next, Step, Fault, Reset, AgentStep, HandlerStep

IInv == Typed /\ CallInv /\ HostInv /\ AttemptInv

LEMMA InvInit == Init => IInv
BY SettingsAssumption
DEF Init, IInv, Typed, CallInv, CallOK, HostInv, HostOK, AttemptInv, Proc,
    Handler, Busy

LEMMA InvNext == IInv /\ [Next]_vars => IInv'
BY TypeNext, CallNext, HostNext, AttemptNext DEF IInv

\* Every variable keeps its type; in particular no process calls the control
\* plane more than MaxAttempts times, and no torn file ever gets to the name
\* the next start reads.
THEOREM RegistrationTyped == Spec => []TypeOK
<1>1. Init => IInv /\ faultsLeft \in 0 .. MaxFaults
                   /\ resetsLeft \in 0 .. MaxResets
  BY InvInit, CountsAssumption DEF Init
<1>2. /\ IInv /\ faultsLeft \in 0 .. MaxFaults /\ resetsLeft \in 0 .. MaxResets
      /\ [Next]_vars
      => /\ IInv'
         /\ (faultsLeft \in 0 .. MaxFaults)' /\ (resetsLeft \in 0 .. MaxResets)'
  <2> SUFFICES ASSUME IInv, faultsLeft \in 0 .. MaxFaults,
                      resetsLeft \in 0 .. MaxResets, [Next]_vars
               PROVE  /\ IInv'
                      /\ faultsLeft' \in 0 .. MaxFaults
                      /\ resetsLeft' \in 0 .. MaxResets
    OBVIOUS
  <2>1. faultsLeft' \in 0 .. MaxFaults /\ resetsLeft' \in 0 .. MaxResets
    BY CountsAssumption
    DEF Next, Step, Fault, Reset, ResetIdentity, vars
  <2> QED
    BY <2>1, InvNext
<1>3. IInv /\ faultsLeft \in 0 .. MaxFaults /\ resetsLeft \in 0 .. MaxResets
          => TypeOK
  BY DEF IInv, Typed, TypeOK
<1> QED
  BY <1>1, <1>2, <1>3, PTL DEF Spec

\* Whatever was lost, torn or repeated on the way: an agent that runs without
\* an override runs with the identity on its disk, and that identity has a
\* committed row made for this agent, so the tokens of both sides agree.
THEOREM IdentitiesHold == Spec => []IdentityIsRegistered
<1>1. IInv => IdentityIsRegistered
  BY DEF IInv, HostInv, HostOK, Registered, IdentityIsRegistered
<1> QED
  BY <1>1, InvInit, InvNext, PTL DEF Spec

\* However many agents of a new project race to create it, and whichever of
\* their statements fail, all instance rows of a name refer to one project.
THEOREM ProjectsAreUnique == Spec => []OneProjectPerName
<1>1. IInv => OneProjectPerName
  BY DEF IInv, CallInv, CallOK, OneProjectPerName
<1> QED
  BY <1>1, InvInit, InvNext, PTL DEF Spec

-----------------------------------------------------------------------------
(* More of the invariant: what an agent holds while it registers            *)

\* A handler that is not done has not inserted its row.
BusyInv == \A k \in Calls : handler[k] \in Busy => row[k] = None

\* An agent that registers holds nothing on disk, waits for one call at most,
\* and has in memory what it saves or what it has saved.
HoldOK(h) ==
    /\ disk[h] # None => proc[h] \in {"down", "running"}
    /\ awaited[h] # None => proc[h] = "waiting"
    /\ used[h] # None => \/ proc[h] \in {"saving", "replacing"}
                         \/ proc[h] = "running" /\ used[h] = disk[h]

HoldInv == \A h \in Hosts : HoldOK(h)

LEMMA BusyNext ==
    ASSUME Typed, CallInv, BusyInv, [Next]_vars
    PROVE  BusyInv'
<1> USE DEF Typed, CallInv, CallOK, BusyInv, Busy
<1>1. ASSUME NEW j \in Calls, HandlerStep(j) PROVE BusyInv'
  BY <1>1
  DEF HandlerStep, InsertProject, SelectProject, InsertInstance, AddInstance,
      AfterConflict
<1>2. ASSUME NEW j \in Calls, HandlerFails(j) PROVE BusyInv'
  BY <1>2 DEF HandlerFails, AddInstance
<1>3. ASSUME NEW h \in Hosts, NEW k \in Calls, Register(h, k) PROVE BusyInv'
  BY <1>3 DEF Register
<1>4. ASSUME NEW h \in Hosts, Unreachable(h) PROVE BusyInv'
  BY <1>4 DEF Unreachable
<1>5. ASSUME UNCHANGED <<handler, row>> PROVE BusyInv'
  BY <1>5
<1> QED
  BY <1>1, <1>2, <1>3, <1>4, <1>5
  DEF Next, Step, Fault, Reset, AgentStep, Boot, ReplyArrives, ErrorArrives,
      WriteTmp, Replace, AgentStop, ResetIdentity, Crash, controlVars, vars

LEMMA HoldNext ==
    ASSUME Typed, HostInv, HoldInv, [Next]_vars
    PROVE  HoldInv'
<1> USE DEF Typed, HoldInv, HoldOK
<1>1. ASSUME NEW h \in Hosts, Boot(h) PROVE HoldInv'
  BY <1>1 DEF Boot, HasIdentity
<1>2. ASSUME NEW h \in Hosts, NEW k \in Calls, Register(h, k) PROVE HoldInv'
  BY <1>2 DEF Register
<1>3. ASSUME NEW h \in Hosts, ReplyArrives(h) PROVE HoldInv'
  BY <1>3 DEF ReplyArrives
<1>4. ASSUME NEW h \in Hosts, WriteTmp(h) PROVE HoldInv'
  BY <1>4 DEF WriteTmp
<1>5. ASSUME NEW h \in Hosts, Replace(h) PROVE HoldInv'
  BY <1>5 DEF Replace, HostInv, HostOK
<1>6. ASSUME NEW h \in Hosts,
             ErrorArrives(h) \/ AgentStop(h) \/ Crash(h) \/ ResetIdentity(h)
      PROVE  HoldInv'
  BY <1>6 DEF ErrorArrives, AgentStop, Crash, ResetIdentity, Exit, TornFile
<1>7. ASSUME NEW h \in Hosts, Unreachable(h) PROVE HoldInv'
  BY <1>7 DEF Unreachable, Exit
<1>8. ASSUME UNCHANGED agentVars PROVE HoldInv'
  BY <1>8 DEF agentVars
<1> QED
  BY <1>1, <1>2, <1>3, <1>4, <1>5, <1>6, <1>7, <1>8
  DEF Next, Step, Fault, Reset, AgentStep, HandlerStep, InsertProject,
      SelectProject, InsertInstance, HandlerFails, vars

RInv == IInv /\ BusyInv /\ HoldInv

LEMMA RInvInit == Init => RInv
BY InvInit DEF Init, RInv, BusyInv, HoldInv, HoldOK, Busy

LEMMA RInvNext == RInv /\ [Next]_vars => RInv'
BY InvNext, BusyNext, HoldNext DEF RInv, IInv

-----------------------------------------------------------------------------
(* Steps of the registration as steps of Enrolment                          *)

\* The identities are as before, i excepted; so are their owners.
Others(i) ==
    \A k \in Calls : k # i => /\ IdentityState(k)' = IdentityState(k)
                              /\ IdentityOwner(k)' = IdentityOwner(k)

LEMMA Stutters ==
    ASSUME NEW i, i \notin Calls, Others(i)
    PROVE  UNCHANGED Enrol!vars
BY DEF Others, Enrol!vars

LEMMA Loses ==
    ASSUME NEW i \in Calls, Others(i), IdentityOwner(i)' = IdentityOwner(i),
           IdentityState(i) \in {"offered", "held"},
           IdentityState(i)' = "lost"
    PROVE  Enrol!Next
<1>1. Enrol!Lose(i)
  BY DEF Others, Enrol!Lose, Enrol!Live
<1> QED
  BY <1>1 DEF Enrol!Next

LEMMA Holds ==
    ASSUME NEW i \in Calls, Others(i), IdentityOwner(i)' = IdentityOwner(i),
           IdentityState(i) = "offered", IdentityState(i)' = "held"
    PROVE  Enrol!Next
<1>1. Enrol!Hold(i)
  BY DEF Others, Enrol!Hold
<1> QED
  BY <1>1 DEF Enrol!Next

LEMMA Makes ==
    ASSUME NEW i \in Calls, NEW h \in Hosts, Others(i),
           IdentityState(i) = "none", IdentityOwner(i)' = h,
           \/ IdentityState(i)' = "lost"
           \/ /\ IdentityState(i)' = "offered"
              /\ \A k \in Calls : IdentityOwner(k) = h =>
                     IdentityState(k) \notin {"offered", "held"}
    PROVE  Enrol!Next
<1>1. Enrol!Make(i, h)
  BY DEF Others, Enrol!Make, Enrol!Live
<1> QED
  BY <1>1 DEF Enrol!Next

-----------------------------------------------------------------------------
(* Steps of an agent                                                        *)

\* The tables stay, and so does what the agents other than h have.
Apart(h) ==
    /\ UNCHANGED <<caller, row>>
    /\ \A g \in Hosts : g # h => /\ awaited'[g] = awaited[g]
                                 /\ used'[g] = used[g]
                                 /\ disk'[g] = disk[g]

\* An identity with a row has a host; its state follows from what that has.
LEMMA RowHasHost ==
    ASSUME CallInv, NEW k \in Calls, row[k] # None
    PROVE  caller[k] \in Hosts
BY DEF CallInv, CallOK

LEMMA OthersApart ==
    ASSUME CallInv, NEW h \in Hosts, Apart(h), NEW i,
           \A k \in Calls : k # i /\ caller[k] = h /\ row[k] # None =>
               /\ disk'[h] = k <=> disk[h] = k
               /\ disk[h] = k \/ (k \in {used'[h], awaited'[h]}
                                      <=> k \in {used[h], awaited[h]})
    PROVE  Others(i)
<1> SUFFICES ASSUME NEW k \in Calls, k # i
             PROVE  /\ IdentityState(k)' = IdentityState(k)
                    /\ IdentityOwner(k)' = IdentityOwner(k)
  BY DEF Others
<1>1. CASE row[k] = None
  BY <1>1 DEF Apart, IdentityState, IdentityOwner
<1>2. CASE row[k] # None /\ caller[k] # h
  BY <1>2, RowHasHost DEF Apart, IdentityState, IdentityOwner, Claimed
<1>3. CASE row[k] # None /\ caller[k] = h
  BY <1>3 DEF Apart, IdentityState, IdentityOwner, Claimed
<1> QED
  BY <1>1, <1>2, <1>3

\* The process forgets what it waits for and what it has not saved.
LEMMA Forgets ==
    ASSUME RInv, NEW h \in Hosts, Apart(h), disk' = disk,
           awaited'[h] = None, used'[h] = None
    PROVE  [Enrol!Next]_(Enrol!vars)
<1> USE NoneAssumption
<1>1. ASSUME NEW i \in Calls, i \in {used[h], awaited[h]}, i # disk[h],
             row[i] # None, caller[i] = h,
             \A k \in Calls : k \in {used[h], awaited[h]} => k = i
      PROVE  Enrol!Next
  <2>1. Others(i)
    BY <1>1, OthersApart DEF RInv, IInv
  <2>2. IdentityState(i) = "offered" /\ IdentityState(i)' = "lost"
    BY <1>1 DEF Apart, IdentityState, Claimed
  <2>3. IdentityOwner(i)' = IdentityOwner(i)
    BY <1>1 DEF Apart, IdentityOwner
  <2> QED
    BY <2>1, <2>2, <2>3, Loses
<1>2. ASSUME \A k \in Calls : k \in {used[h], awaited[h]} /\ row[k] # None
                                  => k = disk[h]
      PROVE  UNCHANGED Enrol!vars
  <2>1. Others(None)
    BY <1>2, OthersApart DEF RInv, IInv
  <2> QED
    BY <2>1, Stutters
<1>3. CASE used[h] # None /\ used[h] # disk[h]
  BY <1>1, <1>3 DEF RInv, IInv, HostInv, HostOK, HoldInv, HoldOK, Registered
<1>4. CASE used[h] = None /\ awaited[h] # None
  <2>1. awaited[h] \in Calls /\ caller[awaited[h]] = h /\ awaited[h] # disk[h]
    BY <1>4 DEF RInv, IInv, Typed, HostInv, HostOK, HoldInv, HoldOK
  <2>2. CASE row[awaited[h]] # None
    BY <1>1, <1>4, <2>1, <2>2
  <2>3. CASE row[awaited[h]] = None
    BY <1>2, <1>4, <2>3
  <2> QED
    BY <2>2, <2>3
<1>5. CASE used[h] = None /\ awaited[h] = None
  BY <1>2, <1>5
<1>6. CASE used[h] # None /\ used[h] = disk[h]
  BY <1>2, <1>6 DEF RInv, IInv, HostInv, HostOK, HoldInv, HoldOK
<1> QED
  BY <1>3, <1>4, <1>5, <1>6

LEMMA AgentRefines ==
    ASSUME RInv, NEW h \in Hosts,
           AgentStep(h) \/ AgentStop(h) \/ Unreachable(h) \/ Crash(h)
    PROVE  [Enrol!Next]_(Enrol!vars)
<1> USE NoneAssumption DEF RInv, IInv
<1>1. CASE Boot(h) \/ ReplyArrives(h) \/ WriteTmp(h)
  <2>1. Apart(h)
    BY <1>1
    DEF Boot, ReplyArrives, WriteTmp, Apart, controlVars, Typed
  <2>2. \A k \in Calls :
            /\ disk'[h] = k <=> disk[h] = k
            /\ disk[h] = k \/ (k \in {used'[h], awaited'[h]}
                                   <=> k \in {used[h], awaited[h]})
    BY <1>1
    DEF Boot, ReplyArrives, WriteTmp, HoldInv, HoldOK, Typed
  <2>3. Others(None)
    BY <2>1, <2>2, OthersApart
  <2> QED
    BY <2>3, Stutters
<1>2. ASSUME NEW j \in Calls, Register(h, j)
      PROVE  [Enrol!Next]_(Enrol!vars)
  <2>1. row[j] = None /\ row' = row /\ disk' = disk /\ used' = used
    BY <1>2 DEF Register, CallInv, CallOK
  <2>2. \A k \in Calls : k # j => caller'[k] = caller[k]
    BY <1>2 DEF Register, Typed
  <2>3. \A g \in Hosts :
            \/ awaited'[g] = awaited[g]
            \/ g = h /\ awaited[g] = None /\ awaited'[g] = j
    BY <1>2 DEF Register, Typed, HoldInv, HoldOK
  <2>4. ASSUME NEW k \in Calls
        PROVE  /\ IdentityState(k)' = IdentityState(k)
               /\ IdentityOwner(k)' = IdentityOwner(k)
    <3>1. CASE row[k] = None
      BY <2>1, <3>1 DEF IdentityState, IdentityOwner
    <3>2. CASE row[k] # None
      BY <2>1, <2>2, <2>3, <3>2, RowHasHost
      DEF IdentityState, IdentityOwner, Claimed
    <3> QED
      BY <3>1, <3>2
  <2>5. Others(None)
    BY <2>4 DEF Others
  <2> QED
    BY <2>5, Stutters
<1>3. CASE ErrorArrives(h) \/ AgentStop(h) \/ Crash(h)
  <2>1. Apart(h) /\ disk' = disk /\ awaited'[h] = None /\ used'[h] = None
    BY <1>3
    DEF ErrorArrives, AgentStop, Crash, Exit, TornFile, Apart, controlVars,
        Typed
  <2> QED
    BY <2>1, Forgets
<1>4. CASE Unreachable(h)
  <2>1. Apart(h) /\ disk' = disk /\ awaited'[h] = None /\ used'[h] = None
    BY <1>4 DEF Unreachable, Exit, Apart, Typed, HoldInv, HoldOK
  <2> QED
    BY <2>1, Forgets
<1>5. CASE Replace(h)
  <2>0. PICK i \in Calls : i = used[h] /\ row[i] # None /\ caller[i] = h
    BY <1>5 DEF Replace, HostInv, HostOK, HoldInv, HoldOK, Registered, Typed
  <2>1. used[h] = i /\ disk[h] = None /\ awaited[h] = None /\ tmp[h] = i
    BY <1>5, <2>0
    DEF Replace, HostInv, HostOK, HoldInv, HoldOK, Registered, Typed
  <2>2. Apart(h) /\ disk'[h] = i /\ used'[h] = i /\ awaited'[h] = None
    BY <1>5, <2>1 DEF Replace, Apart, controlVars, Typed
  <2>3. Others(i)
    BY <2>0, <2>1, <2>2, OthersApart
  <2>4. IdentityState(i) = "offered" /\ IdentityState(i)' = "held"
    BY <2>0, <2>1, <2>2 DEF Apart, IdentityState, Claimed
  <2>5. IdentityOwner(i)' = IdentityOwner(i)
    BY <2>2 DEF Apart, IdentityOwner
  <2> QED
    BY <2>1, <2>3, <2>4, <2>5, Holds
<1> QED
  BY <1>1, <1>2, <1>3, <1>4, <1>5 DEF AgentStep

LEMMA ResetRefines ==
    ASSUME RInv, NEW h \in Hosts, ResetIdentity(h)
    PROVE  Enrol!Next
<1> USE NoneAssumption DEF RInv, IInv
<1>0. PICK i \in Calls : i = disk[h] /\ row[i] # None /\ caller[i] = h
  BY DEF ResetIdentity, HasIdentity, HostInv, HostOK, Registered
<1>1. disk[h] = i /\ used[h] = None /\ awaited[h] = None
  BY <1>0 DEF ResetIdentity, HasIdentity, HoldInv, HoldOK
<1>2. /\ Apart(h) /\ disk'[h] = None
      /\ used'[h] = None /\ awaited'[h] = None
  BY <1>1 DEF ResetIdentity, Apart, controlVars, Typed
<1>3. Others(i)
  BY <1>0, <1>1, <1>2, OthersApart
<1>4. IdentityState(i) = "held" /\ IdentityState(i)' = "lost"
  BY <1>0, <1>1, <1>2 DEF Apart, IdentityState, Claimed
<1>5. IdentityOwner(i)' = IdentityOwner(i)
  BY <1>2 DEF Apart, IdentityOwner
<1> QED
  BY <1>1, <1>3, <1>4, <1>5, Loses

-----------------------------------------------------------------------------
(* Steps of the control plane                                               *)

LEMMA InsertRefines ==
    ASSUME RInv, NEW j \in Calls, handler[j] = "instance", AddInstance(j),
           UNCHANGED caller, UNCHANGED agentVars
    PROVE  Enrol!Next
<1> USE NoneAssumption DEF RInv, IInv
<1> DEFINE h == caller[j]
<1>1. /\ row[j] = None /\ h \in Hosts /\ row'[j] # None
      /\ \A k \in Calls : k # j => row'[k] = row[k]
  BY DEF Typed, BusyInv, Busy, CallInv, CallOK, AddInstance
<1>2. UNCHANGED <<caller, disk, used, awaited>>
  BY DEF agentVars
<1>3. Others(j)
  BY <1>1, <1>2 DEF Others, IdentityState, IdentityOwner, Claimed
<1>4. IdentityState(j) = "none" /\ IdentityOwner(j)' = h
  BY <1>1, <1>2 DEF IdentityState, IdentityOwner
<1>5. disk[h] # j /\ used[h] # j
  BY <1>1 DEF HostInv, HostOK, Registered
<1>6. CASE awaited[h] # j
  <2>1. IdentityState(j)' = "lost"
    BY <1>1, <1>2, <1>5, <1>6 DEF IdentityState, Claimed
  <2> QED
    BY <1>1, <1>3, <1>4, <2>1, Makes
<1>7. CASE awaited[h] = j
  <2>1. IdentityState(j)' = "offered"
    BY <1>1, <1>2, <1>5, <1>7 DEF IdentityState, Claimed
  <2>2. disk[h] = None /\ used[h] = None
    BY <1>1, <1>7 DEF HoldInv, HoldOK
  <2>3. ASSUME NEW k \in Calls, IdentityOwner(k) = h
        PROVE  IdentityState(k) \notin {"offered", "held"}
    BY <1>1, <1>7, <2>2, <2>3 DEF IdentityState, IdentityOwner, Claimed
  <2> QED
    BY <1>1, <1>3, <1>4, <2>1, <2>3, Makes
<1> QED
  BY <1>6, <1>7

LEMMA ControlRefines ==
    ASSUME RInv, NEW j \in Calls, HandlerStep(j) \/ HandlerFails(j)
    PROVE  [Enrol!Next]_(Enrol!vars)
<1>1. CASE UNCHANGED <<caller, row>> /\ UNCHANGED agentVars
  <2>1. Others(None)
    BY <1>1 DEF Others, IdentityState, IdentityOwner, Claimed, agentVars
  <2> QED
    BY <2>1, Stutters, NoneAssumption
<1>2. CASE /\ handler[j] = "instance" /\ AddInstance(j)
           /\ UNCHANGED caller /\ UNCHANGED agentVars
  BY <1>2, InsertRefines
<1> QED
  BY <1>1, <1>2
  DEF HandlerStep, InsertProject, SelectProject, InsertInstance, HandlerFails

-----------------------------------------------------------------------------
LEMMA InitRefines == Init => Enrol!Init
BY DEF Init, Enrol!Init, IdentityState, IdentityOwner

LEMMA NextRefines == RInv /\ [Next]_vars => [Enrol!Next]_(Enrol!vars)
<1> SUFFICES ASSUME RInv, [Next]_vars PROVE [Enrol!Next]_(Enrol!vars)
  OBVIOUS
<1>1. CASE UNCHANGED vars
  <2>1. Others(None)
    BY <1>1
    DEF Others, IdentityState, IdentityOwner, Claimed, vars, agentVars,
        controlVars
  <2> QED
    BY <2>1, Stutters, NoneAssumption
<1>2. CASE Step
  BY <1>2, AgentRefines, ControlRefines DEF Step
<1>3. CASE Fault
  BY <1>3, AgentRefines, ControlRefines DEF Fault
<1>4. CASE Reset
  BY <1>4, ResetRefines DEF Reset
<1> QED
  BY <1>1, <1>2, <1>3, <1>4 DEF Next

\* However agents retry, crash and are reset, and whichever replies are lost:
\* the registration implements Enrolment.  An identity is made for one agent,
\* an agent has one live identity at a time, and a lost one stays lost.
THEOREM RegistrationEnrols == Spec => EnrolmentSpec
<1>1. Init => RInv /\ Enrol!Init
  BY RInvInit, InitRefines
<1>2. RInv /\ [Next]_vars => RInv' /\ [Enrol!Next]_(Enrol!vars)
  BY RInvNext, NextRefines
<1> QED
  BY <1>1, <1>2, PTL DEF Spec, EnrolmentSpec, Enrol!Spec

-----------------------------------------------------------------------------
(* Rows nobody will use                                                     *)

\* A row that is not in use, or will not be once its handler is done, or whose
\* caller is going to see an error.
Orphan(k) ==
    \/ handler[k] \in Busy /\ awaited[caller[k]] # k
    \/ row[k] # None /\ (handler[k] = "failed" \/ ~Claimed(k))

Orphans == {k \in Calls : Orphan(k)}

OrphanInv ==
    Cardinality(Orphans) <= (MaxFaults - faultsLeft) + (MaxResets - resetsLeft)

\* A call that was made has a host; what the host has is what matters to it.
LEMMA OrphanHost ==
    ASSUME RInv, NEW k \in Calls, handler[k] # "none"
    PROVE  caller[k] \in Hosts
BY DEF RInv, IInv, CallInv, CallOK

LEMMA AgentOrphans ==
    ASSUME RInv, NEW h \in Hosts, AgentStep(h) \/ AgentStop(h)
    PROVE  \A k \in Calls : Orphan(k)' => Orphan(k)
<1> SUFFICES ASSUME NEW k \in Calls, Orphan(k)'
             PROVE  Orphan(k)
  OBVIOUS
<1>0. /\ Typed /\ HostOK(h) /\ HoldOK(h) /\ CallOK(k)
      /\ handler[k] # "none" => caller[k] \in Hosts
  BY OrphanHost DEF RInv, IInv, HostInv, HoldInv, CallInv
<1> USE DEF Orphan, Claimed, Typed, controlVars, Busy
<1>1. CASE Boot(h)
  BY <1>0, <1>1, NoneAssumption DEF Boot, HasIdentity, HoldOK, CallOK
<1>2. ASSUME NEW j \in Calls, Register(h, j)
      PROVE  Orphan(k)
  <2>1. CASE k = j
    BY <1>0, <1>2, <2>1 DEF Register, CallOK
  <2>2. CASE k # j
    BY <1>0, <1>2, <2>2, NoneAssumption DEF Register, HoldOK, CallOK
  <2> QED
    BY <2>1, <2>2
<1>3. CASE ReplyArrives(h)
  BY <1>0, <1>3, NoneAssumption DEF ReplyArrives, HoldOK, HostOK, CallOK
<1>4. CASE ErrorArrives(h)
  BY <1>0, <1>4, NoneAssumption DEF ErrorArrives, Exit, HoldOK, HostOK, CallOK
<1>5. CASE WriteTmp(h)
  BY <1>0, <1>5 DEF WriteTmp, CallOK
<1>6. CASE Replace(h)
  BY <1>0, <1>6, NoneAssumption DEF Replace, HoldOK, HostOK, CallOK
<1>7. CASE AgentStop(h)
  BY <1>0, <1>7, NoneAssumption DEF AgentStop, Exit, HoldOK, HostOK, CallOK
<1> QED
  BY <1>1, <1>2, <1>3, <1>4, <1>5, <1>6, <1>7 DEF AgentStep

LEMMA HandlerOrphans ==
    ASSUME RInv, NEW j \in Calls, HandlerStep(j)
    PROVE  \A k \in Calls : Orphan(k)' => Orphan(k)
<1> USE DEF RInv, IInv, Typed, Orphan, Claimed, Busy, agentVars
<1>1. CASE InsertProject(j)
  BY <1>1 DEF InsertProject, AfterConflict
<1>2. CASE SelectProject(j)
  BY <1>2 DEF SelectProject
<1>3. CASE InsertInstance(j)
  BY <1>3 DEF InsertInstance, AddInstance
<1> QED
  BY <1>1, <1>2, <1>3 DEF HandlerStep

\* A fault or a reset makes an orphan of one call at most.
LEMMA FaultOrphans ==
    ASSUME RInv, \/ \E j \in Calls : HandlerFails(j)
                 \/ \E h \in Hosts : Unreachable(h) \/ Crash(h) \/ ResetIdentity(h)
    PROVE  \E x : \A k \in Calls : Orphan(k)' => Orphan(k) \/ k = x
<1>1. ASSUME NEW j \in Calls, HandlerFails(j)
      PROVE  \A k \in Calls : Orphan(k)' => Orphan(k) \/ k = j
  BY <1>1
  DEF HandlerFails, AddInstance, RInv, IInv, Typed, Orphan, Claimed, Busy, agentVars
<1>2. ASSUME NEW h \in Hosts, Unreachable(h) \/ Crash(h) \/ ResetIdentity(h)
      PROVE  \E x : \A k \in Calls : Orphan(k)' => Orphan(k) \/ k = x
  <2>0. Typed /\ HostOK(h) /\ HoldOK(h)
    BY DEF RInv, IInv, HostInv, HoldInv
  <2>1. \A k \in Calls : /\ row[k] # None => caller[k] \in Hosts
                         /\ handler[k] \in Busy => caller[k] \in Hosts /\ row[k] = None
    BY DEF RInv, IInv, CallInv, CallOK, BusyInv, Busy
  <2> USE <2>0, <2>1, NoneAssumption
      DEF Typed, HostOK, HoldOK, Orphan, Claimed, controlVars, Busy
  <2>2. CASE Unreachable(h)
    <3>1. PICK x : x = awaited[h]
      OBVIOUS
    <3>2. \A k \in Calls : Orphan(k)' => Orphan(k) \/ k = x
      BY <2>2, <3>1 DEF Unreachable, Exit
    <3> QED
      BY <3>2
  <2>3. CASE Crash(h)
    <3>1. PICK x : x = IF awaited[h] # None THEN awaited[h]
                       ELSE IF disk[h] # None THEN None ELSE used[h]
      OBVIOUS
    <3>2. \A k \in Calls : Orphan(k)' => Orphan(k) \/ k = x
      BY <2>3, <3>1 DEF Crash, TornFile, Exit
    <3> QED
      BY <3>2
  <2>4. CASE ResetIdentity(h)
    <3>1. PICK x : x = disk[h]
      OBVIOUS
    <3>2. \A k \in Calls : Orphan(k)' => Orphan(k) \/ k = x
      BY <2>4, <3>1 DEF ResetIdentity
    <3> QED
      BY <3>2
  <2> QED
    BY <1>2, <2>2, <2>3, <2>4
<1> QED
  BY <1>1, <1>2

LEMMA OrphansStep ==
    ASSUME RInv, [Next]_vars
    PROVE  \/ Orphans' \subseteq Orphans /\ UNCHANGED <<faultsLeft, resetsLeft>>
           \/ \E x : /\ Orphans' \subseteq Orphans \cup {x}
                     /\ faultsLeft > 0 /\ faultsLeft' = faultsLeft - 1
                     /\ UNCHANGED resetsLeft
           \/ \E x : /\ Orphans' \subseteq Orphans \cup {x}
                     /\ resetsLeft > 0 /\ resetsLeft' = resetsLeft - 1
                     /\ UNCHANGED faultsLeft
<1>1. CASE Step
  <2>1. \A k \in Calls : Orphan(k)' => Orphan(k)
    BY <1>1, AgentOrphans, HandlerOrphans DEF Step
  <2> QED
    BY <1>1, <2>1 DEF Step, Orphans
<1>2. CASE Fault
  <2>1. PICK x : \A k \in Calls : Orphan(k)' => Orphan(k) \/ k = x
    BY <1>2, FaultOrphans DEF Fault
  <2>2. Orphans' \subseteq Orphans \cup {x}
    BY <2>1 DEF Orphans
  <2> QED
    BY <1>2, <2>2 DEF Fault
<1>3. CASE Reset
  <2>1. PICK x : \A k \in Calls : Orphan(k)' => Orphan(k) \/ k = x
    BY <1>3, FaultOrphans DEF Reset
  <2>2. Orphans' \subseteq Orphans \cup {x}
    BY <2>1 DEF Orphans
  <2> QED
    BY <1>3, <2>2 DEF Reset, ResetIdentity
<1>4. CASE UNCHANGED vars
  BY <1>4 DEF vars, agentVars, controlVars, Orphans, Orphan, Claimed
<1> QED
  BY <1>1, <1>2, <1>3, <1>4 DEF Next

CountsTyped == faultsLeft \in 0 .. MaxFaults /\ resetsLeft \in 0 .. MaxResets

LEMMA OrphansFinite ==
    /\ IsFiniteSet(Orphans)
    /\ \A S : S \subseteq Orphans => /\ IsFiniteSet(S)
                                    /\ Cardinality(S) \in Nat
                                    /\ Cardinality(S) <= Cardinality(Orphans)
<1>1. IsFiniteSet(Calls)
  BY FS_Interval, CountsAssumption DEF Calls
<1>2. IsFiniteSet(Orphans)
  BY <1>1, FS_Subset DEF Orphans
<1> QED
  BY <1>2, FS_Subset, FS_CardinalityType

\* A set that grows by one element at most.
LEMMA OneMore ==
    ASSUME NEW S, NEW T, NEW x, IsFiniteSet(S), T \subseteq S \cup {x}
    PROVE  /\ Cardinality(S) \in Nat /\ Cardinality(T) \in Nat
           /\ Cardinality(T) <= Cardinality(S) + 1
<1>1. /\ IsFiniteSet(S \cup {x}) /\ Cardinality(S) \in Nat
      /\ Cardinality(S \cup {x})
             = IF x \in S THEN Cardinality(S) ELSE Cardinality(S) + 1
  BY FS_AddElement, FS_CardinalityType
<1>2. Cardinality(T) \in Nat /\ Cardinality(T) <= Cardinality(S \cup {x})
  BY <1>1, FS_Subset, FS_CardinalityType
<1> QED
  BY <1>1, <1>2

LEMMA OrphanNext ==
    ASSUME RInv, CountsTyped, OrphanInv, [Next]_vars
    PROVE  CountsTyped' /\ OrphanInv'
<1>1. /\ faultsLeft \in Nat /\ resetsLeft \in Nat
      /\ MaxFaults \in Nat /\ MaxResets \in Nat
      /\ faultsLeft <= MaxFaults /\ resetsLeft <= MaxResets
      /\ Cardinality(Orphans) \in Nat
      /\ Cardinality(Orphans) <= (MaxFaults - faultsLeft) + (MaxResets - resetsLeft)
  BY OrphansFinite, CountsAssumption DEF CountsTyped, OrphanInv
<1>2. CASE Orphans' \subseteq Orphans /\ UNCHANGED <<faultsLeft, resetsLeft>>
  <2>1. Cardinality(Orphans') \in Nat /\ Cardinality(Orphans') <= Cardinality(Orphans)
    BY <1>2, OrphansFinite
  <2> QED
    BY <1>1, <1>2, <2>1 DEF CountsTyped, OrphanInv
<1>3. ASSUME NEW x, Orphans' \subseteq Orphans \cup {x},
             \/ /\ faultsLeft > 0 /\ faultsLeft' = faultsLeft - 1
                /\ UNCHANGED resetsLeft
             \/ /\ resetsLeft > 0 /\ resetsLeft' = resetsLeft - 1
                /\ UNCHANGED faultsLeft
      PROVE  CountsTyped' /\ OrphanInv'
  <2>1. /\ Cardinality(Orphans') \in Nat
        /\ Cardinality(Orphans') <= Cardinality(Orphans) + 1
    BY <1>3, OneMore, OrphansFinite
  <2>2. CountsTyped'
    BY <1>1, <1>3 DEF CountsTyped
  <2>3. Cardinality(Orphans')
            <= (MaxFaults - faultsLeft') + (MaxResets - resetsLeft')
    BY <1>1, <1>3, <2>1
  <2> QED
    BY <2>2, <2>3 DEF OrphanInv
<1> QED
  BY <1>2, <1>3, OrphansStep

\* However agents restart and retry: for a row that no agent will ever use,
\* there was a fault or a reset of its own.
THEOREM OrphansCounted == Spec => []OrphansAreAccounted
<1>1. Init => RInv /\ CountsTyped /\ OrphanInv
  <2> SUFFICES ASSUME Init PROVE CountsTyped /\ OrphanInv
    BY RInvInit
  <2>1. Orphans = {}
    BY DEF Init, Orphans, Orphan, Busy
  <2> QED
    BY <2>1, FS_EmptySet, CountsAssumption DEF Init, CountsTyped, OrphanInv
<1>2. RInv /\ CountsTyped /\ OrphanInv /\ [Next]_vars
          => (RInv /\ CountsTyped /\ OrphanInv)'
  BY RInvNext, OrphanNext
<1>3. RInv /\ CountsTyped /\ OrphanInv => OrphansAreAccounted
  <2> SUFFICES ASSUME CountsTyped, OrphanInv PROVE OrphansAreAccounted
    OBVIOUS
  <2>1. PICK S : S = {k \in Calls : row[k] # None /\ ~Claimed(k)}
    OBVIOUS
  <2>2. S \subseteq Orphans
    BY <2>1 DEF Orphans, Orphan
  <2>3. Cardinality(S) \in Nat /\ Cardinality(S) <= Cardinality(Orphans)
    BY <2>2, OrphansFinite
  <2>4. Cardinality(S) <= (MaxFaults - faultsLeft) + (MaxResets - resetsLeft)
    BY <2>3, OrphansFinite, CountsAssumption DEF CountsTyped, OrphanInv
  <2> QED
    BY <2>1, <2>4 DEF OrphansAreAccounted
<1> QED
  BY <1>1, <1>2, <1>3, PTL DEF Spec
=============================================================================
