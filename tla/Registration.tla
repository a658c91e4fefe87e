---------------------------- MODULE Registration ----------------------------
(* How an agent comes by its identity: at start-up it takes the identity    *)
(* from its state directory, or registers with the control plane, retrying  *)
(* while that is unreachable, and saves what it was given.  The control     *)
(* plane finds or creates the project, mints the token and inserts the      *)
(* instance row.  A row, its id and its token are modelled by the number of *)
(* the call POST /api/instances that made them.                             *)
EXTENDS Naturals, FiniteSets

CONSTANTS
    Hosts,          \* the agents
    Projects,       \* the project names
    ProjectOf,      \* ProjectOf[h]: AXIS_AGENT_PROJECT_NAME of agent h
    Overridden,     \* the agents that run with AXIS_AGENT_INSTANCE_ID
    MaxAttempts,    \* AXIS_AGENT_REGISTER_MAX_ATTEMPTS
    None,           \* no call, no file, no row
    Torn,           \* a file that was not written to its end
    MaxCalls,       \* bound: how many calls are ever made
    MaxFaults,      \* bound: how many faults a behaviour may have
    MaxResets       \* bound: how often operators run --reset-identity

ASSUME SettingsAssumption ==
    /\ ProjectOf \in [Hosts -> Projects]
    /\ Overridden \subseteq Hosts
    /\ MaxAttempts \in Nat \ {0}

ASSUME CountsAssumption ==
    MaxCalls \in Nat /\ MaxFaults \in Nat /\ MaxResets \in Nat

Calls == 1 .. MaxCalls

ASSUME NoneAssumption == None \notin Calls /\ Torn \notin Calls /\ None # Torn

VARIABLES
    proc,         \* proc[h]: how far the process of agent h has come
    attempt,      \* attempt[h]: the calls this process has made
    awaited,      \* awaited[h]: the call whose response it waits for
    used,         \* used[h]: the identity the process holds in memory
    tmp,          \* tmp[h]: the file instance.json.tmp
    disk,         \* disk[h]: the file instance.json
    caller,       \* caller[k]: the agent that made call k
    handler,      \* handler[k]: where the control plane stands with call k
    found,        \* found[k]: the project row that call k found or created
    project,      \* project[p]: the row of table projects with name p
    row,          \* row[k]: column project_id of the row that call k inserted
    faultsLeft, resetsLeft

agentVars == <<proc, attempt, awaited, used, tmp, disk>>
controlVars == <<caller, handler, found, project, row>>
vars == <<agentVars, controlVars, faultsLeft, resetsLeft>>

Proc == {"down", "registering", "waiting", "saving", "replacing", "running"}
Busy == {"project", "conflict", "instance"}
Handler == {"none", "replied", "failed", "lost"} \cup Busy

TypeOK ==
    /\ proc \in [Hosts -> Proc]
    /\ attempt \in [Hosts -> 0 .. MaxAttempts]
    /\ awaited \in [Hosts -> Calls \cup {None}]
    /\ used \in [Hosts -> Calls \cup {None}]
    /\ tmp \in [Hosts -> Calls \cup {None, Torn}]
    /\ disk \in [Hosts -> Calls \cup {None}]
    /\ caller \in [Calls -> Hosts \cup {None}]
    /\ handler \in [Calls -> Handler]
    /\ found \in [Calls -> Calls \cup {None}]
    /\ project \in [Projects -> Calls \cup {None}]
    /\ row \in [Calls -> Calls \cup {None}]
    /\ faultsLeft \in 0 .. MaxFaults
    /\ resetsLeft \in 0 .. MaxResets

Init ==
    /\ proc = [h \in Hosts |-> "down"]
    /\ attempt = [h \in Hosts |-> 0]
    /\ awaited = [h \in Hosts |-> None]
    /\ used = [h \in Hosts |-> None]
    /\ tmp = [h \in Hosts |-> None]
    /\ disk = [h \in Hosts |-> None]
    /\ caller = [k \in Calls |-> None]
    /\ handler = [k \in Calls |-> "none"]
    /\ found = [k \in Calls |-> None]
    /\ project = [p \in Projects |-> None]
    /\ row = [k \in Calls |-> None]
    /\ faultsLeft = MaxFaults
    /\ resetsLeft = MaxResets

-----------------------------------------------------------------------------
(* The agent: ensure_identity and _register_with_backoff                    *)

\* An agent that forgets to look for its file.
ForgetsIdentity(h) == FALSE

HasIdentity(h) == disk[h] # None

\* An override wins over the file and holds no token; the file wins over a
\* registration.
Boot(h) ==
    /\ proc[h] = "down"
    /\ \/ /\ h \in Overridden
          /\ proc' = [proc EXCEPT ![h] = "running"]
          /\ UNCHANGED used
       \/ /\ h \notin Overridden /\ HasIdentity(h)
          /\ proc' = [proc EXCEPT ![h] = "running"]
          /\ used' = [used EXCEPT ![h] = disk[h]]
       \/ /\ h \notin Overridden /\ ~HasIdentity(h)
          /\ proc' = [proc EXCEPT ![h] = "registering"]
          /\ UNCHANGED used
    /\ UNCHANGED <<attempt, awaited, tmp, disk>> /\ UNCHANGED controlVars

\* The next attempt: the request is sent, and the control plane's handler
\* begins with the project.
Register(h, k) ==
    /\ proc[h] = "registering"
    /\ handler[k] = "none"
    /\ \A j \in 1 .. k - 1 : handler[j] # "none"
    /\ proc' = [proc EXCEPT ![h] = "waiting"]
    /\ attempt' = [attempt EXCEPT ![h] = @ + 1]
    /\ awaited' = [awaited EXCEPT ![h] = k]
    /\ caller' = [caller EXCEPT ![k] = h]
    /\ handler' = [handler EXCEPT ![k] = "project"]
    /\ UNCHANGED <<used, tmp, disk, found, project, row>>

\* The process ends; what it had in memory is gone.
Exit(h) ==
    /\ proc' = [proc EXCEPT ![h] = "down"]
    /\ attempt' = [attempt EXCEPT ![h] = 0]
    /\ awaited' = [awaited EXCEPT ![h] = None]
    /\ used' = [used EXCEPT ![h] = None]

ReplyArrives(h) ==
    /\ proc[h] = "waiting"
    /\ handler[awaited[h]] = "replied"
    /\ proc' = [proc EXCEPT ![h] = "saving"]
    /\ used' = [used EXCEPT ![h] = awaited[h]]
    /\ awaited' = [awaited EXCEPT ![h] = None]
    /\ UNCHANGED <<attempt, tmp, disk>> /\ UNCHANGED controlVars

\* A status of 400 or more is no reason to retry: the process ends.
ErrorArrives(h) ==
    /\ proc[h] = "waiting"
    /\ handler[awaited[h]] = "failed"
    /\ Exit(h)
    /\ UNCHANGED <<tmp, disk>> /\ UNCHANGED controlVars

\* AgentIdentityStore.save: the temporary file is written, then renamed.
WriteTmp(h) ==
    /\ proc[h] = "saving"
    /\ proc' = [proc EXCEPT ![h] = "replacing"]
    /\ tmp' = [tmp EXCEPT ![h] = used[h]]
    /\ UNCHANGED <<attempt, awaited, used, disk>> /\ UNCHANGED controlVars

Replace(h) ==
    /\ proc[h] = "replacing"
    /\ proc' = [proc EXCEPT ![h] = "running"]
    /\ disk' = [disk EXCEPT ![h] = tmp[h]]
    /\ tmp' = [tmp EXCEPT ![h] = None]
    /\ UNCHANGED <<attempt, awaited, used>> /\ UNCHANGED controlVars

\* A graceful end (SIGTERM, a new image); it may happen at any time later.
AgentStop(h) ==
    /\ proc[h] = "running"
    /\ Exit(h)
    /\ UNCHANGED <<tmp, disk>> /\ UNCHANGED controlVars

\* An operator starts the agent with --reset-identity: the file goes first.
ResetIdentity(h) ==
    /\ resetsLeft > 0
    /\ proc[h] = "down"
    /\ HasIdentity(h)
    /\ disk' = [disk EXCEPT ![h] = None]
    /\ UNCHANGED <<proc, attempt, awaited, used, tmp>> /\ UNCHANGED controlVars

-----------------------------------------------------------------------------
(* The control plane: RegistrationService.register                          *)

NameOf(k) == ProjectOf[caller[k]]

\* INSERT INTO projects ... ON CONFLICT (name) DO NOTHING.
AddProject(k) ==
    project' = [project EXCEPT ![NameOf(k)] = IF @ = None THEN k ELSE @]

\* INSERT INTO instances.
AddInstance(k) == row' = [row EXCEPT ![k] = found[k]]

\* A repository that tries the INSERT until it returns a row.
InsertsAgain == "project"

\* The INSERT that lost returned no row: the name is looked up.
AfterConflict == "conflict"

InsertProject(k) ==
    /\ handler[k] = "project"
    /\ AddProject(k)
    /\ IF project[NameOf(k)] = None
       THEN /\ found' = [found EXCEPT ![k] = k]
            /\ handler' = [handler EXCEPT ![k] = "instance"]
       ELSE /\ handler' = [handler EXCEPT ![k] = AfterConflict]
            /\ UNCHANGED found
    /\ UNCHANGED <<caller, row>> /\ UNCHANGED agentVars

\* A repository that goes on with the id it had meant to insert.
OwnProject(k) == k

ProjectOfName(k) == project[NameOf(k)]

SelectProject(k) ==
    /\ handler[k] = "conflict"
    /\ found' = [found EXCEPT ![k] = ProjectOfName(k)]
    /\ handler' = [handler EXCEPT ![k] = "instance"]
    /\ UNCHANGED <<caller, project, row>> /\ UNCHANGED agentVars

InsertInstance(k) ==
    /\ handler[k] = "instance"
    /\ AddInstance(k)
    /\ handler' = [handler EXCEPT ![k] = "replied"]
    /\ UNCHANGED <<caller, found, project>> /\ UNCHANGED agentVars

-----------------------------------------------------------------------------
(* Faults                                                                   *)

\* A statement raises and the answer is a 500; when it was the reply of the
\* database that was lost, the statement took effect all the same.
HandlerFails(k) ==
    /\ handler[k] \in Busy
    /\ handler' = [handler EXCEPT ![k] = "failed"]
    /\ \/ UNCHANGED <<project, row>>
       \/ handler[k] = "project" /\ AddProject(k) /\ UNCHANGED row
       \/ handler[k] = "instance" /\ AddInstance(k) /\ UNCHANGED project
    /\ UNCHANGED <<caller, found>> /\ UNCHANGED agentVars

\* An agent that counts its attempts from one too few.
RetriesOnceMore(h) == attempt[h] <= MaxAttempts

MayRetry(h) == attempt[h] < MaxAttempts

\* The transport fails or the client's timeout passes.  The request never
\* arrived or died with the control plane, or it is carried out and only
\* its response is lost.  After the last attempt the process gives up.
Unreachable(h) ==
    /\ proc[h] = "waiting"
    /\ LET k == awaited[h] IN
       \/ /\ handler[k] \in Busy
          /\ handler' = [handler EXCEPT ![k] = "lost"]
       \/ UNCHANGED handler
    /\ \/ /\ MayRetry(h)
          /\ proc' = [proc EXCEPT ![h] = "registering"]
          /\ awaited' = [awaited EXCEPT ![h] = None]
          /\ UNCHANGED <<attempt, used>>
       \/ ~MayRetry(h) /\ Exit(h)
    /\ UNCHANGED <<tmp, disk, caller, found, project, row>>

\* What a crash would leave behind if save wrote instance.json in place.
TornInPlace(h) == disk' = [disk EXCEPT ![h] = Torn] /\ UNCHANGED tmp

\* What a crash may leave of the temporary file being written.
TornFile(h) == tmp' = [tmp EXCEPT ![h] = Torn] /\ UNCHANGED disk

Crash(h) ==
    /\ proc[h] # "down"
    /\ Exit(h)
    /\ \/ proc[h] = "saving" /\ TornFile(h)
       \/ UNCHANGED <<tmp, disk>>
    /\ UNCHANGED controlVars

-----------------------------------------------------------------------------
AgentStep(h) ==
    \/ Boot(h)
    \/ \E k \in Calls : Register(h, k)
    \/ ReplyArrives(h)
    \/ ErrorArrives(h)
    \/ WriteTmp(h)
    \/ Replace(h)

HandlerStep(k) == InsertProject(k) \/ SelectProject(k) \/ InsertInstance(k)

Step ==
    /\ \/ \E h \in Hosts : AgentStep(h) \/ AgentStop(h)
       \/ \E k \in Calls : HandlerStep(k)
    /\ UNCHANGED <<faultsLeft, resetsLeft>>

Fault ==
    /\ faultsLeft > 0
    /\ faultsLeft' = faultsLeft - 1
    /\ \/ \E k \in Calls : HandlerFails(k)
       \/ \E h \in Hosts : Unreachable(h) \/ Crash(h)
    /\ UNCHANGED resetsLeft

Reset ==
    /\ \E h \in Hosts : ResetIdentity(h)
    /\ resetsLeft' = resetsLeft - 1
    /\ UNCHANGED faultsLeft

Next == Step \/ Fault \/ Reset

Spec == Init /\ [][Next]_vars

\* The worker restarts its container, and both processes run their
\* coroutines; nobody has to stop, reset or break anything.
Fairness ==
    /\ \A h \in Hosts :
           WF_vars(AgentStep(h) /\ UNCHANGED <<faultsLeft, resetsLeft>>)
    /\ \A k \in Calls :
           WF_vars(HandlerStep(k) /\ UNCHANGED <<faultsLeft, resetsLeft>>)

FairSpec == Spec /\ Fairness

-----------------------------------------------------------------------------
(* Properties                                                               *)

\* An identity in use is one the control plane knows: what an agent has on
\* disk is a complete identity whose row is committed and was made for this
\* agent, and an agent without an override runs with what is on its disk.
\* This is what makes the tokens of both sides agree (CommandLoop).
IdentityIsRegistered ==
    \A h \in Hosts :
        /\ disk[h] # None => /\ disk[h] \in Calls
                             /\ caller[disk[h]] = h
                             /\ row[disk[h]] # None
        /\ proc[h] = "running" /\ h \notin Overridden
               => used[h] = disk[h] /\ disk[h] # None

\* Instances of one project refer to one project row, even when the agents
\* that create the project race each other (or their own lost requests).
OneProjectPerName ==
    \A k \in Calls : row[k] # None => row[k] = project[NameOf(k)]

\* The row is in use, or will be as soon as its response arrives.
Claimed(k) == k \in {disk[caller[k]], used[caller[k]], awaited[caller[k]]}

\* Rows nobody will ever use come from faults and resets alone, one from each
\* at most: however often an agent restarts, it keeps its one row.
OrphansAreAccounted ==
    Cardinality({k \in Calls : row[k] # None /\ ~Claimed(k)})
        <= (MaxFaults - faultsLeft) + (MaxResets - resetsLeft)

\* The state and the owner of the identity made by call k (Enrolment).
IdentityState(k) ==
    CASE row[k] = None -> "none"
      [] row[k] # None /\ disk[caller[k]] = k -> "held"
      [] row[k] # None /\ disk[caller[k]] # k /\ Claimed(k) -> "offered"
      [] OTHER -> "lost"

IdentityOwner(k) == IF row[k] = None THEN None ELSE caller[k]

Enrol == INSTANCE Enrolment WITH
    Identities <- Calls,
    state <- [k \in Calls |-> IdentityState(k)],
    owner <- [k \in Calls |-> IdentityOwner(k)]

\* Whatever is retried, lost, torn or reset, an agent has one live identity
\* at a time, made for it alone, and never returns to one it has lost.
EnrolmentSpec == Enrol!Spec

\* An agent that is not running will run again, whatever was lost or torn at
\* its earlier attempts to register.
EveryAgentComesUp ==
    \A h \in Hosts : proc[h] # "running" ~> proc[h] = "running"
=============================================================================
