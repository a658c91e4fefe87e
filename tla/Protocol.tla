------------------------------ MODULE Protocol ------------------------------
(* The vocabulary shared by the control plane and the agents: commands,     *)
(* the two kinds of message that cross the broker, and the per-instance     *)
(* agent token that authenticates both.  A command's UUID is modelled by    *)
(* its position in the order of issue, so 1 is the oldest command.          *)
EXTENDS Naturals, Sequences

CONSTANTS
    Instances,      \* the registered instances (rows of table instances)
    Tokens,         \* the agent tokens that were minted
    NoToken,        \* SQL NULL in the row, the empty string in the agent
    RowToken,       \* RowToken[i]: column agent_token of the row of i
    AgentToken,     \* AgentToken[i]: the token the agent of i runs with
    Control,        \* the control plane as a client of the broker
    MaxCommands     \* bound: how many commands are ever issued

ASSUME TokensAssumption ==
    /\ NoToken \notin Tokens
    /\ RowToken \in [Instances -> Tokens \cup {NoToken}]
    /\ AgentToken \in [Instances -> Tokens \cup {NoToken}]

ASSUME ClientsAssumption == Control \notin Instances

ASSUME BoundAssumption == MaxCommands \in Nat

Commands == 1 .. MaxCommands

CommandType == {"disable", "enable"}

WorkloadState == {"unknown", "enabled", "disabled"}

\* The statuses a report may carry, which are the terminal ones.
Terminal == {"completed", "failed"}

\* What POST .../commands answers about the delivery of the command.
DeliveryHint == {"delivered_now", "no_listeners", "unknown"}

TIMEOUT_FAILURE_REASON == "no_acknowledgement_within_timeout"

\* The workload state a completed command of the given type leads to.
StateOf(type) == IF type = "disable" THEN "disabled" ELSE "enabled"

CommandMessages ==
    [command_id: Commands, instance_id: Instances, type: CommandType,
     agent_token: Tokens \cup {NoToken}]

StatusMessages ==
    [command_id: Commands, instance_id: Instances, type: CommandType,
     status: Terminal, agent_token: Tokens \cup {NoToken}]

\* Constant-time comparison that is false as soon as one side is missing.
VerifyAgentToken(presented, expected) ==
    /\ presented # NoToken
    /\ expected # NoToken
    /\ presented = expected
=============================================================================
