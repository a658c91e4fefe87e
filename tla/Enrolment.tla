----------------------------- MODULE Enrolment ------------------------------
(* What registration promises to a worker: an identity is made for one host *)
(* and stays with it; a host holds one identity at a time and is offered    *)
(* another only when the one before is lost; a lost identity, whose row     *)
(* stays in the store, never comes back to life.                            *)
CONSTANTS
    Identities,
    Hosts,
    None

VARIABLES
    state,      \* state[i]: none, offered, held or lost
    owner       \* owner[i]: the host that identity i was made for

vars == <<state, owner>>

\* An identity its owner uses, or will use if nothing breaks.
Live(i) == state[i] \in {"offered", "held"}

Init ==
    /\ state = [i \in Identities |-> "none"]
    /\ owner = [i \in Identities |-> None]

\* The row of the identity is made.  It is lost at once when the host has
\* given up waiting for it.
Make(i, h) ==
    /\ state[i] = "none"
    /\ owner' = [owner EXCEPT ![i] = h]
    /\ \/ /\ \A j \in Identities : owner[j] = h => ~Live(j)
          /\ state' = [state EXCEPT ![i] = "offered"]
       \/ state' = [state EXCEPT ![i] = "lost"]

\* The host saves its identity.
Hold(i) ==
    /\ state[i] = "offered"
    /\ state' = [state EXCEPT ![i] = "held"]
    /\ UNCHANGED owner

\* A crash, a lost reply or a reset.
Lose(i) ==
    /\ Live(i)
    /\ state' = [state EXCEPT ![i] = "lost"]
    /\ UNCHANGED owner

Next == \E i \in Identities : Hold(i) \/ Lose(i) \/ \E h \in Hosts : Make(i, h)

Spec == Init /\ [][Next]_vars
=============================================================================
