---------------------------- MODULE InstanceLife ----------------------------
(***************************************************************************)
(* What the readers of app_applicationinstance may count on: a row is      *)
(* created SPAWNING and is never deleted, and a row is SPAWNING only until *)
(* something else has been saved in it.                                    *)
(***************************************************************************)
CONSTANT Id

VARIABLE state

Init == state = [i \in Id |-> "none"]

Create(i) ==
    /\ state[i] = "none"
    /\ state' = [state EXCEPT ![i] = "SPAWNING"]

Stop(i) ==
    /\ state[i] # "none"
    /\ state' = [state EXCEPT ![i] = "STOPPED"]

\* even a stopped row: see application_api_PATCH_save in AppInstances
Run(i) ==
    /\ state[i] # "none"
    /\ state' = [state EXCEPT ![i] = "RUNNING"]

Next == \E i \in Id : Create(i) \/ Stop(i) \/ Run(i)

Spec == Init /\ [][Next]_state

=============================================================================
