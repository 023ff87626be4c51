------------------------------ MODULE HostSlot ------------------------------
(***************************************************************************)
(* What the unique column single_running_or_spawning_integrity promises: a *)
(* public host is a slot.  An instance gets the slot of its host only when *)
(* it is free, and once it has let go of it never gets a slot again.       *)
(***************************************************************************)
CONSTANTS Host, Id

VARIABLES
    owner,     \* the instances that have the slot of a host
    retired    \* the instances that have had one

Init ==
    /\ owner = [h \in Host |-> {}]
    /\ retired = {}

Claim(h, i) ==
    /\ owner[h] = {}
    /\ i \notin retired
    /\ \A g \in Host : i \notin owner[g]
    /\ owner' = [owner EXCEPT ![h] = {i}]
    /\ UNCHANGED retired

Release(h, i) ==
    /\ owner[h] = {i}
    /\ owner' = [owner EXCEPT ![h] = {}]
    /\ retired' = retired \cup {i}

Next == \E h \in Host, i \in Id : Claim(h, i) \/ Release(h, i)

Spec == Init /\ [][Next]_<<owner, retired>>

=============================================================================
