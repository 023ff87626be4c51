--------------------------- MODULE DbUsersProofs ----------------------------
(***************************************************************************)
(* Proofs about DbUsers, for any number of instances, databases and runs   *)
(* of the cleanup at a time, with any failures.                            *)
(***************************************************************************)
EXTENDS DbUsers, TLAPS

USE SwitchAssumption

-----------------------------------------------------------------------------
(* Types *)

LEMMA TypeInit == Init => TypeOK
BY DEF Init, TypeOK, CleanerRun, IdleCleaner, InProgress, Life!Init

LEMMA TypeInstance ==
    ASSUME TypeOK, NEW i \in Id,
           InstanceCreated(i) \/ InstanceStopped(i) \/ InstanceRunning(i)
    PROVE  TypeOK'
BY DEF TypeOK, InstanceCreated, InstanceStopped, InstanceRunning, Life!Create, Life!Stop,
     Life!Run, spawnVars, Live, InProgress

LEMMA TypeSpawn ==
    ASSUME TypeOK, NEW i \in Id, SpawnNext(i) \/ spawn_dies(i)
    PROVE  TypeOK'
<1> USE DEF TypeOK, InProgress
<1>1. ASSUME NEW d \in Database, sync_roles(i, d) PROVE TypeOK'
  BY <1>1 DEF sync_roles
<1>2. ASSUME NEW d \in Database, alter_user(i, d) PROVE TypeOK'
  BY <1>2 DEF alter_user
<1>3. ASSUME NEW d \in Database, ApplicationInstanceDbUsers_create(i, d) PROVE TypeOK'
  BY <1>3 DEF ApplicationInstanceDbUsers_create, spawnVars
<1>4. CASE DatabaseUser_create(i)
  BY <1>4 DEF DatabaseUser_create
<1>5. CASE spawn_goes_on(i) \/ spawn_dies(i)
  BY <1>5 DEF spawn_goes_on, spawn_dies
<1> QED BY <1>1, <1>2, <1>3, <1>4, <1>5 DEF SpawnNext

LEMMA TypeCleaner ==
    ASSUME TypeOK, NEW c \in Cleaner, CleanerNext(c) \/ cleaner_dies(c)
    PROVE  TypeOK'
<1> USE DEF TypeOK
<1>0. cleaner[c] \in CleanerRun /\ IdleCleaner \in CleanerRun
  BY DEF CleanerRun, IdleCleaner
<1>i. \A l \in SUBSET Database : [IdleCleaner EXCEPT !.left = l] \in CleanerRun
  BY DEF CleanerRun, IdleCleaner
<1>1. ASSUME NEW d \in Database, cleaner_lists(c, d) PROVE TypeOK'
  <2>1. Listed(c, d, users[d]) \in CleanerRun
    BY <1>0 DEF CleanerRun, Listed
  <2> QED BY <1>1, <2>1 DEF cleaner_lists, spawnVars
<1>2. ASSUME NEW d \in Database, cleaner_checks(c, d) PROVE TypeOK'
  <2>1. cleaner' \in [Cleaner -> CleanerRun]
    BY <1>0, <1>2 DEF cleaner_checks, CleanerRun
  <2>2. provisional' \in SUBSET (Database \X Id)
    <3>1. MayYetBeUsed(d) \subseteq Id
      BY DEF MayYetBeUsed
    <3>2. {<<d, i>> : i \in cleaner[c].found \cap MayYetBeUsed(d)} \subseteq Database \X Id
      BY <3>1
    <3> QED BY <1>2, <3>2 DEF cleaner_checks
  <2> QED BY <1>2, <2>1, <2>2 DEF cleaner_checks, spawnVars
<1>3. ASSUME NEW d \in Database, cleaner_begins(c, d) PROVE TypeOK'
  BY <1>0, <1>3 DEF cleaner_begins, spawnVars, CleanerRun
<1>4. ASSUME NEW d \in Database, NEW i \in Id, cleaner_drops(c, d, i) PROVE TypeOK'
  BY <1>0, <1>4 DEF cleaner_drops, spawnVars, CleanerRun
<1>5. ASSUME NEW d \in Database, cleaner_fails(c, d) PROVE TypeOK'
  <2>1. failures' \in 0..MaxFailures
    BY <1>5 DEF cleaner_fails
  <2>2. cleaner' \in [Cleaner -> CleanerRun]
    BY <1>0, <1>5 DEF cleaner_fails, CleanerRun
  <2> QED BY <1>5, <2>1, <2>2 DEF cleaner_fails, spawnVars
<1>6. ASSUME NEW d \in Database, cleaner_commits(c, d) PROVE TypeOK'
  <2>1. cleaner[c].left \in SUBSET Database
    BY <1>0 DEF CleanerRun
  <2>2. cleaner' \in [Cleaner -> CleanerRun]
    BY <1>i, <1>6, <2>1 DEF cleaner_commits
  <2> QED BY <1>6, <2>2 DEF cleaner_commits, spawnVars
<1>7. CASE cleaner_dies(c)
  BY <1>0, <1>7 DEF cleaner_dies, spawnVars
<1> QED BY <1>1, <1>2, <1>3, <1>4, <1>5, <1>6, <1>7 DEF CleanerNext

LEMMA TypeStep == TypeOK /\ [Next]_vars => TypeOK'
<1> SUFFICES ASSUME TypeOK, [Next]_vars PROVE TypeOK'
  OBVIOUS
<1>1. CASE UNCHANGED vars
  BY <1>1 DEF vars, spawnVars, TypeOK
<1>2. ASSUME NEW d \in Database, explorer_user_expires(d) PROVE TypeOK'
  BY <1>2 DEF explorer_user_expires, TypeOK, spawnVars
<1>3. CASE cleanup_temporary_query_tables
  BY <1>3 DEF cleanup_temporary_query_tables, TypeOK, spawnVars
<1> QED BY <1>1, <1>2, <1>3, TypeInstance, TypeSpawn, TypeCleaner DEF Next

\* The variables keep their types.
THEOREM TypeCorrect == Spec => []TypeOK
BY TypeInit, TypeStep, PTL DEF Spec

-----------------------------------------------------------------------------
(* How a live instance comes to lose a user.  A user that a run of the        *)
(* cleanup has found unused stays expendable until the run commits, however   *)
(* long that takes: it will never be noted, since its spawn has ended, or its *)
(* being unused was provisional when it was checked.  A user that is not      *)
(* expendable is there from the moment it is set up in a database, through    *)
(* the spawn's work in the others, to the moment it is noted, and from then   *)
(* on.                                                                        *)

Expendable(d, i) ==
    \/ <<d, i>> \in provisional
    \/ spawn[i] \notin InProgress \cup {"none"} /\ <<d, i>> \notin recorded

\* nothing is done for an instance before it is created
Beginnings ==
    \A i \in Id :
        /\ state[i] = "none" => spawn[i] = "none"
        /\ spawn[i] = "none" => /\ made[i] = {}
                                /\ \A d \in Database : i \notin users[d] /\ <<d, i>> \notin recorded
        /\ spawn[i] = "record" => made[i] = Database

\* what a run has listed, checked and dropped
Checked ==
    \A c \in Cleaner, i \in Id : i \in cleaner[c].found \cup cleaner[c].dropped =>
        /\ spawn[i] # "none"
        /\ cleaner[c].pc \in {"checked", "dropping"} =>
               \A d \in cleaner[c].db : Expendable(d, i)

\* the users that are noted or about to be
Users ==
    \A i \in Id, d \in Database :
        /\ <<d, i>> \notin provisional
        /\ <<d, i>> \in recorded \/ (spawn[i] \in InProgress /\ d \in made[i])
        => i \in users[d]

IInv == TypeOK /\ Beginnings /\ Checked /\ Users

LEMMA InitInv == Init => IInv
BY TypeInit DEF Init, IInv, Beginnings, Checked, Users, IdleCleaner, Life!Init, InProgress

\* the users that a step removes from a database are expendable
LEMMA Removals ==
    ASSUME IInv, [Next]_vars, NEW d \in Database, NEW i \in Id, i \in users[d]
    PROVE  i \in users[d]' \/ Expendable(d, i)
<1> USE DEF IInv, TypeOK
<1>1. ASSUME NEW c \in Cleaner, NEW e \in Database, cleaner_commits(c, e)
      PROVE  i \in users[d]' \/ Expendable(d, i)
  BY <1>1 DEF cleaner_commits, Checked
<1>2. ASSUME NEW j \in Id, NEW e \in Database, sync_roles(j, e)
      PROVE  i \in users[d]'
  BY <1>2 DEF sync_roles
<1>3. \/ users' = users
      \/ \E c \in Cleaner, e \in Database : cleaner_commits(c, e)
      \/ \E j \in Id, e \in Database : sync_roles(j, e)
  BY DEF Next, vars, InstanceCreated, InstanceStopped, InstanceRunning, SpawnNext, alter_user,
       ApplicationInstanceDbUsers_create, DatabaseUser_create, spawn_goes_on, spawn_dies,
       CleanerNext, cleaner_lists, cleaner_checks, cleaner_begins, cleaner_drops, cleaner_fails,
       cleaner_dies, explorer_user_expires, cleanup_temporary_query_tables
<1> QED BY <1>1, <1>2, <1>3

\* what a step may do to the instances and their spawns
StateStep(i) == state[i] # "none" => state[i]' # "none"
SpawnStep(i) ==
    \/ UNCHANGED <<spawn[i], made[i]>>
    \/ /\ spawn[i] = "none" /\ spawn[i]' = "credentials" /\ UNCHANGED made[i]
       /\ state[i] = "none" /\ state[i]' # "none"
    \/ /\ spawn[i] = "credentials" /\ spawn[i]' = "credentials"
       /\ \E d \in Database : i \in users[d] /\ made[i]' = made[i] \cup {d}
    \/ /\ spawn[i] = "credentials" /\ spawn[i]' = "record"
       /\ made[i] = Database /\ UNCHANGED made[i]
    \/ /\ spawn[i] \in InProgress /\ spawn[i]' \in {"done", "failed"} /\ UNCHANGED made[i]
UserStep(d, i) ==
    /\ <<d, i>> \in provisional => <<d, i>> \in provisional'
    /\ <<d, i>> \in recorded => <<d, i>> \in recorded'
    /\ <<d, i>> \in recorded' => <<d, i>> \in recorded \/ spawn[i] = "record"
    /\ i \in users[d]' => i \in users[d] \/ spawn[i] = "credentials"
InstanceStep == \A i \in Id : StateStep(i) /\ SpawnStep(i) /\ \A d \in Database : UserStep(d, i)

LEMMA InstanceSteps == ASSUME TypeOK, Beginnings, [Next]_vars PROVE InstanceStep
<1> USE DEF TypeOK
<1>1. ASSUME UNCHANGED state PROVE \A i \in Id : StateStep(i)
  BY <1>1 DEF StateStep
<1>2. ASSUME UNCHANGED <<spawn, made>> PROVE \A i \in Id : SpawnStep(i)
  BY <1>2 DEF SpawnStep
<1>3. ASSUME UNCHANGED <<recorded, users, provisional>>
      PROVE  \A i \in Id, d \in Database : UserStep(d, i)
  BY <1>3 DEF UserStep
<1>4. ASSUME NEW j \in Id, InstanceCreated(j) PROVE InstanceStep
  <2>1. \A i \in Id : StateStep(i)
    BY <1>4 DEF StateStep, InstanceCreated, Life!Create
  <2>2. \A i \in Id : SpawnStep(i)
    BY <1>4 DEF SpawnStep, InstanceCreated, Life!Create, Beginnings
  <2> QED BY <1>3, <1>4, <2>1, <2>2 DEF InstanceStep, InstanceCreated
<1>5. ASSUME NEW j \in Id, InstanceStopped(j) \/ InstanceRunning(j) PROVE InstanceStep
  <2>1. \A i \in Id : StateStep(i)
    BY <1>5 DEF StateStep, InstanceStopped, InstanceRunning, Life!Stop, Life!Run
  <2> QED BY <1>2, <1>3, <1>5, <2>1 DEF InstanceStep, InstanceStopped, InstanceRunning, spawnVars
<1>6. ASSUME NEW j \in Id, NEW e \in Database, sync_roles(j, e) PROVE InstanceStep
  <2>1. \A i \in Id, d \in Database : UserStep(d, i)
    BY <1>6 DEF UserStep, sync_roles
  <2> QED BY <1>1, <1>2, <1>6, <2>1 DEF InstanceStep, sync_roles
<1>7. ASSUME NEW j \in Id, NEW e \in Database, alter_user(j, e) PROVE InstanceStep
  <2>1. \A i \in Id : SpawnStep(i)
    BY <1>7 DEF SpawnStep, alter_user, InProgress
  <2> QED BY <1>1, <1>3, <1>7, <2>1 DEF InstanceStep, alter_user
<1>8. ASSUME NEW j \in Id, NEW e \in Database, ApplicationInstanceDbUsers_create(j, e)
      PROVE  InstanceStep
  <2>1. \A i \in Id, d \in Database : UserStep(d, i)
    BY <1>8 DEF UserStep, ApplicationInstanceDbUsers_create
  <2> QED BY <1>1, <1>2, <1>8, <2>1 DEF InstanceStep, ApplicationInstanceDbUsers_create, spawnVars
<1>9. ASSUME NEW j \in Id, DatabaseUser_create(j) \/ spawn_goes_on(j) \/ spawn_dies(j)
      PROVE  InstanceStep
  <2>1. \A i \in Id : SpawnStep(i)
    BY <1>9 DEF SpawnStep, DatabaseUser_create, spawn_goes_on, spawn_dies, InProgress
  <2> QED BY <1>1, <1>3, <1>9, <2>1 DEF InstanceStep, DatabaseUser_create, spawn_goes_on, spawn_dies
<1>10. ASSUME NEW c \in Cleaner, NEW e \in Database, cleaner_commits(c, e) PROVE InstanceStep
  <2>1. \A i \in Id, d \in Database : UserStep(d, i)
    BY <1>10 DEF UserStep, cleaner_commits
  <2> QED BY <1>1, <1>2, <1>10, <2>1 DEF InstanceStep, cleaner_commits, spawnVars
<1>11. ASSUME UNCHANGED <<state, spawnVars, users, recorded, provisional>> PROVE InstanceStep
  BY <1>1, <1>2, <1>3, <1>11 DEF InstanceStep, spawnVars
<1>12. ASSUME NEW c \in Cleaner, NEW e \in Database, cleaner_checks(c, e) PROVE InstanceStep
  <2>1. \A i \in Id, d \in Database : UserStep(d, i)
    BY <1>12 DEF UserStep, cleaner_checks
  <2> QED BY <1>1, <1>2, <1>12, <2>1 DEF InstanceStep, cleaner_checks, spawnVars
<1>13. ASSUME NEW c \in Cleaner, CleanerNext(c) \/ cleaner_dies(c) PROVE InstanceStep
  BY <1>10, <1>11, <1>12, <1>13 DEF CleanerNext, cleaner_lists, cleaner_begins, cleaner_drops,
       cleaner_fails, cleaner_dies
<1>14. ASSUME \/ UNCHANGED vars
              \/ cleanup_temporary_query_tables
              \/ \E d \in Database : explorer_user_expires(d)
       PROVE  InstanceStep
  BY <1>11, <1>14 DEF vars, spawnVars, cleanup_temporary_query_tables, explorer_user_expires
<1> QED BY <1>4, <1>5, <1>6, <1>7, <1>8, <1>9, <1>13, <1>14 DEF Next, SpawnNext

LEMMA BeginningsStep ==
    ASSUME TypeOK, TypeOK', Beginnings, InstanceStep
    PROVE  Beginnings'
<1> SUFFICES ASSUME NEW i \in Id
             PROVE  /\ state[i]' = "none" => spawn[i]' = "none"
                    /\ spawn[i]' = "none" =>
                         /\ made[i]' = {}
                         /\ \A d \in Database : i \notin users[d]' /\ <<d, i>> \notin recorded'
                    /\ spawn[i]' = "record" => made[i]' = Database
  BY DEF Beginnings
<1>s. StateStep(i) /\ SpawnStep(i) /\ \A d \in Database : UserStep(d, i)
  BY DEF InstanceStep
<1>1. state[i]' = "none" => spawn[i]' = "none"
  BY <1>s DEF Beginnings, StateStep, SpawnStep, InProgress
<1>2. spawn[i]' = "none" => spawn[i] = "none" /\ UNCHANGED made[i]
  BY <1>s DEF SpawnStep
<1>3. ASSUME spawn[i]' = "none"
      PROVE  /\ made[i]' = {}
             /\ \A d \in Database : i \notin users[d]' /\ <<d, i>> \notin recorded'
  BY <1>s, <1>2, <1>3 DEF Beginnings, UserStep
<1>4. ASSUME spawn[i]' = "record" PROVE made[i]' = Database
  <2>1. CASE spawn[i] = "record"
    BY <1>s, <1>4, <2>1 DEF Beginnings, SpawnStep, InProgress
  <2>2. CASE spawn[i] # "record"
    BY <1>s, <1>4, <2>2 DEF SpawnStep, InProgress
  <2> QED BY <2>1, <2>2
<1> QED BY <1>1, <1>3, <1>4

LEMMA ExpendableStays ==
    ASSUME TypeOK, InstanceStep, NEW d \in Database, NEW i \in Id, Expendable(d, i)
    PROVE  Expendable(d, i)'
BY DEF Expendable, InstanceStep, SpawnStep, UserStep, TypeOK, InProgress

LEMMA UsersStep ==
    ASSUME IInv, TypeOK', InstanceStep, [Next]_vars
    PROVE  Users'
<1> SUFFICES ASSUME NEW i \in Id, NEW d \in Database, <<d, i>> \notin provisional',
                    <<d, i>> \in recorded' \/ (spawn[i]' \in InProgress /\ d \in made[i]')
             PROVE  i \in users[d]'
  BY DEF Users
<1> USE DEF IInv
<1>s. SpawnStep(i) /\ UserStep(d, i)
  BY DEF InstanceStep
<1>1. <<d, i>> \notin provisional
  BY <1>s DEF UserStep
<1>2. \/ <<d, i>> \in recorded
      \/ spawn[i] \in InProgress /\ (d \in made[i] \/ i \in users[d])
  <2>1. ASSUME <<d, i>> \in recorded', <<d, i>> \notin recorded
        PROVE  spawn[i] \in InProgress /\ d \in made[i]
    BY <1>s, <2>1 DEF UserStep, Beginnings, InProgress
  <2>2. ASSUME spawn[i]' \in InProgress, d \in made[i]'
        PROVE  spawn[i] \in InProgress /\ (d \in made[i] \/ i \in users[d])
    BY <1>s, <2>2 DEF SpawnStep, Beginnings, InProgress
  <2> QED BY <2>1, <2>2
<1>3. i \in users[d]
  BY <1>1, <1>2 DEF Users
<1>4. ~Expendable(d, i)
  BY <1>1, <1>2 DEF Expendable
<1> QED BY <1>3, <1>4, Removals

LEMMA CheckedStep ==
    ASSUME IInv, TypeOK', InstanceStep, [Next]_vars
    PROVE  Checked'
<1> USE DEF IInv
<1> DEFINE Touched(k) == cleaner[k].found \cup cleaner[k].dropped
           Fine(k, i) == /\ spawn[i] # "none"
                         /\ cleaner[k].pc \in {"checked", "dropping"} =>
                              \A d \in cleaner[k].db : Expendable(d, i)
<1>0. \A k \in Cleaner, i \in Id :
        /\ cleaner[k].db \subseteq Database
        /\ i \in Touched(k) => Fine(k, i)
  BY DEF Checked, TypeOK, CleanerRun
<1>1. \A i \in Id : spawn[i] # "none" => spawn[i]' # "none"
  BY DEF InstanceStep, SpawnStep, InProgress
<1>2. ASSUME NEW k \in Cleaner, cleaner'[k] = cleaner[k], NEW i \in Id, i \in Touched(k)'
      PROVE  Fine(k, i)'
  BY <1>0, <1>1, <1>2, ExpendableStays
<1>3. ASSUME NEW c \in Cleaner, NEW i \in Id, i \in Touched(c)', CleanerNext(c) \/ cleaner_dies(c)
      PROVE  Fine(c, i)'
  <2>t. cleaner \in [Cleaner -> CleanerRun]
    BY DEF TypeOK
  <2>1. ASSUME NEW d \in Database, cleaner_lists(c, d) PROVE Fine(c, i)'
    <3>1. cleaner'[c] = Listed(c, d, users[d])
      BY <2>1, <2>t DEF cleaner_lists
    <3>2. i \in users[d] /\ cleaner'[c].pc = "listed"
      BY <1>3, <3>1 DEF Listed
    <3> QED BY <1>1, <3>2 DEF Beginnings
  <2>2. ASSUME NEW d \in Database, cleaner_checks(c, d) PROVE Fine(c, i)'
    <3>1. cleaner'[c] = [cleaner[c] EXCEPT !.pc = "checked", !.found = @ \ InUse(d)]
      BY <2>2, <2>t DEF cleaner_checks
    <3>2. /\ cleaner[c].dropped = {} /\ cleaner[c].found \subseteq Id
          /\ cleaner'[c].found = cleaner[c].found \ InUse(d)
          /\ cleaner'[c].dropped = {} /\ cleaner'[c].db = {d}
      BY <2>2, <2>t, <3>1 DEF CleanerRun, cleaner_checks
    <3>3. i \in cleaner[c].found /\ i \notin InUse(d)
      BY <1>3, <3>2
    <3>4. spawn[i] # "none" /\ state[i] # "none"
      BY <1>0, <3>3 DEF Beginnings
    \* it is provisional, or no instance is going to use it
    <3>5. Expendable(d, i)'
      <4>1. CASE i \in MayYetBeUsed(d)
        BY <2>2, <3>3, <4>1 DEF Expendable, cleaner_checks
      <4>2. CASE i \notin MayYetBeUsed(d)
        <5>1. <<d, i>> \notin recorded /\ spawn[i] \notin InProgress
          BY <3>3, <3>4, <4>2 DEF MayYetBeUsed, InUse, TypeOK
        <5> QED BY <2>2, <3>4, <5>1 DEF Expendable, cleaner_checks, spawnVars
      <4> QED BY <4>1, <4>2
    <3> QED BY <1>1, <3>2, <3>4, <3>5
  <2>3. ASSUME NEW d \in Database,
               cleaner_begins(c, d) \/ cleaner_fails(c, d) \/ \E j \in Id : cleaner_drops(c, d, j)
        PROVE  Fine(c, i)'
    <3>1. /\ cleaner'[c].db = cleaner[c].db
          /\ cleaner[c].pc \in {"checked", "dropping"}
          /\ i \in Touched(c)
      <4>1. CASE cleaner_begins(c, d) \/ cleaner_fails(c, d)
        BY <1>3, <4>1, <2>t DEF cleaner_begins, cleaner_fails, CleanerRun
      <4>2. ASSUME NEW j \in Id, cleaner_drops(c, d, j)
            PROVE  /\ cleaner'[c].db = cleaner[c].db
                   /\ cleaner[c].pc \in {"checked", "dropping"}
                   /\ i \in Touched(c)
        <5>1. cleaner'[c] = [cleaner[c] EXCEPT !.found = @ \ {j}, !.dropped = @ \cup {j}]
          BY <4>2, <2>t DEF cleaner_drops
        <5> QED BY <1>3, <4>2, <5>1, <2>t DEF cleaner_drops, CleanerRun
      <4> QED BY <2>3, <4>1, <4>2
    <3> QED BY <1>0, <1>1, <3>1, ExpendableStays
  <2>4. ASSUME cleaner_dies(c) \/ \E d \in Database : cleaner_commits(c, d) PROVE FALSE
    <3>1. cleaner'[c].found = {} /\ cleaner'[c].dropped = {}
      BY <2>4, <2>t DEF cleaner_dies, cleaner_commits, IdleCleaner
    <3> QED BY <1>3, <3>1
  <2> QED BY <1>3, <2>1, <2>2, <2>3, <2>4 DEF CleanerNext
<1>4. \/ cleaner' = cleaner
      \/ \E c \in Cleaner : /\ CleanerNext(c) \/ cleaner_dies(c)
                            /\ \A k \in Cleaner \ {c} : cleaner'[k] = cleaner[k]
  <2>1. ASSUME NEW c \in Cleaner, CleanerNext(c) \/ cleaner_dies(c)
        PROVE  \A k \in Cleaner \ {c} : cleaner'[k] = cleaner[k]
    <3>1. CASE cleaner_dies(c)
      BY <3>1 DEF cleaner_dies, TypeOK
    <3>2. ASSUME NEW d \in Database, cleaner_lists(c, d) \/ cleaner_commits(c, d)
          PROVE  \A k \in Cleaner \ {c} : cleaner'[k] = cleaner[k]
      BY <3>2 DEF cleaner_lists, cleaner_commits, TypeOK
    <3>3. ASSUME NEW d \in Database,
                 cleaner_checks(c, d) \/ cleaner_begins(c, d) \/ cleaner_fails(c, d)
          PROVE  \A k \in Cleaner \ {c} : cleaner'[k] = cleaner[k]
      BY <3>3 DEF cleaner_checks, cleaner_begins, cleaner_fails, TypeOK
    <3>4. ASSUME NEW d \in Database, NEW i \in Id, cleaner_drops(c, d, i)
          PROVE  \A k \in Cleaner \ {c} : cleaner'[k] = cleaner[k]
      BY <3>4 DEF cleaner_drops, TypeOK
    <3> QED BY <2>1, <3>1, <3>2, <3>3, <3>4 DEF CleanerNext
  <2>2. \/ cleaner' = cleaner
        \/ \E c \in Cleaner : CleanerNext(c) \/ cleaner_dies(c)
    BY DEF Next, vars, InstanceCreated, InstanceStopped, InstanceRunning, SpawnNext, sync_roles,
         alter_user, ApplicationInstanceDbUsers_create, DatabaseUser_create, spawn_goes_on,
         spawn_dies, explorer_user_expires, cleanup_temporary_query_tables
  <2> QED BY <2>1, <2>2
<1>5. \A k \in Cleaner, i \in Id : i \in Touched(k)' => Fine(k, i)'
  BY <1>2, <1>3, <1>4
<1> QED BY <1>5 DEF Checked

LEMMA InvStep == IInv /\ [Next]_vars => IInv'
<1> SUFFICES ASSUME IInv, [Next]_vars PROVE IInv'
  OBVIOUS
<1>1. TypeOK'
  BY TypeStep DEF IInv
<1>2. InstanceStep
  BY InstanceSteps DEF IInv
<1> QED BY <1>1, <1>2, BeginningsStep, CheckedStep, UsersStep DEF IInv

\* Whatever fails, however long a spawn takes and however many runs of the cleanup overlap, a
\* live instance has lost a noted user only if a run found that user while the spawn was not
\* done noting it, or found the instance stopped before it was brought back.
THEOREM LiveInstancesKeepTheirUsersCorrect == Spec => []LiveInstancesKeepTheirUsers
<1>1. IInv => LiveInstancesKeepTheirUsers
  BY DEF IInv, Users, LiveInstancesKeepTheirUsers
<1> QED BY <1>1, InitInv, InvStep, PTL DEF Spec

=============================================================================
