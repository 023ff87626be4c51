-------------------------- MODULE ToolsPolicyProofs --------------------------
(***************************************************************************)
(* When all is done the policy has the teams of the user, if no task read  *)
(* before its change was committed, none was given up and nobody made the  *)
(* user's role at the same time.                                           *)
(*                                                                         *)
(* A task that loses the lock finds out when it ends, and is tried again:  *)
(* so a task will read again, whatever it has put, unless it holds the     *)
(* lock.  A commit leaves such a task for each of its changes.  The        *)
(* invariant is that there is one as long as what the policy has, or what  *)
(* somebody is about to put, is not what was committed; or that the task   *)
(* with the lock is about to put exactly that.  While a task holds the     *)
(* lock and is past its reading, nobody else can take the lock, and the    *)
(* others that will read again stay what they are.                         *)
(***************************************************************************)
EXTENDS ToolsPolicy, TLAPS

Bounded == MaxRetries \in Nat /\ Change \cap Maker = {}

\* the condition of the property
Undisturbed == (\A c \in Change : task[c] # "given up") /\ early = {} /\ ~overtaken

\* tasks that have yet to read, or have lost the lock
WillRead(c) == task[c] \in {"queued", "locked"} \/ (task[c] \in {"read", "put"} /\ c \notin lock)
SomeWillRead == \E c \in Change : WillRead(c)

\* or the holder of the lock is about to put what is committed
Settling == SomeWillRead \/ \E c \in lock : task[c] = "read" /\ teamsRead[c] = memberships

OneHolder == \A c, d \in lock : c = d

ChangesAreOpen == admin.open => admin.changes # {}

\* the tasks of changes that are not committed have not read
ChangesWait == \A c \in admin.changes : task[c] \in {"queued", "locked"}

PolicySettles == policy = memberships \/ Settling

MakersSettle == \A m \in Maker : maker[m] = "read" => teamsRead[m] = memberships \/ Settling

HolderSettles == \A c \in lock : task[c] = "read" => teamsRead[c] = memberships \/ SomeWillRead

IInv ==
    /\ TypeOK /\ OneHolder /\ ChangesAreOpen
    /\ Undisturbed => ChangesWait /\ PolicySettles /\ MakersSettle /\ HolderSettles

Settled == ChangesWait /\ PolicySettles /\ MakersSettle /\ HolderSettles

-----------------------------------------------------------------------------
Stage == {"none", "queued", "locked", "read", "put", "done", "given up"}

Typed == TypeOK /\ OneHolder /\ ChangesAreOpen

LEMMA InitInv == ASSUME Bounded PROVE Init => IInv
<1> SUFFICES ASSUME Init PROVE IInv
  OBVIOUS
<1>1. TypeOK
  <2>1. retries \in [Change -> 0..MaxRetries]
    BY DEF Bounded, Init
  <2>2. teamsRead \in [Putter -> SUBSET Team]
    BY DEF Init
  <2>3. admin \in [open : BOOLEAN, teams : SUBSET Team, changes : SUBSET Change]
    BY DEF Init, NotOpen
  <2> QED
    BY <2>1, <2>2, <2>3 DEF Init, TypeOK
<1> QED
  BY <1>1 DEF Init, NotOpen, IInv, OneHolder, ChangesAreOpen, ChangesWait, PolicySettles,
              MakersSettle, HolderSettles

LEMMA TypeAdmin ==
    ASSUME Typed,
           \/ \E c \in Change, t \in Team : membership_changes(c, t)
           \/ memberships_commit \/ memberships_roll_back
    PROVE  Typed' /\ (Undisturbed' => Undisturbed)
<1>1. CASE \E c \in Change, t \in Team : membership_changes(c, t)
  <2> PICK c \in Change, t \in Team : membership_changes(c, t)
    BY <1>1
  <2> DEFINE teams == Toggled(IF admin.open THEN admin.teams ELSE memberships, t)
  <2>1. teams \subseteq Team
    BY DEF Toggled, Typed, TypeOK
  <2> HIDE DEF teams
  <2>2. /\ admin' = [open |-> TRUE, teams |-> teams, changes |-> admin.changes \cup {c}]
        /\ task' = [task EXCEPT ![c] = "queued"] /\ task[c] = "none"
        /\ UNCHANGED <<memberships, retries, maker, teamsRead, lock, role, policy, early,
                       overtaken, failed>>
    BY DEF membership_changes, teams
  <2>3. admin' \in [open : BOOLEAN, teams : SUBSET Team, changes : SUBSET Change]
    BY <2>1, <2>2 DEF Typed, TypeOK
  <2>4. task' \in [Change -> {"none", "queued", "locked", "read", "put", "done", "given up"}]
    BY <2>2 DEF Typed, TypeOK
  <2>5. Undisturbed' => Undisturbed
    BY <2>2 DEF Undisturbed, Typed, TypeOK
  <2> QED
    BY <2>2, <2>3, <2>4, <2>5 DEF Typed, TypeOK, OneHolder, ChangesAreOpen
<1>2. CASE memberships_commit \/ memberships_roll_back
  <2>1. NotOpen \in [open : BOOLEAN, teams : SUBSET Team, changes : SUBSET Change]
    BY DEF NotOpen
  <2>2. admin' = NotOpen /\ ~admin'.open
    BY <1>2 DEF memberships_commit, memberships_roll_back, NotOpen
  <2>3. memberships' \subseteq Team
    BY <1>2 DEF memberships_commit, memberships_roll_back, Typed, TypeOK
  <2> QED
    BY <1>2, <2>1, <2>2, <2>3 DEF memberships_commit, memberships_roll_back, taskVars, Typed,
                                  TypeOK, OneHolder, ChangesAreOpen, Undisturbed
<1> QED
  BY <1>1, <1>2

LEMMA TypeTask ==
    ASSUME Bounded, Typed,
           \/ lock_expires
           \/ \E c \in Change : TaskNext(c) \/ \E f \in Failure : task_dies(c, f)
    PROVE  Typed' /\ (Undisturbed' => Undisturbed)
<1>1. CASE lock_expires
  BY <1>1 DEF lock_expires, taskVars, Typed, TypeOK, OneHolder, ChangesAreOpen, Undisturbed
<1>2. ASSUME NEW c \in Change, TaskNext(c) \/ \E f \in Failure : task_dies(c, f)
      PROVE  Typed' /\ (Undisturbed' => Undisturbed)
  <2>1. task[c] # "given up" /\ \E stage \in Stage : task' = [task EXCEPT ![c] = stage]
    BY <1>2 DEF TaskNext, task_locks, task_does_not_lock, task_reads, task_puts, task_ends,
                Retried, task_dies, Stage
  <2>2. \/ UNCHANGED retries
        \/ retries[c] < MaxRetries /\ retries' = [retries EXCEPT ![c] = @ + 1]
    BY <1>2 DEF TaskNext, task_locks, task_does_not_lock, task_reads, task_puts, task_ends,
                Retried, task_dies
  <2>3. retries' \in [Change -> 0..MaxRetries]
    <3>1. retries \in [Change -> 0..MaxRetries] /\ MaxRetries \in Nat
      BY DEF Typed, TypeOK, Bounded
    <3>2. retries[c] < MaxRetries => retries[c] + 1 \in 0..MaxRetries
      BY <3>1
    <3> QED
      BY <2>2, <3>1, <3>2
  <2>4. teamsRead' \in [Putter -> SUBSET Team] /\ policy' \in SUBSET Team
    BY <1>2 DEF TaskNext, task_locks, task_does_not_lock, task_reads, task_puts, task_ends,
                task_dies, Typed, TypeOK, Putter
  <2>5. lock' = {c} \/ lock' \subseteq lock
    BY <1>2 DEF TaskNext, task_locks, task_does_not_lock, task_reads, task_puts, task_ends,
                task_dies
  <2>6. /\ UNCHANGED <<memberships, admin, maker>>
        /\ early \subseteq early' /\ early' \subseteq Change /\ failed' \subseteq Failure
    BY <1>2 DEF TaskNext, task_locks, task_does_not_lock, task_reads, task_puts, task_ends,
                task_dies, Typed, TypeOK
  <2>7. role' \in BOOLEAN /\ overtaken' \in BOOLEAN /\ (overtaken => overtaken')
    BY <1>2 DEF TaskNext, task_locks, task_does_not_lock, task_reads, task_puts, task_ends,
                task_dies, Typed, TypeOK
  <2>8. task' \in [Change -> Stage] /\ \A d \in Change \ {c} : task'[d] = task[d]
    BY <2>1 DEF Typed, TypeOK, Stage
  <2>9. Undisturbed' => Undisturbed
    <3>1. (\A d \in Change : task'[d] # "given up") => \A d \in Change : task[d] # "given up"
      BY <2>1, <2>8
    <3>2. early' = {} => early = {}
      BY <2>6
    <3> QED
      BY <2>7, <3>1, <3>2 DEF Undisturbed
  <2>10. OneHolder' /\ ChangesAreOpen'
    BY <2>5, <2>6 DEF Typed, OneHolder, ChangesAreOpen
  <2>11. lock' \subseteq Change
    BY <2>5 DEF Typed, TypeOK
  <2> QED
    BY <2>3, <2>4, <2>6, <2>7, <2>8, <2>9, <2>10, <2>11 DEF Typed, TypeOK, Stage
<1> QED
  BY <1>1, <1>2

LEMMA TypeMaker ==
    ASSUME Typed, NEW m \in Maker, MakerNext(m)
    PROVE  Typed' /\ (Undisturbed' => Undisturbed)
<1>1. maker' \in [Maker -> {"none", "read", "put", "done"}]
  BY DEF MakerNext, maker_reads, maker_puts, maker_ends, Typed, TypeOK
<1>2. teamsRead' \in [Putter -> SUBSET Team] /\ policy' \in SUBSET Team /\ role' \in BOOLEAN
  BY DEF MakerNext, maker_reads, maker_puts, maker_ends, Typed, TypeOK, Putter
<1>3. UNCHANGED <<memberships, admin, task, retries, lock, early, overtaken, failed>>
  BY DEF MakerNext, maker_reads, maker_puts, maker_ends, taskVars
<1> QED
  BY <1>1, <1>2, <1>3 DEF Typed, TypeOK, OneHolder, ChangesAreOpen, Undisturbed

LEMMA TypeStep ==
    ASSUME Bounded, Typed, [Next]_vars
    PROVE  Typed' /\ (Undisturbed' => Undisturbed)
<1>1. CASE UNCHANGED vars
  BY <1>1 DEF vars, taskVars, Typed, TypeOK, OneHolder, ChangesAreOpen, Undisturbed
<1>2. CASE Next
  BY <1>2, TypeAdmin, TypeTask, TypeMaker DEF Next
<1> QED
  BY <1>1, <1>2

\* A commit leaves a task that will read, for each of its changes.
LEMMA AdminStep ==
    ASSUME IInv, Undisturbed, Settled,
           \/ \E c \in Change, t \in Team : membership_changes(c, t)
           \/ memberships_commit \/ memberships_roll_back
    PROVE  Settled'
<1> USE DEF Settled
<1>1. CASE \E c \in Change, t \in Team : membership_changes(c, t)
  <2> PICK c \in Change, t \in Team : membership_changes(c, t)
    BY <1>1
  <2>1. /\ task[c] = "none" /\ task' = [task EXCEPT ![c] = "queued"]
        /\ admin'.changes = admin.changes \cup {c}
        /\ UNCHANGED <<memberships, maker, teamsRead, lock, policy>>
    BY DEF membership_changes
  <2>2. \A d \in Change : WillRead(d) => WillRead(d)'
    BY <2>1 DEF WillRead, IInv, TypeOK
  <2>3. Settling => Settling'
    BY <2>1, <2>2 DEF Settling, SomeWillRead, IInv, TypeOK
  <2>4. ChangesWait'
    <3>1. admin.changes \subseteq Change /\ task \in [Change -> Stage]
      BY DEF IInv, TypeOK, Stage
    <3> QED
      BY <2>1, <3>1 DEF ChangesWait
  <2>5. HolderSettles'
    BY <2>1, <2>2 DEF HolderSettles, SomeWillRead, IInv, TypeOK
  <2> QED
    BY <2>1, <2>3, <2>4, <2>5 DEF PolicySettles, MakersSettle
<1>2. CASE memberships_commit
  <2>1. \E c \in Change : WillRead(c)
    BY <1>2 DEF memberships_commit, IInv, TypeOK, ChangesAreOpen, ChangesWait, WillRead
  <2>2. SomeWillRead'
    BY <1>2, <2>1 DEF memberships_commit, taskVars, SomeWillRead, WillRead
  <2>3. ChangesWait'
    BY <1>2 DEF memberships_commit, NotOpen, ChangesWait
  <2> QED
    BY <2>2, <2>3 DEF PolicySettles, MakersSettle, HolderSettles, Settling
<1>3. CASE memberships_roll_back
  BY <1>3 DEF memberships_roll_back, NotOpen, taskVars, ChangesWait, PolicySettles, MakersSettle,
              HolderSettles, Settling, SomeWillRead, WillRead
<1> QED
  BY <1>1, <1>2, <1>3

\* A task that waits for the lock, or for the next try, will read; one that loses the lock
\* will read again, whatever it does before.
LEMMA LockStep ==
    ASSUME IInv, Undisturbed, Settled, Undisturbed',
           lock_expires \/ \E c \in Change : task_locks(c) \/ task_does_not_lock(c)
    PROVE  Settled'
<1>1. UNCHANGED <<memberships, admin, maker, teamsRead, policy>>
  BY DEF lock_expires, task_locks, task_does_not_lock
<1>2. /\ \A c \in Change : task[c] \in {"queued", "locked"} => task'[c] \in {"queued", "locked"}
      /\ \A c \in Change : task'[c] = "read" => task[c] = "read"
      /\ \A c \in Change : task[c] \in {"read", "put"} => task'[c] = task[c]
      /\ \A c \in lock' : task'[c] = "locked" \/ c \in lock
  <2>1. CASE lock_expires
    BY <2>1 DEF lock_expires, taskVars
  <2>2. CASE \E c \in Change : task_locks(c)
    BY <2>2 DEF task_locks, IInv, TypeOK
  <2>3. CASE \E c \in Change : task_does_not_lock(c)
    <3> PICK c \in Change : task_does_not_lock(c)
      BY <2>3
    <3>1. task'[c] # "given up" /\ task \in [Change -> Stage]
      BY DEF Undisturbed, IInv, TypeOK, Stage
    <3>2. task[c] = "queued" /\ task' = [task EXCEPT ![c] = "queued"] /\ lock' = lock
      BY <3>1 DEF task_does_not_lock, Retried
    <3> QED
      BY <3>1, <3>2
  <2> QED
    BY <2>1, <2>2, <2>3
<1>3. \A c \in Change : WillRead(c) => WillRead(c)'
  BY <1>2 DEF WillRead
<1>4. \A c \in lock : task[c] = "read" => WillRead(c)' \/ (c \in lock' /\ task'[c] = "read")
  BY DEF lock_expires, task_locks, task_does_not_lock, taskVars, Retried, Undisturbed, WillRead,
         IInv, TypeOK
<1>5. SomeWillRead => SomeWillRead'
  BY <1>3 DEF SomeWillRead
<1>6. Settling => Settling'
  BY <1>1, <1>4, <1>5 DEF Settling, SomeWillRead, IInv, TypeOK
<1>7. HolderSettles'
  BY <1>1, <1>2, <1>5 DEF Settled, HolderSettles, IInv, TypeOK
<1> QED
  BY <1>1, <1>2, <1>6, <1>7 DEF Settled, ChangesWait, PolicySettles, MakersSettle, IInv, TypeOK

\* The task with the lock reads what is committed.
LEMMA ReadStep ==
    ASSUME Bounded, IInv, Undisturbed, Settled, Undisturbed', NEW c \in Change, task_reads(c)
    PROVE  Settled'
<1>1. /\ task[c] = "locked" /\ task' = [task EXCEPT ![c] = "read"]
      /\ teamsRead' = [teamsRead EXCEPT ![c] = memberships]
      /\ UNCHANGED <<memberships, admin, maker, lock, policy>>
      /\ c \notin admin.changes
  BY DEF task_reads, Undisturbed
<1>2. task'[c] = "read" /\ teamsRead'[c] = memberships
  BY <1>1 DEF IInv, TypeOK, Putter
<1>3. /\ \A d \in Change \ {c} : task'[d] = task[d] /\ teamsRead'[d] = teamsRead[d]
      /\ \A m \in Maker : teamsRead'[m] = teamsRead[m]
  BY <1>1 DEF IInv, TypeOK, Putter, Bounded
<1>4. Settling'
  <2>1. CASE c \in lock
    BY <1>1, <1>2, <2>1 DEF Settling
  <2>2. CASE c \notin lock
    BY <1>1, <1>2, <2>2 DEF Settling, SomeWillRead, WillRead
  <2> QED
    BY <2>1, <2>2
<1>5. HolderSettles'
  <2> SUFFICES ASSUME NEW d \in lock, d # c, task[d] = "read"
               PROVE  SomeWillRead'
    BY <1>1, <1>2, <1>3 DEF HolderSettles, IInv, TypeOK
  <2>1. c \notin lock
    BY DEF IInv, OneHolder
  <2> QED
    BY <1>1, <1>2, <2>1 DEF SomeWillRead, WillRead
<1>6. ChangesWait'
  BY <1>1, <1>3 DEF Settled, ChangesWait, IInv, TypeOK
<1> QED
  BY <1>4, <1>5, <1>6 DEF Settled, PolicySettles, MakersSettle

\* It puts what it read, unless something was committed since; then, or if it has lost the
\* lock, a task will read.
LEMMA PutStep ==
    ASSUME IInv, Undisturbed, Settled, Undisturbed', NEW c \in Change, task_puts(c)
    PROVE  Settled'
<1>1. /\ task[c] = "read" /\ task' = [task EXCEPT ![c] = "put"]
      /\ policy' = teamsRead[c]
      /\ UNCHANGED <<memberships, admin, maker, teamsRead, lock>>
      /\ \A m \in Maker : maker[m] # "read"
  BY DEF task_puts, Undisturbed
<1>2. \A d \in Change : WillRead(d) => WillRead(d)'
  BY <1>1 DEF WillRead, IInv, TypeOK
<1>3. SomeWillRead => SomeWillRead'
  BY <1>2 DEF SomeWillRead
<1>4. policy' = memberships \/ SomeWillRead'
  <2>1. CASE c \in lock
    BY <1>1, <1>3, <2>1 DEF Settled, HolderSettles
  <2>2. CASE c \notin lock
    BY <1>1, <1>3, <2>2 DEF SomeWillRead, WillRead
  <2> QED
    BY <2>1, <2>2
<1>5. HolderSettles'
  BY <1>1, <1>3 DEF Settled, HolderSettles, IInv, TypeOK
<1>6. ChangesWait'
  BY <1>1 DEF Settled, ChangesWait, IInv, TypeOK
<1> QED
  BY <1>1, <1>4, <1>5, <1>6 DEF PolicySettles, MakersSettle, Settling, Settled

\* A task that ends without the lock is tried again.
LEMMA EndStep ==
    ASSUME IInv, Undisturbed, Settled, Undisturbed', NEW c \in Change, task_ends(c)
    PROVE  Settled'
<1>1. /\ task[c] = "put" /\ lock' = lock \ {c}
      /\ UNCHANGED <<memberships, admin, maker, teamsRead, policy>>
      /\ task' = [task EXCEPT ![c] = IF c \in lock THEN "done" ELSE "queued"]
  BY DEF task_ends, Retried, Undisturbed, IInv, TypeOK
<1>2. \A d \in Change : WillRead(d) => WillRead(d)'
  BY <1>1 DEF WillRead, IInv, TypeOK
<1>3. SomeWillRead => SomeWillRead'
  BY <1>2 DEF SomeWillRead
<1>4. Settling => Settling'
  BY <1>1, <1>3 DEF Settling, IInv, TypeOK
<1>5. HolderSettles'
  BY <1>1, <1>3 DEF Settled, HolderSettles, IInv, TypeOK
<1>6. ChangesWait'
  BY <1>1 DEF Settled, ChangesWait, IInv, TypeOK
<1> QED
  BY <1>1, <1>4, <1>5, <1>6 DEF Settled, PolicySettles, MakersSettle

\* A maker reads what is committed, and puts it before a task has put something else.
LEMMA MakerStep ==
    ASSUME Bounded, IInv, Undisturbed, Settled, NEW m \in Maker, MakerNext(m)
    PROVE  Settled'
<1>1. UNCHANGED <<memberships, admin, task, lock>>
  BY DEF MakerNext, maker_reads, maker_puts, maker_ends, taskVars
<1>2. /\ \A c \in Change : teamsRead'[c] = teamsRead[c]
      /\ \A other \in Maker \ {m} : /\ maker'[other] = maker[other]
                                    /\ teamsRead'[other] = teamsRead[other]
      /\ maker'[m] = "read" => teamsRead'[m] = memberships
      /\ policy' = policy \/ (maker[m] = "read" /\ policy' = teamsRead[m])
  BY DEF MakerNext, maker_reads, maker_puts, maker_ends, IInv, TypeOK, Bounded, Putter
<1>3. SomeWillRead => SomeWillRead'
  BY <1>1 DEF SomeWillRead, WillRead
<1>4. Settling => Settling'
  BY <1>1, <1>2, <1>3 DEF Settling, IInv, TypeOK
<1>5. HolderSettles'
  BY <1>1, <1>2, <1>3 DEF Settled, HolderSettles, IInv, TypeOK
<1>6. ChangesWait'
  BY <1>1 DEF Settled, ChangesWait
<1>7. PolicySettles' /\ MakersSettle'
  BY <1>1, <1>2, <1>4 DEF Settled, PolicySettles, MakersSettle
<1> QED
  BY <1>5, <1>6, <1>7 DEF Settled

LEMMA InvStep == ASSUME Bounded PROVE IInv /\ [Next]_vars => IInv'
<1> SUFFICES ASSUME IInv, [Next]_vars PROVE IInv'
  OBVIOUS
<1> SUFFICES ASSUME Undisturbed' PROVE Settled'
  BY TypeStep DEF IInv, Typed, Settled
<1>1. Undisturbed /\ Settled
  BY TypeStep DEF IInv, Typed, Settled
<1>2. CASE \E c \in Change, f \in Failure : task_dies(c, f)
  BY <1>2 DEF task_dies, Undisturbed, IInv, TypeOK
<1>3. CASE UNCHANGED vars
  BY <1>1, <1>3 DEF vars, taskVars, Settled, ChangesWait, PolicySettles, MakersSettle,
                    HolderSettles, Settling, SomeWillRead, WillRead
<1> QED
  BY <1>1, <1>2, <1>3, AdminStep, LockStep, ReadStep, PutStep, EndStep, MakerStep
     DEF Next, TaskNext

\* The inductive invariant holds of every behaviour.
THEOREM InvCorrect == ASSUME Bounded PROVE Spec => []IInv
<1>1. Init => IInv
  BY InitInv
<1>2. IInv /\ [Next]_vars => IInv'
  BY InvStep
<1> QED
  BY <1>1, <1>2, PTL DEF Spec

\* Every variable of ToolsPolicy keeps its type.
THEOREM TypeCorrect == ASSUME Bounded PROVE Spec => []TypeOK
<1>1. IInv => TypeOK
  BY DEF IInv
<1> QED
  BY <1>1, InvCorrect, PTL

\* For any number of changes, tasks, tries and makers of the role: when the tasks are done,
\* create_tools_access_iam_role_task has left the teams that are committed in the policy, unless
\* one read before the commit, one was given up, or somebody made the role at the same time.
THEOREM PolicyFollowsCommittedTeamsCorrect ==
    ASSUME Bounded PROVE Spec => []PolicyFollowsCommittedTeams
<1>1. IInv => PolicyFollowsCommittedTeams
  <2> SUFFICES ASSUME IInv, Quiet, Undisturbed PROVE policy = memberships
    BY DEF PolicyFollowsCommittedTeams, Undisturbed
  <2>1. ~Settling
    BY DEF Quiet, Settling, SomeWillRead, WillRead, IInv, TypeOK
  <2> QED
    BY <2>1 DEF IInv, PolicySettles
<1> QED
  BY <1>1, InvCorrect, PTL

=============================================================================
