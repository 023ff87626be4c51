---------------------------- MODULE AccessProofs ----------------------------
(***************************************************************************)
(* Proofs about who sees what: AuthorisedUsers, by which the permissions   *)
(* change, and ExplorerCredentials, which takes what they say; and then    *)
(* about their composition with ToolsPolicy and ReferenceDatasets, for any *)
(* constants.  What ToolsPolicyProofs and ReferenceDatasetsProofs show of  *)
(* these two holds of the composition, since no step of one part disturbs  *)
(* another.                                                                *)
(***************************************************************************)
EXTENDS MCAccess, TLAPS

-----------------------------------------------------------------------------
(***************************************************************************)
(* Proofs about AuthorisedUsers, for any datasets, users, editors and      *)
(* bounds.                                                                 *)
(*                                                                         *)
(* ChangesReachTheCaches is kept because a save has noted all whom it is   *)
(* to add or remove before it changes the first (SavesAreWhole).           *)
(* ChangesAreMeant is kept because the users of a row are those who had    *)
(* access when it was made, but for whom the editor named and whose access *)
(* was changed since (RowsKnow), and a save finds a difference between the *)
(* row and the permissions in these alone (SavesKnow).                     *)
(***************************************************************************)
ListsBounded ==
    /\ MaxPending \in Nat /\ MaxSaves \in Nat /\ MaxCrashes \in Nat
    /\ Owners \in [Dataset -> SUBSET User]

RowsExist ==
    /\ \A page \in pages : page.row <= Len(pending)
    /\ \A e \in Editor : save[e].pc # "idle" => save[e].row \in 1..Len(pending)

SavesAreWhole ==
    \A e \in Editor :
        /\ save[e].pc = "idle" => save[e].dataset = {}
        /\ save[e].pc # "changing" => save[e].changed = {}
        /\ save[e].add \cup save[e].delete \subseteq save[e].changed

\* A change of this access by a save of this row would not be meant.
Untouched(entry, d, u) ==
    /\ entry \in 1..Len(pending)
    /\ u \notin named[entry] \cup Owners[d]
    /\ <<d, u>> \notin since[entry]
    /\ pending[entry].dataset = d

RowsKnow ==
    \A entry \in 1..Len(pending), d \in Dataset, u \in User :
        Untouched(entry, d, u) => (u \in pending[entry].users <=> <<d, u>> \in permissions)

SavesKnow ==
    \A e \in Editor, d \in Dataset, u \in User :
        (save[e].dataset = {d} /\ Untouched(save[e].row, d, u)) =>
            /\ save[e].pc = "begun" => (u \in save[e].users <=> <<d, u>> \in permissions)
            /\ save[e].pc = "changing" => u \notin save[e].add \cup save[e].delete

Shape == ListsTypeOK /\ RowsExist /\ SavesAreWhole

ListsInv == Shape /\ ChangesReachTheCaches /\ RowsKnow /\ SavesKnow

Save == [pc : {"idle", "begun", "changing"}, dataset : SUBSET Dataset, row : 0..MaxPending,
         users : SUBSET User, add : SUBSET User, delete : SUBSET User, changed : SUBSET User]

-----------------------------------------------------------------------------
LEMMA Element ==
    ASSUME NEW S, NEW s \in Seq(S), NEW i \in 1..Len(s)
    PROVE  s[i] \in S
OBVIOUS

LEMMA Replaced ==
    ASSUME NEW S, NEW s \in Seq(S), NEW i \in 1..Len(s), NEW x \in S
    PROVE  /\ [s EXCEPT ![i] = x] \in Seq(S)
           /\ Len([s EXCEPT ![i] = x]) = Len(s)
OBVIOUS

LEMMA RowWith ==
    ASSUME NEW r \in [by : Editor, dataset : Dataset, users : SUBSET User], NEW them \in SUBSET User
    PROVE  [r EXCEPT !.users = them] \in [by : Editor, dataset : Dataset, users : SUBSET User]
OBVIOUS

LEMMA ListsInitInv == ASSUME ListsBounded PROVE ListsInit => ListsInv
<1> SUFFICES ASSUME ListsInit PROVE ListsInv
  OBVIOUS
<1> USE DEF ListsInit, Idle, ListsBounded
<1>1. ListsTypeOK
  BY DEF ListsTypeOK, Access
<1>2. RowsExist /\ SavesAreWhole /\ ChangesReachTheCaches /\ RowsKnow /\ SavesKnow
  BY DEF RowsExist, SavesAreWhole, ChangesReachTheCaches, RowsKnow, SavesKnow
<1> QED BY <1>1, <1>2 DEF ListsInv, Shape

\* A step that leaves the rows, and changes permissions that the rows are told of.
LEMMA KnowKept ==
    ASSUME ListsInv, UNCHANGED <<pending, named>>,
           \A k \in 1..Len(pending) : since[k] \subseteq since'[k],
           \A k \in 1..Len(pending), d \in Dataset, u \in User :
               <<d, u>> \notin since'[k] => (<<d, u>> \in permissions' <=> <<d, u>> \in permissions),
           \A e \in Editor : \/ save'[e] = save[e]
                             \/ save'[e].dataset = {}
                             \/ /\ save'[e].dataset = save[e].dataset
                                /\ save'[e].row = save[e].row
                                /\ save'[e].pc = save[e].pc
                                /\ save'[e].users = save[e].users
                                /\ save'[e].add \subseteq save[e].add
                                /\ save'[e].delete \subseteq save[e].delete
    PROVE  RowsKnow' /\ SavesKnow'
<1>1. \A k, d, u : Untouched(k, d, u)' => Untouched(k, d, u)
  BY DEF Untouched
<1>2. ASSUME NEW k, NEW d \in Dataset, NEW u \in User, Untouched(k, d, u)'
      PROVE  <<d, u>> \in permissions' <=> <<d, u>> \in permissions
  BY <1>2 DEF Untouched
<1>3. RowsKnow'
  BY <1>1, <1>2 DEF ListsInv, RowsKnow
<1>4. SavesKnow'
  <2> SUFFICES ASSUME NEW e \in Editor, NEW d \in Dataset, NEW u \in User,
                      save'[e].dataset = {d}, Untouched(save[e].row, d, u)'
               PROVE  /\ save'[e].pc = "begun" => (u \in save'[e].users <=> <<d, u>> \in permissions')
                      /\ save'[e].pc = "changing" => u \notin save'[e].add \cup save'[e].delete
    BY DEF SavesKnow
  <2>1. save'[e].dataset = save[e].dataset /\ save'[e].row = save[e].row
        /\ save'[e].pc = save[e].pc /\ save'[e].users = save[e].users
        /\ save'[e].add \subseteq save[e].add /\ save'[e].delete \subseteq save[e].delete
    OBVIOUS
  <2>2. Untouched(save'[e].row, d, u)
    BY <2>1, <1>1 DEF Untouched
  <2>3. <<d, u>> \in permissions' <=> <<d, u>> \in permissions
    BY <2>1, <1>2 DEF Untouched
  <2> QED BY <2>1, <2>2, <2>3 DEF ListsInv, SavesKnow
<1> QED BY <1>3, <1>4

\* A save is begun, of a row that there is, with users who differ from the row's in those
\* who are named.
LEMMA SaveBegins ==
    ASSUME ListsBounded, Shape, NEW e \in Editor, NEW d \in Dataset, NEW entry \in 1..MaxPending,
           NEW users \in SUBSET User, save[e].pc = "idle", BeginSave(e, d, entry, users)
    PROVE  /\ save' \in [Editor -> Save] /\ saves' \in 0..MaxSaves
           /\ save'[e].pc = "begun" /\ save'[e].dataset = {d} /\ save'[e].row = entry
           /\ save'[e].users = users
           /\ save'[e].add = {} /\ save'[e].delete = {} /\ save'[e].changed = {}
           /\ \A f \in Editor \ {e} : save'[f] = save[f]
           /\ save[e].changed = {}
<1> DEFINE new == [Idle EXCEPT !.pc = "begun", !.dataset = {d}, !.row = entry, !.users = users]
<1>1. save \in [Editor -> Save] /\ saves \in 0..MaxSaves /\ saves < MaxSaves
  BY DEF Shape, ListsTypeOK, Save, BeginSave
<1>2. save' = [save EXCEPT ![e] = new]
  BY DEF BeginSave
<1>3. /\ new \in Save
      /\ new.pc = "begun" /\ new.dataset = {d} /\ new.row = entry /\ new.users = users
      /\ new.add = {} /\ new.delete = {} /\ new.changed = {}
  <2>1. Idle \in Save
    BY DEF Idle, Save, ListsBounded
  <2>2. Idle.add = {} /\ Idle.delete = {} /\ Idle.changed = {}
    BY DEF Idle
  <2>3. entry \in 0..MaxPending
    BY DEF ListsBounded
  <2> QED BY <2>1, <2>2, <2>3 DEF Save
<1> HIDE DEF new
<1>4. saves' \in 0..MaxSaves
  BY <1>1 DEF BeginSave, ListsBounded
<1>5. save[e].changed = {}
  BY DEF Shape, SavesAreWhole
<1> QED BY <1>1, <1>2, <1>3, <1>4, <1>5

-----------------------------------------------------------------------------
(* Pages *)

LEMMA RequestStep ==
    ASSUME ListsInv, NEW d \in Dataset, NEW u \in User, request_access(d, u) PROVE ListsInv'
<1>1. UNCHANGED <<permissions, pending, pages, save, stale, named, since, interrupted, saves,
                  crashes>>
  BY DEF request_access, history, bounds
<1>2. ListsTypeOK'
  BY <1>1 DEF ListsInv, Shape, ListsTypeOK, request_access
<1>3. (RowsExist /\ SavesAreWhole /\ ChangesReachTheCaches)'
  BY <1>1 DEF ListsInv, Shape, RowsExist, SavesAreWhole, ChangesReachTheCaches
<1> QED BY <1>1, <1>2, <1>3, KnowKept DEF ListsInv, Shape

\* A row is made of those who have access now, the owners and whoever is named.
LEMMA NewRowStep ==
    ASSUME ListsBounded, ListsInv, NEW e \in Editor, NEW d \in Dataset, NEW users \in SUBSET User,
           NewRow(e, d, users), UNCHANGED <<permissions, since>>,
           \A k \in 1..Len(pending) : named'[k] = named[k],
           \A u \in User : u \notin named'[Len(pending) + 1] \cup Owners[d] =>
                               (u \in users <=> <<d, u>> \in permissions)
    PROVE  /\ pending' \in Seq([by : Editor, dataset : Dataset, users : SUBSET User])
           /\ Len(pending') = Len(pending) + 1 /\ Len(pending') <= MaxPending
           /\ pages' \subseteq Page
           /\ \A page \in pages' : page.row <= Len(pending')
           /\ \A k \in 1..Len(pending) : pending'[k] = pending[k]
           /\ RowsKnow'
<1> DEFINE entry == [by |-> e, dataset |-> d, users |-> users]
<1>1. pending \in Seq([by : Editor, dataset : Dataset, users : SUBSET User])
      /\ pages \subseteq Page /\ Len(pending) \in Nat
  BY DEF ListsInv, Shape, ListsTypeOK
<1>2. pending' = Append(pending, entry) /\ Len(pending) < MaxPending
      /\ entry \in [by : Editor, dataset : Dataset, users : SUBSET User]
  BY DEF NewRow
<1>3. /\ pending' \in Seq([by : Editor, dataset : Dataset, users : SUBSET User])
      /\ Len(pending') = Len(pending) + 1 /\ Len(pending') <= MaxPending
      /\ pending'[Len(pending) + 1] = entry
      /\ \A k \in 1..Len(pending) : pending'[k] = pending[k]
  BY <1>1, <1>2 DEF ListsBounded
<1>4. pages' \subseteq Page /\ \A page \in pages' : page.row <= Len(pending')
  <2>1. PageOf(e, d, Len(pending) + 1) \in Page
        /\ PageOf(e, d, Len(pending) + 1).row = Len(pending) + 1
    BY <1>1, <1>2 DEF PageOf, Page, ListsBounded
  <2>2. pages' = pages \cup {PageOf(e, d, Len(pending) + 1)}
    BY DEF NewRow
  <2>3. \A page \in pages : page.row \in Nat /\ page.row <= Len(pending)
    BY <1>1 DEF ListsInv, Shape, RowsExist, Page
  <2> QED BY <1>1, <1>3, <2>1, <2>2, <2>3
<1>5. ASSUME NEW k \in 1..Len(pending'), NEW c \in Dataset, NEW u \in User,
             Untouched(k, c, u)'
      PROVE  (u \in pending[k].users <=> <<c, u>> \in permissions)'
  <2>1. CASE k \in 1..Len(pending)
    <3>1. Untouched(k, c, u)
      BY <1>3, <1>5, <2>1 DEF Untouched
    <3> QED BY <1>3, <2>1, <3>1 DEF ListsInv, RowsKnow
  <2>2. CASE k = Len(pending) + 1
    BY <1>3, <1>5, <2>2 DEF Untouched
  <2> QED BY <1>1, <1>3, <2>1, <2>2
<1>6. RowsKnow'
  BY <1>5 DEF RowsKnow
<1> QED BY <1>3, <1>4, <1>6

\* Saves that go on do not know of new rows, and the rows of theirs are as they were.
LEMMA OtherSaves ==
    ASSUME ListsInv, UNCHANGED <<permissions, since>>, NEW e \in Editor, NEW d \in Dataset, NEW u \in User,
           save'[e] = save[e], save'[e].dataset = {d}, Untouched(save[e].row, d, u)',
           Len(pending) \in Nat, Len(pending') \in Nat, Len(pending) <= Len(pending'),
           \A k \in 1..Len(pending) : /\ pending'[k].dataset = pending[k].dataset
                                      /\ named[k] \subseteq named'[k]
    PROVE  /\ save'[e].pc = "begun" => (u \in save'[e].users <=> <<d, u>> \in permissions')
           /\ save'[e].pc = "changing" => u \notin save'[e].add \cup save'[e].delete
<1>1. save[e].row \in 1..Len(pending)
  BY DEF ListsInv, Shape, RowsExist, SavesAreWhole
<1>2. Untouched(save[e].row, d, u)
  BY <1>1 DEF Untouched
<1> QED BY <1>2 DEF ListsInv, SavesKnow

LEMMA OpenStep ==
    ASSUME ListsBounded, ListsInv, NEW e \in Editor, NEW d \in Dataset, open_permissions(e, d)
    PROVE  ListsInv'
<1>1. UNCHANGED <<permissions, requested, save, stale, named, since, interrupted, saves, crashes>>
      /\ NewRow(e, d, Authorised(d) \cup Owners[d])
  BY DEF open_permissions, history, bounds
<1>2. Authorised(d) \cup Owners[d] \in SUBSET User
  BY DEF Authorised, ListsBounded
<1>3. \A u \in User : u \notin Owners[d] =>
                          (u \in Authorised(d) \cup Owners[d] <=> <<d, u>> \in permissions)
  BY DEF Authorised
<1>4. /\ pending' \in Seq([by : Editor, dataset : Dataset, users : SUBSET User])
      /\ Len(pending') = Len(pending) + 1 /\ Len(pending') <= MaxPending
      /\ pages' \subseteq Page
      /\ \A page \in pages' : page.row <= Len(pending')
      /\ \A k \in 1..Len(pending) : pending'[k] = pending[k]
      /\ RowsKnow'
  BY <1>1, <1>2, <1>3, NewRowStep
<1>5. Len(pending) \in Nat
  BY DEF ListsInv, Shape, ListsTypeOK
<1>6. ListsTypeOK'
  BY <1>1, <1>4 DEF ListsInv, Shape, ListsTypeOK
<1>7. (RowsExist /\ SavesAreWhole /\ ChangesReachTheCaches)'
  BY <1>1, <1>4, <1>5 DEF ListsInv, Shape, RowsExist, SavesAreWhole, ChangesReachTheCaches
<1>8. SavesKnow'
  BY <1>1, <1>4, <1>5, OtherSaves DEF SavesKnow
<1> QED BY <1>4, <1>6, <1>7, <1>8 DEF ListsInv, Shape

LEMMA AddStep ==
    ASSUME ListsBounded, ListsInv, NEW e \in Editor, NEW page \in pages, NEW users \in SUBSET User,
           add_users(e, page, users)
    PROVE  ListsInv'
<1> DEFINE entry == page.row
<1>1. UNCHANGED <<permissions, requested, pages, save, stale, since, interrupted, saves, crashes>>
  BY DEF add_users, bounds
<1>2. entry \in 1..Len(pending) /\ entry \in 1..MaxPending /\ Len(pending) \in Nat
      /\ pending \in Seq([by : Editor, dataset : Dataset, users : SUBSET User])
      /\ named \in [1..MaxPending -> SUBSET User]
  BY DEF ListsInv, Shape, ListsTypeOK, RowsExist, Page, ListsBounded
<1>3. pending' = [pending EXCEPT ![entry].users = @ \cup users]
      /\ named' = [named EXCEPT ![entry] = @ \cup users]
  BY DEF add_users
<1>4. /\ pending' \in Seq([by : Editor, dataset : Dataset, users : SUBSET User])
      /\ named' \in [1..MaxPending -> SUBSET User]
      /\ Len(pending') = Len(pending)
  <2>1. pending[entry] \in [by : Editor, dataset : Dataset, users : SUBSET User]
    BY <1>2, Element
  <2>2. pending[entry].users \cup users \in SUBSET User
    BY <2>1
  <2>3. [pending[entry] EXCEPT !.users = @ \cup users] \in [by : Editor, dataset : Dataset, users : SUBSET User]
    BY <2>1, <2>2, RowWith
  <2>4. named[entry] \cup users \in SUBSET User
    BY <1>2
  <2> QED BY <1>2, <1>3, <2>3, <2>4, Replaced
<1>5. \A k \in 1..Len(pending) : pending'[k].dataset = pending[k].dataset
  BY <1>2, <1>3
<1>6. \A k \in 1..Len(pending) : named[k] \subseteq named'[k]
  BY <1>2, <1>3 DEF ListsInv, Shape, ListsTypeOK
<1>7. ListsTypeOK'
  BY <1>1, <1>4 DEF ListsInv, Shape, ListsTypeOK
<1>8. (RowsExist /\ SavesAreWhole /\ ChangesReachTheCaches)'
  BY <1>1, <1>4 DEF ListsInv, Shape, RowsExist, SavesAreWhole, ChangesReachTheCaches
<1>9. RowsKnow'
  <2> SUFFICES ASSUME NEW k \in 1..Len(pending), NEW d \in Dataset, NEW u \in User,
                      Untouched(k, d, u)'
               PROVE  u \in pending'[k].users <=> <<d, u>> \in permissions
    BY <1>1, <1>4 DEF RowsKnow
  <2>1. Untouched(k, d, u)
    BY <1>1, <1>4, <1>5, <1>6 DEF Untouched
  <2>2. u \in pending[k].users <=> <<d, u>> \in permissions
    BY <2>1 DEF ListsInv, RowsKnow
  <2>3. CASE k = entry
    <3>1. u \notin users
      BY <1>2, <1>3, <2>3 DEF Untouched
    <3> QED BY <1>2, <1>3, <2>2, <2>3, <3>1
  <2>4. CASE k # entry
    BY <1>2, <1>3, <2>2, <2>4
  <2> QED BY <2>3, <2>4
<1>10. SavesKnow'
  BY <1>1, <1>2, <1>4, <1>5, <1>6, OtherSaves DEF SavesKnow
<1> QED BY <1>7, <1>8, <1>9, <1>10 DEF ListsInv, Shape

\* What a page does to the rows that there are.
RowsGrow ==
    /\ requested' \in [Asked -> {"none", "waiting", "confirmed", "declined"}]
    /\ pending' \in Seq([by : Editor, dataset : Dataset, users : SUBSET User])
    /\ Len(pending') <= MaxPending /\ Len(pending) <= Len(pending')
    /\ pages' \subseteq Page /\ \A page \in pages' : page.row <= Len(pending')
    /\ named' \in [1..MaxPending -> SUBSET User]
    /\ \A k \in 1..Len(pending) : /\ pending'[k].dataset = pending[k].dataset
                                  /\ named[k] \subseteq named'[k]

UsersKnown(entry, d, users) ==
    \A u \in User : Untouched(entry, d, u) => (u \in users <=> <<d, u>> \in permissions)

\* A save begins of a row whose users are known, after changes of the rows.
LEMMA BeginStep ==
    ASSUME ListsBounded, ListsInv, NEW e \in Editor, NEW d \in Dataset, NEW entry \in 1..MaxPending,
           NEW users \in SUBSET User, save[e].pc = "idle", BeginSave(e, d, entry, users),
           UNCHANGED <<permissions, stale, since, interrupted, crashes>>,
           RowsGrow, entry <= Len(pending'), RowsKnow', UsersKnown(entry, d, users)'
    PROVE  ListsInv'
<1>1. /\ save' \in [Editor -> Save] /\ saves' \in 0..MaxSaves
      /\ save'[e].pc = "begun" /\ save'[e].dataset = {d} /\ save'[e].row = entry
      /\ save'[e].users = users
      /\ save'[e].add = {} /\ save'[e].delete = {} /\ save'[e].changed = {}
      /\ \A f \in Editor \ {e} : save'[f] = save[f]
      /\ save[e].changed = {}
  BY SaveBegins DEF ListsInv
<1>2. Len(pending) \in Nat /\ Len(pending') \in Nat
  BY DEF ListsInv, Shape, ListsTypeOK, RowsGrow
<1>3. ListsTypeOK'
  BY <1>1 DEF RowsGrow, ListsInv, Shape, ListsTypeOK, Save
<1>4. RowsExist'
  <2>1. entry \in 1..Len(pending')
    BY <1>2
  <2>2. \A f \in Editor \ {e} : save[f].pc # "idle" => save[f].row \in 1..Len(pending')
    BY <1>2 DEF ListsInv, Shape, RowsExist, RowsGrow
  <2> QED BY <1>1, <2>1, <2>2 DEF RowsExist, RowsGrow
<1>5. SavesAreWhole'
  BY <1>1 DEF ListsInv, Shape, SavesAreWhole
<1>6. ChangesReachTheCaches'
  BY <1>1 DEF ListsInv, ChangesReachTheCaches
<1>7. SavesKnow'
  <2> SUFFICES ASSUME NEW f \in Editor, NEW c \in Dataset, NEW u \in User,
                      save'[f].dataset = {c}, (Untouched(save[f].row, c, u))'
               PROVE  /\ save'[f].pc = "begun" => (u \in save'[f].users <=> <<c, u>> \in permissions')
                      /\ save'[f].pc = "changing" => u \notin save'[f].add \cup save'[f].delete
    BY DEF SavesKnow
  <2>1. CASE f = e
    <3>1. c = d /\ Untouched(entry, d, u)'
      BY <1>1, <2>1 DEF Untouched
    <3> QED BY <1>1, <2>1, <3>1 DEF UsersKnown
  <2>2. CASE f # e
    <3>1. save'[f] = save[f] /\ Untouched(save[f].row, c, u)
      <4>1. save[f].row \in 1..Len(pending)
        BY <1>1, <2>2 DEF ListsInv, Shape, RowsExist, SavesAreWhole
      <4> QED BY <1>1, <2>2, <4>1 DEF Untouched, RowsGrow
    <3> QED BY <3>1 DEF ListsInv, SavesKnow
  <2> QED BY <2>1, <2>2
<1> QED BY <1>3, <1>4, <1>5, <1>6, <1>7 DEF ListsInv, Shape

\* What a page is of.
LEMMA PageFacts ==
    ASSUME ListsBounded, ListsInv, NEW e \in Editor, NEW page \in pages
    PROVE  /\ page.row \in 1..Len(pending) /\ page.row \in 1..MaxPending
           /\ page.dataset \in Dataset
           /\ Len(pending) \in Nat /\ Len(pending) <= MaxPending
           /\ pending \in Seq([by : Editor, dataset : Dataset, users : SUBSET User])
           /\ pending[page.row] \in [by : Editor, dataset : Dataset, users : SUBSET User]
           /\ pages \subseteq Page /\ \A other \in pages : other.row <= Len(pending)
           /\ named \in [1..MaxPending -> SUBSET User]
           /\ requested \in [Asked -> {"none", "waiting", "confirmed", "declined"}]
<1>1. page.row \in 1..MaxPending /\ page.dataset \in Dataset
  BY DEF ListsInv, Shape, ListsTypeOK, Page
<1>2. page.row <= Len(pending) /\ Len(pending) \in Nat
  BY DEF ListsInv, Shape, ListsTypeOK, RowsExist
<1>3. page.row \in 1..Len(pending)
  BY <1>1, <1>2 DEF ListsBounded
<1> QED BY <1>1, <1>2, <1>3, Element DEF ListsInv, Shape, ListsTypeOK, RowsExist

LEMMA SavePageStep ==
    ASSUME ListsBounded, ListsInv, NEW e \in Editor, NEW page \in pages, save_page(e, page)
    PROVE  ListsInv'
<1>1. /\ UNCHANGED <<permissions, requested, pending, pages, stale, named, since, interrupted, crashes>>
      /\ save[e].pc = "idle" /\ BeginSave(e, page.dataset, page.row, pending[page.row].users)
  BY DEF save_page, rowVars, history
<1>2. RowsKnow'
  BY <1>1 DEF ListsInv, RowsKnow, Untouched
<1>3. UsersKnown(page.row, page.dataset, pending[page.row].users)'
  <2>1. UsersKnown(page.row, page.dataset, pending[page.row].users)
    BY PageFacts DEF ListsInv, RowsKnow, UsersKnown
  <2> QED BY <1>1, <2>1 DEF UsersKnown, Untouched
<1>4. RowsGrow /\ page.row <= Len(pending')
  <2>1. /\ Len(pending) \in Nat /\ Len(pending) <= MaxPending /\ page.row <= Len(pending)
        /\ pending \in Seq([by : Editor, dataset : Dataset, users : SUBSET User])
        /\ pages \subseteq Page /\ \A other \in pages : other.row <= Len(pending)
        /\ named \in [1..MaxPending -> SUBSET User]
        /\ requested \in [Asked -> {"none", "waiting", "confirmed", "declined"}]
    BY PageFacts
  <2> QED BY <1>1, <2>1 DEF RowsGrow
<1>5. pending[page.row].users \in SUBSET User /\ page.row \in 1..MaxPending /\ page.dataset \in Dataset
  BY PageFacts
<1>6. UsersKnown(page.row, page.dataset, pending[page.row].users)' =>
          \A users : users = pending[page.row].users => UsersKnown(page.row, page.dataset, users)'
  BY <1>1 DEF UsersKnown
<1> QED BY <1>1, <1>2, <1>3, <1>4, <1>5, <1>6, BeginStep

\* Who is named on a page is not untouched.
LEMMA NamedGrows ==
    ASSUME ListsBounded, ListsInv, NEW e \in Editor, NEW page \in pages, NEW u \in User,
           named' = [named EXCEPT ![page.row] = @ \cup {u}], since' = since,
           Len(pending') = Len(pending),
           \A k \in 1..Len(pending) : pending'[k].dataset = pending[k].dataset
    PROVE  /\ named' \in [1..MaxPending -> SUBSET User]
           /\ \A k \in 1..Len(pending) : named[k] \subseteq named'[k]
           /\ \A k, d, v : Untouched(k, d, v)' => Untouched(k, d, v)
           /\ \A d, v : Untouched(page.row, d, v)' => v # u
<1>1. page.row \in 1..MaxPending /\ named \in [1..MaxPending -> SUBSET User]
      /\ Len(pending) \in Nat /\ Len(pending) <= MaxPending
  BY PageFacts
<1>2. named[page.row] \cup {u} \in SUBSET User
  BY <1>1
<1>3. \A k \in 1..Len(pending) : k \in 1..MaxPending
  BY <1>1 DEF ListsBounded
<1>4. named' \in [1..MaxPending -> SUBSET User] /\ u \in named'[page.row]
      /\ \A k \in 1..Len(pending) : named[k] \subseteq named'[k]
  BY <1>1, <1>2, <1>3
<1>5. \A k, d, v : Untouched(k, d, v)' => Untouched(k, d, v)
  BY <1>4 DEF Untouched
<1>6. \A d, v : Untouched(page.row, d, v)' => v # u
  BY <1>4 DEF Untouched
<1> QED BY <1>4, <1>5, <1>6

LEMMA AddAndSaveStep ==
    ASSUME ListsBounded, ListsInv, NEW e \in Editor, NEW page \in pages, NEW u \in User,
           add_user_and_save(e, page, u)
    PROVE  ListsInv'
<1> DEFINE them == pending[page.row].users \cup {u}
<1>1. /\ UNCHANGED <<permissions, requested, pending, pages, stale, since, interrupted, crashes>>
      /\ save[e].pc = "idle" /\ BeginSave(e, page.dataset, page.row, them)
      /\ named' = [named EXCEPT ![page.row] = @ \cup {u}]
  BY DEF add_user_and_save, rowVars
<1>2. /\ named' \in [1..MaxPending -> SUBSET User]
      /\ \A k \in 1..Len(pending) : named[k] \subseteq named'[k]
      /\ \A k, d, v : Untouched(k, d, v)' => Untouched(k, d, v)
      /\ \A d, v : Untouched(page.row, d, v)' => v # u
  BY <1>1, NamedGrows
<1>3. RowsKnow'
  BY <1>1, <1>2 DEF ListsInv, RowsKnow
<1>4. \A users : users = them => UsersKnown(page.row, page.dataset, users)'
  <2>1. UsersKnown(page.row, page.dataset, pending[page.row].users)
    BY PageFacts DEF ListsInv, RowsKnow, UsersKnown
  <2> QED BY <1>1, <1>2, <2>1 DEF UsersKnown
<1>5. RowsGrow /\ page.row <= Len(pending')
  <2>1. /\ Len(pending) \in Nat /\ Len(pending) <= MaxPending /\ page.row <= Len(pending)
        /\ pending \in Seq([by : Editor, dataset : Dataset, users : SUBSET User])
        /\ pages \subseteq Page /\ \A other \in pages : other.row <= Len(pending)
        /\ requested \in [Asked -> {"none", "waiting", "confirmed", "declined"}]
    BY PageFacts
  <2> QED BY <1>1, <1>2, <2>1 DEF RowsGrow
<1>6. them \in SUBSET User /\ page.row \in 1..MaxPending /\ page.dataset \in Dataset
  BY PageFacts
<1> HIDE DEF them
<1> QED BY <1>1, <1>3, <1>4, <1>5, <1>6, BeginStep

LEMMA RemoveAndSaveStep ==
    ASSUME ListsBounded, ListsInv, NEW e \in Editor, NEW page \in pages, NEW u \in User,
           remove_user_and_save(e, page, u)
    PROVE  ListsInv'
<1> DEFINE them == pending[page.row].users \ {u}
           entry == [pending[page.row] EXCEPT !.users = them]
<1>1. /\ UNCHANGED <<permissions, requested, pages, stale, since, interrupted, crashes>>
      /\ save[e].pc = "idle" /\ BeginSave(e, page.dataset, page.row, them)
      /\ named' = [named EXCEPT ![page.row] = @ \cup {u}]
      /\ pending' = [pending EXCEPT ![page.row] = entry]
  BY DEF remove_user_and_save
<1>2. /\ page.row \in 1..Len(pending) /\ page.row \in 1..MaxPending /\ page.dataset \in Dataset
      /\ Len(pending) \in Nat /\ Len(pending) <= MaxPending /\ page.row <= Len(pending)
      /\ pending \in Seq([by : Editor, dataset : Dataset, users : SUBSET User])
      /\ pending[page.row] \in [by : Editor, dataset : Dataset, users : SUBSET User]
      /\ pages \subseteq Page /\ \A other \in pages : other.row <= Len(pending)
      /\ requested \in [Asked -> {"none", "waiting", "confirmed", "declined"}]
  BY PageFacts
<1>3. them \in SUBSET User
  BY <1>2
<1>4. entry \in [by : Editor, dataset : Dataset, users : SUBSET User]
      /\ entry.users = them /\ entry.dataset = pending[page.row].dataset
  BY <1>2, <1>3, RowWith
<1> HIDE DEF entry, them
<1>5. /\ pending' \in Seq([by : Editor, dataset : Dataset, users : SUBSET User])
      /\ Len(pending') = Len(pending)
  BY <1>1, <1>2, <1>4, Replaced
<1>6. /\ pending'[page.row] = entry
      /\ \A k \in 1..Len(pending) : k # page.row => pending'[k] = pending[k]
  BY <1>1, <1>2
<1>7. \A k \in 1..Len(pending) : pending'[k].dataset = pending[k].dataset
  BY <1>4, <1>6
<1>8. /\ named' \in [1..MaxPending -> SUBSET User]
      /\ \A k \in 1..Len(pending) : named[k] \subseteq named'[k]
      /\ \A k, d, v : Untouched(k, d, v)' => Untouched(k, d, v)
      /\ \A d, v : Untouched(page.row, d, v)' => v # u
  BY <1>1, <1>5, <1>7, NamedGrows
<1>9. \A d \in Dataset, v \in User :
          Untouched(page.row, d, v)' => (v \in them <=> <<d, v>> \in permissions)
  BY <1>2, <1>8 DEF ListsInv, RowsKnow, them
<1>10. RowsKnow'
  <2> SUFFICES ASSUME NEW k \in 1..Len(pending), NEW d \in Dataset, NEW v \in User,
                      Untouched(k, d, v)'
               PROVE  v \in pending'[k].users <=> <<d, v>> \in permissions
    BY <1>1, <1>5 DEF RowsKnow
  <2>1. CASE k = page.row
    BY <1>4, <1>6, <1>9, <2>1
  <2>2. CASE k # page.row
    BY <1>6, <1>8, <2>2 DEF ListsInv, RowsKnow
  <2> QED BY <2>1, <2>2
<1>11. \A users : users = them => UsersKnown(page.row, page.dataset, users)'
  BY <1>1, <1>2, <1>9 DEF UsersKnown
<1>12. RowsGrow /\ page.row <= Len(pending')
  BY <1>1, <1>2, <1>5, <1>7, <1>8 DEF RowsGrow
<1> QED BY <1>1, <1>2, <1>3, <1>10, <1>11, <1>12, BeginStep

LEMMA ReviewedStep ==
    ASSUME Shape, NEW u, NEW status \in {"confirmed", "declined"}, Reviewed(u, status)
    PROVE  requested' \in [Asked -> {"none", "waiting", "confirmed", "declined"}]
BY DEF Shape, ListsTypeOK, Reviewed

LEMMA GrantStep ==
    ASSUME ListsBounded, ListsInv, NEW e \in Editor, NEW d \in Dataset, NEW u \in User, grant(e, d, u)
    PROVE  ListsInv'
<1> DEFINE entry == Len(pending) + 1
           users == Authorised(d) \cup {u}
<1>1. /\ UNCHANGED <<permissions, stale, since, interrupted, crashes>>
      /\ save[e].pc = "idle" /\ BeginSave(e, d, entry, users) /\ NewRow(e, d, users)
      /\ Reviewed(u, "confirmed")
      /\ named' = [named EXCEPT ![entry] = {u}]
  BY DEF grant
<1>2. Len(pending) \in Nat /\ Len(pending) < MaxPending
      /\ named \in [1..MaxPending -> SUBSET User]
  BY <1>1 DEF ListsInv, Shape, ListsTypeOK, NewRow
<1>3. entry \in 1..MaxPending /\ \A k \in 1..Len(pending) : k \in 1..MaxPending /\ k # entry
  BY <1>2 DEF ListsBounded
<1>4. named' \in [1..MaxPending -> SUBSET User] /\ named'[entry] = {u}
      /\ \A k \in 1..Len(pending) : named'[k] = named[k]
  BY <1>1, <1>2, <1>3
<1>5. users \in SUBSET User
      /\ \A v \in User : v # u => (v \in users <=> <<d, v>> \in permissions)
  BY DEF Authorised
<1>6. requested' \in [Asked -> {"none", "waiting", "confirmed", "declined"}]
  BY <1>1, ReviewedStep DEF ListsInv
<1> HIDE DEF users
<1>7. \A v \in User : v \notin named'[Len(pending) + 1] \cup Owners[d] =>
                          (v \in users <=> <<d, v>> \in permissions)
  BY <1>4, <1>5
<1>8. /\ pending' \in Seq([by : Editor, dataset : Dataset, users : SUBSET User])
      /\ Len(pending') = Len(pending) + 1 /\ Len(pending') <= MaxPending
      /\ pages' \subseteq Page
      /\ \A page \in pages' : page.row <= Len(pending')
      /\ \A k \in 1..Len(pending) : pending'[k] = pending[k]
      /\ RowsKnow'
  BY <1>1, <1>4, <1>5, <1>7, NewRowStep
<1>9. \A k, them : (k = entry /\ them = users) => UsersKnown(k, d, them)'
  <2> SUFFICES ASSUME NEW k, NEW them, k = entry, them = users, NEW v \in User,
                      Untouched(k, d, v)'
               PROVE  v \in them <=> <<d, v>> \in permissions
    BY <1>1 DEF UsersKnown
  <2>1. v # u
    BY <1>4 DEF Untouched
  <2> QED BY <1>5, <2>1
<1>10. RowsGrow /\ entry <= Len(pending')
  BY <1>2, <1>4, <1>6, <1>8 DEF RowsGrow
<1> HIDE DEF entry
<1> QED BY <1>1, <1>3, <1>5, <1>8, <1>9, <1>10, BeginStep

LEMMA DeclineStep ==
    ASSUME ListsBounded, ListsInv, NEW e \in Editor, NEW d \in Dataset, NEW u \in User, decline(e, d, u)
    PROVE  ListsInv'
<1>1. UNCHANGED <<permissions, pending, save, stale, named, since, interrupted, saves, crashes>>
      /\ Reviewed(u, "declined")
      /\ pages' = pages \cup {PageOf(e, d, entry) : entry \in NewestRow(e)}
  BY DEF decline, history, bounds
<1>2. requested' \in [Asked -> {"none", "waiting", "confirmed", "declined"}]
  BY <1>1, ReviewedStep DEF ListsInv
<1>3. pages' \subseteq Page /\ \A page \in pages' : page.row <= Len(pending)
  <2>1. ASSUME NEW entry \in NewestRow(e)
        PROVE  PageOf(e, d, entry) \in Page /\ PageOf(e, d, entry).row <= Len(pending)
    <3>1. Len(pending) \in Nat /\ Len(pending) <= MaxPending
      BY DEF ListsInv, Shape, ListsTypeOK
    <3>2. entry \in 1..Len(pending)
      BY DEF NewestRow
    <3>3. entry \in 1..MaxPending
      BY <3>1, <3>2 DEF ListsBounded
    <3> QED BY <3>2, <3>3 DEF PageOf, Page
  <2>2. pages \subseteq Page /\ \A page \in pages : page.row <= Len(pending)
    BY DEF ListsInv, Shape, ListsTypeOK, RowsExist
  <2> QED BY <1>1, <2>1, <2>2
<1>4. ListsTypeOK'
  BY <1>1, <1>2, <1>3 DEF ListsInv, Shape, ListsTypeOK
<1>5. (RowsExist /\ SavesAreWhole /\ ChangesReachTheCaches)'
  BY <1>1, <1>3 DEF ListsInv, Shape, RowsExist, SavesAreWhole, ChangesReachTheCaches
<1>6. RowsKnow' /\ SavesKnow'
  BY <1>1, KnowKept
<1> QED BY <1>4, <1>5, <1>6 DEF ListsInv, Shape

-----------------------------------------------------------------------------
(* process_dataset_authorized_users_change *)

Changed(e, add, delete, changed) ==
    save' = [save EXCEPT ![e].pc = "changing", ![e].users = {}, ![e].add = add,
                         ![e].delete = delete, ![e].changed = changed]

LEMMA SaveChanges ==
    ASSUME save \in [Editor -> Save], NEW e \in Editor,
           NEW add \in SUBSET User, NEW delete \in SUBSET User, NEW changed \in SUBSET User,
           Changed(e, add, delete, changed)
    PROVE  /\ save' \in [Editor -> Save]
           /\ \A f \in Editor \ {e} : save'[f] = save[f]
           /\ save'[e].pc = "changing" /\ save'[e].dataset = save[e].dataset
           /\ save'[e].row = save[e].row
           /\ save'[e].add = add /\ save'[e].delete = delete /\ save'[e].changed = changed
<1> DEFINE new == [pc |-> "changing", dataset |-> save[e].dataset, row |-> save[e].row,
                   users |-> {}, add |-> add, delete |-> delete, changed |-> changed]
<1>1. save[e] \in Save
  OBVIOUS
<1>2. new \in Save
  BY <1>1 DEF Save
<1>3. save'[e] = new
  <2>1. save'[e] = [save[e] EXCEPT !.pc = "changing", !.users = {}, !.add = add,
                                   !.delete = delete, !.changed = changed]
    BY DEF Changed
  <2> QED BY <1>1, <2>1 DEF Save
<1>4. \A f \in Editor \ {e} : save'[f] = save[f]
  BY DEF Changed
<1>5. save' = [f \in Editor |-> save'[f]]
  BY DEF Changed
<1> HIDE DEF new
<1>6. save' \in [Editor -> Save]
  BY <1>2, <1>3, <1>4, <1>5
<1> QED BY <1>3, <1>4, <1>6 DEF new

LEMMA SaveShrinks ==
    ASSUME save \in [Editor -> Save], NEW e \in Editor, NEW u,
           \/ save' = [save EXCEPT ![e].add = @ \ {u}]
           \/ save' = [save EXCEPT ![e].delete = @ \ {u}]
    PROVE  /\ save' \in [Editor -> Save]
           /\ \A f \in Editor \ {e} : save'[f] = save[f]
           /\ save'[e].pc = save[e].pc /\ save'[e].dataset = save[e].dataset
           /\ save'[e].row = save[e].row /\ save'[e].users = save[e].users
           /\ save'[e].add \subseteq save[e].add /\ save'[e].delete \subseteq save[e].delete
           /\ save'[e].changed = save[e].changed
<1>1. CASE save' = [save EXCEPT ![e].add = @ \ {u}]
  BY <1>1 DEF Save
<1>2. CASE save' = [save EXCEPT ![e].delete = @ \ {u}]
  BY <1>2 DEF Save
<1> QED BY <1>1, <1>2

LEMMA ReadsStep ==
    ASSUME ListsInv, NEW e \in Editor, NEW d \in Dataset, reads_current(e, d) PROVE ListsInv'
<1> DEFINE them == save[e].users \ Authorised(d)
           those == Authorised(d) \ save[e].users
<1>1. /\ UNCHANGED <<permissions, requested, pending, pages, stale, named, since, interrupted,
                     saves, crashes>>
      /\ save[e].pc = "begun" /\ save[e].dataset = {d}
      /\ Changed(e, them, those, them \cup those)
  BY DEF reads_current, rowVars, history, bounds, Changed
<1>2. save \in [Editor -> Save] /\ them \in SUBSET User /\ those \in SUBSET User
  BY DEF ListsInv, Shape, ListsTypeOK, Save, Authorised
<1> HIDE DEF them, those
<1>3. /\ save' \in [Editor -> Save]
      /\ \A f \in Editor \ {e} : save'[f] = save[f]
      /\ save'[e].pc = "changing" /\ save'[e].dataset = {d} /\ save'[e].row = save[e].row
      /\ save'[e].add = them /\ save'[e].delete = those
      /\ save'[e].changed = them \cup those
  <2>1. them \cup those \in SUBSET User
    BY <1>2
  <2> QED BY <1>1, <1>2, <2>1, SaveChanges
<1>4. ListsTypeOK'
  BY <1>1, <1>3 DEF ListsInv, Shape, ListsTypeOK, Save
<1>5. (RowsExist /\ SavesAreWhole)'
  BY <1>1, <1>3 DEF ListsInv, Shape, RowsExist, SavesAreWhole
<1>6. ChangesReachTheCaches'
  <2>1. save[e].changed = {}
    BY <1>1 DEF ListsInv, Shape, SavesAreWhole
  <2> QED BY <1>1, <1>3, <2>1 DEF ListsInv, ChangesReachTheCaches
<1>7. RowsKnow'
  BY <1>1 DEF ListsInv, RowsKnow, Untouched
<1>8. SavesKnow'
  <2> SUFFICES ASSUME NEW f \in Editor, NEW c \in Dataset, NEW u \in User,
                      save'[f].dataset = {c}, Untouched(save[f].row, c, u)
               PROVE  /\ save'[f].pc = "begun" => (u \in save'[f].users <=> <<c, u>> \in permissions)
                      /\ save'[f].pc = "changing" => u \notin save'[f].add \cup save'[f].delete
    BY <1>1, <1>3 DEF SavesKnow, Untouched
  <2>1. CASE f = e
    <3>1. c = d /\ (u \in save[e].users <=> <<c, u>> \in permissions)
      BY <1>1, <1>3, <2>1 DEF ListsInv, SavesKnow
    <3> QED BY <1>3, <2>1, <3>1 DEF them, those, Authorised
  <2>2. CASE f # e
    BY <1>3, <2>2 DEF ListsInv, SavesKnow
  <2> QED BY <2>1, <2>2
<1> QED BY <1>4, <1>5, <1>6, <1>7, <1>8 DEF ListsInv, Shape

\* A permission is created or deleted.
LEMMA PermissionStep ==
    ASSUME ListsBounded, ListsInv, NEW e \in Editor, NEW d \in Dataset, NEW u \in User,
           creates_permission(e, d, u) \/ deletes_permission(e, d, u)
    PROVE  ListsInv'
<1>1. /\ UNCHANGED <<requested, pending, pages, named, interrupted, saves, crashes>>
      /\ save[e].pc = "changing" /\ save[e].dataset = {d}
      /\ u \in save[e].add \cup save[e].delete
      /\ Noted(<<d, u>>)
      /\ stale' \subseteq stale \cup {u}
      /\ permissions' \in {permissions \cup {<<d, u>>}, permissions \ {<<d, u>>}}
      /\ \/ save' = [save EXCEPT ![e].add = @ \ {u}]
         \/ save' = [save EXCEPT ![e].delete = @ \ {u}]
  BY DEF creates_permission, deletes_permission, bounds
<1>2. /\ save \in [Editor -> Save] /\ Len(pending) \in Nat /\ Len(pending) <= MaxPending
      /\ since \in [1..MaxPending -> SUBSET Access]
      /\ permissions \in SUBSET Access /\ stale \in SUBSET User
      /\ <<d, u>> \in Access
  BY DEF ListsInv, Shape, ListsTypeOK, Save, Access
<1>3. /\ save' \in [Editor -> Save]
      /\ \A f \in Editor \ {e} : save'[f] = save[f]
      /\ save'[e].pc = "changing" /\ save'[e].dataset = {d} /\ save'[e].row = save[e].row
      /\ save'[e].users = save[e].users
      /\ save'[e].add \subseteq save[e].add /\ save'[e].delete \subseteq save[e].delete
      /\ save'[e].changed = save[e].changed
  BY <1>1, <1>2, SaveShrinks
<1>4. /\ since' \in [1..MaxPending -> SUBSET Access]
      /\ \A k \in 1..Len(pending) : since'[k] = since[k] \cup {<<d, u>>}
  <2>1. \A k \in 1..Len(pending) : k \in 1..MaxPending
    BY <1>2 DEF ListsBounded
  <2>2. since' = [k \in 1..MaxPending |-> IF k \in 1..Len(pending)
                                           THEN since[k] \cup {<<d, u>>} ELSE since[k]]
    BY <1>1 DEF Noted
  <2>3. \A k \in 1..MaxPending : since[k] \cup {<<d, u>>} \in SUBSET Access
    BY <1>2
  <2> QED BY <1>2, <2>1, <2>2, <2>3
<1>5. ListsTypeOK'
  BY <1>1, <1>2, <1>3, <1>4 DEF ListsInv, Shape, ListsTypeOK, Save
<1>6. (RowsExist /\ SavesAreWhole)'
  BY <1>1, <1>3 DEF ListsInv, Shape, RowsExist, SavesAreWhole
<1>7. ChangesReachTheCaches'
  <2>1. u \in save'[e].changed
    BY <1>1, <1>3 DEF ListsInv, Shape, SavesAreWhole
  <2> QED BY <1>1, <1>3, <2>1 DEF ListsInv, ChangesReachTheCaches
<1>8. RowsKnow' /\ SavesKnow'
  <2>1. \A k \in 1..Len(pending), c \in Dataset, v \in User :
            <<c, v>> \notin since'[k] => (<<c, v>> \in permissions' <=> <<c, v>> \in permissions)
    BY <1>1, <1>4
  <2> QED BY <1>1, <1>3, <1>4, <2>1, KnowKept
<1> QED BY <1>5, <1>6, <1>7, <1>8 DEF ListsInv, Shape

\* Credentials are removed, or the save ends, in one way or another.
LEMMA EndStep ==
    ASSUME ListsBounded, ListsInv, NEW e \in Editor,
           \/ \E u \in User : remove_cached_credentials(e, u)
           \/ \E d \in Dataset, u \in User : create_refused(e, d, u)
           \/ save_ends(e) \/ save_dies(e)
    PROVE  ListsInv'
<1>1. UNCHANGED <<permissions, requested, pending, pages, named, since, saves>>
  BY DEF remove_cached_credentials, create_refused, save_ends, save_dies, rowVars, history, bounds
<1>2. save \in [Editor -> Save] /\ Idle \in Save /\ stale \in SUBSET User
      /\ interrupted \in SUBSET User /\ crashes \in 0..MaxCrashes
  BY DEF ListsInv, Shape, ListsTypeOK, Save, Idle, ListsBounded
<1>3. ASSUME NEW u \in User, remove_cached_credentials(e, u) PROVE ListsInv'
  <2>1. /\ UNCHANGED <<interrupted, crashes>> /\ stale' = stale \ {u}
        /\ save' = [save EXCEPT ![e].changed = @ \ {u}] /\ save[e].pc = "changing"
        /\ save[e].add = {} /\ save[e].delete = {}
    BY <1>3 DEF remove_cached_credentials, AllAreChanged, bounds
  <2>2. /\ save' \in [Editor -> Save]
        /\ \A f \in Editor \ {e} : save'[f] = save[f]
        /\ save'[e].pc = "changing" /\ save'[e].dataset = save[e].dataset
        /\ save'[e].row = save[e].row /\ save'[e].users = save[e].users
        /\ save'[e].add = {} /\ save'[e].delete = {}
        /\ save'[e].changed = save[e].changed \ {u}
    BY <1>2, <2>1 DEF Save
  <2>3. ListsTypeOK'
    BY <1>1, <1>2, <2>1, <2>2 DEF ListsInv, Shape, ListsTypeOK, Save
  <2>4. (RowsExist /\ SavesAreWhole)'
    BY <1>1, <2>1, <2>2 DEF ListsInv, Shape, RowsExist, SavesAreWhole
  <2>5. ChangesReachTheCaches'
    BY <2>1, <2>2 DEF ListsInv, ChangesReachTheCaches
  <2>6. RowsKnow' /\ SavesKnow'
    BY <1>1, <2>1, <2>2, KnowKept
  <2> QED BY <2>3, <2>4, <2>5, <2>6 DEF ListsInv, Shape
<1>4. ASSUME save' = [save EXCEPT ![e] = Idle], stale' = stale, crashes' \in 0..MaxCrashes,
             interrupted' = interrupted \cup save[e].changed
      PROVE  ListsInv'
  <2>1. /\ save' \in [Editor -> Save]
        /\ \A f \in Editor \ {e} : save'[f] = save[f]
        /\ save'[e].pc = "idle" /\ save'[e].dataset = {}
        /\ save'[e].add = {} /\ save'[e].delete = {} /\ save'[e].changed = {}
    BY <1>2, <1>4 DEF Idle
  <2>2. interrupted' \in SUBSET User
    BY <1>2, <1>4 DEF Save
  <2>3. ListsTypeOK'
    BY <1>1, <1>4, <2>1, <2>2 DEF ListsInv, Shape, ListsTypeOK, Save
  <2>4. (RowsExist /\ SavesAreWhole)'
    BY <1>1, <2>1 DEF ListsInv, Shape, RowsExist, SavesAreWhole
  <2>5. ChangesReachTheCaches'
    BY <1>4, <2>1 DEF ListsInv, ChangesReachTheCaches
  <2>6. RowsKnow' /\ SavesKnow'
    BY <1>1, <2>1, KnowKept
  <2> QED BY <2>3, <2>4, <2>5, <2>6 DEF ListsInv, Shape
<1>5. ASSUME NEW d \in Dataset, NEW u \in User, create_refused(e, d, u) PROVE ListsInv'
  BY <1>2, <1>4, <1>5 DEF create_refused, EndEarly, rowVars, history, bounds
<1>6. CASE save_ends(e)
  BY <1>2, <1>4, <1>6 DEF save_ends, rowVars, history, bounds
<1>7. CASE save_dies(e)
  <2>1. crashes' \in 0..MaxCrashes
    BY <1>2, <1>7 DEF save_dies, ListsBounded
  <2> QED BY <1>4, <1>7, <2>1 DEF save_dies, EndEarly, rowVars
<1> QED BY <1>3, <1>5, <1>6, <1>7

-----------------------------------------------------------------------------
LEMMA ListsInvStep == ASSUME ListsBounded PROVE ListsInv /\ [ListsNext]_listsVars => ListsInv'
<1> SUFFICES ASSUME ListsInv, [ListsNext]_listsVars PROVE ListsInv'
  OBVIOUS
<1>1. CASE UNCHANGED listsVars
  BY <1>1 DEF listsVars, rowVars, history, bounds, ListsInv, Shape, ListsTypeOK, RowsExist, SavesAreWhole,
              ChangesReachTheCaches, RowsKnow, SavesKnow, Untouched
<1>2. ASSUME NEW e \in Editor, PageNext(e) PROVE ListsInv'
  BY <1>2, OpenStep, SavePageStep, AddStep, AddAndSaveStep, RemoveAndSaveStep, GrantStep,
     DeclineStep DEF PageNext
<1>3. ASSUME NEW e \in Editor, SaveNext(e) PROVE ListsInv'
  BY <1>3, ReadsStep, PermissionStep, EndStep DEF SaveNext
<1> QED BY <1>1, <1>2, <1>3, RequestStep DEF ListsNext

\* The inductive invariant holds of every behaviour of AuthorisedUsers.
THEOREM ListsInvCorrect == ASSUME ListsBounded PROVE ListsSpec => []ListsInv
<1>1. ListsInit => ListsInv
  BY ListsInitInv
<1>2. ListsInv /\ [ListsNext]_listsVars => ListsInv'
  BY ListsInvStep
<1> QED BY <1>1, <1>2, PTL DEF ListsSpec

\* The variables keep their types.
THEOREM ListsTypeCorrect == ASSUME ListsBounded PROVE ListsSpec => []ListsTypeOK
<1>1. ListsSpec => []ListsInv
  BY ListsInvCorrect
<1> QED BY <1>1, PTL DEF ListsInv, Shape

\* Who was changed has no stale credentials from before the change left, unless somebody is
\* about to remove them or the save was cut short.
THEOREM ChangesReachTheCachesCorrect == ASSUME ListsBounded PROVE ListsSpec => []ChangesReachTheCaches
<1>1. ListsSpec => []ListsInv
  BY ListsInvCorrect
<1> QED BY <1>1, PTL DEF ListsInv

-----------------------------------------------------------------------------
(* A step that changes a permission is one of a save for which it is not untouched. *)

LEMMA ChangeStep ==
    ASSUME ListsBounded, ListsInv, [ListsNext]_listsVars, NEW d \in Dataset, NEW u \in User,
           (<<d, u>> \in permissions) # (<<d, u>> \in permissions')
    PROVE  \E e \in Editor : save[e].dataset = {d} /\ Meant(e, d, u)
<1>1. permissions' # permissions
  OBVIOUS
<1>2. ASSUME NEW e \in Editor, PageNext(e) PROVE FALSE
  <2>1. CASE \E c \in Dataset : open_permissions(e, c)
    BY <1>1, <2>1 DEF open_permissions
  <2>2. CASE \E c \in Dataset, v \in User : grant(e, c, v) \/ decline(e, c, v)
    BY <1>1, <2>2 DEF grant, decline
  <2>3. ASSUME NEW page \in pages, save_page(e, page) PROVE FALSE
    BY <1>1, <2>3 DEF save_page, rowVars
  <2>4. ASSUME NEW page \in pages, NEW users \in SUBSET User, add_users(e, page, users)
        PROVE  FALSE
    BY <1>1, <2>4 DEF add_users
  <2>5. ASSUME NEW page \in pages, NEW v \in User,
               add_user_and_save(e, page, v) \/ remove_user_and_save(e, page, v)
        PROVE  FALSE
    BY <1>1, <2>5 DEF add_user_and_save, remove_user_and_save, rowVars
  <2> QED BY <1>2, <2>1, <2>2, <2>3, <2>4, <2>5 DEF PageNext
<1>3. PICK e \in Editor, c \in Dataset, v \in User :
          creates_permission(e, c, v) \/ deletes_permission(e, c, v)
  <2>1. \A c \in Dataset, v \in User : ~request_access(c, v)
    BY <1>1 DEF request_access
  <2>2. ASSUME NEW e \in Editor,
               \/ \E c \in Dataset : reads_current(e, c)
               \/ \E c \in Dataset, v \in User : create_refused(e, c, v)
               \/ \E v \in User : remove_cached_credentials(e, v)
               \/ save_ends(e) \/ save_dies(e)
        PROVE  FALSE
    BY <1>1, <2>2 DEF rowVars, reads_current, create_refused, remove_cached_credentials,
       save_ends, save_dies
  <2>3. PICK e \in Editor : SaveNext(e)
    BY <1>1, <1>2, <2>1 DEF ListsNext, listsVars, rowVars
  <2> QED BY <2>2, <2>3 DEF SaveNext
<1>4. /\ save[e].pc = "changing" /\ save[e].dataset = {c}
      /\ v \in save[e].add \cup save[e].delete
      /\ permissions' \in {permissions \cup {<<c, v>>}, permissions \ {<<c, v>>}}
  BY <1>3 DEF creates_permission, deletes_permission
<1>5. c = d /\ v = u
  BY <1>4
<1>6. ~Untouched(save[e].row, d, u)
  BY <1>4, <1>5 DEF ListsInv, SavesKnow
<1>7. save[e].row \in 1..Len(pending)
  BY <1>4 DEF ListsInv, Shape, RowsExist
<1>8. Meant(e, d, u)
  BY <1>6, <1>7 DEF Untouched, Meant
<1> QED BY <1>4, <1>5, <1>8

\* A save changes the access of those whom its editor named, of the owner and manager, and
\* of those whose access somebody else has changed since the page was opened.
THEOREM ChangesAreMeantCorrect == ASSUME ListsBounded PROVE ListsSpec => ChangesAreMeant
<1>1. ListsInv /\ [ListsNext]_listsVars =>
        [\A d \in Dataset, u \in User :
            ((<<d, u>> \in permissions) # (<<d, u>> \in permissions')) =>
                \E e \in Editor : save[e].dataset = {d} /\ Meant(e, d, u)]_listsVars
  BY ChangeStep
<1>2. ListsSpec => []ListsInv
  BY ListsInvCorrect
<1> QED BY <1>1, <1>2, PTL DEF ListsSpec, ChangesAreMeant

-----------------------------------------------------------------------------
(***************************************************************************)
(* Proofs about ExplorerCredentials, for any number of requests, tools and *)
(* changes.                                                                *)
(*                                                                         *)
(* ChangesReachTheUser speaks of the role and of what is cached under the  *)
(* current version.  It is kept because whoever is between reading what    *)
(* the user may see and the end has every change that it has not seen, or  *)
(* that is not done, in its overlap (MakersKnow), so that a synchronised   *)
(* role misses no change at all; what it misses later has been saved since *)
(* and, before it is done, empties the cache under the current version.    *)
(***************************************************************************)
\* the changes that the role has not, and did not overlap
Missing == saved \ (role \cup roleOverlap)

\* keys are of versions there have been
Keys ==
    /\ \A e \in cached : 1 <= e.key /\ e.key <= version
    /\ \A r \in Request : pc[r] # "idle" => 1 <= key[r] /\ key[r] <= version

MakersKnow ==
    \A m \in Maker : pc[m] \in Making => (saved \ access[m]) \cup InProgress \subseteq overlap[m]

SettersKnow == \A m \in Maker : pc[m] = "set" => Missing \subseteq overlap[m]

EntriesKnow ==
    \A e \in Current :
        (Missing \cap invalidated) \cup (invalidated \ saved) \subseteq e.overlap

Fresh == MakersKnow /\ SettersKnow /\ EntriesKnow

LockIsHeld == expired \/ \A r \in Request : pc[r] \in Locked => lock = r

CredentialsInv == TypeOK /\ Keys /\ Fresh /\ LockIsHeld /\ NoWastedCreation

-----------------------------------------------------------------------------
LEMMA CredentialsInitInv == Init => CredentialsInv
<1> SUFFICES ASSUME Init PROVE CredentialsInv
  OBVIOUS
<1> USE DEF Init
<1>1. TypeOK
  BY DEF TypeOK, Maker
<1>2. Keys /\ LockIsHeld /\ NoWastedCreation
  BY DEF Keys, LockIsHeld, NoWastedCreation, Maker, Locked, Making
<1>3. Fresh
  BY DEF Fresh, MakersKnow, SettersKnow, EntriesKnow, Current, Making
<1> QED BY <1>1, <1>2, <1>3 DEF CredentialsInv

\* The actions of requests and tools, by what they do to pc.
USE DEF Maker

LEMMA TypeStep ==
  ASSUME TypeOK, [Next]_vars
  PROVE  TypeOK'
<1> USE DEF TypeOK, Locked, Making
<1>1. CASE UNCHANGED vars
  BY <1>1 DEF vars, requests, grants, changes
<1>2. ASSUME NEW r \in Request, RequestNext(r)
      PROVE  TypeOK'
  <2> USE DEF Goes, Ends, Release, grants, changes
  <2>1. CASE request_start(r)
    BY <2>1 DEF request_start, KeyVersion
  <2>2. CASE \/ request_get(r) \/ request_cannot_connect(r) \/ request_locks(r)
             \/ request_rereads_miss(r)
    BY <2>2 DEF request_get, request_cannot_connect, request_locks, request_rereads_miss
  <2>3. CASE \/ request_connects(r) \/ request_gives_up(r) \/ request_rereads_hit(r)
             \/ request_fails(r) \/ request_dies(r)
    BY <2>3 DEF request_connects, request_gives_up, request_rereads_hit, request_fails,
                request_dies
  <2>4. CASE request_reads(r) \/ request_syncs(r)
    BY <2>4 DEF request_reads, request_syncs, Reads, Syncs, InProgress
  <2>5. CASE request_sets(r)
    <3>1. cached' \subseteq [key : Nat, overlap : SUBSET Change]
      <4>1. [key |-> key[r], overlap |-> overlap[r]] \in [key : Nat, overlap : SUBSET Change]
        OBVIOUS
      <4> QED BY <2>5, <4>1 DEF request_sets, Without
    <3> QED BY <2>5, <3>1 DEF request_sets
  <2> QED BY <1>2, <2>1, <2>2, <2>3, <2>4, <2>5 DEF RequestNext
<1>3. ASSUME NEW t \in Tool, tool_reads(t) \/ tool_syncs(t)
      PROVE  TypeOK'
  BY <1>3 DEF tool_reads, tool_syncs, Goes, Ends, Reads, Syncs, InProgress, grants, changes
<1>4. ASSUME NEW c \in Change, change_saves(c) \/ change_invalidates(c)
      PROVE  TypeOK'
  <2>1. overlap' \in [Maker -> SUBSET Change]
    BY <1>4 DEF change_saves, change_invalidates, Overlaps
  <2>2. CASE change_saves(c)
    BY <2>1, <2>2 DEF change_saves, grants
  <2>3. CASE change_invalidates(c)
    <3>1. version' \in Nat /\ cached' \subseteq cached
      BY <2>3 DEF change_invalidates, Remove, Invalidate, Without, KeyVersion
    <3> QED BY <2>1, <2>3, <3>1 DEF change_invalidates, grants
  <2> QED BY <1>4, <2>2, <2>3
<1>5. CASE lock_expires \/ credentials_expire \/ clear_tool_cached_credentials
  <2>1. version' \in Nat /\ cached' \subseteq cached
    BY <1>5 DEF lock_expires, credentials_expire, clear_tool_cached_credentials, Remove,
                Without, KeyVersion
  <2>2. UNCHANGED <<requests, grants, changes>>
    BY <1>5 DEF lock_expires, credentials_expire, clear_tool_cached_credentials
  <2>3. lock' \in Request \cup {NoRequest} /\ expired' \in BOOLEAN
    BY <1>5 DEF lock_expires, credentials_expire, clear_tool_cached_credentials
  <2> QED BY <2>1, <2>2, <2>3 DEF requests, grants, changes
<1> QED BY <1>1, <1>2, <1>3, <1>4, <1>5 DEF Next

LEMMA KeysStep ==
  ASSUME TypeOK, Keys, [Next]_vars
  PROVE  Keys'
<1> USE DEF TypeOK, Keys
<1>1. CASE UNCHANGED vars
  BY <1>1 DEF vars, requests
<1>2. ASSUME NEW r \in Request, RequestNext(r)
      PROVE  Keys'
  <2> USE DEF Goes, Ends
  <2>1. CASE request_start(r)
    BY <2>1 DEF request_start, KeyVersion
  <2>2. CASE \/ request_get(r) \/ request_cannot_connect(r) \/ request_locks(r)
             \/ request_rereads_miss(r) \/ request_reads(r) \/ request_syncs(r)
    BY <2>2 DEF request_get, request_cannot_connect, request_locks, request_rereads_miss,
                request_reads, request_syncs
  <2>3. CASE \/ request_connects(r) \/ request_gives_up(r) \/ request_rereads_hit(r)
             \/ request_fails(r) \/ request_dies(r)
    BY <2>3 DEF request_connects, request_gives_up, request_rereads_hit, request_fails,
                request_dies
  <2>4. CASE request_sets(r)
    BY <2>4 DEF request_sets, Without
  <2> QED BY <1>2, <2>1, <2>2, <2>3, <2>4 DEF RequestNext
<1>3. ASSUME NEW t \in Tool, tool_reads(t) \/ tool_syncs(t)
      PROVE  Keys'
  BY <1>3, DistinctAssumption DEF tool_reads, tool_syncs, Goes, Ends
<1>4. ASSUME NEW c \in Change, change_saves(c) \/ change_invalidates(c)
      PROVE  Keys'
  BY <1>4 DEF change_saves, change_invalidates, Remove, Invalidate, Without, KeyVersion
<1>5. CASE lock_expires \/ credentials_expire \/ clear_tool_cached_credentials
  BY <1>5 DEF lock_expires, credentials_expire, clear_tool_cached_credentials, Remove,
              Without, KeyVersion, requests
<1> QED BY <1>1, <1>2, <1>3, <1>4, <1>5 DEF Next

LEMMA LockStep ==
  ASSUME TypeOK, LockIsHeld, NoWastedCreation, [Next]_vars
  PROVE  LockIsHeld' /\ NoWastedCreation'
<1> USE DistinctAssumption DEF TypeOK, LockIsHeld, NoWastedCreation, Locked, Making, IsCached
<1>1. CASE UNCHANGED vars
  BY <1>1 DEF vars, requests
<1>2. ASSUME NEW r \in Request, RequestNext(r)
      PROVE  LockIsHeld' /\ NoWastedCreation'
  <2> USE DEF Goes, Ends, Release
  <2>1. CASE \/ request_start(r) \/ request_get(r) \/ request_cannot_connect(r)
             \/ request_locks(r)
    BY <2>1 DEF request_start, request_get, request_cannot_connect, request_locks
  <2>2. CASE request_rereads_miss(r) \/ request_reads(r) \/ request_syncs(r)
    BY <2>2 DEF request_rereads_miss, request_reads, request_syncs
  <2>3. CASE \/ request_connects(r) \/ request_gives_up(r) \/ request_rereads_hit(r)
             \/ request_fails(r) \/ request_dies(r)
    BY <2>3 DEF request_connects, request_gives_up, request_rereads_hit, request_fails,
                request_dies
  <2>4. CASE request_sets(r)
    BY <2>4 DEF request_sets, Without
  <2> QED BY <1>2, <2>1, <2>2, <2>3, <2>4 DEF RequestNext
<1>3. ASSUME NEW t \in Tool, tool_reads(t) \/ tool_syncs(t)
      PROVE  LockIsHeld' /\ NoWastedCreation'
  BY <1>3 DEF tool_reads, tool_syncs, Goes, Ends
<1>4. ASSUME NEW c \in Change, change_saves(c) \/ change_invalidates(c)
      PROVE  LockIsHeld' /\ NoWastedCreation'
  BY <1>4 DEF change_saves, change_invalidates, Remove, Invalidate, Without
<1>5. CASE lock_expires \/ credentials_expire \/ clear_tool_cached_credentials
  BY <1>5 DEF lock_expires, credentials_expire, clear_tool_cached_credentials, Remove,
              Without, requests
<1> QED BY <1>1, <1>2, <1>3, <1>4, <1>5 DEF Next

-----------------------------------------------------------------------------
\* A step that leaves alone what has been saved, invalidated and granted keeps EntriesKnow
\* if nothing comes to be cached under the current version.
LEMMA EntriesKept ==
  ASSUME EntriesKnow, Current' \subseteq Current, UNCHANGED <<grants, changes>>
  PROVE  EntriesKnow'
BY DEF EntriesKnow, Missing, grants, changes

\* Before there is a version there are no credentials: setting it makes none current.
LEMMA VersionIsSet ==
  ASSUME TypeOK, Keys, version' = KeyVersion, cached' \subseteq cached
  PROVE  Current' \subseteq Current
BY DEF TypeOK, Keys, KeyVersion, Current

\* Neither an invalidation nor a removal leaves credentials under the current version.
LEMMA NoneCurrent ==
  ASSUME TypeOK, Keys, Remove \/ Invalidate
  PROVE  Current' = {}
<1>1. CASE Remove
  BY <1>1 DEF Remove, Without, Current
<1>2. CASE Invalidate
  BY <1>2 DEF Invalidate, Current, TypeOK, Keys
<1> QED BY <1>1, <1>2

\* Whoever synchronises the role leaves no change missing.
LEMMA SyncsCompletely ==
  ASSUME TypeOK, MakersKnow, NEW m \in Maker, pc[m] \in Making, Syncs(m),
         UNCHANGED changes
  PROVE  Missing' = {}
BY DEF TypeOK, MakersKnow, Syncs, Missing, changes

LEMMA RequestKeepsFresh ==
  ASSUME TypeOK, Keys, Fresh, NEW r \in Request, RequestNext(r)
  PROVE  Fresh'
<1> USE DEF Fresh, Goes, Ends, TypeOK
<1>1. CASE request_start(r)
  <2>1. MakersKnow' /\ SettersKnow'
    BY <1>1 DEF request_start, MakersKnow, SettersKnow, Making, Missing, InProgress, grants,
                changes
  <2>2. EntriesKnow'
    BY <1>1, VersionIsSet, EntriesKept DEF request_start
  <2> QED BY <2>1, <2>2
<1>2. CASE \/ request_get(r) \/ request_cannot_connect(r) \/ request_locks(r)
           \/ request_rereads_miss(r) \/ request_connects(r) \/ request_gives_up(r)
           \/ request_rereads_hit(r) \/ request_fails(r) \/ request_dies(r)
  <2> USE DEF request_get, request_cannot_connect, request_locks, request_rereads_miss,
              request_connects, request_gives_up, request_rereads_hit, request_fails,
              request_dies
  <2>1. UNCHANGED <<version, cached, grants, changes>>
    BY <1>2
  <2>2. /\ pc'[r] \notin Making
        /\ \A m \in Maker \ {r} : /\ pc'[m] = pc[m] /\ access'[m] = access[m]
                                 /\ overlap'[m] = overlap[m]
    BY <1>2 DEF Making
  <2>3. MakersKnow' /\ SettersKnow'
    BY <2>1, <2>2 DEF MakersKnow, SettersKnow, Making, Missing, InProgress, grants, changes
  <2>4. EntriesKnow'
    BY <2>1, EntriesKept DEF Current
  <2> QED BY <2>3, <2>4
<1>3. CASE request_reads(r)
  <2>1. MakersKnow' /\ SettersKnow'
    BY <1>3 DEF request_reads, Reads, MakersKnow, SettersKnow, Making, Missing, InProgress,
                grants, changes
  <2>2. EntriesKnow'
    BY <1>3, EntriesKept DEF request_reads, Current
  <2> QED BY <2>1, <2>2
<1>4. CASE request_syncs(r)
  <2>1. Missing' = {}
    BY <1>4, SyncsCompletely DEF request_syncs, Making
  <2>2. MakersKnow'
    BY <1>4 DEF request_syncs, MakersKnow, Making, InProgress, changes
  <2>3. EntriesKnow'
    BY <1>4, <2>1 DEF request_syncs, EntriesKnow, Current, changes
  <2> QED BY <2>1, <2>2, <2>3 DEF SettersKnow
<1>5. CASE request_sets(r)
  <2>1. MakersKnow' /\ SettersKnow'
    BY <1>5 DEF request_sets, MakersKnow, SettersKnow, Making, Missing, InProgress, grants,
                changes
  <2>2. ASSUME NEW e \in Current'
        PROVE  e \in Current \/ e.overlap = overlap[r]
    BY <1>5, <2>2 DEF request_sets, Without, Current
  <2>3. Missing \cup InProgress \subseteq overlap[r]
    BY <1>5 DEF request_sets, MakersKnow, SettersKnow, Making
  <2>4. Missing' = Missing /\ saved' = saved /\ invalidated' = invalidated
    BY <1>5 DEF request_sets, Missing, grants, changes
  <2>5. EntriesKnow'
    BY <2>2, <2>3, <2>4 DEF EntriesKnow, InProgress
  <2> QED BY <2>1, <2>5
<1> QED BY <1>1, <1>2, <1>3, <1>4, <1>5 DEF RequestNext

LEMMA ToolKeepsFresh ==
  ASSUME TypeOK, Keys, Fresh, NEW t \in Tool, tool_reads(t) \/ tool_syncs(t)
  PROVE  Fresh'
<1> USE DEF Fresh, Goes, Ends, TypeOK
<1>1. CASE tool_reads(t)
  <2>1. MakersKnow' /\ SettersKnow'
    BY <1>1 DEF tool_reads, Reads, MakersKnow, SettersKnow, Making, Missing, InProgress,
                grants, changes
  <2>2. EntriesKnow'
    BY <1>1, EntriesKept DEF tool_reads, Current
  <2> QED BY <2>1, <2>2
<1>2. CASE tool_syncs(t)
  <2>1. Missing' = {}
    BY <1>2, SyncsCompletely DEF tool_syncs, Making
  <2>2. MakersKnow'
    BY <1>2 DEF tool_syncs, MakersKnow, Making, InProgress, changes
  <2>3. EntriesKnow'
    BY <1>2, <2>1 DEF tool_syncs, EntriesKnow, Current, changes
  <2> QED BY <2>1, <2>2, <2>3 DEF SettersKnow
<1> QED BY <1>1, <1>2

LEMMA ChangeKeepsFresh ==
  ASSUME TypeOK, Keys, Fresh, NEW c \in Change, change_saves(c) \/ change_invalidates(c)
  PROVE  Fresh'
<1> USE DEF Fresh, TypeOK
<1>1. ASSUME NEW m \in Maker, pc'[m] \in Making
      PROVE  pc[m] \in Making /\ access'[m] = access[m] /\ overlap'[m] = overlap[m] \cup {c}
  BY <1>1 DEF change_saves, change_invalidates, Overlaps
<1>2. /\ Missing' \subseteq Missing \cup {c}
      /\ InProgress' \subseteq InProgress \cup {c}
      /\ saved' \subseteq saved \cup {c}
      /\ pc' = pc
  BY DEF change_saves, change_invalidates, Missing, InProgress, grants
<1>3. MakersKnow'
  BY <1>1, <1>2 DEF MakersKnow
<1>4. SettersKnow'
  BY <1>1, <1>2 DEF SettersKnow, Making
<1>5. CASE change_saves(c)
  <2>1. Current' = Current /\ invalidated' = invalidated /\ saved' = saved \cup {c}
    BY <1>5 DEF change_saves, Current
  <2>2. c \in invalidated => c \in invalidated \ saved
    BY <1>5 DEF change_saves
  <2>3. EntriesKnow'
    BY <1>2, <2>1, <2>2 DEF EntriesKnow
  <2> QED BY <1>3, <1>4, <2>3
<1>6. CASE change_invalidates(c)
  <2>1. Current' = {}
    BY <1>6, NoneCurrent DEF change_invalidates
  <2> QED BY <1>3, <1>4, <2>1 DEF EntriesKnow
<1> QED BY <1>5, <1>6

LEMMA FreshStep ==
  ASSUME TypeOK, Keys, Fresh, [Next]_vars
  PROVE  Fresh'
<1> DEFINE Rest == lock_expires \/ credentials_expire \/ clear_tool_cached_credentials
<1>1. CASE UNCHANGED vars \/ Rest
  <2>1. UNCHANGED <<requests, grants, changes>>
    BY <1>1 DEF vars, lock_expires, credentials_expire, clear_tool_cached_credentials
  <2>2. Current' \subseteq Current
    <3>1. CASE UNCHANGED vars \/ lock_expires \/ credentials_expire
      BY <3>1 DEF vars, lock_expires, credentials_expire, Current
    <3>2. CASE clear_tool_cached_credentials
      BY <3>2, NoneCurrent DEF clear_tool_cached_credentials
    <3> QED BY <1>1, <3>1, <3>2
  <2>3. MakersKnow' /\ SettersKnow'
    BY <2>1 DEF Fresh, MakersKnow, SettersKnow, Missing, InProgress, requests, grants, changes
  <2>4. EntriesKnow'
    BY <2>1, <2>2, EntriesKept DEF Fresh
  <2> QED BY <2>3, <2>4 DEF Fresh
<1> QED BY <1>1, RequestKeepsFresh, ToolKeepsFresh, ChangeKeepsFresh DEF Next

-----------------------------------------------------------------------------
\* The inductive invariant holds of every behaviour of ExplorerCredentials.
THEOREM CredentialsInvCorrect == Spec => []CredentialsInv
<1>1. CredentialsInv /\ [Next]_vars => CredentialsInv'
  BY TypeStep, KeysStep, FreshStep, LockStep DEF CredentialsInv
<1> QED BY CredentialsInitInv, <1>1, PTL DEF Spec

\* The variables keep their types.
THEOREM CredentialsTypeCorrect == Spec => []TypeOK
BY CredentialsInvCorrect, PTL DEF CredentialsInv

\* A change of access reaches the user's role, unless it overlapped the making of the
\* cached credentials or a synchronisation of the role.
THEOREM ChangesReachTheUserCorrect == Spec => []ChangesReachTheUser
<1>1. CredentialsInv => ChangesReachTheUser
  BY DEF CredentialsInv, Fresh, EntriesKnow, ChangesReachTheUser, Missing
<1> QED BY <1>1, CredentialsInvCorrect, PTL

\* Two requests do not both make credentials, unless one outlives its lock.
THEOREM NoWastedCreationCorrect == Spec => []NoWastedCreation
BY CredentialsInvCorrect, PTL DEF CredentialsInv

-----------------------------------------------------------------------------
(***************************************************************************)
(* The composition.  The modules of the proofs about the other two parts   *)
(* speak of the same variables as Policy and Refs, and of the same         *)
(* actions.                                                                *)
(***************************************************************************)
PolicyProofs == INSTANCE ToolsPolicyProofs WITH Change <- MembershipChange, Maker <- RoleMaker,
                                                lock <- policyLock, role <- roleSaved

RefProofs == INSTANCE ReferenceDatasetsProofs WITH ColumnOf <- OneColumn, failed <- refFailed

LEMMA SamePolicyInit == Policy!Init <=> PolicyProofs!Init
  BY DEF Policy!Init, Policy!NotOpen, Policy!Putter, PolicyProofs!Init, PolicyProofs!NotOpen,
         PolicyProofs!Putter

LEMMA SameTask ==
    ASSUME NEW c \in MembershipChange
    PROVE  Policy!TaskNext(c) <=> PolicyProofs!TaskNext(c)
  BY DEF Policy!TaskNext, Policy!task_locks, Policy!task_does_not_lock, Policy!task_reads,
         Policy!task_puts, Policy!task_ends, Policy!Retried, Policy!taskVars,
         PolicyProofs!TaskNext, PolicyProofs!task_locks, PolicyProofs!task_does_not_lock,
         PolicyProofs!task_reads, PolicyProofs!task_puts, PolicyProofs!task_ends,
         PolicyProofs!Retried, PolicyProofs!taskVars

LEMMA SamePolicyNext == Policy!Next <=> PolicyProofs!Next
  BY SameTask
     DEF Policy!Next, Policy!membership_changes, Policy!memberships_commit,
         Policy!memberships_roll_back, Policy!Toggled, Policy!NotOpen, Policy!task_dies,
         Policy!lock_expires, Policy!Retried, Policy!MakerNext, Policy!maker_reads,
         Policy!maker_puts, Policy!maker_ends, Policy!taskVars, PolicyProofs!Next,
         PolicyProofs!membership_changes, PolicyProofs!memberships_commit,
         PolicyProofs!memberships_roll_back, PolicyProofs!Toggled, PolicyProofs!NotOpen,
         PolicyProofs!task_dies, PolicyProofs!lock_expires, PolicyProofs!Retried,
         PolicyProofs!MakerNext, PolicyProofs!maker_reads, PolicyProofs!maker_puts,
         PolicyProofs!maker_ends, PolicyProofs!taskVars

LEMMA SameRefInit == Refs!Init <=> RefProofs!Init
  BY DEF Refs!Init, Refs!Idle, Refs!NoDraft, Refs!NoTable, RefProofs!Init, RefProofs!Idle,
         RefProofs!NoDraft, RefProofs!NoTable

\* what the steps are made of
USE DEF Refs!Columns, Refs!At, Refs!Visible, Refs!NextVersion, Refs!Saves, Refs!RollsBack,
        Refs!Fails, Refs!UploadGoesOn, Refs!NotAltered, Refs!Idle, Refs!NoDraft, Refs!NoTable,
        Refs!tables, Refs!tx, Refs!bounds, Refs!history, RefProofs!Columns, RefProofs!At,
        RefProofs!Visible, RefProofs!NextVersion, RefProofs!Saves, RefProofs!RollsBack,
        RefProofs!Fails, RefProofs!UploadGoesOn, RefProofs!NotAltered, RefProofs!Idle,
        RefProofs!NoDraft, RefProofs!NoTable, RefProofs!tables, RefProofs!tx, RefProofs!bounds,
        RefProofs!history

LEMMA SameModelSteps ==
    ASSUME NEW r \in Request
    PROVE  /\ Refs!model_registered(r) <=> RefProofs!model_registered(r)
           /\ Refs!model_forgotten(r) <=> RefProofs!model_forgotten(r)
           /\ Refs!model_made(r) <=> RefProofs!model_made(r)
  BY DEF Refs!model_registered, Refs!model_forgotten, Refs!model_made, Refs!AfterModel,
         Refs!WantsModel, Refs!HasModel, RefProofs!model_registered, RefProofs!model_forgotten,
         RefProofs!model_made, RefProofs!AfterModel, RefProofs!WantsModel, RefProofs!HasModel

LEMMA SameFieldSteps ==
    ASSUME NEW r \in Request, NEW f
    PROVE  /\ Refs!field_saved(r) <=> RefProofs!field_saved(r)
           /\ Refs!parent_saved(r) <=> RefProofs!parent_saved(r)
           /\ Refs!field_not_in_model(r) <=> RefProofs!field_not_in_model(r)
           /\ Refs!column_added(r) <=> RefProofs!column_added(r)
           /\ Refs!column_removed(r) <=> RefProofs!column_removed(r)
           /\ Refs!column_not_removed(r) <=> RefProofs!column_not_removed(r)
           /\ Refs!external_altered(r) <=> RefProofs!external_altered(r)
           /\ Refs!external_not_altered(r, f) <=> RefProofs!external_not_altered(r, f)
           /\ Refs!field_deleted(r) <=> RefProofs!field_deleted(r)
  BY DEF Refs!field_saved, Refs!parent_saved, Refs!field_not_in_model, Refs!column_added,
         Refs!column_removed, Refs!column_not_removed, Refs!Unshared, Refs!external_altered,
         Refs!external_not_altered, Refs!field_deleted, Refs!Writers, Refs!Swallowed,
         Refs!AfterModel, RefProofs!field_saved, RefProofs!parent_saved,
         RefProofs!field_not_in_model, RefProofs!column_added, RefProofs!column_removed,
         RefProofs!column_not_removed, RefProofs!Unshared, RefProofs!external_altered,
         RefProofs!external_not_altered, RefProofs!field_deleted, RefProofs!Writers,
         RefProofs!Swallowed, RefProofs!AfterModel

LEMMA SameRecordSteps ==
    ASSUME NEW r \in Request, NEW f
    PROVE  /\ Refs!record_written(r) <=> RefProofs!record_written(r)
           /\ Refs!row_saved(r) <=> RefProofs!row_saved(r)
           /\ Refs!sync_saves(r) <=> RefProofs!sync_saves(r)
           /\ Refs!sync_fails(r, f) <=> RefProofs!sync_fails(r, f)
           /\ Refs!sync_deletes(r) <=> RefProofs!sync_deletes(r)
           /\ Refs!external_database_saved(r) <=> RefProofs!external_database_saved(r)
           /\ Refs!external_moved(r) <=> RefProofs!external_moved(r)
           /\ Refs!external_exists(r) <=> RefProofs!external_exists(r)
           /\ Refs!commit(r) <=> RefProofs!commit(r)
<1>1. Refs!record_written(r) <=> RefProofs!record_written(r)
  BY DEF Refs!record_written, RefProofs!record_written
<1>2. Refs!row_saved(r) <=> RefProofs!row_saved(r)
  BY DEF Refs!row_saved, Refs!AfterRow, RefProofs!row_saved, RefProofs!AfterRow
<1>3. Refs!sync_saves(r) <=> RefProofs!sync_saves(r)
  BY DEF Refs!sync_saves, Refs!RecordsSeen, Refs!CanSync, RefProofs!sync_saves, RefProofs!RecordsSeen,
         RefProofs!CanSync
<1>4. Refs!sync_fails(r, f) <=> RefProofs!sync_fails(r, f)
  BY DEF Refs!sync_fails, Refs!RecordsSeen, Refs!CanSync, RefProofs!sync_fails, RefProofs!RecordsSeen,
         RefProofs!CanSync
<1>5. Refs!sync_deletes(r) <=> RefProofs!sync_deletes(r)
  BY DEF Refs!sync_deletes, Refs!RecordsSeen, Refs!CanSync, RefProofs!sync_deletes, RefProofs!RecordsSeen,
         RefProofs!CanSync
<1>6. Refs!external_database_saved(r) <=> RefProofs!external_database_saved(r)
  BY DEF Refs!external_database_saved, RefProofs!external_database_saved
<1>7. Refs!external_moved(r) <=> RefProofs!external_moved(r)
  BY DEF Refs!external_moved, RefProofs!external_moved
<1>8. Refs!external_exists(r) <=> RefProofs!external_exists(r)
  BY DEF Refs!external_exists, RefProofs!external_exists
<1>9. Refs!commit(r) <=> RefProofs!commit(r)
  BY DEF Refs!commit, RefProofs!commit
<1> QED
  BY <1>1, <1>2, <1>3, <1>4, <1>5, <1>6, <1>7, <1>8, <1>9

LEMMA SameRefNext == Refs!Next <=> RefProofs!Next
<1>1. ASSUME NEW r \in Request PROVE Refs!RequestNext(r) <=> RefProofs!RequestNext(r)
  BY SameModelSteps, SameFieldSteps, SameRecordSteps DEF Refs!RequestNext, RefProofs!RequestNext
<1>2. ASSUME NEW r \in Request, NEW p \in Process, NEW op, NEW subject
      PROVE  Refs!begin(r, p, op, subject) <=> RefProofs!begin(r, p, op, subject)
  BY DEF Refs!begin, Refs!Cardinality, RefProofs!begin, RefProofs!Cardinality
<1>3. ASSUME NEW r \in Request, NEW s \in Request
      PROVE  Refs!deadlock(r, s) <=> RefProofs!deadlock(r, s)
  BY DEF Refs!deadlock, Refs!Writers, Refs!Swallowed, RefProofs!deadlock, RefProofs!Writers,
         RefProofs!Swallowed
<1>4. ASSUME NEW r \in Request, NEW f \in Failure
      PROVE  Refs!server_dies(r, f) <=> RefProofs!server_dies(r, f)
  BY DEF Refs!server_dies, RefProofs!server_dies
<1> QED
  BY <1>1, <1>2, <1>3, <1>4, SameFieldSteps, SameRecordSteps
     DEF Refs!Next, Refs!Op, RefProofs!Next, RefProofs!Op

HIDE DEF Refs!Columns, Refs!At, Refs!Visible, Refs!NextVersion, Refs!Saves, Refs!RollsBack,
         Refs!Fails, Refs!UploadGoesOn, Refs!NotAltered, Refs!Idle, Refs!NoDraft, Refs!NoTable,
         Refs!tables, Refs!tx, Refs!bounds, Refs!history, RefProofs!Columns, RefProofs!At,
         RefProofs!Visible, RefProofs!NextVersion, RefProofs!Saves, RefProofs!RollsBack,
         RefProofs!Fails, RefProofs!UploadGoesOn, RefProofs!NotAltered, RefProofs!Idle,
         RefProofs!NoDraft, RefProofs!NoTable, RefProofs!tables, RefProofs!tx, RefProofs!bounds,
         RefProofs!history

-----------------------------------------------------------------------------
\* Each part behaves in the composition as it does alone: no step of one disturbs another.
THEOREM AccessAreParts ==
    AccessSpec => Spec /\ ListsSpec /\ PolicyProofs!Spec /\ RefProofs!Spec
<1>1. AccessInit => Init /\ ListsInit /\ PolicyProofs!Init /\ RefProofs!Init
  BY SamePolicyInit, SameRefInit DEF AccessInit
<1>2. [AccessNext]_<<part, credentialVars, listsVars, policyVars, refVars>> =>
          [Next]_vars /\ [ListsNext]_listsVars
  BY DEF AccessNext, credentialVars
<1>3. [AccessNext]_<<part, credentialVars, listsVars, policyVars, refVars>> =>
          [PolicyProofs!Next]_(PolicyProofs!vars)
  BY SamePolicyNext DEF AccessNext, policyVars, PolicyProofs!vars, PolicyProofs!taskVars
<1>4. [AccessNext]_<<part, credentialVars, listsVars, policyVars, refVars>> =>
          [RefProofs!Next]_(RefProofs!vars)
  BY SameRefNext DEF AccessNext, refVars, RefProofs!vars, RefProofs!tables, RefProofs!tx,
                     RefProofs!bounds, RefProofs!history
<1> QED
  BY <1>1, <1>2, <1>3, <1>4, PTL
     DEF AccessSpec, Spec, ListsSpec, PolicyProofs!Spec, RefProofs!Spec

PolicyBounded == MaxRetries \in Nat /\ MembershipChange \cap RoleMaker = {}
RefsBounded == MaxRequests \in Nat /\ IsFiniteSet(Field)
AccessBounded == ListsBounded /\ PolicyBounded /\ RefsBounded

LEMMA BoundedParts ==
    /\ PolicyBounded => PolicyProofs!Bounded
    /\ RefsBounded => RefProofs!Bounded
  BY DEF PolicyBounded, RefsBounded, PolicyProofs!Bounded, RefProofs!Bounded, IsFiniteSet,
         RefProofs!IsFiniteSet

\* Every variable of the parts keeps its type, whichever takes its steps.
THEOREM AccessTypeCorrect == ASSUME AccessBounded PROVE AccessSpec => []AccessTypeOK
<1>1. PolicyProofs!Spec => []PolicyProofs!TypeOK
  BY BoundedParts, PolicyProofs!TypeCorrect DEF AccessBounded
<1>2. RefProofs!Spec => []RefProofs!TypeOK
  BY BoundedParts, RefProofs!TypeCorrect DEF AccessBounded
<1>3. ListsSpec => []ListsTypeOK
  BY ListsTypeCorrect DEF AccessBounded
<1>4. PolicyProofs!TypeOK => Policy!TypeOK
  BY DEF PolicyProofs!TypeOK, PolicyProofs!Putter, Policy!TypeOK, Policy!Putter
\* each instance has a Cardinality of its own
<1>5. RefProofs!TypeOK => Refs!TypeOK
  BY DEF RefProofs!TypeOK, RefProofs!Row, RefProofs!Model, RefProofs!Columns,
         RefProofs!Cardinality, Refs!TypeOK, Refs!Row, Refs!Model, Refs!Columns, Refs!Cardinality
<1>6. TypeOK /\ ListsTypeOK /\ PolicyProofs!TypeOK /\ RefProofs!TypeOK => AccessTypeOK
  BY <1>4, <1>5 DEF AccessTypeOK
<1> QED
  BY <1>1, <1>2, <1>3, <1>6, CredentialsTypeCorrect, AccessAreParts, PTL

\* When the tasks are done, create_tools_access_iam_role_task has left the teams that are
\* committed in the policy, unless one read before the commit, one was given up, or somebody
\* made the role at the same time.
THEOREM PolicyFollowsCommittedTeamsCorrect ==
    ASSUME PolicyBounded PROVE AccessSpec => []PolicyFollowsCommittedTeams
<1>1. PolicyProofs!Spec => []PolicyProofs!PolicyFollowsCommittedTeams
  BY BoundedParts, PolicyProofs!PolicyFollowsCommittedTeamsCorrect
<1>2. PolicyProofs!PolicyFollowsCommittedTeams => PolicyFollowsCommittedTeams
  BY DEF PolicyProofs!PolicyFollowsCommittedTeams, PolicyProofs!Quiet,
         PolicyFollowsCommittedTeams, Policy!PolicyFollowsCommittedTeams, Policy!Quiet
<1> QED
  BY <1>1, <1>2, AccessAreParts, PTL

\* The model that a process keeps under the version of the row has the fields there are,
\* whoever made it and when, unless the number of a version was given twice.
THEOREM ModelsAreCurrentCorrect == ASSUME RefsBounded PROVE AccessSpec => []ModelsAreCurrent
<1>1. RefProofs!Spec => []RefProofs!ModelsAreCurrent
  BY BoundedParts, RefProofs!ModelsAreCurrentCorrect
<1>2. RefProofs!ModelsAreCurrent => ModelsAreCurrent
  BY DEF RefProofs!ModelsAreCurrent, ModelsAreCurrent, Refs!ModelsAreCurrent
<1> QED
  BY <1>1, <1>2, AccessAreParts, PTL

\* A field has its column, and a column a field, also where several have one and whatever
\* fails on the way, but for fields that are saved again after an error.
THEOREM FieldsHaveColumnsCorrect == ASSUME RefsBounded PROVE AccessSpec => []FieldsHaveColumns
<1>1. RefProofs!Spec => []RefProofs!FieldsHaveColumns
  BY BoundedParts, RefProofs!FieldsHaveColumnsCorrect
<1>2. RefProofs!FieldsHaveColumns => FieldsHaveColumns
  BY DEF RefProofs!FieldsHaveColumns, RefProofs!Columns, FieldsHaveColumns,
         Refs!FieldsHaveColumns, Refs!Columns
<1> QED
  BY <1>1, <1>2, AccessAreParts, PTL

\* When nobody is about to, the external table has the records, unless a request came to
\* nothing half way, or an upload was overtaken, and nobody has saved a record since.
THEOREM RecordsAreReplicatedCorrect ==
    ASSUME RefsBounded PROVE AccessSpec => []RecordsAreReplicated
<1>1. RefProofs!Spec => []RefProofs!RecordsAreReplicated
  BY BoundedParts, RefProofs!RecordsAreReplicatedCorrect
<1>2. RefProofs!RecordsAreReplicated => RecordsAreReplicated
  BY DEF RefProofs!RecordsAreReplicated, RecordsAreReplicated, Refs!RecordsAreReplicated
<1> QED
  BY <1>1, <1>2, AccessAreParts, PTL
=============================================================================
