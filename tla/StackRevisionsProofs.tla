------------------------ MODULE StackRevisionsProofs ------------------------
(***************************************************************************)
(* Proofs about StackRevisions, for any applications, any number of        *)
(* requests at a time, and whatever operations they are.                   *)
(***************************************************************************)
EXTENDS StackRevisions, SequenceTheorems, TLAPS

LEMMA AppendFacts ==
  ASSUME NEW S, NEW s \in Seq(S), NEW e \in S
  PROVE  /\ Append(s, e) \in Seq(S)
         /\ Len(Append(s, e)) = Len(s) + 1
         /\ \A i \in 1..Len(s) : Append(s, e)[i] = s[i]
         /\ Append(s, e)[Len(s) + 1] = e
         /\ DOMAIN Append(s, e) = 1..(Len(s) + 1)
  OBVIOUS

LEMMA BlankType == Blank \in Revision
<1>1. [a \in App |-> 0] \in [App -> Nat]
  OBVIOUS
<1>2. [a \in App |-> NoContent] \in [App -> Content]
  BY DEF Content
<1> QED
  BY <1>1, <1>2 DEF Blank, Revision, Status

\* What is running is what some request has deployed, or nothing.
LEMMA RunningType ==
  ASSUME TypeOK
  PROVE  Running \in [App -> Content]
<1>1. ASSUME NEW a \in App, history[a] # << >>
      PROVE  history[a][Len(history[a])] \in Change
  <2>1. history[a] \in Seq(Change)
    BY DEF TypeOK
  <2> QED
    BY <1>1, <2>1
<1> QED
  BY <1>1 DEF Running, Installed, Content

LEMMA InitType == Init => TypeOK
<1> SUFFICES ASSUME Init PROVE TypeOK
  OBVIOUS
<1>1. mine \in [Change -> Revision]
  BY BlankType DEF Init
<1> QED
  BY <1>1 DEF Init, TypeOK, Place, Operations

LEMMA AppendsType ==
  ASSUME TypeOK, NEW c \in Change, NEW k \in Operations, NEW rev \in Revision,
         NEW work \in SUBSET (App \cup {Group}), Appends(c, k, rev, work)
  PROVE  TypeOK'
<1>1. [rev EXCEPT !.number = @ + 1] \in Revision
  BY DEF Revision
<1>2. rows' \in Seq(Revision)
  BY <1>1, AppendFacts DEF TypeOK, Appends
<1>3. row' \in [Change -> Nat]
  BY DEF TypeOK, Appends
<1> QED
  BY <1>1, <1>2, <1>3 DEF TypeOK, Appends, At, cluster, Place

LEMMA CopiedType ==
  ASSUME TypeOK, NEW c \in Change, NEW status \in Status
  PROVE  Copied(c, status) \in Revision
<1>1. mine[c] \in Revision
  BY DEF TypeOK
<1>2. [a \in App |-> NoContent] \in [App -> Content]
  BY DEF Content
<1> QED
  BY <1>1, <1>2 DEF Copied, Revision

\* A revision that has the number and the applications of another.
Kept(old, new) ==
  /\ new.number = old.number
  /\ \A a \in App : new.apps[a] = 0 <=> old.apps[a] = 0

\* Whoever is at work has a row of its own to save the outcome in.
OwnRow(c) ==
  pc[c] = "working" /\ kind[c] \notin {"delete", "group"} =>
    /\ row[c] \in DOMAIN rows
    /\ Kept(rows[row[c]], mine[c])
    /\ kind[c] = "source" => \A a \in todo[c] \cap App : mine[c].apps[a] # 0

\* The reads of the handlers keep every type.
LEMMA ReadsType ==
  ASSUME TypeOK, NEW c \in Change,
         \/ CreateStack(c) \/ LoadStack(c) \/ ReadLatest(c) \/ ReadTarget(c)
         \/ DeleteResources(c) \/ HookReads(c)
  PROVE  TypeOK'
<1>1. \A i \in DOMAIN rows : rows[i] \in Revision /\ i \in Nat
  BY DEF TypeOK
<1>2. Numbers \subseteq Nat
  BY <1>1 DEF Numbers, Revision
<1>3. CASE CreateStack(c)
  <2>1. PICK apps \in SUBSET App, env \in 0..1 :
          LET first == [Blank EXCEPT !.number = 1, !.env = env,
                                     !.apps = [a \in App |-> IF a \in apps THEN 1 ELSE 0]]
          IN /\ rows' = Append(rows, first)
             /\ mine' = [mine EXCEPT ![c] = first]
             /\ todo' = [todo EXCEPT ![c] = apps \cup (IF env = 1 THEN {Group} ELSE {})]
    BY <1>3 DEF CreateStack
  <2> DEFINE first == [Blank EXCEPT !.number = 1, !.env = env,
                                    !.apps = [a \in App |-> IF a \in apps THEN 1 ELSE 0]]
  <2>2. first \in Revision
    <3>1. [a \in App |-> IF a \in apps THEN 1 ELSE 0] \in [App -> Nat] /\ env \in Nat
      OBVIOUS
    <3> QED
      BY <3>1, BlankType DEF Blank, Revision
  <2>3. rows' \in Seq(Revision)
    BY <2>1, <2>2, AppendFacts DEF TypeOK
  <2>4. mine' \in [Change -> Revision] /\ todo' \in [Change -> SUBSET (App \cup {Group})]
    BY <2>1, <2>2 DEF TypeOK
  <2>5. row' \in [Change -> Nat]
    <3>1. rows \in Seq(Revision) /\ row \in [Change -> Nat]
      BY DEF TypeOK
    <3>2. Len(rows) + 1 \in Nat
      BY <3>1
    <3> QED
      BY <1>3, <3>1, <3>2 DEF CreateStack
  <2>6. happened' \subseteq Disturbance
    BY <1>3 DEF CreateStack, Begins, TypeOK, Disturbance
  <2> QED
    BY <1>3, <2>3, <2>4, <2>5, <2>6 DEF CreateStack, TypeOK, At, cluster, Place, Operations
<1>4. CASE LoadStack(c)
  BY <1>2, <1>4 DEF LoadStack, Begins, TypeOK, At, cluster, Place, Disturbance
<1>5. CASE ReadLatest(c)
  BY <1>1, <1>5 DEF ReadLatest, TypeOK, At, cluster, Place
<1>6. CASE ReadTarget(c)
  <2>1. PICK i \in DOMAIN rows :
          mine' = [mine EXCEPT ![c] = [rows[i] EXCEPT !.number = seen[c], !.from = i]]
    BY <1>6 DEF ReadTarget
  <2>2. [rows[i] EXCEPT !.number = seen[c], !.from = i] \in Revision
    BY <1>1 DEF Revision, TypeOK
  <2>3. mine' \in [Change -> Revision]
    BY <2>1, <2>2 DEF TypeOK
  <2> QED
    BY <1>6, <2>3 DEF ReadTarget, TypeOK, At, Note, cluster, Place, Operations, Disturbance
<1>7. CASE DeleteResources(c)
  <2>1. mine' \in [Change -> Revision]
    BY <1>1, <1>7 DEF DeleteResources, TypeOK
  <2>2. AppsOf(mine'[c]) \cup (IF mine'[c].env = 0 THEN {} ELSE {Group}) \in SUBSET (App \cup {Group})
    BY DEF AppsOf
  <2>3. todo' \in [Change -> SUBSET (App \cup {Group})]
    BY <1>7, <2>2 DEF DeleteResources, TypeOK
  <2> QED
    BY <1>7, <2>1, <2>3 DEF DeleteResources, TypeOK, At, cluster, Place, Operations
<1>8. CASE HookReads(c)
  BY <1>1, <1>8 DEF HookReads, TypeOK, At, cluster, Place
<1> QED
  BY <1>3, <1>4, <1>5, <1>6, <1>7, <1>8

\* So do the handlers that append a revision.
LEMMA HandlersType ==
  ASSUME TypeOK, NEW c \in Change,
         \/ AddApplication(c) \/ RemoveApplication(c) \/ PutSourceConfig(c)
         \/ RollbackStack(c) \/ AddEnvGroup(c) \/ RemoveEnvGroup(c)
  PROVE  TypeOK'
<1> DEFINE new == Copied(c, "deploying")
<1>1. new \in Revision /\ Copied(c, "deployed") \in Revision
  BY CopiedType DEF Status
<1>2. \A a \in App : [new EXCEPT !.apps[a] = 1] \in Revision /\ [new EXCEPT !.apps[a] = 0] \in Revision
  BY <1>1 DEF Revision
<1>3. [Copied(c, "deployed") EXCEPT !.env = 1] \in Revision /\ [new EXCEPT !.env = 0] \in Revision
  BY <1>1 DEF Revision
<1>4. AppsOf(mine[c]) \in SUBSET (App \cup {Group}) /\ {Group} \in SUBSET (App \cup {Group})
  BY DEF AppsOf
<1>5. \A a \in App : {a} \in SUBSET (App \cup {Group})
  OBVIOUS
<1>6. {"add", "remove", "source", "rollback", "addGroup", "removeGroup"} \subseteq Operations
  BY DEF Operations
<1> HIDE DEF new
<1>7. CASE AddApplication(c)
  BY <1>2, <1>5, <1>6, <1>7, AppendsType DEF AddApplication, new
<1>8. CASE RemoveApplication(c)
  BY <1>2, <1>5, <1>6, <1>8, AppendsType DEF RemoveApplication, new
<1>9. CASE PutSourceConfig(c)
  BY <1>1, <1>4, <1>6, <1>9, AppendsType DEF PutSourceConfig, new
<1>10. CASE RollbackStack(c)
  BY <1>1, <1>4, <1>6, <1>10, AppendsType DEF RollbackStack, new
<1>11. CASE AddEnvGroup(c)
  BY <1>3, <1>4, <1>6, <1>11, AppendsType DEF AddEnvGroup
<1>12. CASE RemoveEnvGroup(c)
  BY <1>3, <1>4, <1>6, <1>12, AppendsType DEF RemoveEnvGroup, new
<1> QED
  BY <1>7, <1>8, <1>9, <1>10, <1>11, <1>12

\* So does their work in the cluster ...
LEMMA WorkType ==
  ASSUME TypeOK, NEW c \in Change, NEW a \in App,
         \/ Install(c, a) \/ Uninstall(c, a) \/ UpdateTag(c, a) \/ RollbackApp(c, a)
         \/ RolloutApp(c, a) \/ HelmFails(c, a)
  PROVE  TypeOK'
<1>1. \A e \in Change : /\ [history EXCEPT ![a] = Append(@, e)] \in [App -> Seq(Change)]
                         /\ [history EXCEPT ![a] = <<e>>] \in [App -> Seq(Change)]
                         /\ [history EXCEPT ![a] = << >>] \in [App -> Seq(Change)]
  BY DEF TypeOK
<1>2. \A k : Works(c, k, a) => todo' \in [Change -> SUBSET (App \cup {Group})]
  BY DEF Works, TypeOK
<1>3. \A p : Errs(c, p) => failed' \in [Change -> BOOLEAN]
  <2> SUFFICES ASSUME NEW p, Errs(c, p) PROVE failed' \in [Change -> BOOLEAN]
    OBVIOUS
  <2>1. failed[c] \in BOOLEAN /\ (failed[c] \/ p) \in BOOLEAN
    BY DEF TypeOK
  <2> QED
    BY <2>1, Zenon DEF Errs, TypeOK
<1>4. \A d \in {"remove", "failure"} : Note({d}) => happened' \subseteq Disturbance
  BY DEF Note, TypeOK, Disturbance
<1>5. [mine EXCEPT ![c].apps[a] = @ + 1] \in [Change -> Revision]
  <2>1. mine[c] \in Revision /\ mine \in [Change -> Revision]
    BY DEF TypeOK
  <2>2. [mine[c].apps EXCEPT ![a] = @ + 1] \in [App -> Nat]
    BY <2>1 DEF Revision
  <2>3. [mine[c] EXCEPT !.apps[a] = @ + 1] \in Revision
    BY <2>1, <2>2 DEF Revision
  <2> QED
    BY <2>1, <2>3
<1>6. CASE Install(c, a)
  BY <1>1, <1>2, <1>3, <1>6 DEF Install, TypeOK, cluster
<1>7. CASE Uninstall(c, a)
  BY <1>1, <1>2, <1>3, <1>4, <1>7 DEF Uninstall, TypeOK, cluster
<1>8. CASE UpdateTag(c, a)
  BY <1>1, <1>2, <1>3, <1>5, <1>8 DEF UpdateTag, TypeOK, cluster
<1>9. CASE RollbackApp(c, a)
  <2>1. \A v \in DOMAIN history[a] : history[a][v] \in Change
    BY DEF TypeOK
  <2>2. history' \in [App -> Seq(Change)]
    BY <1>1, <1>9, <2>1 DEF RollbackApp, TypeOK
  <2> QED
    BY <1>2, <1>3, <1>9, <2>2 DEF RollbackApp, TypeOK, cluster
<1>10. CASE RolloutApp(c, a)
  BY <1>1, <1>2, <1>3, <1>10 DEF RolloutApp, TypeOK, cluster
<1>11. CASE HelmFails(c, a)
  <2>1. history' \in [App -> Seq(Change)]
    BY <1>1, <1>11 DEF HelmFails, TypeOK
  <2>2. mine' \in [Change -> Revision]
    BY <1>5, <1>11 DEF HelmFails, TypeOK
  <2> QED
    BY <1>2, <1>3, <1>4, <1>11, <2>1, <2>2 DEF HelmFails, TypeOK, cluster
<1> QED
  BY <1>6, <1>7, <1>8, <1>9, <1>10, <1>11

\* ... and whatever else a request does.
LEMMA OtherType ==
  ASSUME TypeOK, NEW c \in Change, OwnRow(c),
         \/ ApplyGroup(c) \/ DeleteGroup(c) \/ GroupFails(c) \/ Save(c) \/ LinkReleases(c)
         \/ DropStack(c) \/ StackGone(c) \/ UpgradeRelease(c) \/ UpdateGroup(c)
         \/ RolledOut(c) \/ HelmHookAppends(c) \/ GroupHookAppends(c) \/ RenameReads(c) \/ RenameSaves(c)
         \/ HandlerFails(c)
  PROVE  TypeOK'
<1>1. \A k, x : Works(c, k, x) => todo' \in [Change -> SUBSET (App \cup {Group})]
  BY DEF Works, TypeOK
<1>2. CASE ApplyGroup(c)
  BY <1>1, <1>2 DEF ApplyGroup, TypeOK, cluster
<1>3. CASE DeleteGroup(c)
  BY <1>1, <1>3 DEF DeleteGroup, TypeOK, cluster
<1>4. CASE GroupFails(c)
  <2>1. failed' \in [Change -> BOOLEAN]
    <3>1. (failed[c] \/ TRUE) \in BOOLEAN
      OBVIOUS
    <3> QED
      BY <1>4, <3>1, Zenon DEF GroupFails, Errs, TypeOK
  <2> QED
    BY <1>4, <2>1 DEF GroupFails, TypeOK, Note, cluster, Disturbance
<1>5. CASE Save(c)
  <2>1. PICK status \in Status :
          rows' = [rows EXCEPT ![row[c]] = [mine[c] EXCEPT !.status = status, !.ran = Running]]
    BY <1>5 DEF Save, Status
  <2>2. [mine[c] EXCEPT !.status = status, !.ran = Running] \in Revision
    <3>1. mine[c] \in Revision
      BY DEF TypeOK
    <3> QED
      BY <3>1, RunningType DEF Revision
  <2>3. row[c] \in 1..Len(rows)
    BY <1>5 DEF Save, OwnRow, TypeOK
  <2>4. rows' \in Seq(Revision)
    BY <2>1, <2>2, <2>3, ExceptSeq DEF TypeOK
  <2> QED
    BY <1>5, <2>4 DEF Save, TypeOK, At, cluster, handlers, Place
<1>6. CASE LinkReleases(c)
  BY <1>6 DEF LinkReleases, TypeOK, At, cluster, handlers, Place, AppsOf
<1>7. CASE DropStack(c) \/ StackGone(c) \/ RolledOut(c)
  BY <1>7 DEF DropStack, StackGone, RolledOut, TypeOK, At, cluster, handlers, Place
<1>8. CASE UpgradeRelease(c)
  <2>1. PICK a \in Installed :
          /\ history' = [history EXCEPT ![a] = Append(@, c)]
          /\ seen' = [seen EXCEPT ![c] = Len(history[a]) + 1]
          /\ todo' = [todo EXCEPT ![c] = {a}]
          /\ At(c, IF a \in linked THEN "upgraded" ELSE "ended")
    BY <1>8 DEF UpgradeRelease
  <2>2. a \in App /\ history[a] \in Seq(Change)
    BY DEF Installed, TypeOK
  <2>3. Len(history[a]) + 1 \in Nat
    BY <2>2
  <2>4. seen' \in [Change -> Nat] /\ history' \in [App -> Seq(Change)]
    BY <2>1, <2>2, <2>3 DEF TypeOK
  <2>5. todo' \in [Change -> SUBSET (App \cup {Group})] /\ pc' \in [Change -> Place]
    BY <2>1, <2>2 DEF TypeOK, At, Place
  <2>6. happened' \subseteq Disturbance
    BY <1>8 DEF UpgradeRelease, Begins, TypeOK, Disturbance
  <2> QED
    BY <1>8, <2>4, <2>5, <2>6 DEF UpgradeRelease, TypeOK, cluster, Operations
<1>9. CASE UpdateGroup(c)
  <2>1. happened' \subseteq Disturbance
    BY <1>9 DEF UpdateGroup, Begins, TypeOK, Disturbance
  <2>2. Linked \cap Installed \in SUBSET (App \cup {Group})
    BY DEF Installed
  <2> QED
    BY <1>9, <2>1, <2>2 DEF UpdateGroup, TypeOK, At, cluster, Place, Operations
<1>10. ASSUME NEW apps \in [App -> Nat], NEW env \in Nat, HookAppends(c, apps, env)
       PROVE  TypeOK'
  <2>1. mine[c] \in Revision
    BY DEF TypeOK
  <2>2. [mine[c] EXCEPT !.number = @ + 1, !.status = "deployed", !.env = env,
                        !.apps = apps, !.ran = Running, !.from = 0] \in Revision
    <3> DEFINE first == [mine[c] EXCEPT !.number = @ + 1, !.status = "deployed", !.env = env]
    <3>1. first \in Revision
      <4>1. mine[c].number + 1 \in Nat /\ "deployed" \in Status
        BY <2>1 DEF Revision, Status
      <4> QED
        BY <2>1, <4>1 DEF Revision
    <3> HIDE DEF first
    <3>2. [first EXCEPT !.apps = apps, !.ran = Running, !.from = 0] \in Revision
      BY <3>1, RunningType DEF Revision
    <3> QED
      BY <3>2 DEF first
  <2>3. rows' \in Seq(Revision)
    BY <1>10, <2>2, AppendFacts DEF HookAppends, TypeOK
  <2> QED
    BY <1>10, <2>3 DEF HookAppends, TypeOK, At, cluster, handlers, Place
<1>14. mine[c].apps \in [App -> Nat] /\ mine[c].env \in Nat /\ seen[c] \in Nat
  <2>1. mine[c] \in Revision
    BY DEF TypeOK
  <2> QED
    BY <2>1 DEF TypeOK, Revision
<1>15. CASE HelmHookAppends(c)
  <2>1. HelmHookApps(c) \in [App -> Nat]
    BY <1>14 DEF HelmHookApps
  <2> QED
    BY <1>10, <1>14, <1>15, <2>1 DEF HelmHookAppends
<1>16. CASE GroupHookAppends(c)
  <2>1. GroupHookApps(c) \in [App -> Nat] /\ GroupHookVersion(c) \in Nat
    BY <1>14 DEF GroupHookApps, GroupHookVersion
  <2> QED
    BY <1>10, <1>16, <2>1 DEF GroupHookAppends
<1>11. CASE RenameReads(c)
  BY <1>11 DEF RenameReads, TypeOK, At, Note, cluster, Place, Operations, Disturbance
<1>12. CASE RenameSaves(c)
  <2>1. \A i \in 1..Len(rows) : (IF i \in DOMAIN copy[c] THEN copy[c][i] ELSE rows[i]) \in Revision
    BY DEF TypeOK
  <2>2. rows' \in Seq(Revision)
    <3>1. DOMAIN rows = 1..Len(rows) /\ Len(rows) \in Nat
      BY DEF TypeOK
    <3>2. rows' = [i \in 1..Len(rows) |-> IF i \in DOMAIN copy[c] THEN copy[c][i] ELSE rows[i]]
      BY <1>12, <3>1 DEF RenameSaves
    <3>3. rows' \in [1..Len(rows) -> Revision]
      BY <2>1, <3>2
    <3> QED
      BY <3>1, <3>3, SeqDef
  <2> QED
    BY <1>12, <2>2 DEF RenameSaves, TypeOK, At, cluster, handlers, Place
<1>13. CASE HandlerFails(c)
  BY <1>13 DEF HandlerFails, TypeOK, At, Note, cluster, handlers, Place, Disturbance
<1> QED
  BY <1>2, <1>3, <1>4, <1>5, <1>6, <1>7, <1>8, <1>9, <1>11, <1>12, <1>13, <1>15, <1>16

-----------------------------------------------------------------------------
(* Types, and that revisions stay as they were appended.                   *)

CopyKept(c) ==
  pc[c] = "renaming" =>
    \A i \in DOMAIN copy[c] : i \in DOMAIN rows /\ Kept(rows[i], copy[c][i])

\* What handlers have read is still in the rows, so that they may save or continue it.
RowsInvariant ==
  /\ TypeOK
  /\ \A c \in Change : /\ OwnRow(c) /\ CopyKept(c)
                       /\ pc[c] = "arrived" => seen[c] \in Numbers
                       /\ pc[c] \in {"read", "hook"} => mine[c].number \in Numbers

RowsStay == \A i \in DOMAIN rows : i \in DOMAIN rows' /\ Kept(rows[i], rows'[i])

LEMMA InitRows == Init => RowsInvariant
  BY InitType DEF Init, RowsInvariant, OwnRow, CopyKept

LEMMA TypeStep == RowsInvariant /\ [Next]_vars => TypeOK'
<1> SUFFICES ASSUME RowsInvariant, [Next]_vars PROVE TypeOK'
  OBVIOUS
<1>1. TypeOK /\ \A c \in Change : OwnRow(c)
  BY DEF RowsInvariant
<1>2. CASE UNCHANGED vars
  BY <1>1, <1>2 DEF vars, cluster, handlers, TypeOK
<1>3. CASE Next
  <2>1. PICK c \in Change :
          \/ \/ CreateStack(c) \/ LoadStack(c) \/ ReadLatest(c) \/ ReadTarget(c)
             \/ DeleteResources(c) \/ HookReads(c)
          \/ \/ AddApplication(c) \/ RemoveApplication(c) \/ PutSourceConfig(c)
             \/ RollbackStack(c) \/ AddEnvGroup(c) \/ RemoveEnvGroup(c)
          \/ \/ ApplyGroup(c) \/ DeleteGroup(c) \/ GroupFails(c) \/ Save(c) \/ LinkReleases(c)
             \/ DropStack(c) \/ StackGone(c) \/ UpgradeRelease(c) \/ UpdateGroup(c)
             \/ RolledOut(c) \/ HelmHookAppends(c) \/ GroupHookAppends(c) \/ RenameReads(c)
             \/ RenameSaves(c) \/ HandlerFails(c)
          \/ \E a \in App : \/ Install(c, a) \/ Uninstall(c, a) \/ UpdateTag(c, a)
                           \/ RollbackApp(c, a) \/ RolloutApp(c, a) \/ HelmFails(c, a)
    BY <1>3 DEF Next
  <2> QED
    BY <1>1, <2>1, ReadsType, HandlersType, WorkType, OtherType
<1> QED
  BY <1>2, <1>3

LEMMA AppendStays ==
  ASSUME TypeOK, NEW rev \in Revision, rows' = Append(rows, rev)
  PROVE  RowsStay /\ Len(rows) + 1 \in DOMAIN rows' /\ rows'[Len(rows) + 1] = rev
<1>1. rows \in Seq(Revision)
  BY DEF TypeOK
<1> QED
  BY <1>1, AppendFacts DEF RowsStay, Kept

\* What the invariant says of one request.
Request(c) ==
  /\ OwnRow(c) /\ CopyKept(c)
  /\ pc[c] = "arrived" => seen[c] \in Numbers
  /\ pc[c] \in {"read", "hook"} => mine[c].number \in Numbers

Untouched(d) ==
  /\ pc'[d] = pc[d] /\ kind'[d] = kind[d] /\ seen'[d] = seen[d] /\ mine'[d] = mine[d]
  /\ row'[d] = row[d] /\ todo'[d] = todo[d] /\ copy'[d] = copy[d]

LEMMA NumbersStay == RowsStay => Numbers \subseteq Numbers'
  BY DEF RowsStay, Kept, Numbers

LEMMA OthersStep ==
  ASSUME NEW d \in Change, Request(d), Untouched(d), RowsStay
  PROVE  Request(d)'
<1>1. Numbers \subseteq Numbers'
  BY NumbersStay
<1>2. OwnRow(d)'
  BY DEF Request, OwnRow, Untouched, RowsStay, Kept
<1>3. CopyKept(d)'
  BY DEF Request, CopyKept, Untouched, RowsStay, Kept
<1> QED
  BY <1>1, <1>2, <1>3 DEF Request, Untouched

\* A request that appends its revision.
LEMMA AppendsStep ==
  ASSUME TypeOK, NEW c \in Change, NEW k \in Operations, NEW rev \in Revision,
         NEW work \in SUBSET (App \cup {Group}), Appends(c, k, rev, work),
         k = "source" => \A a \in work \cap App : rev.apps[a] # 0
  PROVE  RowsStay /\ Request(c)' /\ \A d \in Change \ {c} : Untouched(d)
<1> DEFINE new == [rev EXCEPT !.number = @ + 1]
<1>1. new \in Revision /\ \A a \in App : new.apps[a] = rev.apps[a]
  BY DEF Revision
<1>2. rows' = Append(rows, new)
  BY DEF Appends
<1>3. RowsStay /\ Len(rows) + 1 \in DOMAIN rows' /\ rows'[Len(rows) + 1] = new
  <2> HIDE DEF new
  <2> QED
    BY <1>1, <1>2, AppendStays
<1>4. pc'[c] = "working" /\ kind'[c] = k /\ mine'[c] = new /\ row'[c] = Len(rows) + 1 /\ todo'[c] = work
  BY DEF Appends, At, TypeOK
<1>5. Request(c)'
  BY <1>1, <1>3, <1>4 DEF Request, OwnRow, CopyKept, Kept
<1>6. \A d \in Change \ {c} : Untouched(d)
  BY DEF Appends, At, Untouched, TypeOK
<1> QED
  BY <1>3, <1>5, <1>6

\* One that leaves the rows alone.
LEMMA ReadsStep ==
  ASSUME RowsInvariant, NEW c \in Change,
         \/ LoadStack(c) \/ ReadLatest(c) \/ ReadTarget(c) \/ DeleteResources(c) \/ HookReads(c)
  PROVE  rows' = rows /\ Request(c)' /\ \A d \in Change \ {c} : Untouched(d)
<1>1. TypeOK /\ Request(c)
  BY DEF RowsInvariant, Request
<1>2. \A i \in DOMAIN rows : rows[i].number \in Numbers /\ rows[i] \in Revision
  BY <1>1 DEF Numbers, TypeOK
<1>3. CASE LoadStack(c)
  BY <1>1, <1>3 DEF LoadStack, TypeOK, At, cluster, Request, OwnRow, CopyKept, Untouched, Numbers
<1>4. CASE ReadLatest(c)
  BY <1>1, <1>2, <1>4 DEF ReadLatest, TypeOK, At, cluster, Request, OwnRow, CopyKept, Untouched, Numbers
<1>5. CASE ReadTarget(c)
  <2>1. PICK i \in DOMAIN rows :
          mine' = [mine EXCEPT ![c] = [rows[i] EXCEPT !.number = seen[c], !.from = i]]
    BY <1>5 DEF ReadTarget
  <2>2. mine'[c].number = seen[c]
    BY <1>2, <2>1 DEF TypeOK, Revision, RowsInvariant
  <2>3. pc[c] = "arrived" /\ rows' = rows
    BY <1>5 DEF ReadTarget
  <2>4. mine'[c].number \in Numbers'
    BY <1>1, <2>2, <2>3 DEF Request, Numbers
  <2>5. pc'[c] = "read"
    BY <1>1, <1>5 DEF ReadTarget, At, TypeOK
  <2>6. \A d \in Change \ {c} : Untouched(d)
    BY <1>1, <1>5, <2>1 DEF ReadTarget, At, TypeOK, Untouched
  <2> QED
    BY <2>3, <2>4, <2>5, <2>6 DEF Request, OwnRow, CopyKept
<1>6. CASE DeleteResources(c)
  BY <1>1, <1>6 DEF DeleteResources, TypeOK, At, cluster, Request, OwnRow, CopyKept, Untouched
<1>7. CASE HookReads(c)
  BY <1>1, <1>2, <1>7 DEF HookReads, TypeOK, At, cluster, Request, OwnRow, CopyKept, Untouched, Numbers
<1> QED
  BY <1>3, <1>4, <1>5, <1>6, <1>7

LEMMA HandlersStep ==
  ASSUME RowsInvariant, NEW c \in Change,
         \/ AddApplication(c) \/ RemoveApplication(c) \/ PutSourceConfig(c)
         \/ RollbackStack(c) \/ AddEnvGroup(c) \/ RemoveEnvGroup(c)
  PROVE  RowsStay /\ Request(c)' /\ \A d \in Change \ {c} : Untouched(d)
<1> DEFINE new == Copied(c, "deploying")
<1>1. TypeOK
  BY DEF RowsInvariant
<1>2. new \in Revision /\ Copied(c, "deployed") \in Revision
  BY <1>1, CopiedType DEF Status
<1>3. \A a \in AppsOf(mine[c]) : new.apps[a] # 0
  <2>1. mine[c] \in Revision
    BY <1>1 DEF TypeOK
  <2> QED
    BY <2>1 DEF AppsOf, Copied, Revision
<1> HIDE DEF new
<1>4. \A a \in App : [new EXCEPT !.apps[a] = 1] \in Revision /\ [new EXCEPT !.apps[a] = 0] \in Revision
  BY <1>2 DEF Revision
<1>5. [Copied(c, "deployed") EXCEPT !.env = 1] \in Revision /\ [new EXCEPT !.env = 0] \in Revision
  BY <1>2 DEF Revision
<1>6. AppsOf(mine[c]) \in SUBSET (App \cup {Group}) /\ {Group} \in SUBSET (App \cup {Group})
  BY DEF AppsOf
<1>7. \A a \in App : {a} \in SUBSET (App \cup {Group})
  OBVIOUS
<1>8. {"add", "remove", "source", "rollback", "addGroup", "removeGroup"} \subseteq Operations
  BY DEF Operations
<1>9. CASE AddApplication(c)
  BY <1>1, <1>4, <1>7, <1>8, <1>9, AppendsStep DEF AddApplication, new
<1>10. CASE RemoveApplication(c)
  BY <1>1, <1>4, <1>7, <1>8, <1>10, AppendsStep DEF RemoveApplication, new
<1>11. CASE PutSourceConfig(c)
  BY <1>1, <1>2, <1>3, <1>6, <1>8, <1>11, AppendsStep DEF PutSourceConfig, new
<1>12. CASE RollbackStack(c)
  BY <1>1, <1>2, <1>6, <1>8, <1>12, AppendsStep DEF RollbackStack, new
<1>13. CASE AddEnvGroup(c)
  BY <1>1, <1>5, <1>6, <1>8, <1>13, AppendsStep DEF AddEnvGroup
<1>14. CASE RemoveEnvGroup(c)
  BY <1>1, <1>5, <1>6, <1>8, <1>14, AppendsStep DEF RemoveEnvGroup, new
<1> QED
  BY <1>9, <1>10, <1>11, <1>12, <1>13, <1>14

LEMMA CreateStep ==
  ASSUME RowsInvariant, NEW c \in Change, CreateStack(c)
  PROVE  RowsStay /\ Request(c)' /\ \A d \in Change \ {c} : Untouched(d)
<1>1. TypeOK
  BY DEF RowsInvariant
<1>2. PICK apps \in SUBSET App, env \in 0..1 :
        LET first == [Blank EXCEPT !.number = 1, !.env = env,
                                   !.apps = [a \in App |-> IF a \in apps THEN 1 ELSE 0]]
        IN /\ rows' = Append(rows, first)
           /\ mine' = [mine EXCEPT ![c] = first]
           /\ todo' = [todo EXCEPT ![c] = apps \cup (IF env = 1 THEN {Group} ELSE {})]
  BY DEF CreateStack
<1> DEFINE first == [Blank EXCEPT !.number = 1, !.env = env,
                                  !.apps = [a \in App |-> IF a \in apps THEN 1 ELSE 0]]
<1>3. first \in Revision
  <2>1. [a \in App |-> IF a \in apps THEN 1 ELSE 0] \in [App -> Nat] /\ env \in Nat
    OBVIOUS
  <2> QED
    BY <2>1, BlankType DEF Blank, Revision
<1>4. rows' = Append(rows, first) /\ mine' = [mine EXCEPT ![c] = first]
  BY <1>2
<1> HIDE DEF first
<1>5. RowsStay /\ Len(rows) + 1 \in DOMAIN rows' /\ rows'[Len(rows) + 1] = first
  BY <1>1, <1>3, <1>4, AppendStays
<1>6. pc'[c] = "working" /\ kind'[c] = "create" /\ mine'[c] = first /\ row'[c] = Len(rows) + 1
  BY <1>1, <1>4 DEF CreateStack, At, TypeOK
<1>7. Request(c)'
  BY <1>5, <1>6 DEF Request, OwnRow, CopyKept, Kept
<1>8. \A d \in Change \ {c} : Untouched(d)
  BY <1>1, <1>2 DEF CreateStack, At, Untouched, TypeOK
<1> QED
  BY <1>5, <1>7, <1>8

\* What is done in the cluster leaves the rows alone, and no application of a source
\* update is counted down to none.
LEMMA WorkStep ==
  ASSUME RowsInvariant, NEW c \in Change, NEW a \in App,
         \/ Install(c, a) \/ Uninstall(c, a) \/ UpdateTag(c, a) \/ RollbackApp(c, a)
         \/ RolloutApp(c, a) \/ HelmFails(c, a)
  PROVE  rows' = rows /\ Request(c)' /\ \A d \in Change \ {c} : Untouched(d)
<1> DEFINE counted == [mine[c] EXCEPT !.apps[a] = @ + 1]
<1>1. TypeOK /\ Request(c)
  BY DEF RowsInvariant, Request
<1>2. /\ rows' = rows /\ pc' = pc /\ kind' = kind /\ seen' = seen /\ row' = row /\ copy' = copy
      /\ pc[c] = "working" /\ a \in todo[c] /\ todo' = [todo EXCEPT ![c] = @ \ {a}]
  BY DEF Install, Uninstall, UpdateTag, RollbackApp, RolloutApp, HelmFails, Works
<1>3. \/ mine' = mine
      \/ kind[c] = "source" /\ mine' = [mine EXCEPT ![c] = counted]
  BY DEF Install, Uninstall, UpdateTag, RollbackApp, RolloutApp, HelmFails, Works
<1>4. mine[c] \in Revision /\ mine \in [Change -> Revision] /\ todo \in [Change -> SUBSET (App \cup {Group})]
  BY <1>1 DEF TypeOK
<1>5. counted.number = mine[c].number /\ \A b \in App : counted.apps[b] = IF b = a THEN mine[c].apps[b] + 1 ELSE mine[c].apps[b]
  BY <1>4 DEF Revision
<1>6. \A b \in App : mine[c].apps[b] \in Nat
  BY <1>4 DEF Revision
<1> HIDE DEF counted
<1>7. todo'[c] = todo[c] \ {a}
  BY <1>2, <1>4
<1>8. CASE mine' = mine
  <2>1. OwnRow(c)'
    BY <1>1, <1>2, <1>7, <1>8 DEF Request, OwnRow, Kept
  <2> QED
    BY <1>1, <1>2, <1>8, <2>1 DEF Request, CopyKept, Untouched, Numbers
<1>9. CASE kind[c] = "source" /\ mine' = [mine EXCEPT ![c] = counted]
  <2>1. mine'[c] = counted
    BY <1>4, <1>9
  <2>2. /\ row[c] \in DOMAIN rows /\ Kept(rows[row[c]], mine[c])
        /\ \A b \in todo[c] \cap App : mine[c].apps[b] # 0
    BY <1>1, <1>2, <1>9 DEF Request, OwnRow
  <2>3. \A b \in App : counted.apps[b] = 0 <=> mine[c].apps[b] = 0
    BY <1>2, <1>5, <1>6, <2>2
  <2>4. OwnRow(c)'
    BY <1>2, <1>5, <1>7, <2>1, <2>2, <2>3 DEF OwnRow, Kept
  <2> QED
    BY <1>1, <1>2, <1>4, <1>9, <2>4 DEF Request, CopyKept, Untouched, Numbers
<1> QED
  BY <1>3, <1>8, <1>9

LEMMA HookStep ==
  ASSUME RowsInvariant, NEW c \in Change, NEW apps \in [App -> Nat], NEW env \in Nat,
         HookAppends(c, apps, env)
  PROVE  RowsStay /\ Request(c)' /\ \A d \in Change \ {c} : Untouched(d)
<1> DEFINE new == [mine[c] EXCEPT !.number = @ + 1, !.status = "deployed", !.env = env,
                                  !.apps = apps, !.ran = Running, !.from = 0]
<1>1. TypeOK
  BY DEF RowsInvariant
<1>2. rows' = Append(rows, new) \/ rows' = rows
  BY DEF HookAppends
<1>3. new \in Revision
  <2> DEFINE first == [mine[c] EXCEPT !.number = @ + 1, !.status = "deployed", !.env = env]
  <2>1. mine[c] \in Revision
    BY <1>1 DEF TypeOK
  <2>2. first \in Revision
    <3>1. mine[c].number + 1 \in Nat /\ "deployed" \in Status
      BY <2>1 DEF Revision, Status
    <3> QED
      BY <2>1, <3>1 DEF Revision
  <2> HIDE DEF first
  <2>3. [first EXCEPT !.apps = apps, !.ran = Running, !.from = 0] \in Revision
    BY <1>1, <2>2, RunningType DEF Revision
  <2> QED
    BY <2>3 DEF first
<1> HIDE DEF new
<1>4. RowsStay
  BY <1>1, <1>2, <1>3, AppendStays DEF RowsStay, Kept
<1>5. pc'[c] = "ended" /\ \A d \in Change \ {c} : Untouched(d)
  BY <1>1 DEF HookAppends, At, handlers, Untouched, TypeOK
<1> QED
  BY <1>4, <1>5 DEF Request, OwnRow, CopyKept

\* Whoever saves one revision, or all that it has read, saves what is there already.
LEMMA SaveStep ==
  ASSUME RowsInvariant, NEW c \in Change, Save(c) \/ RenameSaves(c)
  PROVE  RowsStay /\ Request(c)' /\ \A d \in Change \ {c} : Untouched(d)
<1>1. TypeOK /\ Request(c)
  BY DEF RowsInvariant, Request
<1>2. CASE Save(c)
  <2>1. PICK status \in Status :
          rows' = [rows EXCEPT ![row[c]] = [mine[c] EXCEPT !.status = status, !.ran = Running]]
    BY <1>2 DEF Save, Status
  <2>2. mine[c] \in Revision
    BY <1>1 DEF TypeOK
  <2> DEFINE new == [mine[c] EXCEPT !.status = status, !.ran = Running]
  <2>3. new.number = mine[c].number /\ new.apps = mine[c].apps
    BY <2>2 DEF Revision
  <2>4. rows' = [rows EXCEPT ![row[c]] = new]
    BY <2>1
  <2> HIDE DEF new
  <2>5. row[c] \in DOMAIN rows /\ Kept(rows[row[c]], mine[c])
    BY <1>1, <1>2 DEF Save, Request, OwnRow
  <2>6. RowsStay
    BY <1>1, <2>3, <2>4, <2>5 DEF RowsStay, Kept, TypeOK
  <2>7. pc'[c] \in {"linking", "ended"} /\ \A d \in Change \ {c} : Untouched(d)
    BY <1>1, <1>2 DEF Save, At, handlers, Untouched, TypeOK
  <2> QED
    BY <2>6, <2>7 DEF Request, OwnRow, CopyKept
<1>3. CASE RenameSaves(c)
  <2>1. RowsStay
    BY <1>1, <1>3 DEF RenameSaves, Request, CopyKept, RowsStay, Kept
  <2>2. pc'[c] = "ended" /\ \A d \in Change \ {c} : Untouched(d)
    BY <1>1, <1>3 DEF RenameSaves, At, handlers, Untouched, TypeOK
  <2> QED
    BY <2>1, <2>2 DEF Request, OwnRow, CopyKept
<1> QED
  BY <1>2, <1>3

LEMMA OtherStep ==
  ASSUME RowsInvariant, NEW c \in Change,
         \/ ApplyGroup(c) \/ DeleteGroup(c) \/ GroupFails(c) \/ LinkReleases(c)
         \/ DropStack(c) \/ StackGone(c) \/ UpgradeRelease(c) \/ UpdateGroup(c)
         \/ RolledOut(c) \/ RenameReads(c) \/ HandlerFails(c)
  PROVE  rows' = rows /\ Request(c)' /\ \A d \in Change \ {c} : Untouched(d)
<1>1. TypeOK /\ Request(c)
  BY DEF RowsInvariant, Request
<1>2. CASE ApplyGroup(c) \/ DeleteGroup(c) \/ GroupFails(c)
  <2>1. /\ rows' = rows /\ pc' = pc /\ kind' = kind /\ mine' = mine /\ row' = row /\ pc[c] = "working"
        /\ todo'[c] \subseteq todo[c]
        /\ seen' = seen /\ copy' = copy /\ \A d \in Change \ {c} : todo'[d] = todo[d]
    BY <1>1, <1>2 DEF ApplyGroup, DeleteGroup, GroupFails, Works, TypeOK, cluster
  <2> QED
    BY <1>1, <2>1 DEF Request, OwnRow, CopyKept, Untouched, Kept, Numbers
<1>3. CASE LinkReleases(c) \/ DropStack(c) \/ StackGone(c) \/ HandlerFails(c)
  BY <1>1, <1>3 DEF LinkReleases, DropStack, StackGone, HandlerFails, At, handlers, TypeOK,
                    Request, OwnRow, CopyKept, Untouched
<1>4. CASE RolledOut(c)
  BY <1>1, <1>4 DEF RolledOut, At, handlers, TypeOK, Request, OwnRow, CopyKept, Untouched
<1>5. CASE UpgradeRelease(c)
  <2>1. PICK a \in Installed :
          /\ seen' = [seen EXCEPT ![c] = Len(history[a]) + 1]
          /\ todo' = [todo EXCEPT ![c] = {a}]
          /\ At(c, IF a \in linked THEN "upgraded" ELSE "ended")
    BY <1>5 DEF UpgradeRelease
  <2>2. pc'[c] \in {"upgraded", "ended"}
    BY <1>1, <2>1 DEF At, TypeOK
  <2>3. \A d \in Change \ {c} : Untouched(d)
    BY <1>1, <1>5, <2>1 DEF UpgradeRelease, At, TypeOK, Untouched
  <2> QED
    BY <1>5, <2>2, <2>3 DEF UpgradeRelease, Request, OwnRow, CopyKept
<1>6. CASE UpdateGroup(c)
  BY <1>1, <1>6 DEF UpdateGroup, At, TypeOK, Request, OwnRow, CopyKept, Untouched
<1>7. CASE RenameReads(c)
  <2>1. rows' = rows /\ copy'[c] = rows /\ pc'[c] = "renaming"
    BY <1>1, <1>7 DEF RenameReads, At, TypeOK
  <2>2. \A d \in Change \ {c} : Untouched(d)
    BY <1>1, <1>7 DEF RenameReads, At, TypeOK, Untouched
  <2> QED
    BY <2>1, <2>2 DEF Request, OwnRow, CopyKept, Kept
<1> QED
  BY <1>2, <1>3, <1>4, <1>5, <1>6, <1>7

LEMMA RowsStep == RowsInvariant /\ [Next]_vars => RowsInvariant' /\ RowsStay
<1> SUFFICES ASSUME RowsInvariant, [Next]_vars PROVE RowsInvariant' /\ RowsStay
  OBVIOUS
<1>1. TypeOK' /\ \A c \in Change : Request(c)
  BY TypeStep DEF RowsInvariant, Request
<1>2. CASE UNCHANGED vars
  <2>1. RowsStay
    BY <1>2 DEF vars, RowsStay, Kept
  <2>2. \A c \in Change : Untouched(c)
    BY <1>2 DEF vars, handlers, Untouched
  <2> QED
    BY <1>1, <2>1, <2>2, OthersStep DEF RowsInvariant, Request
<1>3. ASSUME NEW c \in Change, rows' = rows \/ RowsStay, Request(c)', \A d \in Change \ {c} : Untouched(d)
      PROVE  RowsInvariant' /\ RowsStay
  <2>1. RowsStay
    BY <1>3 DEF RowsStay, Kept
  <2>2. \A d \in Change : Request(d)'
    BY <1>1, <1>3, <2>1, OthersStep
  <2> QED
    BY <1>1, <2>1, <2>2 DEF RowsInvariant, Request
<1>4. CASE Next
  <2>1. PICK c \in Change :
          \/ CreateStack(c)
          \/ LoadStack(c) \/ ReadLatest(c) \/ ReadTarget(c) \/ DeleteResources(c) \/ HookReads(c)
          \/ \/ AddApplication(c) \/ RemoveApplication(c) \/ PutSourceConfig(c)
             \/ RollbackStack(c) \/ AddEnvGroup(c) \/ RemoveEnvGroup(c)
          \/ Save(c) \/ RenameSaves(c)
          \/ HelmHookAppends(c) \/ GroupHookAppends(c)
          \/ \/ ApplyGroup(c) \/ DeleteGroup(c) \/ GroupFails(c) \/ LinkReleases(c)
             \/ DropStack(c) \/ StackGone(c) \/ UpgradeRelease(c) \/ UpdateGroup(c)
             \/ RolledOut(c) \/ RenameReads(c) \/ HandlerFails(c)
          \/ \E a \in App : \/ Install(c, a) \/ Uninstall(c, a) \/ UpdateTag(c, a)
                           \/ RollbackApp(c, a) \/ RolloutApp(c, a) \/ HelmFails(c, a)
    BY <1>4 DEF Next
  <2>2. mine[c] \in Revision /\ seen[c] \in Nat
    BY DEF RowsInvariant, TypeOK
  <2>3. mine[c].apps \in [App -> Nat] /\ mine[c].env \in Nat
    BY <2>2 DEF Revision
  <2>4. HelmHookApps(c) \in [App -> Nat] /\ GroupHookApps(c) \in [App -> Nat] /\ GroupHookVersion(c) \in Nat
    BY <2>2, <2>3 DEF HelmHookApps, GroupHookApps, GroupHookVersion
  <2>5. HelmHookAppends(c) \/ GroupHookAppends(c) =>
          RowsStay /\ Request(c)' /\ \A d \in Change \ {c} : Untouched(d)
    BY <2>3, <2>4, HookStep DEF HelmHookAppends, GroupHookAppends
  <2>6. (rows' = rows \/ RowsStay) /\ Request(c)' /\ \A d \in Change \ {c} : Untouched(d)
    BY <2>1, <2>5, CreateStep, ReadsStep, HandlersStep, SaveStep, OtherStep, WorkStep
  <2> QED
    BY <1>3, <2>6
<1> QED
  BY <1>2, <1>4

\* Every variable has its type: also the row a handler saves its outcome in is one there is.
THEOREM StackTypeCorrect == Spec => []TypeOK
<1>1. Spec => []RowsInvariant
  BY InitRows, RowsStep, PTL DEF Spec
<1>2. RowsInvariant => TypeOK
  BY DEF RowsInvariant
<1> QED
  BY <1>1, <1>2, PTL

\* A revision is never dropped, renumbered, or given or deprived of an application,
\* however many requests overlap and whatever fails.
THEOREM RevisionsAreKept == Spec => RevisionsStay
<1>1. RowsInvariant /\ [Next]_vars =>
        [\A i \in DOMAIN rows :
           /\ i \in DOMAIN rows'
           /\ rows'[i].number = rows[i].number
           /\ \A a \in App : rows'[i].apps[a] = 0 <=> rows[i].apps[a] = 0]_vars
  BY RowsStep DEF RowsStay, Kept
<1>2. Spec => []RowsInvariant
  BY InitRows, RowsStep, PTL DEF Spec
<1> QED
  BY <1>1, <1>2, PTL DEF Spec, RevisionsStay

-----------------------------------------------------------------------------
(* There is no gap in the numbers.                                         *)

\* The rows stay as many, or grow by one that continues another.
Grows ==
  \/ DOMAIN rows' = DOMAIN rows
  \/ \E rev \in Revision : /\ rows' = Append(rows, rev)
                           /\ rev.number = 1 \/ rev.number - 1 \in Numbers

LEMMA AppendsGrows ==
  ASSUME NEW c \in Change, NEW k, NEW rev \in Revision, NEW work, Appends(c, k, rev, work),
         rev.number \in Numbers
  PROVE  Grows
<1> DEFINE new == [rev EXCEPT !.number = @ + 1]
<1>1. new \in Revision /\ new.number - 1 = rev.number
  BY DEF Revision
<1>2. rows' = Append(rows, new)
  BY DEF Appends
<1> HIDE DEF new
<1> QED
  BY <1>1, <1>2 DEF Grows

LEMMA HandlersGrow ==
  ASSUME RowsInvariant, NEW c \in Change,
         \/ AddApplication(c) \/ RemoveApplication(c) \/ PutSourceConfig(c)
         \/ RollbackStack(c) \/ AddEnvGroup(c) \/ RemoveEnvGroup(c)
  PROVE  Grows
<1>1. mine[c] \in Revision /\ mine[c].number \in Numbers
  BY DEF RowsInvariant, TypeOK, AddApplication, RemoveApplication, PutSourceConfig, RollbackStack,
         AddEnvGroup, RemoveEnvGroup, Requests
<1> DEFINE new == Copied(c, "deploying")
           old == Copied(c, "deployed")
<1>2. new \in Revision /\ old \in Revision
  BY CopiedType DEF Status, RowsInvariant
<1>3. new.number = mine[c].number /\ old.number = mine[c].number
  BY <1>1 DEF Copied, Revision
<1> HIDE DEF new, old
<1>4. \A a \in App, n \in Nat : /\ [new EXCEPT !.apps[a] = n] \in Revision
                               /\ [new EXCEPT !.apps[a] = n].number = mine[c].number
  BY <1>2, <1>3 DEF Revision
<1>5. \A n \in Nat : /\ [new EXCEPT !.env = n] \in Revision /\ [old EXCEPT !.env = n] \in Revision
                    /\ [new EXCEPT !.env = n].number = mine[c].number
                    /\ [old EXCEPT !.env = n].number = mine[c].number
  BY <1>2, <1>3 DEF Revision
<1>6. CASE AddApplication(c)
  BY <1>1, <1>4, <1>6, AppendsGrows DEF AddApplication, new
<1>7. CASE RemoveApplication(c)
  BY <1>1, <1>4, <1>7, AppendsGrows DEF RemoveApplication, new
<1>8. CASE PutSourceConfig(c)
  BY <1>1, <1>2, <1>3, <1>8, AppendsGrows DEF PutSourceConfig, new
<1>9. CASE RollbackStack(c)
  BY <1>1, <1>2, <1>3, <1>9, AppendsGrows DEF RollbackStack, new
<1>10. CASE AddEnvGroup(c)
  BY <1>1, <1>5, <1>10, AppendsGrows DEF AddEnvGroup, old
<1>11. CASE RemoveEnvGroup(c)
  BY <1>1, <1>5, <1>11, AppendsGrows DEF RemoveEnvGroup, new
<1> QED
  BY <1>6, <1>7, <1>8, <1>9, <1>10, <1>11

LEMMA HookGrows ==
  ASSUME RowsInvariant, NEW c \in Change, NEW apps \in [App -> Nat], NEW env \in Nat,
         HookAppends(c, apps, env)
  PROVE  Grows
<1> DEFINE first == [mine[c] EXCEPT !.number = @ + 1, !.status = "deployed", !.env = env]
           new == [first EXCEPT !.apps = apps, !.ran = Running, !.from = 0]
<1>1. mine[c] \in Revision /\ mine[c].number \in Numbers
  BY DEF RowsInvariant, TypeOK, HookAppends
<1>2. first \in Revision /\ first.number = mine[c].number + 1
  <2>1. mine[c].number + 1 \in Nat /\ "deployed" \in Status
    BY <1>1 DEF Revision, Status
  <2> QED
    BY <1>1, <2>1 DEF Revision
<1>3. rows' = Append(rows, new) \/ rows' = rows
  BY DEF HookAppends
<1> HIDE DEF first
<1>4. new \in Revision /\ new.number = mine[c].number + 1
  BY <1>2, RunningType DEF Revision, RowsInvariant
<1> HIDE DEF new
<1>5. new.number - 1 \in Numbers
  <2>1. mine[c].number \in Nat
    BY <1>1 DEF Revision
  <2> QED
    BY <1>1, <1>4, <2>1
<1> QED
  BY <1>3, <1>4, <1>5 DEF Grows

LEMMA CreateGrows ==
  ASSUME NEW c \in Change, CreateStack(c)
  PROVE  Grows
<1>1. PICK apps \in SUBSET App, env \in 0..1 :
        rows' = Append(rows, [Blank EXCEPT !.number = 1, !.env = env,
                                           !.apps = [a \in App |-> IF a \in apps THEN 1 ELSE 0]])
  BY DEF CreateStack
<1> DEFINE first == [Blank EXCEPT !.number = 1, !.env = env,
                                  !.apps = [a \in App |-> IF a \in apps THEN 1 ELSE 0]]
<1>2. first \in Revision /\ first.number = 1
  <2>1. [a \in App |-> IF a \in apps THEN 1 ELSE 0] \in [App -> Nat] /\ env \in Nat
    OBVIOUS
  <2> QED
    BY <2>1, BlankType DEF Blank, Revision
<1> QED
  BY <1>1, <1>2 DEF Grows

LEMMA GrowsStep == RowsInvariant /\ [Next]_vars => Grows
<1> SUFFICES ASSUME RowsInvariant, [Next]_vars PROVE Grows
  OBVIOUS
<1>1. CASE UNCHANGED vars
  BY <1>1 DEF vars, Grows
<1>2. CASE Next
  <2>1. PICK c \in Change :
          \/ CreateStack(c)
          \/ LoadStack(c) \/ ReadLatest(c) \/ ReadTarget(c) \/ DeleteResources(c) \/ HookReads(c)
          \/ \/ AddApplication(c) \/ RemoveApplication(c) \/ PutSourceConfig(c)
             \/ RollbackStack(c) \/ AddEnvGroup(c) \/ RemoveEnvGroup(c)
          \/ Save(c) \/ RenameSaves(c)
          \/ HelmHookAppends(c) \/ GroupHookAppends(c)
          \/ \/ ApplyGroup(c) \/ DeleteGroup(c) \/ GroupFails(c) \/ LinkReleases(c)
             \/ DropStack(c) \/ StackGone(c) \/ UpgradeRelease(c) \/ UpdateGroup(c)
             \/ RolledOut(c) \/ RenameReads(c) \/ HandlerFails(c)
          \/ \E a \in App : \/ Install(c, a) \/ Uninstall(c, a) \/ UpdateTag(c, a)
                           \/ RollbackApp(c, a) \/ RolloutApp(c, a) \/ HelmFails(c, a)
    BY <1>2 DEF Next
  <2>2. CASE Save(c) \/ RenameSaves(c)
    BY <2>2 DEF Save, RenameSaves, Grows, RowsInvariant, TypeOK
  <2>3. CASE HelmHookAppends(c) \/ GroupHookAppends(c)
    <3>1. mine[c] \in Revision /\ seen[c] \in Nat
      BY DEF RowsInvariant, TypeOK
    <3>2. mine[c].apps \in [App -> Nat] /\ mine[c].env \in Nat
      BY <3>1 DEF Revision
    <3>3. HelmHookApps(c) \in [App -> Nat] /\ GroupHookApps(c) \in [App -> Nat] /\ GroupHookVersion(c) \in Nat
      BY <3>1, <3>2 DEF HelmHookApps, GroupHookApps, GroupHookVersion
    <3> QED
      BY <2>3, <3>2, <3>3, HookGrows DEF HelmHookAppends, GroupHookAppends
  <2>4. rows' = rows => Grows
    BY DEF Grows
  <2> QED
    BY <2>1, <2>2, <2>3, <2>4, CreateGrows, HandlersGrow, ReadsStep, OtherStep, WorkStep
<1> QED
  BY <1>1, <1>2

LEMMA GapStep == RowsInvariant /\ NumbersWithoutGap /\ [Next]_vars => NumbersWithoutGap'
<1> SUFFICES ASSUME RowsInvariant, NumbersWithoutGap, [Next]_vars PROVE NumbersWithoutGap'
  OBVIOUS
<1>1. RowsStay /\ Grows /\ rows \in Seq(Revision)
  BY RowsStep, GrowsStep DEF RowsInvariant, TypeOK
<1>2. CASE DOMAIN rows' = DOMAIN rows
  BY <1>1, <1>2 DEF RowsStay, Kept, NumbersWithoutGap
<1>3. ASSUME NEW rev \in Revision, rows' = Append(rows, rev),
             rev.number = 1 \/ rev.number - 1 \in Numbers
      PROVE  NumbersWithoutGap'
  <2>1. /\ DOMAIN rows = 1..Len(rows) /\ DOMAIN rows' = 1..(Len(rows) + 1) /\ Len(rows) \in Nat
        /\ \A i \in 1..Len(rows) : rows'[i] = rows[i]
        /\ rows'[Len(rows) + 1] = rev
    BY <1>1, <1>3, AppendFacts
  <2>2. ASSUME NEW i \in 1..Len(rows)
        PROVE  rows'[i].number = 1 \/ \E j \in 1..(i - 1) : rows'[j].number = rows'[i].number - 1
    BY <2>1, <2>2 DEF NumbersWithoutGap
  <2>3. rev.number = 1 \/ \E j \in 1..Len(rows) : rows'[j].number = rev.number - 1
    BY <1>3, <2>1 DEF Numbers
  <2> QED
    BY <2>1, <2>2, <2>3 DEF NumbersWithoutGap
<1> QED
  BY <1>1, <1>2, <1>3 DEF Grows

\* Every revision but the first continues one that was appended before it, so that there
\* is no gap in the numbers.
THEOREM NoGapInNumbers == Spec => []NumbersWithoutGap
<1>1. Init => NumbersWithoutGap
  BY DEF Init, NumbersWithoutGap
<1> QED
  BY <1>1, InitRows, RowsStep, GapStep, PTL DEF Spec

-----------------------------------------------------------------------------
(* Requests that do not overlap number the revisions in their order.       *)

\* What a request knows of the latest revision, as long as it is the only one.
Current(c) ==
  /\ pc[c] = "arrived" => seen[c] = Len(rows)
  /\ pc[c] \in {"read", "hook"} => mine[c].number = Len(rows)

Ordered == \A i \in DOMAIN rows : rows[i].number = i

Idle(d) == pc[d] \in {"new", "ended"}

AloneInvariant ==
  "overlap" \notin happened =>
    /\ Ordered
    /\ stack = "none" => Len(rows) = 0
    /\ \A c \in Change : Current(c) /\ (Idle(c) \/ \A d \in Change \ {c} : Idle(d))

\* Whoever takes a step is alone, before it and after.
LEMMA AloneStep ==
  ASSUME RowsInvariant, AloneInvariant, NEW c \in Change, "overlap" \notin happened',
         Begins(c, {}) \/ (pc[c] \notin {"new", "ended"} /\ happened \subseteq happened'),
         \A d \in Change \ {c} : Untouched(d)
  PROVE  "overlap" \notin happened /\ \A d \in Change \ {c} : Idle(d) /\ Idle(d)'
<1>1. "overlap" \notin happened
  BY DEF Begins
<1>2. \A d \in Change \ {c} : Idle(d)
  <2>1. CASE Begins(c, {})
    BY <2>1 DEF Begins, InFlight, Idle
  <2>2. CASE pc[c] \notin {"new", "ended"}
    BY <1>1, <2>2 DEF AloneInvariant, Idle
  <2> QED
    BY <2>1, <2>2
<1> QED
  BY <1>1, <1>2 DEF Idle, Untouched

\* In order, the latest revision is the last row.
LEMMA LatestIsLast ==
  ASSUME TypeOK, Ordered
  PROVE  /\ \A n : IsLatest(n) => n = Len(rows)
         /\ \A i \in DOMAIN rows : rows[i].number = i
<1>1. rows \in Seq(Revision) /\ DOMAIN rows = 1..Len(rows) /\ Len(rows) \in Nat
  BY DEF TypeOK
<1>2. Numbers = 1..Len(rows)
  BY <1>1 DEF Ordered, Numbers
<1> QED
  BY <1>1, <1>2 DEF IsLatest, Ordered

LEMMA AppendOrdered ==
  ASSUME TypeOK, Ordered, NEW rev \in Revision, rows' = Append(rows, rev), rev.number = Len(rows) + 1
  PROVE  Ordered'
<1>1. rows \in Seq(Revision)
  BY DEF TypeOK
<1>2. /\ DOMAIN rows = 1..Len(rows) /\ DOMAIN rows' = 1..(Len(rows) + 1)
      /\ \A i \in 1..Len(rows) : rows'[i] = rows[i]
      /\ rows'[Len(rows) + 1] = rev
  BY <1>1, AppendFacts
<1> QED
  BY <1>1, <1>2 DEF Ordered

\* The requests that append a revision.
LEMMA HandlerOrders ==
  ASSUME RowsInvariant, NEW c \in Change, Ordered, Current(c),
         \/ AddApplication(c) \/ RemoveApplication(c) \/ PutSourceConfig(c)
         \/ RollbackStack(c) \/ AddEnvGroup(c) \/ RemoveEnvGroup(c)
  PROVE  Ordered' /\ pc'[c] = "working" /\ stack' = "exists" /\ happened' = happened
                  /\ pc[c] = "read"
<1>1. pc[c] = "read" /\ mine[c] \in Revision /\ TypeOK
  BY DEF RowsInvariant, TypeOK, AddApplication, RemoveApplication, PutSourceConfig, RollbackStack,
         AddEnvGroup, RemoveEnvGroup, Requests
<1>2. mine[c].number = Len(rows)
  BY <1>1 DEF Current
<1> DEFINE new == Copied(c, "deploying")
           old == Copied(c, "deployed")
<1>3. new \in Revision /\ old \in Revision
  BY CopiedType DEF Status, RowsInvariant
<1>4. new.number = mine[c].number /\ old.number = mine[c].number
  BY <1>1 DEF Copied, Revision
<1> HIDE DEF new, old
<1>5. ASSUME NEW k, NEW rev \in Revision, NEW work, Appends(c, k, rev, work),
             rev.number = mine[c].number
      PROVE  Ordered' /\ pc'[c] = "working" /\ stack' = "exists" /\ happened' = happened
  <2> DEFINE next == [rev EXCEPT !.number = @ + 1]
  <2>1. next \in Revision /\ next.number = Len(rows) + 1
    BY <1>2, <1>5 DEF Revision
  <2>2. rows' = Append(rows, next)
    BY <1>5 DEF Appends
  <2> HIDE DEF next
  <2>3. Ordered'
    BY <1>1, <2>1, <2>2, AppendOrdered
  <2> QED
    BY <1>1, <1>5, <2>3 DEF Appends, At, TypeOK
<1>6. \A a \in App, n \in Nat : /\ [new EXCEPT !.apps[a] = n] \in Revision
                               /\ [new EXCEPT !.apps[a] = n].number = mine[c].number
  BY <1>3, <1>4 DEF Revision
<1>7. \A n \in Nat : /\ [new EXCEPT !.env = n] \in Revision /\ [old EXCEPT !.env = n] \in Revision
                    /\ [new EXCEPT !.env = n].number = mine[c].number
                    /\ [old EXCEPT !.env = n].number = mine[c].number
  BY <1>3, <1>4 DEF Revision
<1>8. CASE AddApplication(c)
  BY <1>1, <1>5, <1>6, <1>8 DEF AddApplication, new
<1>9. CASE RemoveApplication(c)
  BY <1>1, <1>5, <1>6, <1>9 DEF RemoveApplication, new
<1>10. CASE PutSourceConfig(c)
  BY <1>1, <1>3, <1>4, <1>5, <1>10 DEF PutSourceConfig, new
<1>11. CASE RollbackStack(c)
  BY <1>1, <1>3, <1>4, <1>5, <1>11 DEF RollbackStack, new
<1>12. CASE AddEnvGroup(c)
  BY <1>1, <1>5, <1>7, <1>12 DEF AddEnvGroup, old
<1>13. CASE RemoveEnvGroup(c)
  BY <1>1, <1>5, <1>7, <1>13 DEF RemoveEnvGroup, new
<1> QED
  BY <1>8, <1>9, <1>10, <1>11, <1>12, <1>13

LEMMA HookOrders ==
  ASSUME RowsInvariant, NEW c \in Change, NEW apps \in [App -> Nat], NEW env \in Nat,
         Ordered, Current(c), HookAppends(c, apps, env)
  PROVE  /\ Ordered' /\ pc[c] = "hook" /\ pc'[c] = "ended" /\ happened' = happened
         /\ stack' = stack /\ (stack = "none" => rows' = rows)
<1>1. mine[c] \in Revision /\ pc[c] = "hook" /\ TypeOK
  BY DEF RowsInvariant, TypeOK, HookAppends
<1> DEFINE first == [mine[c] EXCEPT !.number = @ + 1, !.status = "deployed", !.env = env]
           new == [first EXCEPT !.apps = apps, !.ran = Running, !.from = 0]
<1>2. first \in Revision /\ first.number = mine[c].number + 1
  <2>1. mine[c].number + 1 \in Nat /\ "deployed" \in Status
    BY <1>1 DEF Revision, Status
  <2> QED
    BY <1>1, <2>1 DEF Revision
<1>3. rows' = Append(rows, new) \/ rows' = rows
  BY DEF HookAppends
<1> HIDE DEF first
<1>4. new \in Revision /\ new.number = Len(rows) + 1
  BY <1>1, <1>2, RunningType DEF Revision, Current
<1> HIDE DEF new
<1>5. Ordered'
  BY <1>1, <1>3, <1>4, AppendOrdered DEF Ordered
<1> QED
  BY <1>1, <1>5 DEF HookAppends, At, TypeOK

\* What one step of c comes to when it is the only request.
Orders(c) == /\ Ordered' /\ Current(c)' /\ (stack' = "none" => Len(rows') = 0)

LEMMA CreateOrders ==
  ASSUME RowsInvariant, NEW c \in Change, Ordered, stack = "none" => Len(rows) = 0, CreateStack(c)
  PROVE  Orders(c)
<1>1. TypeOK /\ Len(rows) = 0 /\ stack' = "exists" /\ pc'[c] = "working"
  BY DEF RowsInvariant, CreateStack, At, TypeOK
<1>2. PICK apps \in SUBSET App, env \in 0..1 :
        rows' = Append(rows, [Blank EXCEPT !.number = 1, !.env = env,
                                           !.apps = [a \in App |-> IF a \in apps THEN 1 ELSE 0]])
  BY DEF CreateStack
<1> DEFINE first == [Blank EXCEPT !.number = 1, !.env = env,
                                  !.apps = [a \in App |-> IF a \in apps THEN 1 ELSE 0]]
<1>3. first \in Revision /\ first.number = 1
  <2>1. [a \in App |-> IF a \in apps THEN 1 ELSE 0] \in [App -> Nat] /\ env \in Nat
    OBVIOUS
  <2> QED
    BY <2>1, BlankType DEF Blank, Revision
<1>4. rows' = Append(rows, first)
  BY <1>2
<1> HIDE DEF first
<1> QED
  BY <1>1, <1>3, <1>4, AppendOrdered DEF Orders, Current

LEMMA ReadOrders ==
  ASSUME RowsInvariant, NEW c \in Change, Ordered, Current(c), stack = "none" => Len(rows) = 0,
         \/ LoadStack(c) \/ ReadLatest(c) \/ ReadTarget(c) \/ DeleteResources(c) \/ HookReads(c)
  PROVE  Orders(c)
<1>1. /\ TypeOK /\ \A n : IsLatest(n) => n = Len(rows)
      /\ \A i \in DOMAIN rows : rows[i].number = i /\ rows[i] \in Revision
  BY LatestIsLast DEF RowsInvariant, TypeOK
<1>2. CASE LoadStack(c)
  BY <1>1, <1>2 DEF LoadStack, At, TypeOK, Orders, Ordered, Current
<1>3. CASE ReadLatest(c)
  BY <1>1, <1>3 DEF ReadLatest, IsRowOf, At, TypeOK, Orders, Ordered, Current
<1>4. CASE ReadTarget(c)
  <2>1. PICK i \in DOMAIN rows :
          mine' = [mine EXCEPT ![c] = [rows[i] EXCEPT !.number = seen[c], !.from = i]]
    BY <1>4 DEF ReadTarget
  <2>2. mine'[c].number = seen[c]
    BY <1>1, <2>1 DEF TypeOK, Revision
  <2>3. pc[c] = "arrived" /\ rows' = rows /\ stack' = stack
    BY <1>4 DEF ReadTarget
  <2>4. pc'[c] = "read"
    BY <1>1, <1>4 DEF ReadTarget, At, TypeOK
  <2> QED
    BY <2>2, <2>3, <2>4 DEF Orders, Ordered, Current
<1>5. CASE DeleteResources(c)
  BY <1>1, <1>5 DEF DeleteResources, At, TypeOK, Orders, Ordered, Current
<1>6. CASE HookReads(c)
  <2>1. PICK i \in DOMAIN rows : IsLatest(rows[i].number) /\ mine' = [mine EXCEPT ![c] = rows[i]]
    BY <1>6 DEF HookReads
  <2>2. mine'[c].number = Len(rows)
    BY <1>1, <2>1 DEF TypeOK
  <2>3. pc'[c] = "hook" /\ rows' = rows /\ stack' = stack
    BY <1>1, <1>6 DEF HookReads, At, TypeOK
  <2> QED
    BY <2>2, <2>3 DEF Orders, Ordered, Current
<1> QED
  BY <1>2, <1>3, <1>4, <1>5, <1>6

LEMMA SaveOrders ==
  ASSUME RowsInvariant, NEW c \in Change, Ordered, stack = "none" => Len(rows) = 0,
         Save(c) \/ RenameSaves(c)
  PROVE  Orders(c)
<1>1. RowsStay /\ TypeOK /\ TypeOK'
  BY RowsStep DEF RowsInvariant, Next
<1>2. DOMAIN rows' = DOMAIN rows /\ stack' = stack /\ pc'[c] \in {"linking", "ended"}
  BY <1>1 DEF Save, RenameSaves, At, TypeOK
<1>3. Len(rows') = Len(rows)
  BY <1>1, <1>2 DEF TypeOK
<1> QED
  BY <1>1, <1>2, <1>3 DEF Orders, Ordered, Current, RowsStay, Kept

LEMMA OtherOrders ==
  ASSUME RowsInvariant, NEW c \in Change, Ordered, Current(c), stack = "none" => Len(rows) = 0,
         \/ ApplyGroup(c) \/ DeleteGroup(c) \/ GroupFails(c) \/ LinkReleases(c)
         \/ DropStack(c) \/ StackGone(c) \/ UpgradeRelease(c) \/ UpdateGroup(c)
         \/ RolledOut(c) \/ RenameReads(c) \/ HandlerFails(c)
         \/ \E a \in App : \/ Install(c, a) \/ Uninstall(c, a) \/ UpdateTag(c, a)
                          \/ RollbackApp(c, a) \/ RolloutApp(c, a) \/ HelmFails(c, a)
  PROVE  Orders(c)
<1>1. TypeOK
  BY DEF RowsInvariant
<1>2. rows' = rows /\ (stack' = "none" => stack = "none")
  BY DEF ApplyGroup, DeleteGroup, GroupFails, LinkReleases, DropStack, StackGone, UpgradeRelease,
         UpdateGroup, RolledOut, RenameReads, HandlerFails, Install, Uninstall, UpdateTag,
         RollbackApp, RolloutApp, HelmFails
<1>3. pc'[c] \notin {"arrived", "read", "hook"}
  <2>1. CASE UpgradeRelease(c)
    BY <1>1, <2>1 DEF UpgradeRelease, At, TypeOK
  <2>2. CASE UpdateGroup(c) \/ RolledOut(c)
    BY <1>1, <2>2 DEF UpdateGroup, RolledOut, At, TypeOK
  <2>3. CASE ~UpgradeRelease(c) /\ ~UpdateGroup(c) /\ ~RolledOut(c)
    BY <1>1, <2>3 DEF ApplyGroup, DeleteGroup, GroupFails, LinkReleases, DropStack, StackGone,
                      RenameReads, HandlerFails, Install, Uninstall, UpdateTag,
                      RollbackApp, RolloutApp, HelmFails, Works, At, TypeOK
  <2> QED
    BY <2>1, <2>2, <2>3
<1> QED
  BY <1>2, <1>3 DEF Orders, Ordered, Current

\* A step is one request's, which begins with it or is under way, and leaves the others alone.
LEMMA Steps ==
  ASSUME RowsInvariant, Next
  PROVE  \E c \in Change :
           /\ \/ CreateStack(c)
              \/ LoadStack(c) \/ ReadLatest(c) \/ ReadTarget(c) \/ DeleteResources(c) \/ HookReads(c)
              \/ \/ AddApplication(c) \/ RemoveApplication(c) \/ PutSourceConfig(c)
                 \/ RollbackStack(c) \/ AddEnvGroup(c) \/ RemoveEnvGroup(c)
              \/ Save(c) \/ RenameSaves(c)
              \/ HelmHookAppends(c) \/ GroupHookAppends(c)
              \/ \/ ApplyGroup(c) \/ DeleteGroup(c) \/ GroupFails(c) \/ LinkReleases(c)
                 \/ DropStack(c) \/ StackGone(c) \/ UpgradeRelease(c) \/ UpdateGroup(c)
                 \/ RolledOut(c) \/ RenameReads(c) \/ HandlerFails(c)
              \/ \E a \in App : \/ Install(c, a) \/ Uninstall(c, a) \/ UpdateTag(c, a)
                               \/ RollbackApp(c, a) \/ RolloutApp(c, a) \/ HelmFails(c, a)
           /\ \A d \in Change \ {c} : Untouched(d)
           /\ Begins(c, {}) \/ (pc[c] \notin {"new", "ended"} /\ happened \subseteq happened')
<1>1. PICK c \in Change :
        \/ CreateStack(c)
        \/ LoadStack(c) \/ ReadLatest(c) \/ ReadTarget(c) \/ DeleteResources(c) \/ HookReads(c)
        \/ \/ AddApplication(c) \/ RemoveApplication(c) \/ PutSourceConfig(c)
           \/ RollbackStack(c) \/ AddEnvGroup(c) \/ RemoveEnvGroup(c)
        \/ Save(c) \/ RenameSaves(c)
        \/ HelmHookAppends(c) \/ GroupHookAppends(c)
        \/ \/ ApplyGroup(c) \/ DeleteGroup(c) \/ GroupFails(c) \/ LinkReleases(c)
           \/ DropStack(c) \/ StackGone(c) \/ UpgradeRelease(c) \/ UpdateGroup(c)
           \/ RolledOut(c) \/ RenameReads(c) \/ HandlerFails(c)
        \/ \E a \in App : \/ Install(c, a) \/ Uninstall(c, a) \/ UpdateTag(c, a)
                         \/ RollbackApp(c, a) \/ RolloutApp(c, a) \/ HelmFails(c, a)
  BY DEF Next
<1>2. mine[c] \in Revision /\ seen[c] \in Nat
  BY DEF RowsInvariant, TypeOK
<1>3. mine[c].apps \in [App -> Nat] /\ mine[c].env \in Nat
  BY <1>2 DEF Revision
<1>4. HelmHookApps(c) \in [App -> Nat] /\ GroupHookApps(c) \in [App -> Nat] /\ GroupHookVersion(c) \in Nat
  BY <1>2, <1>3 DEF HelmHookApps, GroupHookApps, GroupHookVersion
<1>5. HelmHookAppends(c) \/ GroupHookAppends(c) => \A d \in Change \ {c} : Untouched(d)
  BY <1>3, <1>4, HookStep DEF HelmHookAppends, GroupHookAppends
<1>6. \A d \in Change \ {c} : Untouched(d)
  BY <1>1, <1>5, CreateStep, ReadsStep, HandlersStep, SaveStep, OtherStep, WorkStep
<1>7. Begins(c, {}) \/ (pc[c] \notin {"new", "ended"} /\ happened \subseteq happened')
  <2>1. CASE CreateStack(c) \/ LoadStack(c) \/ UpgradeRelease(c) \/ UpdateGroup(c)
    BY <2>1 DEF CreateStack, LoadStack, UpgradeRelease, UpdateGroup
  <2>2. CASE \/ ReadLatest(c) \/ ReadTarget(c) \/ DeleteResources(c) \/ HookReads(c)
             \/ AddApplication(c) \/ RemoveApplication(c) \/ PutSourceConfig(c)
             \/ RollbackStack(c) \/ AddEnvGroup(c) \/ RemoveEnvGroup(c)
             \/ Save(c) \/ RenameSaves(c) \/ HelmHookAppends(c) \/ GroupHookAppends(c)
    BY <2>2 DEF ReadLatest, ReadTarget, DeleteResources, HookReads, AddApplication,
                RemoveApplication, PutSourceConfig, RollbackStack, AddEnvGroup, RemoveEnvGroup,
                Requests, Appends, Save, RenameSaves, HelmHookAppends, GroupHookAppends,
                HookAppends, Note
  <2>3. CASE \/ ApplyGroup(c) \/ DeleteGroup(c) \/ GroupFails(c) \/ LinkReleases(c)
             \/ DropStack(c) \/ StackGone(c) \/ RolledOut(c) \/ RenameReads(c) \/ HandlerFails(c)
             \/ \E a \in App : \/ Install(c, a) \/ Uninstall(c, a) \/ UpdateTag(c, a)
                              \/ RollbackApp(c, a) \/ RolloutApp(c, a) \/ HelmFails(c, a)
    BY <2>3 DEF ApplyGroup, DeleteGroup, GroupFails, LinkReleases, DropStack, StackGone,
                RolledOut, RenameReads, HandlerFails, InFlight, Install, Uninstall, UpdateTag,
                RollbackApp, RolloutApp, HelmFails, Works, Note
  <2> QED
    BY <1>1, <2>1, <2>2, <2>3
<1> QED
  BY <1>1, <1>6, <1>7

LEMMA UniqueStep == RowsInvariant /\ AloneInvariant /\ [Next]_vars => AloneInvariant'
<1> SUFFICES ASSUME RowsInvariant, AloneInvariant, [Next]_vars, "overlap" \notin happened'
             PROVE  AloneInvariant'
  BY DEF AloneInvariant
<1>1. CASE UNCHANGED vars
  BY <1>1 DEF vars, handlers, AloneInvariant, Ordered, Current, Idle
<1>2. CASE Next
  <2>1. PICK c \in Change :
          /\ \/ CreateStack(c)
             \/ LoadStack(c) \/ ReadLatest(c) \/ ReadTarget(c) \/ DeleteResources(c) \/ HookReads(c)
             \/ \/ AddApplication(c) \/ RemoveApplication(c) \/ PutSourceConfig(c)
                \/ RollbackStack(c) \/ AddEnvGroup(c) \/ RemoveEnvGroup(c)
             \/ Save(c) \/ RenameSaves(c)
             \/ HelmHookAppends(c) \/ GroupHookAppends(c)
             \/ \/ ApplyGroup(c) \/ DeleteGroup(c) \/ GroupFails(c) \/ LinkReleases(c)
                \/ DropStack(c) \/ StackGone(c) \/ UpgradeRelease(c) \/ UpdateGroup(c)
                \/ RolledOut(c) \/ RenameReads(c) \/ HandlerFails(c)
             \/ \E a \in App : \/ Install(c, a) \/ Uninstall(c, a) \/ UpdateTag(c, a)
                              \/ RollbackApp(c, a) \/ RolloutApp(c, a) \/ HelmFails(c, a)
          /\ \A d \in Change \ {c} : Untouched(d)
          /\ Begins(c, {}) \/ (pc[c] \notin {"new", "ended"} /\ happened \subseteq happened')
    BY <1>2, Steps
  <2>2. mine[c] \in Revision /\ seen[c] \in Nat
    BY DEF RowsInvariant, TypeOK
  <2>3. mine[c].apps \in [App -> Nat] /\ mine[c].env \in Nat
    BY <2>2 DEF Revision
  <2>4. HelmHookApps(c) \in [App -> Nat] /\ GroupHookApps(c) \in [App -> Nat] /\ GroupHookVersion(c) \in Nat
    BY <2>2, <2>3 DEF HelmHookApps, GroupHookApps, GroupHookVersion
  <2>7. "overlap" \notin happened /\ \A d \in Change \ {c} : Idle(d) /\ Idle(d)'
    BY <2>1, AloneStep
  <2>8. Ordered /\ Current(c) /\ (stack = "none" => Len(rows) = 0)
    BY <2>7 DEF AloneInvariant
  <2>9. Orders(c)
    <3>1. CASE \/ AddApplication(c) \/ RemoveApplication(c) \/ PutSourceConfig(c)
               \/ RollbackStack(c) \/ AddEnvGroup(c) \/ RemoveEnvGroup(c)
      BY <2>8, <3>1, HandlerOrders DEF Orders, Current
    <3>2. CASE HelmHookAppends(c) \/ GroupHookAppends(c)
      <4>1. /\ Ordered' /\ pc'[c] = "ended" /\ stack' = stack /\ (stack = "none" => rows' = rows)
        BY <2>3, <2>4, <2>8, <3>2, HookOrders DEF HelmHookAppends, GroupHookAppends
      <4> QED
        BY <2>8, <4>1 DEF Orders, Current
    <3> QED
      BY <2>1, <2>8, <3>1, <3>2, CreateOrders, ReadOrders, SaveOrders, OtherOrders
  <2>10. \A d \in Change \ {c} : Current(d)'
    BY <2>7 DEF Idle, Current
  <2> QED
    BY <2>7, <2>9, <2>10 DEF AloneInvariant, Orders
<1> QED
  BY <1>1, <1>2

\* Requests that do not overlap give every revision a number of its own, in the order of
\* the rows, so that a rollback to a number means one revision.
THEOREM OrderedNumbers == Spec => []NumbersUnique
<1>1. Init => AloneInvariant
  BY DEF Init, AloneInvariant, Ordered, Current, Idle
<1>2. AloneInvariant => NumbersUnique
  BY DEF AloneInvariant, Ordered, NumbersUnique
<1> QED
  BY <1>1, <1>2, InitRows, RowsStep, UniqueStep, PTL DEF Spec

-----------------------------------------------------------------------------
(* The requests that append a revision.                                    *)

\* What k appends, of a copy of the revision that c has read, and what it then has to do.
Asks(c, k, rev, work) ==
  /\ rev.number = mine[c].number /\ (k # "addGroup" => rev.status = "deploying")
  /\ \A a \in App : rev.ran[a] = NoContent
  /\ k \notin {"add", "remove"} => rev.apps = mine[c].apps
  /\ k \notin {"addGroup", "removeGroup"} => rev.env = mine[c].env
  /\ IF k = "rollback" THEN kind[c] = "rollback" ELSE kind[c] = "none"
  /\ \/ k = "add" /\ \E a \in App : /\ work = {a} /\ mine[c].apps[a] = 0
                                    /\ rev.apps = [mine[c].apps EXCEPT ![a] = 1]
     \/ k = "remove" /\ \E a \in App : work = {a} /\ rev.apps = [mine[c].apps EXCEPT ![a] = 0]
     \/ k \in {"source", "rollback"} /\ work = AppsOf(mine[c])
     \/ k = "addGroup" /\ work = {Group} /\ rev.env = 1 /\ mine[c].env = 0
     \/ k = "removeGroup" /\ work = {Group} /\ rev.env = 0

LEMMA HandlerAppends ==
  ASSUME TypeOK, NEW c \in Change,
         \/ AddApplication(c) \/ RemoveApplication(c) \/ PutSourceConfig(c)
         \/ RollbackStack(c) \/ AddEnvGroup(c) \/ RemoveEnvGroup(c)
  PROVE  \E k \in Operations \ {"create", "delete", "group"}, rev \in Revision,
            work \in SUBSET (App \cup {Group}) :
           pc[c] = "read" /\ Appends(c, k, rev, work) /\ Asks(c, k, rev, work)
<1> DEFINE Result == \E k \in Operations \ {"create", "delete", "group"}, rev \in Revision,
                        work \in SUBSET (App \cup {Group}) :
                       pc[c] = "read" /\ Appends(c, k, rev, work) /\ Asks(c, k, rev, work)
           new == Copied(c, "deploying")
           old == Copied(c, "deployed")
<1>1. mine[c] \in Revision /\ new \in Revision /\ old \in Revision
  BY CopiedType DEF TypeOK, Status
<1>2. /\ new.number = mine[c].number /\ new.apps = mine[c].apps /\ new.env = mine[c].env
      /\ new.status = "deploying" /\ new.ran = [a \in App |-> NoContent]
      /\ old.number = mine[c].number /\ old.apps = mine[c].apps /\ old.env = mine[c].env
      /\ old.ran = [a \in App |-> NoContent]
  BY <1>1 DEF Copied, Revision
<1> HIDE DEF new, old, Result
<1>3. AppsOf(mine[c]) \in SUBSET (App \cup {Group}) /\ {Group} \in SUBSET (App \cup {Group})
      /\ \A a \in App : {a} \in SUBSET (App \cup {Group})
  BY DEF AppsOf
<1>4. ASSUME NEW k \in {"add", "remove", "source", "rollback", "addGroup", "removeGroup"},
             NEW rev \in Revision, NEW work \in SUBSET (App \cup {Group}),
             pc[c] = "read", Appends(c, k, rev, work), Asks(c, k, rev, work)
      PROVE  Result
  <2>1. k \in Operations \ {"create", "delete", "group"}
    BY DEF Operations
  <2> QED
    BY <1>4, <2>1 DEF Result
<1>5. \A a \in App, n \in {0, 1} :
        /\ [new EXCEPT !.apps[a] = n] \in Revision
        /\ [new EXCEPT !.apps[a] = n].number = mine[c].number
        /\ [new EXCEPT !.apps[a] = n].apps = [mine[c].apps EXCEPT ![a] = n]
        /\ [new EXCEPT !.apps[a] = n].env = mine[c].env
        /\ [new EXCEPT !.apps[a] = n].status = "deploying"
        /\ [new EXCEPT !.apps[a] = n].ran = [b \in App |-> NoContent]
  BY <1>1, <1>2 DEF Revision
<1>6. /\ [new EXCEPT !.env = 0] \in Revision /\ [new EXCEPT !.env = 0].number = mine[c].number
      /\ [new EXCEPT !.env = 0].apps = mine[c].apps /\ [new EXCEPT !.env = 0].env = 0
      /\ [new EXCEPT !.env = 0].status = "deploying"
      /\ [new EXCEPT !.env = 0].ran = [b \in App |-> NoContent]
  BY <1>1, <1>2 DEF Revision
<1>7. /\ [old EXCEPT !.env = 1] \in Revision /\ [old EXCEPT !.env = 1].number = mine[c].number
      /\ [old EXCEPT !.env = 1].apps = mine[c].apps /\ [old EXCEPT !.env = 1].env = 1
      /\ [old EXCEPT !.env = 1].ran = [b \in App |-> NoContent]
  BY <1>1, <1>2 DEF Revision
<1>8. CASE AddApplication(c)
  <2>1. PICK a \in App \ AppsOf(mine[c]) : Appends(c, "add", [new EXCEPT !.apps[a] = 1], {a})
    BY <1>8 DEF AddApplication, new
  <2> DEFINE rev == [new EXCEPT !.apps[a] = 1]
  <2>3. \E b \in App : {a} = {b} /\ mine[c].apps[b] = 0 /\ rev.apps = [mine[c].apps EXCEPT ![b] = 1]
    BY <1>5, <2>1 DEF AppsOf
  <2>4. /\ rev.number = mine[c].number /\ rev.status = "deploying" /\ rev.env = mine[c].env
        /\ \A b \in App : rev.ran[b] = NoContent
    <3>1. rev.ran = [b \in App |-> NoContent]
      BY <1>5, <2>1
    <3> QED
      BY <1>5, <2>1, <3>1
  <2>2. Asks(c, "add", rev, {a})
    <3> HIDE DEF rev
    <3> QED
      BY <1>8, <2>3, <2>4 DEF Asks, AddApplication, Requests
  <2> QED
    BY <1>3, <1>4, <1>5, <1>8, <2>1, <2>2 DEF AddApplication, Requests, Result
<1>9. CASE RemoveApplication(c)
  <2>1. PICK a \in App : Appends(c, "remove", [new EXCEPT !.apps[a] = 0], {a})
    BY <1>9 DEF RemoveApplication, new
  <2> DEFINE rev == [new EXCEPT !.apps[a] = 0]
  <2>3. \E b \in App : {a} = {b} /\ rev.apps = [mine[c].apps EXCEPT ![b] = 0]
    BY <1>5, <2>1
  <2>4. /\ rev.number = mine[c].number /\ rev.status = "deploying" /\ rev.env = mine[c].env
        /\ \A b \in App : rev.ran[b] = NoContent
    <3>1. rev.ran = [b \in App |-> NoContent]
      BY <1>5, <2>1
    <3> QED
      BY <1>5, <2>1, <3>1
  <2>2. Asks(c, "remove", rev, {a})
    <3> HIDE DEF rev
    <3> QED
      BY <1>9, <2>3, <2>4 DEF Asks, RemoveApplication, Requests
  <2> QED
    BY <1>3, <1>4, <1>5, <1>9, <2>1, <2>2 DEF RemoveApplication, Requests, Result
<1>10. CASE PutSourceConfig(c)
  <2>1. Appends(c, "source", new, AppsOf(mine[c])) /\ Asks(c, "source", new, AppsOf(mine[c]))
    BY <1>2, <1>10 DEF PutSourceConfig, Requests, new, Asks
  <2> QED
    BY <1>1, <1>3, <1>4, <1>10, <2>1 DEF PutSourceConfig, Requests, Result
<1>11. CASE RollbackStack(c)
  <2>1. Appends(c, "rollback", new, AppsOf(mine[c])) /\ Asks(c, "rollback", new, AppsOf(mine[c]))
    BY <1>2, <1>11 DEF RollbackStack, new, Asks
  <2> QED
    BY <1>1, <1>3, <1>4, <1>11, <2>1 DEF RollbackStack, Result
<1>12. CASE AddEnvGroup(c)
  <2>1. Appends(c, "addGroup", [old EXCEPT !.env = 1], {Group})
    BY <1>12 DEF AddEnvGroup, old
  <2>2. Asks(c, "addGroup", [old EXCEPT !.env = 1], {Group})
    BY <1>7, <1>12 DEF Asks, AddEnvGroup, Requests
  <2> QED
    BY <1>3, <1>4, <1>7, <1>12, <2>1, <2>2 DEF AddEnvGroup, Requests, Result
<1>13. CASE RemoveEnvGroup(c)
  <2>1. Appends(c, "removeGroup", [new EXCEPT !.env = 0], {Group})
    BY <1>13 DEF RemoveEnvGroup, new
  <2>2. Asks(c, "removeGroup", [new EXCEPT !.env = 0], {Group})
    BY <1>6, <1>13 DEF Asks, RemoveEnvGroup, Requests
  <2> QED
    BY <1>3, <1>4, <1>6, <1>13, <2>1, <2>2 DEF RemoveEnvGroup, Requests, Result
<1> QED
  BY <1>8, <1>9, <1>10, <1>11, <1>12, <1>13 DEF Result

-----------------------------------------------------------------------------
(* A revision that is deploying has its request.                           *)

Undisturbed == happened \cap {"failure", "rename"} = {}

\* Whoever is at work on a row of its own.
WorksOn(c, i) == row[c] = i /\ pc[c] = "working" /\ kind[c] \notin {"delete", "group"}

UnderWayInvariant ==
  /\ stack = "none" => Len(rows) = 0
  /\ stack = "exists" => Len(rows) # 0
  /\ \A c \in Change : pc[c] = "renaming" => "rename" \in happened
  /\ stack = "exists" /\ Undisturbed =>
       \A i \in DOMAIN rows : rows[i].status = "deploying" => \E c \in Change : WorksOn(c, i)

\* What one step of c comes to: a row that is deploying after it is its own, or was so before
\* and is not one that it has left.
Moves(c) ==
  /\ happened \subseteq happened'
  /\ pc'[c] = "renaming" => "rename" \in happened'
  /\ stack' = "none" => stack = "none" /\ Len(rows') = Len(rows)
  /\ stack' = "exists" => stack = "exists" \/ (stack = "none" /\ Len(rows') # 0)
  /\ stack' = "exists" /\ Undisturbed' =>
       \A i \in DOMAIN rows' : rows'[i].status = "deploying" =>
         WorksOn(c, i)' \/ (i \in DOMAIN rows /\ rows[i].status = "deploying" /\ ~WorksOn(c, i))

LEMMA CreateMoves ==
  ASSUME TypeOK, UnderWayInvariant, NEW c \in Change, CreateStack(c)
  PROVE  Moves(c)
<1>1. /\ pc'[c] = "working" /\ kind'[c] = "create" /\ row'[c] = Len(rows) + 1
      /\ stack = "none" /\ stack' = "exists" /\ happened \subseteq happened' /\ Len(rows) = 0
  BY DEF CreateStack, At, Begins, TypeOK, UnderWayInvariant
<1>2. PICK rev : rows' = Append(rows, rev)
  BY DEF CreateStack
<1>3. DOMAIN rows' = 1..1 /\ Len(rows') = 1
  BY <1>1, <1>2 DEF TypeOK
<1> QED
  BY <1>1, <1>3 DEF Moves, WorksOn

LEMMA ReadMoves ==
  ASSUME TypeOK, NEW c \in Change,
         \/ LoadStack(c) \/ ReadLatest(c) \/ ReadTarget(c) \/ DeleteResources(c) \/ HookReads(c)
  PROVE  Moves(c)
<1>1. pc'[c] # "renaming"
  BY DEF LoadStack, ReadLatest, ReadTarget, DeleteResources, HookReads, At, TypeOK
<1>2. rows' = rows /\ stack' = stack /\ happened \subseteq happened' /\ pc[c] # "working"
  BY DEF LoadStack, ReadLatest, ReadTarget, DeleteResources, HookReads, Begins, Note
<1> QED
  BY <1>1, <1>2 DEF Moves, WorksOn

LEMMA HandlerMoves ==
  ASSUME TypeOK, NEW c \in Change,
         \/ AddApplication(c) \/ RemoveApplication(c) \/ PutSourceConfig(c)
         \/ RollbackStack(c) \/ AddEnvGroup(c) \/ RemoveEnvGroup(c)
  PROVE  Moves(c)
<1>1. PICK k \in Operations \ {"create", "delete", "group"}, rev \in Revision,
           work \in SUBSET (App \cup {Group}) :
        pc[c] = "read" /\ Appends(c, k, rev, work)
  BY HandlerAppends
<1>2. PICK new : rows' = Append(rows, new)
  BY <1>1 DEF Appends
<1>3. /\ pc'[c] = "working" /\ kind'[c] = k /\ row'[c] = Len(rows) + 1 /\ stack = "exists"
      /\ stack' = stack /\ happened' = happened
  BY <1>1 DEF Appends, At, TypeOK
<1>4. /\ DOMAIN rows' = 1..(Len(rows) + 1) /\ DOMAIN rows = 1..Len(rows) /\ Len(rows) \in Nat
      /\ \A i \in DOMAIN rows : rows'[i] = rows[i]
  BY <1>2 DEF TypeOK
<1> QED
  BY <1>1, <1>3, <1>4 DEF Moves, WorksOn

LEMMA SaveMoves ==
  ASSUME RowsInvariant, UnderWayInvariant, NEW c \in Change, Save(c) \/ RenameSaves(c)
  PROVE  Moves(c)
<1>1. TypeOK /\ OwnRow(c)
  BY DEF RowsInvariant
<1>2. Len(rows') = Len(rows) /\ stack' = stack /\ happened' = happened /\ pc'[c] # "renaming"
  BY <1>1 DEF Save, RenameSaves, At, TypeOK
<1>3. CASE Save(c)
  <2>1. PICK status \in {"failed", "deployed"} :
          rows' = [rows EXCEPT ![row[c]] = [mine[c] EXCEPT !.status = status, !.ran = Running]]
    BY <1>3 DEF Save
  <2> DEFINE new == [mine[c] EXCEPT !.status = status, !.ran = Running]
  <2>2. new.status = status
    BY <1>1 DEF TypeOK, Revision
  <2>3. rows' = [rows EXCEPT ![row[c]] = new] /\ rows \in Seq(Revision)
    BY <1>1, <2>1 DEF TypeOK
  <2>4. pc[c] = "working" /\ kind[c] \notin {"delete", "group"}
    BY <1>3 DEF Save
  <2> HIDE DEF new
  <2>5. \A i \in DOMAIN rows' : rows'[i].status = "deploying" =>
          i \in DOMAIN rows /\ rows[i].status = "deploying" /\ i # row[c]
    BY <2>2, <2>3
  <2> QED
    BY <1>2, <1>1, <2>4, <2>5 DEF Moves, WorksOn, TypeOK
<1>4. CASE RenameSaves(c)
  <2>1. "rename" \in happened'
    BY <1>2, <1>4 DEF RenameSaves, UnderWayInvariant
  <2> QED
    BY <1>1, <1>2, <2>1 DEF Moves, Undisturbed, TypeOK
<1> QED
  BY <1>3, <1>4

LEMMA HookMoves ==
  ASSUME TypeOK, NEW c \in Change, HelmHookAppends(c) \/ GroupHookAppends(c)
  PROVE  Moves(c)
<1>1. PICK apps, env : HookAppends(c, apps, env)
  BY DEF HelmHookAppends, GroupHookAppends
<1> DEFINE new == [mine[c] EXCEPT !.number = @ + 1, !.status = "deployed", !.env = env,
                                  !.apps = apps, !.ran = Running, !.from = 0]
<1>2. new.status = "deployed"
  BY DEF TypeOK, Revision
<1>3. IF stack = "exists" THEN rows' = Append(rows, new) ELSE rows' = rows
  BY <1>1 DEF HookAppends
<1>4. pc[c] = "hook" /\ pc'[c] = "ended" /\ stack' = stack /\ happened' = happened
  BY <1>1 DEF HookAppends, At, TypeOK
<1> HIDE DEF new
<1>5. \A i \in DOMAIN rows' : rows'[i].status = "deploying" =>
        i \in DOMAIN rows /\ rows[i].status = "deploying"
  <2>1. CASE rows' = rows
    BY <2>1
  <2>2. CASE rows' = Append(rows, new)
    <3>1. /\ DOMAIN rows' = 1..(Len(rows) + 1) /\ DOMAIN rows = 1..Len(rows) /\ Len(rows) \in Nat
          /\ \A i \in 1..Len(rows) : rows'[i] = rows[i]
          /\ rows'[Len(rows) + 1] = new
      BY <2>2 DEF TypeOK
    <3> QED
      BY <1>2, <3>1
  <2> QED
    BY <1>3, <2>1, <2>2
<1> QED
  BY <1>3, <1>4, <1>5 DEF Moves, WorksOn, TypeOK

LEMMA OtherMoves ==
  ASSUME TypeOK, NEW c \in Change,
         \/ ApplyGroup(c) \/ DeleteGroup(c) \/ GroupFails(c) \/ LinkReleases(c)
         \/ DropStack(c) \/ StackGone(c) \/ UpgradeRelease(c) \/ UpdateGroup(c)
         \/ RolledOut(c) \/ RenameReads(c) \/ HandlerFails(c)
         \/ \E a \in App : \/ Install(c, a) \/ Uninstall(c, a) \/ UpdateTag(c, a)
                          \/ RollbackApp(c, a) \/ RolloutApp(c, a) \/ HelmFails(c, a)
  PROVE  Moves(c)
<1>1. CASE GroupFails(c) \/ HandlerFails(c)
  <2>1. rows' = rows /\ stack' = stack /\ "failure" \in happened' /\ happened \subseteq happened'
    BY <1>1 DEF GroupFails, HandlerFails, Note
  <2>2. pc'[c] # "renaming"
    BY <1>1 DEF GroupFails, HandlerFails, At, TypeOK
  <2> QED
    BY <2>1, <2>2 DEF Moves, Undisturbed, TypeOK
<1>2. CASE LinkReleases(c) \/ StackGone(c) \/ RolledOut(c) \/ DropStack(c)
  <2>1. rows' = rows /\ (stack' = stack \/ stack' = "deleted") /\ happened' = happened
    BY <1>2 DEF LinkReleases, StackGone, RolledOut, DropStack
  <2>2. stack' = "exists" => \A i : ~WorksOn(c, i)
    BY <1>2 DEF LinkReleases, StackGone, RolledOut, DropStack, WorksOn
  <2>3. pc'[c] # "renaming"
    BY <1>2 DEF LinkReleases, StackGone, RolledOut, DropStack, At, TypeOK
  <2> QED
    BY <2>1, <2>2, <2>3 DEF Moves, TypeOK
<1>3. CASE UpgradeRelease(c) \/ UpdateGroup(c) \/ RenameReads(c)
  <2>1. rows' = rows /\ stack' = stack /\ happened \subseteq happened' /\ pc[c] # "working"
    BY <1>3 DEF UpgradeRelease, UpdateGroup, RenameReads, Begins, Note
  <2>2. pc'[c] = "renaming" => "rename" \in happened'
    <3>1. CASE UpgradeRelease(c)
      BY <3>1 DEF UpgradeRelease, At, TypeOK
    <3>2. CASE UpdateGroup(c)
      BY <3>2 DEF UpdateGroup, At, TypeOK
    <3>3. CASE RenameReads(c)
      BY <3>3 DEF RenameReads, Note
    <3> QED
      BY <1>3, <3>1, <3>2, <3>3
  <2> QED
    BY <2>1, <2>2 DEF Moves, WorksOn, TypeOK
<1>4. CASE \/ ApplyGroup(c) \/ DeleteGroup(c)
           \/ \E a \in App : \/ Install(c, a) \/ Uninstall(c, a) \/ UpdateTag(c, a)
                            \/ RollbackApp(c, a) \/ RolloutApp(c, a) \/ HelmFails(c, a)
  <2>1. /\ rows' = rows /\ stack' = stack /\ happened \subseteq happened' /\ pc[c] = "working"
        /\ pc' = pc /\ kind' = kind /\ row' = row
    BY <1>4 DEF ApplyGroup, DeleteGroup, Install, Uninstall, UpdateTag, RollbackApp, RolloutApp,
                HelmFails, Works, Note
  <2> QED
    BY <2>1 DEF Moves, WorksOn, TypeOK
<1> QED
  BY <1>1, <1>2, <1>3, <1>4

LEMMA UnderWayStep == RowsInvariant /\ UnderWayInvariant /\ [Next]_vars => UnderWayInvariant'
<1> SUFFICES ASSUME RowsInvariant, UnderWayInvariant, [Next]_vars PROVE UnderWayInvariant'
  OBVIOUS
<1>1. CASE UNCHANGED vars
  BY <1>1 DEF vars, handlers, UnderWayInvariant, WorksOn, Undisturbed
<1>2. CASE Next
  <2>1. PICK c \in Change : Moves(c) /\ \A d \in Change \ {c} : Untouched(d)
    <3>1. TypeOK
      BY DEF RowsInvariant
    <3> QED
      BY <1>2, <3>1, Steps, CreateMoves, ReadMoves, HandlerMoves, SaveMoves, HookMoves, OtherMoves
  <2>2. stack' = "none" => Len(rows') = 0
    BY <2>1 DEF Moves, UnderWayInvariant
  <2>5. stack' = "exists" => Len(rows') # 0
    <3>1. DOMAIN rows \subseteq DOMAIN rows' /\ rows \in Seq(Revision) /\ rows' \in Seq(Revision)
      BY RowsStep DEF RowsStay, RowsInvariant, TypeOK
    <3>2. Len(rows) # 0 => Len(rows') # 0
      BY <3>1
    <3> QED
      BY <2>1, <3>2 DEF Moves, UnderWayInvariant
  <2>3. \A d \in Change : pc'[d] = "renaming" => "rename" \in happened'
    BY <2>1 DEF Moves, UnderWayInvariant, Untouched
  <2>4. ASSUME stack' = "exists", Undisturbed', NEW i \in DOMAIN rows', rows'[i].status = "deploying"
        PROVE  \E d \in Change : WorksOn(d, i)'
    <3>1. CASE WorksOn(c, i)'
      BY <3>1
    <3>2. CASE i \in DOMAIN rows /\ rows[i].status = "deploying" /\ ~WorksOn(c, i)
      <4>1. stack = "exists" /\ Undisturbed
        BY <2>1, <2>4, <3>2 DEF Moves, Undisturbed, UnderWayInvariant, RowsInvariant, TypeOK
      <4>2. PICK d \in Change : WorksOn(d, i)
        BY <3>2, <4>1 DEF UnderWayInvariant
      <4>3. WorksOn(d, i)'
        BY <2>1, <3>2, <4>2 DEF Untouched, WorksOn
      <4> QED
        BY <4>3
    <3> QED
      BY <2>1, <2>4, <3>1, <3>2 DEF Moves
  <2> QED
    BY <2>2, <2>3, <2>4, <2>5 DEF UnderWayInvariant
<1> QED
  BY <1>1, <1>2

\* A revision is "deploying" only as long as the handler that has appended it is at work,
\* however many of them overlap, unless one ends with an error or the stack is renamed.
THEOREM DeployingHasItsHandler == Spec => []DeployingIsUnderWay
<1>1. Init => UnderWayInvariant
  BY DEF Init, UnderWayInvariant
<1>2. UnderWayInvariant => DeployingIsUnderWay
  BY DEF UnderWayInvariant, DeployingIsUnderWay, WorksOn, Undisturbed
<1> QED
  BY <1>1, <1>2, InitRows, RowsStep, UnderWayStep, PTL DEF Spec

-----------------------------------------------------------------------------
(* The latest revision is what runs.                                       *)

Orderly == happened \cap {"overlap", "rollback", "failure"} = {}

Last == rows[Len(rows)]

\* What rev lists is what there is in the cluster.
Lists(rev) == (\A a \in App : rev.apps[a] = Len(history[a])) /\ rev.env = envVersion

Nothing == (\A a \in App : history[a] = << >>) /\ envVersion = 0

\* The release row of each application names a resource of the stack, but for those that c
\* has just installed.
LinkedBut(c) ==
  \A a \in App : history[a] # << >> =>
    \/ a \in linked
    \/ pc[c] \in {"working", "linking"} /\ kind[c] \in {"create", "add"} /\ history[a] = <<c>>

\* When no request is under way.
AtRest == IF stack = "exists"
          THEN Lists(Last) /\ \A a \in App : history[a] # << >> => a \in linked
          ELSE Nothing

Own == {"create", "add", "remove", "source", "addGroup", "removeGroup"}

\* What c makes of the revision that it has appended: what is done is listed as it is, and
\* what is still to do has not been done.
Makes(c) ==
  /\ row[c] = Len(rows)
  /\ \A a \in App \ todo[c] : mine[c].apps[a] = Len(history[a])
  /\ Group \notin todo[c] => mine[c].env = envVersion
  /\ kind[c] \in {"create", "add"} =>
       \A a \in App \cap todo[c] : mine[c].apps[a] = 1 /\ history[a] = << >>
  /\ kind[c] = "remove" => \A a \in App \cap todo[c] : mine[c].apps[a] = 0
  /\ kind[c] = "source" =>
       \A a \in App \cap todo[c] : mine[c].apps[a] = Len(history[a]) /\ history[a] # << >>
  /\ kind[c] \in {"addGroup", "removeGroup"} => App \cap todo[c] = {}
  /\ Group \in todo[c] =>
       \/ kind[c] \in {"create", "addGroup"} /\ mine[c].env = 1 /\ envVersion = 0
       \/ kind[c] = "removeGroup" /\ mine[c].env = 0

\* What c has not yet to uninstall, of a stack that it deletes, is gone.
Deletes(c) ==
  /\ \A a \in App \ todo[c] : history[a] = << >>
  /\ Group \notin todo[c] => envVersion = 0

\* What the rollout of a new version of the group has added to what the latest revision lists.
Rolls(c) ==
  /\ ~failed[c] /\ seen[c] = envVersion /\ Last.env # 0
  /\ \A a \in App :
       /\ Len(history[a]) =
            Last.apps[a] + (IF a \in Linked \ todo[c] /\ Last.apps[a] # 0 THEN 1 ELSE 0)
       /\ a \in todo[c] => a \in Linked /\ Last.apps[a] # 0

\* What the upgrade of a release has.
Upgrades(c) ==
  /\ Last.env = envVersion
  /\ \A a \in App : /\ Len(history[a]) = IF a \in todo[c] THEN seen[c] ELSE Last.apps[a]
                    /\ a \in todo[c] => Last.apps[a] # 0

\* When c, and no other request, is under way.
Doing(c) ==
  /\ stack = "exists" /\ LinkedBut(c)
  /\ pc[c] \in {"arrived", "read", "renaming", "linking"} => Lists(Last)
  /\ pc[c] = "arrived" => kind[c] = "none"
  /\ pc[c] = "read" => mine[c] = Last /\ kind[c] = "none"
  /\ pc[c] = "renaming" => copy[c] = rows
  /\ pc[c] = "linking" => \A a \in App : mine[c].apps[a] = Len(history[a])
  /\ pc[c] = "working" => \/ kind[c] \in Own /\ Makes(c)
                          \/ kind[c] = "delete" /\ Deletes(c)
                          \/ kind[c] = "group" /\ Rolls(c)
  /\ pc[c] \in {"upgraded", "hook"} => \/ kind[c] = "upgrade" /\ Upgrades(c)
                                       \/ kind[c] = "group" /\ todo[c] = {} /\ Rolls(c)
  /\ pc[c] = "hook" => mine[c] = Last

Fresh == \A c \in Change : pc[c] \in {"new", "arrived"} => kind[c] = "none" /\ ~failed[c]

OrderlyInvariant ==
  /\ Fresh
  /\ Orderly => /\ (\A c \in Change : Idle(c)) => AtRest
                /\ \A c \in Change : ~Idle(c) => Doing(c)

\* What a step of c, the only request, begins with and what it comes to.
Ready(c) ==
  /\ RowsInvariant /\ Ordered /\ Current(c) /\ (stack = "exists" => Len(rows) # 0)
  /\ pc[c] \in {"new", "arrived"} => kind[c] = "none" /\ ~failed[c]
  /\ IF Idle(c) THEN AtRest ELSE Doing(c)

Goes(c) == IF Idle(c)' THEN AtRest' ELSE Doing(c)'

\* The Helm history of an application, when one more revision is made.
LEMMA HistoryFacts ==
  ASSUME TypeOK, NEW a \in App
  PROVE  /\ history[a] \in Seq(Change) /\ Len(history[a]) \in Nat
         /\ history[a] = << >> <=> Len(history[a]) = 0
         /\ \A c \in Change : /\ Len(Append(history[a], c)) = Len(history[a]) + 1
                              /\ Append(history[a], c) # << >>
                              /\ Len(<<c>>) = 1 /\ <<c>> # << >> /\ <<c>>[1] = c /\ DOMAIN <<c>> = {1}
<1>1. history[a] \in Seq(Change)
  BY DEF TypeOK
<1>2. history[a] = << >> <=> Len(history[a]) = 0
  BY <1>1, EmptySeq
<1>3. ASSUME NEW c \in Change
      PROVE  /\ Len(Append(history[a], c)) = Len(history[a]) + 1
             /\ Append(history[a], c) # << >>
             /\ Len(<<c>>) = 1 /\ <<c>> # << >> /\ <<c>>[1] = c /\ DOMAIN <<c>> = {1}
  <2>1. Len(Append(history[a], c)) = Len(history[a]) + 1 /\ Append(history[a], c) \in Seq(Change)
    BY <1>1
  <2>2. Append(history[a], c) # << >>
    BY <1>1, <2>1, EmptySeq
  <2> QED
    BY <2>1, <2>2
<1> QED
  BY <1>1, <1>2, <1>3

LEMMA LastFacts ==
  ASSUME TypeOK, Len(rows) # 0
  PROVE  /\ Len(rows) \in DOMAIN rows /\ Last \in Revision
         /\ Last.apps \in [App -> Nat] /\ Last.env \in Nat
<1>1. Len(rows) \in DOMAIN rows /\ Last \in Revision
  BY DEF TypeOK, Last
<1> QED
  BY <1>1 DEF Revision

LEMMA CreateGoes ==
  ASSUME NEW c \in Change, Ready(c), stack = "none" => Len(rows) = 0, CreateStack(c)
  PROVE  Goes(c)
<1>1. TypeOK /\ stack = "none" /\ stack' = "exists" /\ Idle(c) /\ Nothing
  BY DEF Ready, RowsInvariant, CreateStack, Begins, Idle, AtRest
<1>2. PICK apps \in SUBSET App, env \in 0..1 :
        LET first == [Blank EXCEPT !.number = 1, !.env = env,
                                   !.apps = [a \in App |-> IF a \in apps THEN 1 ELSE 0]]
        IN /\ rows' = Append(rows, first)
           /\ mine' = [mine EXCEPT ![c] = first]
           /\ todo' = [todo EXCEPT ![c] = apps \cup (IF env = 1 THEN {Group} ELSE {})]
  BY DEF CreateStack
<1> DEFINE first == [Blank EXCEPT !.number = 1, !.env = env,
                                  !.apps = [a \in App |-> IF a \in apps THEN 1 ELSE 0]]
<1>3. first.env = env /\ first.apps = [a \in App |-> IF a \in apps THEN 1 ELSE 0]
  BY DEF Blank
<1>4. rows' = Append(rows, first) /\ mine' = [mine EXCEPT ![c] = first]
  BY <1>2
<1> HIDE DEF first
<1>5. /\ pc'[c] = "working" /\ kind'[c] = "create" /\ mine'[c] = first /\ row'[c] = Len(rows) + 1
      /\ todo'[c] = apps \cup (IF env = 1 THEN {Group} ELSE {})
      /\ history' = history /\ envVersion' = envVersion
  BY <1>1, <1>2, <1>4 DEF CreateStack, At, TypeOK, cluster
<1>6. Len(rows') = Len(rows) + 1
  BY <1>1, <1>4 DEF TypeOK
<1>7. \A a \in App : history[a] = << >> /\ Len(history[a]) = 0
  BY <1>1, HistoryFacts DEF Nothing
<1>8. Group \notin App /\ envVersion = 0
  BY <1>1, NameAssumption DEF Nothing
<1>9. Makes(c)'
  BY <1>3, <1>5, <1>6, <1>7, <1>8 DEF Makes
<1>10. LinkedBut(c)'
  BY <1>5, <1>7 DEF LinkedBut
<1> QED
  BY <1>1, <1>5, <1>9, <1>10 DEF Goes, Idle, Doing, Own

\* The reads that a request begins with.
LEMMA ReadGoes ==
  ASSUME NEW c \in Change, Ready(c), "rollback" \notin happened',
         \/ LoadStack(c) \/ ReadLatest(c) \/ ReadTarget(c) \/ HookReads(c) \/ RenameReads(c)
         \/ DeleteResources(c)
  PROVE  Goes(c)
<1>1. TypeOK /\ Ordered /\ Current(c)
  BY DEF Ready, RowsInvariant
<1>2. /\ \A n : IsLatest(n) => n = Len(rows)
      /\ \A i \in DOMAIN rows : rows[i].number = i
  BY <1>1, LatestIsLast
<1>3. CASE LoadStack(c)
  <2>1. /\ pc[c] = "new" /\ pc'[c] = "arrived" /\ kind' = kind /\ rows' = rows /\ history' = history
        /\ envVersion' = envVersion /\ stack = "exists" /\ stack' = stack /\ linked' = linked
    BY <1>1, <1>3 DEF LoadStack, Begins, At, TypeOK, cluster
  <2>2. AtRest /\ kind[c] = "none"
    BY <2>1 DEF Ready, Idle
  <2> QED
    BY <2>1, <2>2 DEF Goes, Idle, Doing, AtRest, LinkedBut, Lists, Last
<1>4. CASE ReadLatest(c)
  <2>1. /\ pc[c] = "arrived" /\ pc'[c] = "read" /\ kind' = kind /\ rows' = rows /\ history' = history
        /\ envVersion' = envVersion /\ stack' = stack /\ linked' = linked
    BY <1>1, <1>4 DEF ReadLatest, At, TypeOK, cluster
  <2>2. PICK i \in DOMAIN rows : IsRowOf(i, seen[c]) /\ mine' = [mine EXCEPT ![c] = rows[i]]
    BY <1>4 DEF ReadLatest
  <2>3. i = Len(rows)
    BY <1>1, <1>2, <2>1, <2>2 DEF IsRowOf, Current
  <2>4. mine'[c] = Last'
    BY <1>1, <2>1, <2>2, <2>3 DEF TypeOK, Last
  <2>5. Doing(c)
    BY <2>1 DEF Ready, Idle
  <2> QED
    BY <2>1, <2>4, <2>5 DEF Goes, Idle, Doing, LinkedBut, Lists, Last
<1>5. CASE ReadTarget(c)
  BY <1>5 DEF ReadTarget, Note
<1>6. CASE HookReads(c)
  <2>1. /\ pc[c] = "upgraded" /\ pc'[c] = "hook" /\ kind' = kind /\ rows' = rows /\ history' = history
        /\ envVersion' = envVersion /\ stack' = stack /\ linked' = linked
        /\ todo' = todo /\ seen' = seen /\ failed' = failed
    BY <1>1, <1>6 DEF HookReads, At, TypeOK, cluster
  <2>2. PICK i \in DOMAIN rows : IsLatest(rows[i].number) /\ mine' = [mine EXCEPT ![c] = rows[i]]
    BY <1>6 DEF HookReads
  <2>3. i = Len(rows)
    BY <1>1, <1>2, <2>2
  <2>4. mine'[c] = Last'
    BY <1>1, <2>1, <2>2, <2>3 DEF TypeOK, Last
  <2>5. Doing(c)
    BY <2>1 DEF Ready, Idle
  <2>6. Upgrades(c) => Upgrades(c)'
    BY <2>1 DEF Upgrades, Last
  <2>7. Rolls(c) => Rolls(c)'
    BY <2>1 DEF Rolls, Last
  <2> QED
    BY <2>1, <2>4, <2>5, <2>6, <2>7 DEF Goes, Idle, Doing, LinkedBut
<1>7. CASE RenameReads(c)
  <2>1. /\ pc[c] = "arrived" /\ pc'[c] = "renaming" /\ rows' = rows /\ history' = history
        /\ envVersion' = envVersion /\ stack' = stack /\ linked' = linked /\ copy'[c] = rows
    BY <1>1, <1>7 DEF RenameReads, At, TypeOK, cluster
  <2>2. Doing(c)
    BY <2>1 DEF Ready, Idle
  <2> QED
    BY <2>1, <2>2 DEF Goes, Idle, Doing, LinkedBut, Lists, Last
<1>8. CASE DeleteResources(c)
  <2>1. /\ pc[c] = "arrived" /\ pc'[c] = "working" /\ kind'[c] = "delete" /\ rows' = rows
        /\ history' = history /\ envVersion' = envVersion /\ stack' = stack /\ linked' = linked
    BY <1>1, <1>8 DEF DeleteResources, At, TypeOK, cluster
  <2>2. PICK i \in DOMAIN rows : IsRowOf(i, seen[c]) /\ mine' = [mine EXCEPT ![c] = rows[i]]
    BY <1>8 DEF DeleteResources
  <2>3. i = Len(rows)
    BY <1>1, <1>2, <2>1, <2>2 DEF IsRowOf, Current
  <2>4. mine'[c] = Last
    BY <1>1, <2>1, <2>2, <2>3 DEF TypeOK, Last
  <2>5. Doing(c)
    BY <2>1 DEF Ready, Idle
  <2>6. Lists(Last) /\ todo'[c] = AppsOf(Last) \cup (IF Last.env = 0 THEN {} ELSE {Group})
    BY <1>1, <1>8, <2>1, <2>4, <2>5 DEF DeleteResources, TypeOK, Doing
  <2>7. Deletes(c)'
    BY <1>1, <2>1, <2>6, HistoryFacts DEF Deletes, Lists, AppsOf
  <2> QED
    BY <2>1, <2>5, <2>7 DEF Goes, Idle, Doing, LinkedBut
<1> QED
  BY <1>3, <1>4, <1>5, <1>6, <1>7, <1>8

\* The requests that append a revision.
LEMMA HandlerGoes ==
  ASSUME NEW c \in Change, Ready(c),
         \/ AddApplication(c) \/ RemoveApplication(c) \/ PutSourceConfig(c)
         \/ RollbackStack(c) \/ AddEnvGroup(c) \/ RemoveEnvGroup(c)
  PROVE  Goes(c)
<1>1. TypeOK
  BY DEF Ready, RowsInvariant
<1>2. PICK k \in Operations \ {"create", "delete", "group"}, rev \in Revision,
           work \in SUBSET (App \cup {Group}) :
        pc[c] = "read" /\ Appends(c, k, rev, work) /\ Asks(c, k, rev, work)
  BY <1>1, HandlerAppends
<1>3. Doing(c)
  BY <1>2 DEF Ready, Idle
<1>4. stack = "exists" /\ mine[c] = Last /\ kind[c] = "none" /\ Lists(Last) /\ LinkedBut(c)
  BY <1>2, <1>3 DEF Doing
<1> DEFINE new == [rev EXCEPT !.number = @ + 1]
<1>5. new.apps = rev.apps /\ new.env = rev.env
  BY DEF Revision
<1>6. /\ rows' = Append(rows, new) /\ mine'[c] = new /\ row'[c] = Len(rows) + 1 /\ kind'[c] = k
      /\ todo'[c] = work /\ pc'[c] = "working" /\ stack' = stack
      /\ history' = history /\ envVersion' = envVersion /\ linked' = linked
  BY <1>1, <1>2 DEF Appends, At, TypeOK, cluster
<1> HIDE DEF new
<1>7. Len(rows') = Len(rows) + 1
  BY <1>1, <1>6 DEF TypeOK
<1>14. \A a \in App : mine[c].apps[a] = Len(history[a])
  BY <1>4 DEF Lists
<1>8. \A a \in App : history[a] = << >> <=> mine[c].apps[a] = 0
  BY <1>1, <1>14, HistoryFacts
<1>9. mine[c].env = envVersion /\ Group \notin App /\ mine[c].apps \in [App -> Nat]
  BY <1>1, <1>4, NameAssumption DEF Lists, TypeOK, Revision
<1>10. k \in Own /\ k # "create"
  BY <1>2, <1>4 DEF Asks, Own
<1>13. /\ row'[c] = Len(rows') /\ mine'[c].apps = rev.apps /\ mine'[c].env = rev.env
       /\ kind'[c] = k /\ todo'[c] = work /\ history' = history /\ envVersion' = envVersion
  BY <1>5, <1>6, <1>7
<1>11. Makes(c)'
  <2>1. CASE k = "add"
    <3>1. rev.env = envVersion
      BY <1>2, <1>9, <2>1 DEF Asks
    <3>2. PICK a \in App : work = {a} /\ mine[c].apps[a] = 0 /\ rev.apps = [mine[c].apps EXCEPT ![a] = 1]
      BY <1>2, <2>1 DEF Asks
    <3>3. rev.apps[a] = 1 /\ history[a] = << >> /\ \A b \in App \ work : rev.apps[b] = Len(history[b])
      BY <1>8, <1>9, <1>14, <3>2
    <3>4. App \cap work = {a} /\ Group \notin work
      BY <1>9, <3>2
    <3> QED
      BY <1>13, <2>1, <3>1, <3>3, <3>4 DEF Makes
  <2>2. CASE k = "remove"
    <3>1. rev.env = envVersion
      BY <1>2, <1>9, <2>2 DEF Asks
    <3>2. PICK a \in App : work = {a} /\ rev.apps = [mine[c].apps EXCEPT ![a] = 0]
      BY <1>2, <2>2 DEF Asks
    <3>3. rev.apps[a] = 0 /\ \A b \in App \ work : rev.apps[b] = Len(history[b])
      BY <1>8, <1>9, <1>14, <3>2
    <3>4. App \cap work = {a} /\ Group \notin work
      BY <1>9, <3>2
    <3> QED
      BY <1>13, <2>2, <3>1, <3>3, <3>4 DEF Makes
  <2>3. CASE k = "source"
    <3>1. rev.env = envVersion /\ rev.apps = mine[c].apps /\ work = AppsOf(mine[c])
      BY <1>2, <1>9, <2>3 DEF Asks
    <3>2. /\ \A b \in App : rev.apps[b] = Len(history[b])
          /\ \A b \in App \cap work : history[b] # << >>
      BY <1>8, <1>14, <3>1 DEF AppsOf
    <3>3. Group \notin work
      BY <1>9, <3>1 DEF AppsOf
    <3> QED
      BY <1>13, <2>3, <3>1, <3>2, <3>3 DEF Makes
  <2>4. CASE k \in {"addGroup", "removeGroup"}
    <3>1. /\ rev.apps = mine[c].apps /\ work = {Group}
          /\ \/ k = "addGroup" /\ rev.env = 1 /\ mine[c].env = 0
             \/ k = "removeGroup" /\ rev.env = 0
      BY <1>2, <2>4 DEF Asks
    <3>2. \A b \in App : rev.apps[b] = Len(history[b])
      BY <1>8, <1>14, <3>1
    <3>3. App \cap work = {} /\ Group \in work
      BY <1>9, <3>1
    <3> QED
      BY <1>9, <1>13, <2>4, <3>1, <3>2, <3>3 DEF Makes
  <2> QED
    BY <1>10, <2>1, <2>2, <2>3, <2>4 DEF Own
<1>12. LinkedBut(c)'
  BY <1>2, <1>4, <1>6 DEF LinkedBut
<1> QED
  BY <1>4, <1>6, <1>10, <1>11, <1>12 DEF Goes, Idle, Doing

\* What they then do in the cluster, one application after another ...
LEMMA WorkGoes ==
  ASSUME NEW c \in Change, NEW a \in App, Ready(c), "failure" \notin happened',
         \/ Install(c, a) \/ Uninstall(c, a) \/ UpdateTag(c, a) \/ RollbackApp(c, a)
         \/ RolloutApp(c, a) \/ HelmFails(c, a)
  PROVE  Goes(c)
<1>1. TypeOK /\ OwnRow(c)
  BY DEF Ready, RowsInvariant
<1>2. /\ rows' = rows /\ pc' = pc /\ kind' = kind /\ seen' = seen /\ row' = row /\ stack' = stack
      /\ envVersion' = envVersion /\ linked' = linked
      /\ pc[c] = "working" /\ a \in todo[c] /\ todo' = [todo EXCEPT ![c] = @ \ {a}]
  BY DEF Install, Uninstall, UpdateTag, RollbackApp, RolloutApp, HelmFails, Works
<1>3. todo'[c] = todo[c] \ {a} /\ a # Group
  BY <1>1, <1>2, NameAssumption DEF TypeOK
<1>4. Doing(c) /\ pc'[c] = "working"
  BY <1>2 DEF Ready, Idle
<1>5. stack = "exists" /\ LinkedBut(c)
  BY <1>4 DEF Doing
<1>6. \A b \in App : history[b] = << >> <=> Len(history[b]) = 0
  BY <1>1, HistoryFacts
<1>7. /\ Len(Append(history[a], c)) = Len(history[a]) + 1 /\ Append(history[a], c) # << >>
      /\ Len(<<c>>) = 1 /\ <<c>> # << >> /\ Len(history[a]) \in Nat
  BY <1>1, HistoryFacts
<1>8. history \in [App -> Seq(Change)]
  BY <1>1 DEF TypeOK
<1>9. CASE Install(c, a)
  <2>1. kind[c] \in {"create", "add"} /\ mine' = mine
    BY <1>9 DEF Install, Works
  <2>2. Makes(c)
    BY <1>2, <1>4, <2>1 DEF Doing
  <2>3. mine[c].apps[a] = 1 /\ history[a] = << >>
    BY <1>2, <2>1, <2>2 DEF Makes
  <2>4. history' = [history EXCEPT ![a] = <<c>>]
    BY <1>9, <2>3 DEF Install, Installed
  <2>5. history'[a] = <<c>> /\ \A b \in App \ {a} : history'[b] = history[b]
    BY <1>8, <2>4
  <2>6. Makes(c)'
    BY <1>2, <1>3, <1>7, <2>1, <2>2, <2>3, <2>5 DEF Makes
  <2>7. LinkedBut(c)'
    BY <1>2, <1>5, <2>1, <2>5 DEF LinkedBut
  <2> QED
    BY <1>2, <1>4, <1>5, <2>1, <2>6, <2>7 DEF Goes, Idle, Doing, Own
<1>10. CASE Uninstall(c, a)
  <2>1. kind[c] \in {"remove", "delete"} /\ mine' = mine /\ history' = [history EXCEPT ![a] = << >>]
    BY <1>10 DEF Uninstall, Works
  <2>2. history'[a] = << >> /\ \A b \in App \ {a} : history'[b] = history[b]
    BY <1>8, <2>1
  <2>3. LinkedBut(c)'
    BY <1>2, <1>5, <2>2 DEF LinkedBut
  <2>4. CASE kind[c] = "remove"
    <3>1. Makes(c)
      BY <1>2, <1>4, <2>4 DEF Doing
    <3>2. Makes(c)'
      BY <1>2, <1>3, <2>1, <2>2, <2>4, <3>1 DEF Makes
    <3> QED
      BY <1>2, <1>4, <1>5, <2>3, <2>4, <3>2 DEF Goes, Idle, Doing, Own
  <2>5. CASE kind[c] = "delete"
    <3>1. Deletes(c)
      BY <1>2, <1>4, <2>5 DEF Doing, Own
    <3>2. Deletes(c)'
      BY <1>2, <1>3, <2>2, <3>1 DEF Deletes
    <3> QED
      BY <1>2, <1>4, <1>5, <2>3, <2>5, <3>2 DEF Goes, Idle, Doing
  <2> QED
    BY <2>1, <2>4, <2>5
<1>11. CASE UpdateTag(c, a)
  <2>1. kind[c] = "source" /\ mine' = [mine EXCEPT ![c].apps[a] = @ + 1]
    BY <1>11 DEF UpdateTag, Works
  <2>2. Makes(c)
    BY <1>2, <1>4, <2>1 DEF Doing
  <2>3. mine[c].apps[a] = Len(history[a]) /\ history[a] # << >>
    BY <1>2, <2>1, <2>2 DEF Makes
  <2>4. history' = [history EXCEPT ![a] = Append(@, c)]
    BY <1>11, <2>3 DEF UpdateTag, Installed
  <2>5. history'[a] = Append(history[a], c) /\ \A b \in App \ {a} : history'[b] = history[b]
    BY <1>8, <2>4
  <2>6. /\ mine'[c].apps[a] = mine[c].apps[a] + 1 /\ mine'[c].env = mine[c].env
        /\ \A b \in App \ {a} : mine'[c].apps[b] = mine[c].apps[b]
    <3>1. mine \in [Change -> Revision] /\ mine[c] \in Revision
      BY <1>1 DEF TypeOK
    <3>2. mine'[c] = [mine[c] EXCEPT !.apps[a] = @ + 1]
      BY <2>1, <3>1
    <3> QED
      BY <3>1, <3>2 DEF Revision
  <2>7. Makes(c)'
    BY <1>2, <1>3, <1>7, <2>1, <2>2, <2>3, <2>5, <2>6 DEF Makes
  <2>8. LinkedBut(c)'
    BY <1>2, <1>5, <2>1, <2>3, <2>5 DEF LinkedBut
  <2> QED
    BY <1>2, <1>4, <1>5, <2>1, <2>7, <2>8 DEF Goes, Idle, Doing, Own
<1>12. CASE RollbackApp(c, a)
  BY <1>2, <1>4, <1>12 DEF RollbackApp, Works, Doing, Own
<1>13. CASE RolloutApp(c, a)
  <2>1. kind[c] = "group" /\ mine' = mine
    BY <1>13 DEF RolloutApp, Works
  <2>2. Rolls(c)
    BY <1>2, <1>4, <2>1 DEF Doing, Own
  <2>3. Len(rows) # 0 /\ Last.apps \in [App -> Nat]
    BY <1>1, <1>5, LastFacts DEF Ready
  <2>4. /\ a \in Linked /\ Last.apps[a] # 0 /\ Len(history[a]) = Last.apps[a]
    BY <1>2, <2>2, <2>3 DEF Rolls
  <2>5. history[a] # << >>
    BY <1>6, <2>4
  <2>6. history' = [history EXCEPT ![a] = Append(@, c)] /\ failed' = [failed EXCEPT ![c] = @ \/ FALSE]
    BY <1>13, <2>5 DEF RolloutApp, Installed, Errs
  <2>7. history'[a] = Append(history[a], c) /\ \A b \in App \ {a} : history'[b] = history[b]
    BY <1>8, <2>6
  <2>8. ~failed'[c]
    <3>1. failed \in [Change -> BOOLEAN] /\ ~failed[c]
      BY <1>1, <2>2 DEF TypeOK, Rolls
    <3> QED
      BY <2>6, <3>1, Zenon
  <2>9. Last' = Last
    BY <1>2 DEF Last
  <2>10. \A b \in App :
           /\ Len(history'[b]) =
                Last.apps[b] + (IF b \in Linked \ todo'[c] /\ Last.apps[b] # 0 THEN 1 ELSE 0)
           /\ b \in todo'[c] => b \in Linked /\ Last.apps[b] # 0
    BY <1>3, <1>7, <2>2, <2>3, <2>4, <2>7 DEF Rolls
  <2>11. Rolls(c)'
    BY <1>2, <2>2, <2>8, <2>9, <2>10 DEF Rolls
  <2>12. LinkedBut(c)'
    BY <1>2, <1>5, <2>1, <2>5, <2>7 DEF LinkedBut
  <2> QED
    BY <1>2, <1>4, <1>5, <2>1, <2>11, <2>12 DEF Goes, Idle, Doing
<1>14. CASE HelmFails(c, a)
  BY <1>14 DEF HelmFails, Note
<1> QED
  BY <1>9, <1>10, <1>11, <1>12, <1>13, <1>14

\* ... and with the group, until the outcome is saved.
LEMMA GroupGoes ==
  ASSUME NEW c \in Change, Ready(c), ApplyGroup(c) \/ DeleteGroup(c)
  PROVE  Goes(c)
<1>1. TypeOK /\ envVersion \in Nat
  BY DEF Ready, RowsInvariant, TypeOK
<1>2. /\ rows' = rows /\ pc' = pc /\ kind' = kind /\ row' = row /\ stack' = stack /\ mine' = mine
      /\ history' = history /\ linked' = linked
      /\ pc[c] = "working" /\ Group \in todo[c] /\ todo' = [todo EXCEPT ![c] = @ \ {Group}]
  BY DEF ApplyGroup, DeleteGroup, Works
<1>3. todo'[c] = todo[c] \ {Group} /\ Group \notin App
  BY <1>1, <1>2, NameAssumption DEF TypeOK
<1>4. Doing(c) /\ pc'[c] = "working"
  BY <1>2 DEF Ready, Idle
<1>5. stack = "exists" /\ LinkedBut(c)
  BY <1>4 DEF Doing
<1>6. LinkedBut(c)'
  BY <1>2, <1>5 DEF LinkedBut
<1>7. CASE kind[c] = "delete"
  <2>1. Deletes(c) /\ envVersion' = 0
    BY <1>2, <1>4, <1>7 DEF Doing, Own, ApplyGroup, DeleteGroup, Works
  <2>2. Deletes(c)'
    BY <1>2, <1>3, <2>1 DEF Deletes
  <2> QED
    BY <1>2, <1>4, <1>5, <1>6, <1>7, <2>2 DEF Goes, Idle, Doing
<1>8. CASE kind[c] \in {"create", "addGroup", "removeGroup"}
  <2>1. Makes(c)
    BY <1>2, <1>4, <1>8 DEF Doing
  <2>2. mine[c].env = envVersion'
    BY <1>1, <1>2, <1>8, <2>1 DEF Makes, ApplyGroup, DeleteGroup, Works
  <2>3. Makes(c)'
    BY <1>2, <1>3, <1>8, <2>1, <2>2 DEF Makes
  <2> QED
    BY <1>2, <1>4, <1>5, <1>6, <1>8, <2>3 DEF Goes, Idle, Doing, Own
<1> QED
  BY <1>7, <1>8 DEF ApplyGroup, DeleteGroup, Works

LEMMA SaveGoes ==
  ASSUME NEW c \in Change, Ready(c), Save(c)
  PROVE  Goes(c)
<1>1. TypeOK /\ OwnRow(c)
  BY DEF Ready, RowsInvariant
<1>2. pc[c] = "working" /\ kind[c] \notin {"delete", "group"} /\ todo[c] = {}
  BY DEF Save
<1>3. Doing(c)
  BY <1>2 DEF Ready, Idle
<1>4. stack = "exists" /\ LinkedBut(c) /\ Makes(c)
  BY <1>2, <1>3 DEF Doing
<1>5. \A a \in App : mine[c].apps[a] = Len(history[a])
  BY <1>2, <1>4 DEF Makes
<1>6. row[c] = Len(rows) /\ mine[c].env = envVersion /\ row[c] \in DOMAIN rows
  BY <1>1, <1>2, <1>4 DEF Makes, OwnRow
<1>7. PICK status \in Status :
        rows' = [rows EXCEPT ![row[c]] = [mine[c] EXCEPT !.status = status, !.ran = Running]]
  BY DEF Save, Status
<1> DEFINE new == [mine[c] EXCEPT !.status = status, !.ran = Running]
<1>8. new.apps = mine[c].apps /\ new.env = mine[c].env
  BY <1>1 DEF TypeOK, Revision
<1>9. rows' = [rows EXCEPT ![row[c]] = new]
  BY <1>7
<1> HIDE DEF new
<1>10. Len(rows') = Len(rows) /\ Last' = new
  BY <1>1, <1>6, <1>9 DEF TypeOK, Last
<1>11. /\ history' = history /\ envVersion' = envVersion /\ stack' = stack /\ linked' = linked
       /\ kind' = kind /\ mine' = mine
       /\ pc'[c] = (IF kind[c] \in {"create", "add"} THEN "linking" ELSE "ended")
  BY <1>1 DEF Save, At, cluster, handlers, TypeOK
<1>12. Lists(Last)'
  BY <1>5, <1>6, <1>8, <1>10, <1>11 DEF Lists
<1>13. CASE kind[c] \in {"create", "add"}
  <2>1. LinkedBut(c)'
    BY <1>2, <1>4, <1>11, <1>13 DEF LinkedBut
  <2> QED
    BY <1>4, <1>5, <1>11, <1>12, <1>13, <2>1 DEF Goes, Idle, Doing
<1>14. CASE kind[c] \notin {"create", "add"}
  <2>1. \A a \in App : history'[a] # << >> => a \in linked'
    BY <1>4, <1>11, <1>14 DEF LinkedBut
  <2> QED
    BY <1>4, <1>11, <1>12, <1>14, <2>1 DEF Goes, Idle, AtRest
<1> QED
  BY <1>13, <1>14

LEMMA LinkGoes ==
  ASSUME NEW c \in Change, Ready(c), LinkReleases(c)
  PROVE  Goes(c)
<1>1. TypeOK /\ pc[c] = "linking"
  BY DEF Ready, RowsInvariant, LinkReleases
<1>2. Doing(c)
  BY <1>1 DEF Ready, Idle
<1>3. /\ stack = "exists" /\ LinkedBut(c) /\ Lists(Last)
      /\ \A a \in App : mine[c].apps[a] = Len(history[a])
  BY <1>1, <1>2 DEF Doing
<1>4. /\ history' = history /\ envVersion' = envVersion /\ stack' = stack /\ rows' = rows
      /\ pc'[c] = "ended"
      /\ linked' = linked \cup {a \in AppsOf(mine[c]) : c \in {history[a][i] : i \in DOMAIN history[a]}}
  BY <1>1 DEF LinkReleases, At, cluster, TypeOK
<1>5. ASSUME NEW a \in App, history[a] # << >>
      PROVE  a \in linked'
  <2>1. CASE a \in linked
    BY <1>4, <2>1
  <2>2. CASE history[a] = <<c>>
    <3>1. Len(history[a]) = 1 /\ history[a][1] = c /\ 1 \in DOMAIN history[a]
      BY <1>1, <2>2, HistoryFacts
    <3>2. a \in AppsOf(mine[c])
      BY <1>3, <3>1 DEF AppsOf
    <3>3. c \in {history[a][i] : i \in DOMAIN history[a]}
      BY <3>1
    <3> QED
      BY <1>4, <3>2, <3>3
  <2> QED
    BY <1>3, <1>5, <2>1, <2>2 DEF LinkedBut
<1> QED
  BY <1>3, <1>4, <1>5 DEF Goes, Idle, AtRest, Lists, Last

\* The changes of a release or of the group.
LEMMA ChangeGoes ==
  ASSUME NEW c \in Change, Ready(c), UpgradeRelease(c) \/ UpdateGroup(c)
  PROVE  Goes(c)
<1>1. /\ TypeOK /\ rows' = rows /\ stack' = stack /\ linked' = linked /\ pc[c] = "new"
      /\ envVersion \in Nat
  BY DEF Ready, RowsInvariant, UpgradeRelease, UpdateGroup, Begins, TypeOK
<1>2. AtRest /\ ~failed[c]
  BY <1>1 DEF Ready, Idle
<1>3. stack = "exists"
  BY <1>2 DEF AtRest, Nothing, UpgradeRelease, UpdateGroup, Installed
<1>4. /\ Lists(Last) /\ Len(rows) # 0 /\ \A a \in App : history[a] # << >> => a \in linked
  BY <1>2, <1>3 DEF AtRest, Ready
<1>5. Last.apps \in [App -> Nat] /\ Last.env \in Nat /\ Last' = Last
  BY <1>1, <1>4, LastFacts DEF Last
<1>6. \A a \in App : Last.apps[a] = Len(history[a])
  BY <1>4 DEF Lists
<1>7. \A a \in App : history[a] = << >> <=> Len(history[a]) = 0
  BY <1>1, HistoryFacts
<1>8. CASE UpgradeRelease(c)
  <2>1. PICK a \in Installed :
          /\ history' = [history EXCEPT ![a] = Append(@, c)]
          /\ seen' = [seen EXCEPT ![c] = Len(history[a]) + 1]
          /\ todo' = [todo EXCEPT ![c] = {a}]
          /\ At(c, IF a \in linked THEN "upgraded" ELSE "ended")
    BY <1>8 DEF UpgradeRelease
  <2>2. a \in App /\ history[a] # << >> /\ a \in linked
    BY <1>4 DEF Installed
  <2>3. /\ pc'[c] = "upgraded" /\ kind'[c] = "upgrade" /\ envVersion' = envVersion
        /\ seen'[c] = Len(history[a]) + 1 /\ todo'[c] = {a}
    BY <1>1, <1>8, <2>1, <2>2 DEF UpgradeRelease, At, TypeOK
  <2>4. history'[a] = Append(history[a], c) /\ \A b \in App \ {a} : history'[b] = history[b]
    BY <1>1, <2>1, <2>2 DEF TypeOK
  <2>5. Len(history'[a]) = Len(history[a]) + 1
    BY <1>1, <2>2, <2>4, HistoryFacts
  <2>6. Last.apps[a] # 0
    BY <1>6, <1>7, <2>2
  <2>7. Last.env = envVersion
    BY <1>4 DEF Lists
  <2>8. Upgrades(c)'
    BY <1>5, <1>6, <2>2, <2>3, <2>4, <2>5, <2>6, <2>7 DEF Upgrades
  <2>9. LinkedBut(c)'
    BY <1>1, <1>4, <2>2, <2>4 DEF LinkedBut
  <2> QED
    BY <1>1, <1>3, <2>3, <2>8, <2>9 DEF Goes, Idle, Doing
<1>9. CASE UpdateGroup(c)
  <2>1. /\ pc'[c] = "working" /\ kind'[c] = "group" /\ envVersion' = envVersion + 1 /\ envVersion > 0
        /\ seen'[c] = envVersion + 1 /\ todo'[c] = Linked \cap Installed
        /\ history' = history /\ failed' = failed
    BY <1>1, <1>9 DEF UpdateGroup, At, TypeOK
  <2>2. Last.env # 0
    BY <1>1, <1>4, <2>1 DEF Lists
  <2>3. \A a \in App : /\ Last.apps[a] # 0 <=> a \in Installed
                      /\ Last.apps[a] \in Nat
    BY <1>5, <1>6, <1>7 DEF Installed
  <2>4. Rolls(c)'
    BY <1>2, <1>5, <1>6, <2>1, <2>2, <2>3 DEF Rolls
  <2>5. LinkedBut(c)'
    BY <1>1, <1>4, <2>1 DEF LinkedBut
  <2> QED
    BY <1>1, <1>3, <2>1, <2>4, <2>5 DEF Goes, Idle, Doing
<1> QED
  BY <1>8, <1>9

LEMMA EndGoes ==
  ASSUME NEW c \in Change, Ready(c), "failure" \notin happened',
         \/ RolledOut(c) \/ DropStack(c) \/ StackGone(c) \/ RenameSaves(c)
         \/ GroupFails(c) \/ HandlerFails(c)
  PROVE  Goes(c)
<1>1. TypeOK
  BY DEF Ready, RowsInvariant
<1>2. CASE GroupFails(c) \/ HandlerFails(c)
  BY <1>2 DEF GroupFails, HandlerFails, Note
<1>3. CASE StackGone(c)
  BY <1>3 DEF StackGone, Ready, Idle, Doing
<1>4. CASE RenameSaves(c)
  <2>1. pc[c] = "renaming" /\ pc'[c] = "ended"
    BY <1>1, <1>4 DEF RenameSaves, At, TypeOK
  <2>2. Doing(c)
    BY <2>1 DEF Ready, Idle
  <2>3. copy[c] = rows /\ stack = "exists" /\ Lists(Last) /\ LinkedBut(c)
    BY <2>1, <2>2 DEF Doing
  <2>4. rows' = [i \in DOMAIN rows |-> rows[i]]
    BY <1>4, <2>3 DEF RenameSaves
  <2>5. /\ Len(rows') = Len(rows) /\ \A i \in DOMAIN rows : rows'[i] = rows[i]
        /\ history' = history /\ envVersion' = envVersion /\ stack' = stack /\ linked' = linked
    BY <1>1, <1>4, <2>4 DEF RenameSaves, cluster, TypeOK
  <2>6. Last' = Last
    <3>1. Len(rows) \in DOMAIN rows
      BY <1>1, <2>3, LastFacts DEF Ready
    <3> QED
      BY <2>5, <3>1 DEF Last
  <2>7. \A a \in App : history[a] # << >> => a \in linked
    BY <2>1, <2>3 DEF LinkedBut
  <2> QED
    BY <2>1, <2>3, <2>5, <2>6, <2>7 DEF Goes, Idle, AtRest, Lists
<1>5. CASE DropStack(c)
  <2>1. /\ pc[c] = "working" /\ kind[c] = "delete" /\ todo[c] = {} /\ pc'[c] = "ended"
        /\ history' = history /\ envVersion' = envVersion /\ stack' = "deleted"
    BY <1>1, <1>5 DEF DropStack, At, cluster, TypeOK
  <2>2. Deletes(c)
    BY <2>1 DEF Ready, Idle, Doing, Own
  <2> QED
    BY <2>1, <2>2 DEF Goes, Idle, AtRest, Nothing, Deletes
<1>6. CASE RolledOut(c)
  <2>1. /\ pc[c] = "working" /\ kind[c] = "group" /\ todo[c] = {}
        /\ history' = history /\ envVersion' = envVersion /\ stack' = stack /\ rows' = rows
        /\ linked' = linked /\ kind' = kind /\ todo' = todo /\ seen' = seen /\ failed' = failed
    BY <1>6 DEF RolledOut, cluster, handlers
  <2>2. Doing(c)
    BY <2>1 DEF Ready, Idle
  <2>3. Rolls(c) /\ stack = "exists" /\ LinkedBut(c)
    BY <2>1, <2>2 DEF Doing, Own
  <2>4. Len(rows) \in DOMAIN rows
    BY <1>1, <2>3, LastFacts DEF Ready
  <2>5. ~failed[c] /\ \E i \in DOMAIN rows : rows[i].env # 0
    BY <2>3, <2>4 DEF Rolls, Last
  <2>6. pc'[c] = "upgraded"
    BY <1>1, <1>6, <2>5 DEF RolledOut, At, TypeOK
  <2>7. Rolls(c)'
    BY <2>1, <2>3 DEF Rolls, Last
  <2>8. LinkedBut(c)'
    BY <2>1, <2>3 DEF LinkedBut
  <2> QED
    BY <2>1, <2>3, <2>6, <2>7, <2>8 DEF Goes, Idle, Doing
<1> QED
  BY <1>2, <1>3, <1>4, <1>5, <1>6

LEMMA HookGoes ==
  ASSUME NEW c \in Change, Ready(c), HelmHookAppends(c) \/ GroupHookAppends(c)
  PROVE  Goes(c)
<1>1. TypeOK /\ pc[c] = "hook"
  BY DEF Ready, RowsInvariant, HelmHookAppends, GroupHookAppends, HookAppends
<1>2. Doing(c)
  BY <1>1 DEF Ready, Idle
<1>3. stack = "exists" /\ LinkedBut(c) /\ mine[c] = Last /\ Len(rows) # 0
  BY <1>1, <1>2 DEF Doing, Ready
<1>4. Last.apps \in [App -> Nat] /\ Last.env \in Nat /\ Last \in Revision
  BY <1>1, <1>3, LastFacts
<1>5. ASSUME NEW apps, NEW env, HookAppends(c, apps, env),
             \A a \in App : apps[a] = Len(history[a]), env = envVersion
      PROVE  Goes(c)
  <2> DEFINE new == [mine[c] EXCEPT !.number = @ + 1, !.status = "deployed", !.env = env,
                                    !.apps = apps, !.ran = Running, !.from = 0]
  <2>1. new.apps = apps /\ new.env = env
    BY <1>3, <1>4 DEF Revision
  <2>2. rows' = Append(rows, new)
    BY <1>3, <1>5 DEF HookAppends
  <2> HIDE DEF new
  <2>3. Len(rows') = Len(rows) + 1 /\ rows'[Len(rows) + 1] = new
    BY <1>1, <2>2 DEF TypeOK
  <2>4. /\ history' = history /\ envVersion' = envVersion /\ stack' = stack /\ linked' = linked
        /\ pc'[c] = "ended"
    BY <1>1, <1>5 DEF HookAppends, At, cluster, TypeOK
  <2>5. Lists(Last)'
    BY <1>5, <2>1, <2>3, <2>4 DEF Lists, Last
  <2>6. \A a \in App : history[a] # << >> => a \in linked
    BY <1>1, <1>3 DEF LinkedBut
  <2> QED
    BY <1>3, <2>4, <2>5, <2>6 DEF Goes, Idle, AtRest
<1>6. CASE HelmHookAppends(c)
  <2>1. kind[c] = "upgrade" /\ HookAppends(c, HelmHookApps(c), mine[c].env)
    BY <1>6 DEF HelmHookAppends
  <2>2. Upgrades(c)
    BY <1>1, <1>2, <2>1 DEF Doing
  <2>3. \A a \in App : HelmHookApps(c)[a] = Len(history[a])
    BY <1>3, <2>2 DEF HelmHookApps, Upgrades
  <2>4. mine[c].env = envVersion
    BY <1>3, <2>2 DEF Upgrades
  <2> QED
    BY <1>5, <2>1, <2>3, <2>4
<1>7. CASE GroupHookAppends(c)
  <2>1. kind[c] = "group" /\ HookAppends(c, GroupHookApps(c), GroupHookVersion(c))
    BY <1>7 DEF GroupHookAppends
  <2>2. Rolls(c) /\ todo[c] = {}
    BY <1>1, <1>2, <2>1 DEF Doing
  <2>3. \A a \in App : GroupHookApps(c)[a] = Len(history[a])
    BY <1>3, <1>4, <2>2 DEF GroupHookApps, Rolls
  <2>4. GroupHookVersion(c) = envVersion
    BY <1>3, <2>2 DEF GroupHookVersion, Rolls
  <2> QED
    BY <1>5, <2>1, <2>3, <2>4
<1> QED
  BY <1>6, <1>7

\* A request that has not begun, or only arrived, is of no kind yet and has met no error.
LEMMA FreshStep ==
  ASSUME TypeOK, Fresh, NEW c \in Change, \A d \in Change \ {c} : Untouched(d),
         \/ CreateStack(c)
         \/ LoadStack(c) \/ ReadLatest(c) \/ ReadTarget(c) \/ DeleteResources(c) \/ HookReads(c)
         \/ \/ AddApplication(c) \/ RemoveApplication(c) \/ PutSourceConfig(c)
            \/ RollbackStack(c) \/ AddEnvGroup(c) \/ RemoveEnvGroup(c)
         \/ Save(c) \/ RenameSaves(c)
         \/ HelmHookAppends(c) \/ GroupHookAppends(c)
         \/ \/ ApplyGroup(c) \/ DeleteGroup(c) \/ GroupFails(c) \/ LinkReleases(c)
            \/ DropStack(c) \/ StackGone(c) \/ UpgradeRelease(c) \/ UpdateGroup(c)
            \/ RolledOut(c) \/ RenameReads(c) \/ HandlerFails(c)
         \/ \E a \in App : \/ Install(c, a) \/ Uninstall(c, a) \/ UpdateTag(c, a)
                          \/ RollbackApp(c, a) \/ RolloutApp(c, a) \/ HelmFails(c, a)
  PROVE  Fresh'
<1>1. \A d \in Change \ {c} : failed'[d] = failed[d]
  <2>1. failed' = failed \/ \E x : failed' = [failed EXCEPT ![c] = x]
    BY DEF CreateStack, LoadStack, ReadLatest, ReadTarget, DeleteResources, HookReads,
           AddApplication, RemoveApplication, PutSourceConfig, RollbackStack, AddEnvGroup,
           RemoveEnvGroup, Appends, Save, RenameSaves, HelmHookAppends, GroupHookAppends,
           HookAppends, ApplyGroup, DeleteGroup, GroupFails, LinkReleases, DropStack, StackGone,
           UpgradeRelease, UpdateGroup, RolledOut, RenameReads, HandlerFails, Install, Uninstall,
           UpdateTag, RollbackApp, RolloutApp, HelmFails, Errs, handlers
  <2> QED
    BY <2>1 DEF TypeOK
<1>2. CASE LoadStack(c)
  <2>1. pc[c] = "new" /\ kind' = kind /\ failed' = failed
    BY <1>2 DEF LoadStack, Begins
  <2> QED
    BY <2>1 DEF Fresh, Untouched
<1>3. CASE ~LoadStack(c)
  <2>1. pc'[c] \notin {"new", "arrived"}
    <3>1. CASE UpgradeRelease(c)
      BY <3>1 DEF UpgradeRelease, At, TypeOK
    <3>2. CASE UpdateGroup(c) \/ RolledOut(c) \/ Save(c)
      BY <3>2 DEF UpdateGroup, RolledOut, Save, At, TypeOK
    <3>3. CASE \/ CreateStack(c) \/ ReadLatest(c) \/ ReadTarget(c) \/ DeleteResources(c)
               \/ HookReads(c) \/ RenameSaves(c)
               \/ HelmHookAppends(c) \/ GroupHookAppends(c)
               \/ LinkReleases(c) \/ DropStack(c) \/ StackGone(c) \/ RenameReads(c) \/ HandlerFails(c)
      BY <3>3 DEF CreateStack, ReadLatest, ReadTarget, DeleteResources, HookReads, RenameSaves,
                  HelmHookAppends, GroupHookAppends, HookAppends, LinkReleases, DropStack, StackGone,
                  RenameReads, HandlerFails, At, TypeOK
    <3>4. CASE \/ AddApplication(c) \/ RemoveApplication(c) \/ PutSourceConfig(c)
               \/ RollbackStack(c) \/ AddEnvGroup(c) \/ RemoveEnvGroup(c)
      BY <3>4, HandlerAppends DEF Appends, At, TypeOK
    <3>5. CASE \/ ApplyGroup(c) \/ DeleteGroup(c) \/ GroupFails(c)
               \/ \E a \in App : \/ Install(c, a) \/ Uninstall(c, a) \/ UpdateTag(c, a)
                                \/ RollbackApp(c, a) \/ RolloutApp(c, a) \/ HelmFails(c, a)
      BY <3>5 DEF ApplyGroup, DeleteGroup, GroupFails, Install, Uninstall, UpdateTag, RollbackApp,
                  RolloutApp, HelmFails, Works
    <3> QED
      BY <1>3, <3>1, <3>2, <3>3, <3>4, <3>5
  <2> QED
    BY <1>1, <2>1 DEF Fresh, Untouched
<1> QED
  BY <1>2, <1>3

LEMMA OrderlyStep ==
  RowsInvariant /\ AloneInvariant /\ UnderWayInvariant /\ OrderlyInvariant /\ [Next]_vars
    => OrderlyInvariant'
<1> SUFFICES ASSUME RowsInvariant, AloneInvariant, UnderWayInvariant, OrderlyInvariant, [Next]_vars
             PROVE  OrderlyInvariant'
  OBVIOUS
<1>1. CASE UNCHANGED vars
  <2>1. /\ stack' = stack /\ rows' = rows /\ history' = history /\ envVersion' = envVersion
        /\ linked' = linked /\ pc' = pc /\ kind' = kind /\ seen' = seen /\ mine' = mine /\ row' = row
        /\ todo' = todo /\ failed' = failed /\ copy' = copy /\ happened' = happened
    BY <1>1 DEF vars
  <2>2. Fresh' /\ (Orderly' <=> Orderly) /\ (AtRest' <=> AtRest)
    BY <2>1 DEF Fresh, OrderlyInvariant, Orderly, AtRest, Lists, Last, Nothing
  <2>3. \A c \in Change : Idle(c)' <=> Idle(c)
    BY <2>1 DEF Idle
  <2>4. ASSUME NEW c \in Change, Doing(c)
        PROVE  Doing(c)'
    <3>1. Makes(c) => Makes(c)'
      BY <2>1 DEF Makes
    <3>2. (Deletes(c) => Deletes(c)') /\ (Rolls(c) => Rolls(c)') /\ (Upgrades(c) => Upgrades(c)')
      BY <2>1 DEF Deletes, Rolls, Upgrades, Last
    <3>3. LinkedBut(c)'
      BY <2>1, <2>4 DEF Doing, LinkedBut
    <3> QED
      BY <2>1, <2>4, <3>1, <3>2, <3>3 DEF Doing, Lists, Last
  <2> QED
    BY <2>2, <2>3, <2>4 DEF OrderlyInvariant
<1>2. CASE Next
  <2>1. PICK c \in Change :
          /\ \/ CreateStack(c)
             \/ LoadStack(c) \/ ReadLatest(c) \/ ReadTarget(c) \/ DeleteResources(c) \/ HookReads(c)
             \/ \/ AddApplication(c) \/ RemoveApplication(c) \/ PutSourceConfig(c)
                \/ RollbackStack(c) \/ AddEnvGroup(c) \/ RemoveEnvGroup(c)
             \/ Save(c) \/ RenameSaves(c)
             \/ HelmHookAppends(c) \/ GroupHookAppends(c)
             \/ \/ ApplyGroup(c) \/ DeleteGroup(c) \/ GroupFails(c) \/ LinkReleases(c)
                \/ DropStack(c) \/ StackGone(c) \/ UpgradeRelease(c) \/ UpdateGroup(c)
                \/ RolledOut(c) \/ RenameReads(c) \/ HandlerFails(c)
             \/ \E a \in App : \/ Install(c, a) \/ Uninstall(c, a) \/ UpdateTag(c, a)
                              \/ RollbackApp(c, a) \/ RolloutApp(c, a) \/ HelmFails(c, a)
          /\ \A d \in Change \ {c} : Untouched(d)
          /\ Begins(c, {}) \/ (pc[c] \notin {"new", "ended"} /\ happened \subseteq happened')
    BY <1>2, Steps
  <2>2. Fresh'
    BY <2>1, FreshStep DEF RowsInvariant, OrderlyInvariant
  <2>3. ASSUME Orderly'
        PROVE  Goes(c) /\ \A d \in Change \ {c} : Idle(d)'
    <3>1. "overlap" \notin happened' /\ "rollback" \notin happened' /\ "failure" \notin happened' /\ Orderly
      BY <2>1, <2>3 DEF Orderly, Begins
    <3>2. "overlap" \notin happened /\ \A d \in Change \ {c} : Idle(d) /\ Idle(d)'
      BY <2>1, <3>1, AloneStep
    <3>3. IF Idle(c) THEN AtRest ELSE Doing(c)
      BY <3>1, <3>2 DEF OrderlyInvariant
    <3>4. Ready(c)
      BY <3>2, <3>3 DEF Ready, AloneInvariant, UnderWayInvariant, OrderlyInvariant, Fresh
    <3>5. stack = "none" => Len(rows) = 0
      BY DEF UnderWayInvariant
    <3>6. Goes(c)
      BY <2>1, <3>1, <3>4, <3>5, CreateGoes, ReadGoes, HandlerGoes, WorkGoes, GroupGoes, SaveGoes,
         LinkGoes, ChangeGoes, EndGoes, HookGoes
    <3> QED
      BY <3>2, <3>6
  <2> QED
    BY <2>2, <2>3 DEF OrderlyInvariant, Goes
<1> QED
  BY <1>1, <1>2

LEMMA InitOrderly == Init => AloneInvariant /\ UnderWayInvariant /\ OrderlyInvariant
  BY DEF Init, AloneInvariant, Ordered, Current, Idle, UnderWayInvariant, OrderlyInvariant, Fresh,
         AtRest, Nothing

\* While requests neither overlap nor fail, and none rolls back, the latest revision lists what
\* there is in the cluster whenever none is under way, and a request that is under way knows
\* what it has still to do for that.
THEOREM OrderlyHolds == Spec => [](AloneInvariant /\ OrderlyInvariant)
  BY InitOrderly, InitRows, RowsStep, UniqueStep, UnderWayStep, OrderlyStep, PTL DEF Spec

\* When nothing is under way, the latest revision lists the applications that are installed,
\* each with its current Helm revision, and the current version of the group: after requests
\* of which none was a rollback, none failed and no two overlapped.
THEOREM LatestRevisionIsWhatRuns == Spec => []LatestIsWhatRuns
<1>1. RowsInvariant /\ AloneInvariant /\ OrderlyInvariant => LatestIsWhatRuns
  <2> SUFFICES ASSUME RowsInvariant, AloneInvariant, OrderlyInvariant, Quiet, stack = "exists", Orderly,
                      NEW i \in DOMAIN rows, IsLatest(rows[i].number)
               PROVE  (\A a \in App : rows[i].apps[a] = Len(history[a])) /\ rows[i].env = envVersion
    BY DEF LatestIsWhatRuns, Orderly
  <2>1. AtRest
    BY DEF OrderlyInvariant, Quiet, InFlight, Idle
  <2>2. Ordered /\ TypeOK
    BY DEF AloneInvariant, Orderly, RowsInvariant
  <2>3. i = Len(rows)
    BY <2>2, LatestIsLast
  <2> QED
    BY <2>1, <2>3 DEF AtRest, Lists, Last
<1> QED
  BY <1>1, OrderlyHolds, InitRows, RowsStep, PTL DEF Spec

\* Nothing of a deleted stack stays in the cluster, after requests of which none was a
\* rollback, none failed and no two overlapped (StackDeleteHandler).
THEOREM NothingIsLeft == Spec => []DeletedLeavesNothing
<1>1. OrderlyInvariant => DeletedLeavesNothing
  <2> SUFFICES ASSUME OrderlyInvariant, stack = "deleted", Orderly
               PROVE  Installed = {} /\ envVersion = 0
    BY DEF DeletedLeavesNothing, Orderly
  <2>1. \A c \in Change : Idle(c)
    BY DEF OrderlyInvariant, Doing
  <2> QED
    BY <2>1 DEF OrderlyInvariant, AtRest, Nothing, Installed
<1> QED
  BY <1>1, OrderlyHolds, PTL

-----------------------------------------------------------------------------
(* What a deployed revision lists is what ran.                             *)

\* A Helm revision that a deployed revision lists is made of what ran when it was deployed.
Recorded(i) ==
  \A a \in App :
    rows[i].status = "deployed" /\ rows[i].apps[a] # 0 /\ rows[i].ran[a] # NoContent =>
      rows[i].apps[a] <= Len(history[a]) /\ history[a][rows[i].apps[a]] = rows[i].ran[a]

RecordsInvariant == Orderly /\ "remove" \notin happened => \A i \in DOMAIN rows : Recorded(i)

\* The Helm histories only grow.
Extends ==
  \A a \in App : /\ Len(history[a]) <= Len(history'[a])
                 /\ \A v \in 1..Len(history[a]) : history'[a][v] = history[a][v]

LEMMA HistoryExtends ==
  ASSUME TypeOK, NEW c \in Change, "failure" \notin happened', "remove" \notin happened',
         \/ CreateStack(c)
         \/ LoadStack(c) \/ ReadLatest(c) \/ ReadTarget(c) \/ DeleteResources(c) \/ HookReads(c)
         \/ \/ AddApplication(c) \/ RemoveApplication(c) \/ PutSourceConfig(c)
            \/ RollbackStack(c) \/ AddEnvGroup(c) \/ RemoveEnvGroup(c)
         \/ Save(c) \/ RenameSaves(c)
         \/ HelmHookAppends(c) \/ GroupHookAppends(c)
         \/ \/ ApplyGroup(c) \/ DeleteGroup(c) \/ GroupFails(c) \/ LinkReleases(c)
            \/ DropStack(c) \/ StackGone(c) \/ UpgradeRelease(c) \/ UpdateGroup(c)
            \/ RolledOut(c) \/ RenameReads(c) \/ HandlerFails(c)
         \/ \E a \in App : \/ Install(c, a) \/ Uninstall(c, a) \/ UpdateTag(c, a)
                          \/ RollbackApp(c, a) \/ RolloutApp(c, a) \/ HelmFails(c, a)
  PROVE  Extends
<1>1. \A b \in App : history[b] \in Seq(Change) /\ Len(history[b]) \in Nat
  BY DEF TypeOK
<1>2. ASSUME history' = history
      PROVE  Extends
  BY <1>1, <1>2 DEF Extends
<1>3. ASSUME NEW a \in App, NEW e \in Change, history' = [history EXCEPT ![a] = Append(@, e)]
      PROVE  Extends
  <2>1. history'[a] = Append(history[a], e) /\ \A b \in App \ {a} : history'[b] = history[b]
    BY <1>3 DEF TypeOK
  <2>2. /\ Len(Append(history[a], e)) = Len(history[a]) + 1
        /\ \A v \in 1..Len(history[a]) : Append(history[a], e)[v] = history[a][v]
    BY <1>1, AppendFacts
  <2> QED
    BY <1>1, <2>1, <2>2 DEF Extends
<1>4. CASE UpgradeRelease(c)
  <2>1. PICK a \in Installed : history' = [history EXCEPT ![a] = Append(@, c)]
    BY <1>4 DEF UpgradeRelease
  <2> QED
    BY <1>3, <2>1 DEF Installed
<1>5. ASSUME NEW a \in App, UpdateTag(c, a) \/ RolloutApp(c, a)
      PROVE  Extends
  BY <1>2, <1>3, <1>5 DEF UpdateTag, RolloutApp
<1>6. ASSUME NEW a \in App, RollbackApp(c, a)
      PROVE  Extends
  <2>1. \A v \in DOMAIN history[a] : history[a][v] \in Change
    BY <1>1
  <2> QED
    BY <1>2, <1>3, <1>6, <2>1 DEF RollbackApp
<1>7. ASSUME NEW a \in App, Install(c, a)
      PROVE  Extends
  <2>1. CASE a \in Installed
    BY <1>2, <1>7, <2>1 DEF Install
  <2>2. CASE a \notin Installed
    <3>1. history[a] = << >> /\ history' = [history EXCEPT ![a] = <<c>>]
      BY <1>7, <2>2 DEF Install, Installed
    <3>2. Len(history[a]) = 0 /\ \A b \in App \ {a} : history'[b] = history[b]
      BY <1>1, <3>1, HistoryFacts DEF TypeOK
    <3>3. history'[a] = <<c>> /\ Len(history'[a]) = 1
      BY <3>1, HistoryFacts DEF TypeOK
    <3> QED
      BY <1>1, <3>2, <3>3 DEF Extends
  <2> QED
    BY <2>1, <2>2
<1>8. CASE \/ HandlerFails(c) \/ GroupFails(c)
           \/ \E a \in App : Uninstall(c, a) \/ HelmFails(c, a)
  BY <1>8 DEF HandlerFails, GroupFails, Uninstall, HelmFails, Note
<1>9. CASE \/ AddApplication(c) \/ RemoveApplication(c) \/ PutSourceConfig(c)
           \/ RollbackStack(c) \/ AddEnvGroup(c) \/ RemoveEnvGroup(c)
  BY <1>2, <1>9, HandlerAppends DEF Appends, cluster
<1>10. CASE \/ CreateStack(c) \/ LoadStack(c) \/ ReadLatest(c) \/ ReadTarget(c)
            \/ DeleteResources(c) \/ HookReads(c) \/ Save(c) \/ RenameSaves(c)
            \/ HelmHookAppends(c) \/ GroupHookAppends(c) \/ ApplyGroup(c) \/ DeleteGroup(c)
            \/ LinkReleases(c) \/ DropStack(c) \/ StackGone(c) \/ UpdateGroup(c)
            \/ RolledOut(c) \/ RenameReads(c)
  BY <1>2, <1>10 DEF CreateStack, LoadStack, ReadLatest, ReadTarget, DeleteResources, HookReads,
                     Save, RenameSaves, HelmHookAppends, GroupHookAppends, HookAppends, ApplyGroup,
                     DeleteGroup, LinkReleases, DropStack, StackGone, UpdateGroup, RolledOut,
                     RenameReads, cluster
<1> QED
  BY <1>4, <1>5, <1>6, <1>7, <1>8, <1>9, <1>10

\* What a step makes of the rows: one that it changes or appends is recorded.
RowsRecord == \A i \in DOMAIN rows' : (i \in DOMAIN rows /\ rows'[i] = rows[i]) \/ Recorded(i)'

\* A revision that lists what there is and has noted what runs is recorded.
LEMMA ListedIsRecorded ==
  ASSUME TypeOK, Lists(Last)', history' = history, rows'[Len(rows')].ran = Running
  PROVE  \A i : i = Len(rows') => Recorded(i)'
<1>1. \A a \in App : rows'[Len(rows')].apps[a] = Len(history[a])
  BY DEF Lists, Last
<1>2. \A a \in App : history[a] # << >> => Running[a] = history[a][Len(history[a])]
  BY DEF Running, Installed
<1>3. ASSUME NEW a \in App, rows'[Len(rows')].apps[a] # 0
      PROVE  /\ rows'[Len(rows')].apps[a] <= Len(history'[a])
             /\ history'[a][rows'[Len(rows')].apps[a]] = rows'[Len(rows')].ran[a]
  <2>1. history[a] # << >> /\ Len(history[a]) \in Nat
    BY <1>1, <1>3, HistoryFacts
  <2>2. rows'[Len(rows')].apps[a] = Len(history[a]) /\ rows'[Len(rows')].ran[a] = history[a][Len(history[a])]
    BY <1>1, <1>2, <2>1
  <2> QED
    BY <2>1, <2>2
<1> QED
  BY <1>3 DEF Recorded

\* Nothing has been noted yet by a revision that is only to be deployed.
LEMMA AppendedIsRecorded ==
  ASSUME TypeOK, NEW new, rows' = Append(rows, new), \A a \in App : new.ran[a] = NoContent
  PROVE  RowsRecord
<1>1. /\ DOMAIN rows' = 1..(Len(rows) + 1) /\ DOMAIN rows = 1..Len(rows) /\ Len(rows) \in Nat
      /\ \A i \in DOMAIN rows : rows'[i] = rows[i]
      /\ rows'[Len(rows) + 1] = new
  BY DEF TypeOK
<1>2. \A i : i = Len(rows) + 1 => Recorded(i)'
  BY <1>1 DEF Recorded
<1> QED
  BY <1>1, <1>2 DEF RowsRecord

LEMMA HandlerRecords ==
  ASSUME TypeOK, NEW c \in Change,
         \/ CreateStack(c)
         \/ AddApplication(c) \/ RemoveApplication(c) \/ PutSourceConfig(c)
         \/ RollbackStack(c) \/ AddEnvGroup(c) \/ RemoveEnvGroup(c)
  PROVE  RowsRecord
<1>1. CASE CreateStack(c)
  <2>1. PICK apps \in SUBSET App, env \in 0..1 :
          rows' = Append(rows, [Blank EXCEPT !.number = 1, !.env = env,
                                             !.apps = [a \in App |-> IF a \in apps THEN 1 ELSE 0]])
    BY <1>1 DEF CreateStack
  <2> DEFINE first == [Blank EXCEPT !.number = 1, !.env = env,
                                    !.apps = [a \in App |-> IF a \in apps THEN 1 ELSE 0]]
  <2>2. first.ran = Blank.ran /\ Blank.ran = [a \in App |-> NoContent]
    BY DEF Blank
  <2>3. \A a \in App : first.ran[a] = NoContent
    BY <2>2
  <2>4. rows' = Append(rows, first)
    BY <2>1
  <2> HIDE DEF first
  <2> QED
    BY <2>3, <2>4, AppendedIsRecorded
<1>2. CASE \/ AddApplication(c) \/ RemoveApplication(c) \/ PutSourceConfig(c)
           \/ RollbackStack(c) \/ AddEnvGroup(c) \/ RemoveEnvGroup(c)
  <2>1. PICK k \in Operations \ {"create", "delete", "group"}, rev \in Revision,
             work \in SUBSET (App \cup {Group}) : Appends(c, k, rev, work) /\ Asks(c, k, rev, work)
    BY <1>2, HandlerAppends
  <2> DEFINE new == [rev EXCEPT !.number = @ + 1]
  <2>2. new.ran = rev.ran /\ \A a \in App : rev.ran[a] = NoContent
    BY <2>1 DEF Asks, Revision
  <2>3. rows' = Append(rows, new)
    BY <2>1 DEF Appends
  <2> HIDE DEF new
  <2> QED
    BY <2>2, <2>3, AppendedIsRecorded
<1> QED
  BY <1>1, <1>2

LEMMA SaveRecords ==
  ASSUME NEW c \in Change, Ready(c), Save(c)
  PROVE  RowsRecord
<1>1. TypeOK /\ OwnRow(c)
  BY DEF Ready, RowsInvariant
<1>2. pc[c] = "working" /\ kind[c] \notin {"delete", "group"} /\ history' = history
  BY DEF Save, cluster
<1>3. Doing(c)
  BY <1>2 DEF Ready, Idle
<1>4. row[c] = Len(rows) /\ row[c] \in DOMAIN rows
  BY <1>1, <1>2, <1>3 DEF Doing, Makes, OwnRow
<1>5. PICK status \in Status :
        rows' = [rows EXCEPT ![row[c]] = [mine[c] EXCEPT !.status = status, !.ran = Running]]
  BY DEF Save, Status
<1> DEFINE new == [mine[c] EXCEPT !.status = status, !.ran = Running]
<1>6. new.ran = Running
  BY <1>1 DEF TypeOK, Revision
<1>7. rows' = [rows EXCEPT ![row[c]] = new]
  BY <1>5
<1> HIDE DEF new
<1>8. /\ DOMAIN rows' = DOMAIN rows /\ Len(rows') = Len(rows) /\ rows'[Len(rows')] = new
      /\ \A i \in DOMAIN rows : i # Len(rows') => rows'[i] = rows[i]
  BY <1>1, <1>4, <1>7 DEF TypeOK
<1>9. Lists(Last)'
  <2>1. Goes(c) /\ pc'[c] \in {"linking", "ended"} /\ stack' = "exists"
    BY <1>1, <1>3, SaveGoes DEF Save, At, TypeOK, Doing
  <2> QED
    BY <2>1 DEF Goes, Idle, Doing, AtRest
<1>10. \A i : i = Len(rows') => Recorded(i)'
  BY <1>1, <1>2, <1>6, <1>8, <1>9, ListedIsRecorded
<1> QED
  BY <1>8, <1>10 DEF RowsRecord

LEMMA HookRecords ==
  ASSUME NEW c \in Change, Ready(c), HelmHookAppends(c) \/ GroupHookAppends(c)
  PROVE  RowsRecord
<1>1. PICK apps, env : HookAppends(c, apps, env)
  BY DEF HelmHookAppends, GroupHookAppends
<1>2. TypeOK /\ pc[c] = "hook" /\ history' = history
  BY <1>1 DEF Ready, RowsInvariant, HookAppends, cluster
<1>3. stack = "exists"
  BY <1>2 DEF Ready, Idle, Doing
<1> DEFINE new == [mine[c] EXCEPT !.number = @ + 1, !.status = "deployed", !.env = env,
                                  !.apps = apps, !.ran = Running, !.from = 0]
<1>4. new.ran = Running
  BY <1>2 DEF TypeOK, Revision
<1>5. rows' = Append(rows, new)
  BY <1>1, <1>3 DEF HookAppends
<1> HIDE DEF new
<1>6. /\ DOMAIN rows' = 1..(Len(rows) + 1) /\ DOMAIN rows = 1..Len(rows) /\ Len(rows) \in Nat
      /\ \A i \in DOMAIN rows : rows'[i] = rows[i]
      /\ Len(rows') = Len(rows) + 1 /\ rows'[Len(rows')] = new
  BY <1>2, <1>5 DEF TypeOK
<1>7. Lists(Last)'
  <2>1. Goes(c) /\ pc'[c] = "ended" /\ stack' = "exists"
    BY <1>1, <1>2, <1>3, HookGoes DEF HookAppends, At, TypeOK
  <2> QED
    BY <2>1 DEF Goes, Idle, AtRest
<1>8. \A i : i = Len(rows') => Recorded(i)'
  BY <1>2, <1>4, <1>6, <1>7, ListedIsRecorded
<1> QED
  BY <1>6, <1>8 DEF RowsRecord

LEMMA OtherRecords ==
  ASSUME NEW c \in Change, Ready(c),
         \/ LoadStack(c) \/ ReadLatest(c) \/ ReadTarget(c) \/ DeleteResources(c) \/ HookReads(c)
         \/ RenameSaves(c)
         \/ \/ ApplyGroup(c) \/ DeleteGroup(c) \/ GroupFails(c) \/ LinkReleases(c)
            \/ DropStack(c) \/ StackGone(c) \/ UpgradeRelease(c) \/ UpdateGroup(c)
            \/ RolledOut(c) \/ RenameReads(c) \/ HandlerFails(c)
         \/ \E a \in App : \/ Install(c, a) \/ Uninstall(c, a) \/ UpdateTag(c, a)
                          \/ RollbackApp(c, a) \/ RolloutApp(c, a) \/ HelmFails(c, a)
  PROVE  RowsRecord
<1>1. CASE RenameSaves(c)
  <2>1. pc[c] = "renaming"
    BY <1>1 DEF RenameSaves
  <2>2. copy[c] = rows
    BY <2>1 DEF Ready, Idle, Doing
  <2>3. rows' = [i \in DOMAIN rows |-> rows[i]]
    BY <1>1, <2>2 DEF RenameSaves
  <2> QED
    BY <2>3 DEF RowsRecord
<1>2. CASE ~RenameSaves(c)
  <2>1. rows' = rows
    BY <1>2 DEF LoadStack, ReadLatest, ReadTarget, DeleteResources, HookReads, ApplyGroup,
                DeleteGroup, GroupFails, LinkReleases, DropStack, StackGone, UpgradeRelease,
                UpdateGroup, RolledOut, RenameReads, HandlerFails, Install, Uninstall, UpdateTag,
                RollbackApp, RolloutApp, HelmFails
  <2> QED
    BY <2>1 DEF RowsRecord
<1> QED
  BY <1>1, <1>2

LEMMA RecordsStep ==
  RowsInvariant /\ AloneInvariant /\ UnderWayInvariant /\ OrderlyInvariant /\ RecordsInvariant /\ [Next]_vars
    => RecordsInvariant'
<1> SUFFICES ASSUME RowsInvariant, AloneInvariant, UnderWayInvariant, OrderlyInvariant,
                    RecordsInvariant, [Next]_vars, Orderly', "remove" \notin happened'
             PROVE  \A i \in DOMAIN rows' : Recorded(i)'
  BY DEF RecordsInvariant
<1>1. CASE UNCHANGED vars
  BY <1>1 DEF vars, RecordsInvariant, Recorded, Orderly
<1>2. CASE Next
  <2>1. PICK c \in Change :
          /\ \/ CreateStack(c)
             \/ LoadStack(c) \/ ReadLatest(c) \/ ReadTarget(c) \/ DeleteResources(c) \/ HookReads(c)
             \/ \/ AddApplication(c) \/ RemoveApplication(c) \/ PutSourceConfig(c)
                \/ RollbackStack(c) \/ AddEnvGroup(c) \/ RemoveEnvGroup(c)
             \/ Save(c) \/ RenameSaves(c)
             \/ HelmHookAppends(c) \/ GroupHookAppends(c)
             \/ \/ ApplyGroup(c) \/ DeleteGroup(c) \/ GroupFails(c) \/ LinkReleases(c)
                \/ DropStack(c) \/ StackGone(c) \/ UpgradeRelease(c) \/ UpdateGroup(c)
                \/ RolledOut(c) \/ RenameReads(c) \/ HandlerFails(c)
             \/ \E a \in App : \/ Install(c, a) \/ Uninstall(c, a) \/ UpdateTag(c, a)
                              \/ RollbackApp(c, a) \/ RolloutApp(c, a) \/ HelmFails(c, a)
          /\ \A d \in Change \ {c} : Untouched(d)
          /\ Begins(c, {}) \/ (pc[c] \notin {"new", "ended"} /\ happened \subseteq happened')
    BY <1>2, Steps
  <2>2. /\ "overlap" \notin happened' /\ "failure" \notin happened' /\ Orderly
        /\ "remove" \notin happened /\ TypeOK
    BY <2>1 DEF Orderly, Begins, RowsInvariant
  <2>3. "overlap" \notin happened /\ \A d \in Change \ {c} : Idle(d)
    BY <2>1, <2>2, AloneStep
  <2>4. Ready(c)
    BY <2>2, <2>3 DEF Ready, AloneInvariant, UnderWayInvariant, OrderlyInvariant, Fresh
  <2>5. Extends
    BY <2>1, <2>2, HistoryExtends
  <2>6. RowsRecord
    BY <2>1, <2>2, <2>4, HandlerRecords, SaveRecords, HookRecords, OtherRecords
  <2>7. ASSUME NEW i \in DOMAIN rows, rows'[i] = rows[i]
        PROVE  Recorded(i)'
    <3>1. Recorded(i) /\ rows[i] \in Revision
      BY <2>2 DEF RecordsInvariant, TypeOK
    <3>2. \A a \in App : rows[i].apps[a] \in Nat /\ Len(history[a]) \in Nat /\ Len(history'[a]) \in Nat
      <4>1. \A a \in App : history[a] \in Seq(Change) /\ history'[a] \in Seq(Change)
        BY TypeStep DEF RowsInvariant, TypeOK
      <4>2. rows[i].apps \in [App -> Nat]
        BY <3>1 DEF Revision
      <4> QED
        BY <4>1, <4>2
    <3> QED
      BY <2>5, <2>7, <3>1, <3>2 DEF Recorded, Extends
  <2> QED
    BY <2>6, <2>7 DEF RowsRecord
<1> QED
  BY <1>1, <1>2

\* The Helm revisions that a deployed revision lists are made of what ran when it was deployed,
\* so that a rollback to it brings that back: after requests of which none removed an
\* application or rolled back, none failed and no two overlapped.
THEOREM RevisionsRecordWhatRan == Spec => []RecordsWhatRan
<1>1. Init => RecordsInvariant
  BY DEF Init, RecordsInvariant
<1>2. RecordsInvariant => RecordsWhatRan
  BY DEF RecordsInvariant, RecordsWhatRan, Recorded, AppsOf, Orderly
<1> QED
  BY <1>1, <1>2, InitOrderly, InitRows, RowsStep, UniqueStep, UnderWayStep, OrderlyStep, RecordsStep,
     PTL DEF Spec
=============================================================================
