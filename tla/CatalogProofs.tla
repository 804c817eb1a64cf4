--------------------------- MODULE CatalogProofs ---------------------------
(* Catalog's properties, for any number of clients, projects, tasks, threads *)
(* and any set of patches.                                                   *)
(*                                                                           *)
(* A commit may disturb any request in flight, so the invariant says of each *)
(* request what survives every commit of another thread (Sound): the kind of *)
(* its row, and, as long as it has not raced, that its row is the merge of   *)
(* what the table holds now and that its parent is there.                    *)
EXTENDS Catalog, TLAPS

Sound(r) ==
    /\ r.pc = "idle" <=> r.op = "none"
    /\ r.op # "none" => r.id \in Ids
    /\ r.op \in {"create", "update"} => r.fields.parent \in ParentsOf(r.id)
    /\ r.op = "create" => state[r.id] = "unborn"
    /\ r.op \in {"update", "delete"} => state[r.id] # "unborn"
    /\ r.op = "update" /\ ~ r.raced =>
          Live(r.id) /\ r.fields = Merge(fields[r.id], r.patch)
    /\ r.pc = "parent" => r.op = "update" /\ r.patch.parent # None
    /\ r.pc = "commit" /\ r.op \in {"create", "update"} /\ ~ r.raced => ForeignKey(r.fields)

(* No two requests create one id, nor does any work on an id being created.  *)
Alone(th, r) ==
    /\ r.op = "create" => \A other \in Threads \ {th} : thread[other].id # r.id
    /\ \A other \in Threads \ {th} : thread[other].op = "create" => thread[other].id # r.id

IInv ==
    /\ CatalogTypeOK
    /\ RefsHold
    /\ \A th \in Threads : Sound(thread[th]) /\ Alone(th, thread[th])

-----------------------------------------------------------------------------
(* Types of what the operators build *)

LEMMA NothingTyped == NoPatch \in Patch /\ NoFields \in Fields
BY DEF NoPatch, Patch, NoFields, Fields

LEMMA IdleTyped ==
    ASSUME NEW answer \in {"none", "ok", "missing", "error"}
    PROVE  Idle(answer) \in Request
BY NothingTyped DEF Idle, Request

LEMMA BusyTyped ==
    ASSUME NEW pc \in {"parent", "commit"}, NEW op \in {"create", "update", "delete"},
           NEW id \in Ids, NEW p \in Patch, NEW f \in Fields
    PROVE  Busy(pc, op, id, p, f) \in Request
BY DEF Busy, Request

LEMMA MergeTyped ==
    ASSUME NEW f \in Fields, NEW p \in Patch
    PROVE  Merge(f, p) \in Fields
<1> DEFINE label == IF p.label # None THEN p.label ELSE f.label
           parent == IF p.clear THEN None ELSE IF p.parent # None THEN p.parent ELSE f.parent
           archived == IF p.archived # None THEN p.archived ELSE f.archived
<1>1. label \in Labels \cup {None}
    BY DEF Patch, Fields
<1>2. parent \in Ids \cup {None}
    BY DEF Patch, Fields
<1>3. archived \in BOOLEAN
    BY Zenon DEF Patch, Fields
<1> QED
    BY <1>1, <1>2, <1>3 DEF Merge, Fields

(* The merged row keeps to the kind of parent its table has.                 *)
LEMMA MergeKind ==
    ASSUME NEW id \in Ids, NEW f \in Fields, NEW p \in PatchesFor(id),
           f.parent \in ParentsOf(id)
    PROVE  Merge(f, p).parent \in ParentsOf(id)
BY CatalogAssumption DEF Merge, PatchesFor, ParentsOf, Patch, Ids

LEMMA FinishTyped ==
    ASSUME thread \in [Threads -> Request], NEW th \in Threads,
           NEW answer \in {"none", "ok", "missing", "error"}, NEW written,
           Finish(th, answer, written)
    PROVE  thread' \in [Threads -> Request]
<1> SUFFICES ASSUME NEW other \in Threads PROVE thread'[other] \in Request
    BY DEF Finish
<1>1. CASE other = th
    BY <1>1, IdleTyped DEF Finish
<1>2. CASE other # th
    <2> DEFINE r == thread[other]
             raced == r.raced \/ (r.pc # "idle" /\ {r.id, r.fields.parent} \cap written # {})
    <2>1. raced \in BOOLEAN
        BY Zenon
    <2>2. thread'[other] = [r EXCEPT !.raced = raced]
        BY <1>2 DEF Finish
    <2>3. r \in Request
        OBVIOUS
    <2> HIDE DEF raced
    <2> QED
        BY <2>1, <2>2, <2>3 DEF Request
<1> QED
    BY <1>1, <1>2

-----------------------------------------------------------------------------
(* The two ways a step changes the requests                                  *)

(* A request reads: its thread's own state changes, the tables do not.       *)
LEMMA BecomeSafe ==
    ASSUME IInv, NEW th \in Threads, NEW r \in Request, Become(th, r),
           Sound(r), Alone(th, r)
    PROVE  IInv'
<1>1. /\ thread' = [thread EXCEPT ![th] = r]
      /\ state' = state /\ fields' = fields /\ tracked' = tracked
    BY DEF Become
<1>2. CatalogTypeOK'
    BY <1>1 DEF IInv, CatalogTypeOK
<1>3. RefsHold'
    BY <1>1 DEF IInv, RefsHold, Live
<1>4. \A other \in Threads : Sound(thread'[other])
    BY <1>1 DEF IInv, CatalogTypeOK
<1>5. \A other \in Threads : Sound(thread[other])' 
    BY <1>1, <1>4 DEF Sound, Live, ForeignKey
<1>6. \A other \in Threads : Alone(other, thread[other])'
    BY <1>1 DEF IInv, CatalogTypeOK, Alone
<1> QED
    BY <1>2, <1>3, <1>5, <1>6 DEF IInv

(* A request answers, and may have written its row: requests in flight that  *)
(* rely on that row have raced, the others find the tables as they were.     *)
LEMMA FinishSafe ==
    ASSUME IInv, NEW th \in Threads, NEW answer \in {"ok", "missing", "error"},
           NEW written \in SUBSET {thread[th].id}, Finish(th, answer, written),
           CatalogTypeOK', RefsHold',
           \A id \in Ids \ written : state'[id] = state[id] /\ fields'[id] = fields[id],
           \A id \in written : state'[id] # "unborn"
    PROVE  IInv'
<1>1. thread'[th] = Idle(answer)
    BY DEF Finish
<1>2. ASSUME NEW other \in Threads, other # th
      PROVE  /\ thread'[other].pc = thread[other].pc
             /\ thread'[other].op = thread[other].op
             /\ thread'[other].id = thread[other].id
             /\ thread'[other].patch = thread[other].patch
             /\ thread'[other].fields = thread[other].fields
             /\ ~ thread'[other].raced =>
                   /\ ~ thread[other].raced
                   /\ thread[other].pc # "idle" =>
                         thread[other].id \notin written /\ thread[other].fields.parent \notin written
    <2> DEFINE r == thread[other]
               raced == r.raced \/ (r.pc # "idle" /\ {r.id, r.fields.parent} \cap written # {})
    <2>1. thread'[other] = [r EXCEPT !.raced = raced]
        BY <1>2 DEF Finish
    <2>2. r \in Request
        BY DEF IInv, CatalogTypeOK
    <2>3. ~ raced => /\ ~ r.raced
                     /\ r.pc # "idle" => r.id \notin written /\ r.fields.parent \notin written
        BY Zenon
    <2> HIDE DEF raced
    <2> QED
        BY <2>1, <2>2, <2>3 DEF Request
<1>3. ASSUME NEW other \in Threads PROVE Sound(thread[other])'
    <2>1. CASE other = th
        BY <1>1, <2>1 DEF Idle, Sound
    <2>2. CASE other # th
        <3> DEFINE r == thread[other]
        <3>1. Sound(r) /\ Alone(th, thread[th]) /\ Alone(other, r) /\ r \in Request
            BY DEF IInv, CatalogTypeOK
        <3>2. r.op = "create" => r.id \notin written
            BY <2>2, <3>1 DEF Alone
        <3>3. r.op \in {"create", "update"} /\ r.fields.parent # None
                => r.fields.parent \in Ids
            BY <3>1 DEF Sound, ParentsOf, Ids
        <3> QED
            BY <1>2, <2>2, <3>1, <3>2, <3>3 DEF Sound, Live, ForeignKey
    <2> QED
        BY <2>1, <2>2
<1>4. ASSUME NEW other \in Threads PROVE Alone(other, thread[other])'
    <2>1. \A any \in Threads : thread'[any].op = "create" =>
             any # th /\ thread[any].op = "create"
        BY <1>1, <1>2 DEF Idle
    <2>2. \A any \in Threads : thread'[any].id \in {thread[any].id, None}
        BY <1>1, <1>2 DEF Idle
    <2>3. \A any \in Threads : thread'[any].op = "create" => 
             thread'[any].id = thread[any].id /\ thread[any].id \in Ids
        BY <1>2, <2>1 DEF IInv, Sound
    <2> QED
        BY <2>1, <2>2, <2>3, CatalogAssumption DEF IInv, Alone
<1> QED
    BY <1>3, <1>4 DEF IInv

-----------------------------------------------------------------------------
(* One lemma per action *)

LEMMA InitSafe == Init => IInv
<1> SUFFICES ASSUME Init PROVE IInv
    OBVIOUS
<1>1. CatalogTypeOK
    BY NothingTyped, IdleTyped DEF Init, CatalogTypeOK
<1>2. RefsHold
    BY DEF Init, RefsHold, Live
<1>3. \A th \in Threads : Sound(thread[th]) /\ Alone(th, thread[th])
    BY DEF Init, Idle, Sound, Alone
<1> QED
    BY <1>1, <1>2, <1>3 DEF IInv

(* A thread that answers without a commit holds nothing.                     *)
LEMMA IdleSafe ==
    ASSUME IInv, NEW th \in Threads
    PROVE  /\ Idle("missing") \in Request
           /\ Sound(Idle("missing")) /\ Alone(th, Idle("missing"))
<1>1. \A other \in Threads : thread[other].op = "create" => thread[other].id \in Ids
    BY DEF IInv, Sound
<1> QED
    BY <1>1, IdleTyped, CatalogAssumption DEF Idle, Sound, Alone

LEMMA PostRowSafe ==
    ASSUME IInv, NEW th \in Threads, NEW id \in Ids, NEW f \in Fields, PostRow(th, id, f)
    PROVE  IInv'
<1>1. CASE f.parent = None \/ Live(f.parent)
    <2> DEFINE r == Busy("commit", "create", id, NoPatch, f)
    <2>1. Become(th, r)
        BY <1>1 DEF PostRow
    <2>2. r \in Request
        BY NothingTyped, BusyTyped
    <2>3. Sound(r)
        BY <1>1 DEF PostRow, Busy, Sound, ForeignKey
    <2>4. Alone(th, r)
        BY DEF PostRow, Busy, Alone
    <2> QED
        BY <2>1, <2>2, <2>3, <2>4, BecomeSafe
<1>2. CASE ~ (f.parent = None \/ Live(f.parent))
    BY <1>2, IdleSafe, BecomeSafe DEF PostRow
<1> QED
    BY <1>1, <1>2

(* A row that exists is not being created.                                   *)
LEMMA AloneWithRow ==
    ASSUME IInv, NEW th \in Threads, NEW r \in Request,
           r.op # "create", state[r.id] # "unborn"
    PROVE  Alone(th, r)
BY DEF IInv, Sound, Alone

LEMMA PatchRowSafe ==
    ASSUME IInv, NEW th \in Threads, NEW id \in Ids, NEW p \in Patches, PatchRow(th, id, p)
    PROVE  IInv'
<1>1. CASE Live(id)
    <2> DEFINE pc == IF p.parent = None THEN "commit" ELSE "parent"
               r == Busy(pc, "update", id, p, Merge(fields[id], p))
    <2>1. Become(th, r)
        BY <1>1 DEF PatchRow
    <2>2. p \in Patch /\ p \in PatchesFor(id) /\ fields[id] \in Fields
        BY CatalogAssumption DEF PatchRow, IInv, CatalogTypeOK
    <2>3. r \in Request
        BY <2>2, MergeTyped, BusyTyped
    <2>4. fields[id].parent \in ParentsOf(id) /\ ForeignKey(fields[id])
        BY <1>1 DEF IInv, RefsHold, ForeignKey
    <2>5. Merge(fields[id], p).parent \in ParentsOf(id)
        BY <2>2, <2>4, MergeKind
    <2>6. p.parent = None => ForeignKey(Merge(fields[id], p))
        BY <2>4 DEF ForeignKey, Merge
    <2>7. Sound(r)
        BY <1>1, <2>5, <2>6 DEF Busy, Sound, Live
    <2>8. Alone(th, r)
        BY <1>1, <2>3, AloneWithRow DEF Busy, Live
    <2> QED
        BY <2>1, <2>3, <2>7, <2>8, BecomeSafe
<1>2. CASE ~ Live(id)
    BY <1>2, IdleSafe, BecomeSafe DEF PatchRow
<1> QED
    BY <1>1, <1>2

LEMMA FindParentSafe ==
    ASSUME IInv, NEW th \in Threads, FindParent(th)
    PROVE  IInv'
<1> DEFINE old == thread[th]
<1>1. old \in Request /\ Sound(old) /\ Alone(th, old) /\ old.pc = "parent"
    BY DEF IInv, CatalogTypeOK, FindParent
<1>2. CASE Live(old.patch.parent)
    <2> DEFINE r == [old EXCEPT !.pc = "commit"]
    <2>1. Become(th, r)
        BY <1>2 DEF FindParent
    <2>2. r \in Request
        BY <1>1 DEF Request
    <2>3. ~ old.raced => ForeignKey(old.fields)
        BY <1>1, <1>2 DEF Sound, Merge, ForeignKey
    <2>4. Sound(r) /\ Alone(th, r)
        BY <1>1, <2>3 DEF Request, Sound, Alone
    <2> QED
        BY <2>1, <2>2, <2>4, BecomeSafe
<1>3. CASE ~ Live(old.patch.parent)
    BY <1>3, IdleSafe, BecomeSafe DEF FindParent
<1> QED
    BY <1>2, <1>3

LEMMA DeleteRowSafe ==
    ASSUME IInv, NEW th \in Threads, NEW id \in Ids, DeleteRow(th, id)
    PROVE  IInv'
<1>1. CASE Live(id)
    <2> DEFINE r == Busy("commit", "delete", id, NoPatch, NoFields)
    <2>1. Become(th, r)
        BY <1>1 DEF DeleteRow
    <2>2. r \in Request
        BY NothingTyped, BusyTyped
    <2>3. Sound(r)
        BY <1>1 DEF Busy, Sound, Live
    <2>4. Alone(th, r)
        BY <1>1, <2>2, AloneWithRow DEF Busy, Live
    <2> QED
        BY <2>1, <2>2, <2>3, <2>4, BecomeSafe
<1>2. CASE ~ Live(id)
    BY <1>2, IdleSafe, BecomeSafe DEF DeleteRow
<1> QED
    BY <1>1, <1>2

(* A commit that changes no table.                                           *)
LEMMA FinishOnlySafe ==
    ASSUME IInv, NEW th \in Threads, NEW answer \in {"ok", "missing", "error"},
           Finish(th, answer, {}), UNCHANGED <<state, fields, tracked>>
    PROVE  IInv'
<1>1. CatalogTypeOK'
    BY FinishTyped DEF IInv, CatalogTypeOK
<1>2. RefsHold'
    BY DEF IInv, RefsHold, Live
<1> QED
    BY <1>1, <1>2, FinishSafe

(* A commit that writes its row: a live one whose parent is there, or none.  *)
LEMMA WriteSafe ==
    ASSUME IInv, NEW th \in Threads, NEW id \in Ids, id = thread[th].id,
           NEW s \in {"live", "gone"}, NEW f \in Fields,
           Write(id, s, f), Finish(th, "ok", {id}),
           s = "live" => f.parent \in ParentsOf(id) /\ ForeignKey(f),
           s = "gone" => ~ Referenced(id)
    PROVE  IInv'
<1>1. /\ state' = [state EXCEPT ![id] = s]
      /\ fields' = [fields EXCEPT ![id] = f]
      /\ tracked' = tracked
    BY DEF Write
<1>2. CatalogTypeOK'
    BY <1>1, FinishTyped DEF IInv, CatalogTypeOK
<1>3. tracked' \subseteq {i \in Ids : Live(i)'}
    BY <1>1 DEF IInv, CatalogTypeOK, RefsHold, Live, Referenced
<1>4. ASSUME NEW i \in Ids, Live(i)'
      PROVE  /\ fields'[i].parent \in ParentsOf(i)
             /\ fields'[i].parent # None => state'[fields'[i].parent] = "live"
    <2>1. CASE i = id
        BY <1>1, <1>4, <2>1 DEF IInv, CatalogTypeOK, Live, ForeignKey, ParentsOf, Ids
    <2>2. CASE i # id
        <3>1. Live(i) /\ fields'[i] = fields[i]
            BY <1>1, <1>4, <2>2 DEF IInv, CatalogTypeOK, Live
        <3>2. /\ fields[i].parent \in ParentsOf(i)
              /\ fields[i].parent # None =>
                    fields[i].parent \in Ids /\ Live(fields[i].parent)
            BY <3>1 DEF IInv, RefsHold, ParentsOf, Ids
        <3>3. s = "gone" => fields[i].parent # id
            BY <3>1 DEF Referenced
        <3> QED
            BY <1>1, <3>1, <3>2, <3>3 DEF IInv, CatalogTypeOK, Live
    <2> QED
        BY <2>1, <2>2
<1>5. RefsHold'
    BY <1>3, <1>4 DEF RefsHold, Live
<1>6. /\ \A i \in Ids \ {id} : state'[i] = state[i] /\ fields'[i] = fields[i]
      /\ state'[id] # "unborn"
    BY <1>1 DEF IInv, CatalogTypeOK
<1> QED
    BY <1>2, <1>5, <1>6, FinishSafe

(* What a request about to commit carries.                                   *)
LEMMA CommittingTyped ==
    ASSUME IInv, NEW th \in Threads, NEW op \in {"create", "update", "delete"},
           Committing(th, op)
    PROVE  /\ Sound(thread[th])
           /\ thread[th].id \in Ids
           /\ thread[th].fields \in Fields
           /\ op # "delete" => thread[th].fields.parent \in ParentsOf(thread[th].id)
BY DEF IInv, CatalogTypeOK, Request, Committing, Sound

LEMMA CommitCreateSafe ==
    ASSUME IInv, NEW th \in Threads, CommitCreate(th)
    PROVE  IInv'
<1>1. Committing(th, "create")
    BY DEF CommitCreate
<1>2. CASE ForeignKey(thread[th].fields)
    BY <1>1, <1>2, CommittingTyped, WriteSafe DEF CommitCreate
<1>3. CASE ~ ForeignKey(thread[th].fields)
    BY <1>3, FinishOnlySafe DEF CommitCreate
<1> QED
    BY <1>2, <1>3

LEMMA CommitUpdateSafe ==
    ASSUME IInv, NEW th \in Threads, CommitUpdate(th)
    PROVE  IInv'
<1>1. Committing(th, "update")
    BY DEF CommitUpdate
<1>2. CASE Matched(thread[th].id) /\ ForeignKey(thread[th].fields)
    BY <1>1, <1>2, CommittingTyped, WriteSafe DEF CommitUpdate
<1>3. CASE ~ (Matched(thread[th].id) /\ ForeignKey(thread[th].fields))
    BY <1>3, FinishOnlySafe DEF CommitUpdate
<1> QED
    BY <1>2, <1>3

LEMMA CommitDeleteSafe ==
    ASSUME IInv, NEW th \in Threads, CommitDelete(th)
    PROVE  IInv'
<1>1. Committing(th, "delete")
    BY DEF CommitDelete
<1>2. CASE Live(thread[th].id) /\ ~ Referenced(thread[th].id)
    BY <1>1, <1>2, NothingTyped, CommittingTyped, WriteSafe DEF CommitDelete
<1>3. CASE ~ (Live(thread[th].id) /\ ~ Referenced(thread[th].id))
    BY <1>3, FinishOnlySafe DEF CommitDelete
<1> QED
    BY <1>2, <1>3

LEMMA TrackTaskSafe ==
    ASSUME IInv, NEW t \in Tasks, TrackTask(t)
    PROVE  IInv'
<1>1. /\ state' = state /\ fields' = fields /\ thread' = thread
      /\ tracked' = tracked \cup {t} /\ Live(t)
    BY DEF TrackTask
<1>2. CatalogTypeOK' /\ RefsHold'
    BY <1>1 DEF IInv, CatalogTypeOK, RefsHold, Live, Ids
<1>3. \A th \in Threads : (Sound(thread[th]) /\ Alone(th, thread[th]))'
    BY <1>1 DEF IInv, Sound, Alone, Live, ForeignKey
<1> QED
    BY <1>2, <1>3 DEF IInv

-----------------------------------------------------------------------------
LEMMA NextCases ==
    ASSUME Next
    PROVE  \/ \E th \in Threads, id \in Ids, f \in Fields : PostRow(th, id, f)
           \/ \E th \in Threads, id \in Ids, p \in Patches : PatchRow(th, id, p)
           \/ \E th \in Threads, id \in Ids : DeleteRow(th, id)
           \/ \E th \in Threads : FindParent(th)
           \/ \E th \in Threads : CommitCreate(th)
           \/ \E th \in Threads : CommitUpdate(th)
           \/ \E th \in Threads : CommitDelete(th)
           \/ \E t \in Tasks : TrackTask(t)
BY DEF Next, Handler

LEMMA NextSafe == IInv /\ [Next]_catalog => IInv'
<1> SUFFICES ASSUME IInv, [Next]_catalog PROVE IInv'
    OBVIOUS
<1>1. CASE UNCHANGED catalog
    BY <1>1 DEF catalog, IInv, CatalogTypeOK, RefsHold, Sound, Alone, Live, ForeignKey
<1>2. ASSUME NEW th \in Threads, NEW id \in Ids, NEW f \in Fields, PostRow(th, id, f)
      PROVE  IInv'
    BY <1>2, PostRowSafe
<1>3. ASSUME NEW th \in Threads, NEW id \in Ids, NEW p \in Patches, PatchRow(th, id, p)
      PROVE  IInv'
    BY <1>3, PatchRowSafe
<1>4. ASSUME NEW th \in Threads, NEW id \in Ids, DeleteRow(th, id)
      PROVE  IInv'
    BY <1>4, DeleteRowSafe
<1>5. ASSUME NEW th \in Threads, FindParent(th)
      PROVE  IInv'
    BY <1>5, FindParentSafe
<1>6. ASSUME NEW th \in Threads, CommitCreate(th) \/ CommitUpdate(th) \/ CommitDelete(th)
      PROVE  IInv'
    BY <1>6, CommitCreateSafe, CommitUpdateSafe, CommitDeleteSafe
<1>7. ASSUME NEW t \in Tasks, TrackTask(t)
      PROVE  IInv'
    BY <1>7, TrackTaskSafe
<1> QED
    BY <1>1, <1>2, <1>3, <1>4, <1>5, <1>6, <1>7, NextCases

THEOREM Inductive == Spec => []IInv
BY InitSafe, NextSafe, PTL DEF Spec

(* The tables, the references and the requests keep their types.             *)
THEOREM CatalogTyped == Spec => []CatalogTypeOK
<1>1. IInv => CatalogTypeOK
    BY DEF IInv
<1> QED
    BY <1>1, Inductive, PTL

(* Whatever the handlers interleave to, no row and no entry event names a    *)
(* row that is not there.                                                    *)
THEOREM ReferencesHold == Spec => []RefsHold
<1>1. IInv => RefsHold
    BY DEF IInv
<1> QED
    BY <1>1, Inductive, PTL

-----------------------------------------------------------------------------
(* What a step may not do *)

(* Only a commit of its own answers a request from its last statement.       *)
LEMMA OwnCommit ==
    ASSUME IInv, [Next]_catalog, NEW th \in Threads, NEW answer, Answers(th, answer)
    PROVE  CommitCreate(th) \/ CommitUpdate(th) \/ CommitDelete(th)
<1>1. thread[th].pc = "commit" /\ thread'[th].pc = "idle" /\ thread'[th].answer = answer
      /\ thread \in [Threads -> Request]
    BY DEF Answers, IInv, CatalogTypeOK
<1>2. thread' # thread
    BY <1>1
<1>3. ASSUME NEW other \in Threads, NEW r, Become(other, r), thread[other].pc # "commit"
      PROVE  FALSE
    BY <1>1, <1>3 DEF Become
<1>4. ASSUME NEW other \in Threads, other # th, NEW a, NEW w, Finish(other, a, w)
      PROVE  FALSE
    <2>1. thread'[th].pc = thread[th].pc
        BY <1>1, <1>4 DEF Finish, Request
    <2> QED
        BY <1>1, <2>1
<1>5. ASSUME NEW other \in Threads,
             CommitCreate(other) \/ CommitUpdate(other) \/ CommitDelete(other)
      PROVE  other = th
    BY <1>4, <1>5 DEF CommitCreate, CommitUpdate, CommitDelete
<1>6. ~ UNCHANGED catalog /\ \A t \in Tasks : ~ TrackTask(t)
    BY <1>2 DEF catalog, TrackTask
<1>7. \A other \in Threads, id \in Ids, f \in Fields : ~ PostRow(other, id, f)
    BY <1>3 DEF PostRow
<1>8. \A other \in Threads, id \in Ids, p \in Patches : ~ PatchRow(other, id, p)
    BY <1>3 DEF PatchRow
<1>9. \A other \in Threads, id \in Ids : ~ DeleteRow(other, id)
    BY <1>3 DEF DeleteRow
<1>10. \A other \in Threads : ~ FindParent(other)
    BY <1>3 DEF FindParent
<1> QED
    BY <1>5, <1>6, <1>7, <1>8, <1>9, <1>10, NextCases

(* A deleted row does not come back.                                         *)
THEOREM DeletedStaysDeleted == Spec => NoResurrection
<1>1. ASSUME IInv, [Next]_catalog, NEW id \in Ids, state[id] = "gone"
      PROVE  state'[id] = "gone"
    <2>1. CASE state' = state
        BY <1>1, <2>1
    <2>2. ASSUME NEW th \in Threads, CommitCreate(th) PROVE state'[id] = "gone"
        BY <1>1, <2>2 DEF CommitCreate, Committing, Write, IInv, CatalogTypeOK, Sound
    <2>3. ASSUME NEW th \in Threads, CommitUpdate(th) PROVE state'[id] = "gone"
        BY <1>1, <2>3 DEF CommitUpdate, Matched, Live, Write, IInv, CatalogTypeOK
    <2>4. ASSUME NEW th \in Threads, CommitDelete(th) PROVE state'[id] = "gone"
        BY <1>1, <2>4 DEF CommitDelete, Write, IInv, CatalogTypeOK
    <2> QED
        BY <1>1, <2>1, <2>2, <2>3, <2>4, NextCases
        DEF PostRow, PatchRow, DeleteRow, FindParent, Become, TrackTask, catalog
<1>2. IInv /\ [Next]_catalog
          => [\A id \in Ids : state[id] = "gone" => state'[id] = "gone"]_catalog
    BY <1>1
<1> QED
    BY <1>2, Inductive, PTL DEF Spec, NoResurrection

(* The foreign keys fail a create or a patch only after a commit of another  *)
(* thread that the handler's own check cannot have seen.                     *)
THEOREM ErrorsAreRaces == Spec => ErrorsNeedARace
<1>1. ASSUME IInv, [Next]_catalog, NEW th \in Threads,
             thread[th].op \in {"create", "update"}, Answers(th, "error")
      PROVE  thread[th].raced
    <2>1. Sound(thread[th]) /\ thread[th].pc = "commit" /\ thread'[th].answer = "error"
        BY <1>1 DEF IInv, Answers
    <2>2. \A w : ~ Finish(th, "ok", w)
        BY <2>1 DEF Finish, Idle
    <2>3. ~ ForeignKey(thread[th].fields)
        BY <1>1, <2>2, OwnCommit DEF CommitCreate, CommitUpdate, CommitDelete, Committing
    <2> QED
        BY <1>1, <2>1, <2>3 DEF Sound
<1>2. IInv /\ [Next]_catalog
          => [\A th \in Threads :
                thread[th].op \in {"create", "update"} /\ Answers(th, "error")
                    => thread[th].raced]_catalog
    BY <1>1
<1> QED
    BY <1>2, Inductive, PTL DEF Spec, ErrorsNeedARace

(* A PATCH nobody interfered with writes the fields it carries and no others. *)
THEOREM PatchesAreExact == Spec => UndisturbedPatchIsExact
<1> DEFINE Exact(r) ==
              /\ \A id \in Ids \ {r.id} : fields'[id] = fields[id]
              /\ state' = state
              /\ \A k \in {"label", "archived"} :
                    fields'[r.id][k] \in (IF r.patch[k] = None THEN {fields[r.id][k]}
                                          ELSE {r.patch[k]})
              /\ r.patch.clear => fields'[r.id].parent = None
              /\ ~ r.patch.clear =>
                    fields'[r.id].parent \in (IF r.patch.parent = None
                                              THEN {fields[r.id].parent}
                                              ELSE {r.patch.parent})
<1>1. ASSUME IInv, [Next]_catalog, NEW th \in Threads, thread[th].op = "update",
             Answers(th, "ok"), ~ thread[th].raced
      PROVE  Exact(thread[th])
    <2> DEFINE r == thread[th]
               f == Merge(fields[r.id], r.patch)
    <2>1. Sound(r) /\ r \in Request /\ r.pc = "commit" /\ thread'[th].answer = "ok"
        BY <1>1 DEF IInv, CatalogTypeOK, Answers
    <2>2. r.id \in Ids /\ Live(r.id) /\ r.fields = f /\ ForeignKey(f)
        BY <1>1, <2>1 DEF Sound
    <2>3. CommitUpdate(th)
        BY <1>1, OwnCommit DEF CommitCreate, CommitDelete, Committing
    <2>4. Write(r.id, "live", f)
        BY <2>1, <2>2, <2>3 DEF CommitUpdate, Matched
    <2>5. /\ \A id \in Ids \ {r.id} : fields'[id] = fields[id]
          /\ fields'[r.id] = f
        BY <1>1, <2>2, <2>4 DEF Write, IInv, CatalogTypeOK
    <2>6. state' = state
        <3>1. state' = [state EXCEPT ![r.id] = "live"] /\ state[r.id] = "live"
            BY <2>2, <2>4 DEF Write, Live
        <3> QED
            BY <1>1, <3>1 DEF IInv, CatalogTypeOK
    <2>7. /\ f.label = (IF r.patch.label # None THEN r.patch.label ELSE fields[r.id].label)
          /\ f.parent = (IF r.patch.clear THEN None
                         ELSE IF r.patch.parent # None THEN r.patch.parent
                         ELSE fields[r.id].parent)
        BY DEF Merge
    <2>8. f.archived = (IF r.patch.archived # None THEN r.patch.archived
                        ELSE fields[r.id].archived)
        BY DEF Merge
    <2> QED
        BY <2>5, <2>6, <2>7, <2>8
<1>2. IInv /\ [Next]_catalog
          => [\A th \in Threads :
                thread[th].op = "update" /\ Answers(th, "ok") /\ ~ thread[th].raced
                    => Exact(thread[th])]_catalog
    BY <1>1
<1> QED
    BY <1>2, Inductive, PTL DEF Spec, UndisturbedPatchIsExact

-----------------------------------------------------------------------------
(* The catalogue implements Tables.  The row a statement writes is that of a *)
(* request read some steps ago: what makes it a step of the tables is Sound. *)

LEMMA InitRows == Init => Rows!Init
BY CatalogAssumption DEF Init, Rows!Init, Rows!Present, NoFields

(* A write, in the words of the tables.                                      *)
LEMMA WriteRows ==
    ASSUME IInv, NEW id \in Ids, NEW s, NEW f \in Fields, Write(id, s, f)
    PROVE  /\ state' = [state EXCEPT ![id] = s] /\ tracked' = tracked
           /\ [x \in Ids |-> fields'[x].parent]
                  = [[x \in Ids |-> fields[x].parent] EXCEPT ![id] = f.parent]
BY DEF Write, IInv, CatalogTypeOK

LEMMA CreateRows ==
    ASSUME IInv, NEW th \in Threads, CommitCreate(th),
           ForeignKey(thread[th].fields)
    PROVE  \E id \in Ids : \E p \in ParentsOf(id) : Rows!Insert(id, p)
<1>1. Committing(th, "create") /\ Write(thread[th].id, "live", thread[th].fields)
    BY DEF CommitCreate
<1>2. PICK id \in Ids : id = thread[th].id
    BY <1>1, CommittingTyped
<1>3. PICK f \in Fields : f = thread[th].fields
    BY <1>1, CommittingTyped
<1>4. PICK p \in ParentsOf(id) : p = f.parent
    BY <1>1, <1>2, <1>3, CommittingTyped
<1>5. state[id] = "unborn" /\ (p = None \/ state[p] = "live")
    BY <1>1, <1>2, <1>3, <1>4, CommittingTyped DEF Committing, Sound, ForeignKey, Live
<1>6. Write(id, "live", f)
    BY <1>1, <1>2, <1>3
<1> QED
    BY <1>4, <1>5, <1>6, WriteRows DEF Rows!Insert, Rows!MayName, Rows!Present

LEMMA UpdateRows ==
    ASSUME IInv, NEW th \in Threads, CommitUpdate(th),
           Matched(thread[th].id) /\ ForeignKey(thread[th].fields)
    PROVE  \E id \in Ids : \E p \in ParentsOf(id) : Rows!Update(id, p)
<1>1. Committing(th, "update") /\ Write(thread[th].id, "live", thread[th].fields)
    BY DEF CommitUpdate
<1>2. PICK id \in Ids : id = thread[th].id
    BY <1>1, CommittingTyped
<1>3. PICK f \in Fields : f = thread[th].fields
    BY <1>1, CommittingTyped
<1>4. PICK p \in ParentsOf(id) : p = f.parent
    BY <1>1, <1>2, <1>3, CommittingTyped
<1>5. state[id] = "live" /\ (p = None \/ state[p] = "live")
    BY <1>2, <1>3, <1>4 DEF ForeignKey, Matched, Live
<1>6. Write(id, "live", f)
    BY <1>1, <1>2, <1>3
<1>7. state' = state
    BY <1>5, <1>6 DEF Write, IInv, CatalogTypeOK
<1> QED
    BY <1>4, <1>5, <1>6, <1>7, WriteRows DEF Rows!Update, Rows!MayName, Rows!Present

LEMMA DeleteRows ==
    ASSUME IInv, NEW th \in Threads, CommitDelete(th),
           Live(thread[th].id) /\ ~ Referenced(thread[th].id)
    PROVE  \E id \in Ids : Rows!Remove(id)
<1>1. Committing(th, "delete") /\ Write(thread[th].id, "gone", NoFields)
    BY DEF CommitDelete
<1>2. PICK id \in Ids : id = thread[th].id
    BY <1>1, CommittingTyped
<1>3. Live(id) /\ ~ Referenced(id) /\ Write(id, "gone", NoFields)
    BY <1>1, <1>2
<1>4. NoFields \in Fields /\ NoFields.parent = None
    BY NothingTyped DEF NoFields
<1> QED
    BY <1>3, <1>4, WriteRows DEF Referenced, Live, Rows!Remove, Rows!Present

LEMMA NextRows == IInv /\ [Next]_catalog => [Rows!Next]_(Rows!tables)
<1> SUFFICES ASSUME IInv, [Next]_catalog PROVE [Rows!Next]_(Rows!tables)
    OBVIOUS
<1>1. CASE UNCHANGED <<state, fields, tracked>>
    BY <1>1 DEF Rows!tables
<1>2. CASE \E th \in Threads : CommitCreate(th)
    BY <1>1, <1>2, CreateRows DEF CommitCreate, Rows!Next
<1>3. CASE \E th \in Threads : CommitUpdate(th)
    BY <1>1, <1>3, UpdateRows DEF CommitUpdate, Rows!Next
<1>4. CASE \E th \in Threads : CommitDelete(th)
    BY <1>1, <1>4, DeleteRows DEF CommitDelete, Rows!Next
<1>5. ASSUME NEW t \in Tasks, TrackTask(t) PROVE Rows!Next
    <2>1. {t} \in SUBSET Ids /\ Rows!Name({t})
        BY <1>5 DEF TrackTask, Live, Ids, Rows!Name, Rows!Present
    <2> QED
        BY <2>1 DEF Rows!Next
<1> QED
    BY <1>1, <1>2, <1>3, <1>4, <1>5, NextCases
    DEF PostRow, PatchRow, DeleteRow, FindParent, Become, catalog

(* However the look-ups, checks and statements of any number of threads      *)
(* interleave, the tables go through steps of Tables only.                   *)
THEOREM CatalogImplements == Spec => ImplementsTables
BY InitRows, NextRows, Inductive, PTL DEF Spec, ImplementsTables, Rows!Spec
=============================================================================
