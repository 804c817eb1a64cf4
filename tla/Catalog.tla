------------------------------ MODULE Catalog ------------------------------
(* Clients, projects and tasks: three tables, their foreign keys, and the    *)
(* CRUD handlers over them (application/usecases/crud_*.py and the SQLite    *)
(* repositories).                                                            *)
(*                                                                           *)
(* The handlers are `def', so each runs in a thread of the pool, and each of *)
(* their SQL statements is a transaction of its own.  A thread is therefore  *)
(* between any two statements when another commits: one step per statement.  *)
(* A row's name, code, tags and keywords are patched alike; `label' stands   *)
(* for them.                                                                 *)

CONSTANTS
    Clients, Projects, Tasks,    \* ids: uuid4, never issued twice
    Labels,
    Patches,                     \* bodies of PATCH requests
    Threads,                     \* threads of the pool
    None

Ids == Clients \cup Projects \cup Tasks

(* What client_id and project_id may hold: projects.client_id is nullable,   *)
(* tasks.project_id is not, and a client has no such column.                 *)
ParentsOf(id) ==
    IF id \in Clients THEN {None}
    ELSE IF id \in Projects THEN Clients \cup {None} ELSE Projects

(* A field that is None is absent from the body; `clear' is clear_client.    *)
Patch == [label: Labels \cup {None}, parent: Ids \cup {None},
          archived: BOOLEAN \cup {None}, clear: BOOLEAN]
NoPatch == [label |-> None, parent |-> None, archived |-> None, clear |-> FALSE]

ASSUME CatalogAssumption ==
    /\ None \notin Ids /\ None \notin Labels /\ None \notin BOOLEAN
    /\ Clients \cap Projects = {} /\ Clients \cap Tasks = {} /\ Projects \cap Tasks = {}
    /\ Patches \subseteq Patch

Fields == [label: Labels \cup {None}, parent: Ids \cup {None}, archived: BOOLEAN]
NoFields == [label |-> None, parent |-> None, archived |-> FALSE]

VARIABLES
    state,      \* of each id: "unborn" (no row yet), "live" or "gone"
    fields,     \* of each id: the columns of its row
    tracked,    \* task ids some entry event names
    thread      \* the local state of each thread

catalog == <<state, fields, tracked, thread>>

(* raced is history: since the thread's first read, another thread has       *)
(* written the row it works on or the parent it is about to name.            *)
Request == [pc: {"idle", "parent", "commit"}, op: {"none", "create", "update", "delete"},
            id: Ids \cup {None}, patch: Patch, fields: Fields,
            answer: {"none", "ok", "missing", "error"}, raced: BOOLEAN]

Idle(answer) == [pc |-> "idle", op |-> "none", id |-> None, patch |-> NoPatch,
                 fields |-> NoFields, answer |-> answer, raced |-> FALSE]

Busy(pc, op, id, p, f) == [pc |-> pc, op |-> op, id |-> id, patch |-> p, fields |-> f,
                           answer |-> "none", raced |-> FALSE]

Live(id) == state[id] = "live"

Init ==
    /\ state = [id \in Ids |-> "unborn"]
    /\ fields = [id \in Ids |-> NoFields]
    /\ tracked = {}
    /\ thread = [th \in Threads |-> Idle("none")]

-----------------------------------------------------------------------------
(* The first statement of a request, and the check of a new parent.          *)
Become(th, r) ==
    /\ thread' = [thread EXCEPT ![th] = r]
    /\ UNCHANGED <<state, fields, tracked>>

(* POST: the parent, if one is given, must be found.  A client has ids only  *)
(* of rows that were created, so an unknown parent is a deleted one.         *)
PostRow(th, id, f) ==
    /\ thread[th].pc = "idle"
    /\ state[id] = "unborn" /\ \A other \in Threads : thread[other].id # id
    /\ f.parent \in ParentsOf(id)
    /\ f.parent # None => state[f.parent] # "unborn"
    /\ ~f.archived /\ f.label # None
    /\ Become(th, IF f.parent = None \/ Live(f.parent)
                  THEN Busy("commit", "create", id, NoPatch, f)
                  ELSE Idle("missing"))

(* The row UpdateClient, UpdateProject and UpdateTask build from the row     *)
(* they read.  Bugs: `archived or existing.archived'; the body's archived    *)
(* taken as it is, absent or not.                                            *)
MergeTruthy(f, p) ==
    [label    |-> IF p.label # None THEN p.label ELSE f.label,
     parent   |-> IF p.clear THEN None ELSE IF p.parent # None THEN p.parent ELSE f.parent,
     archived |-> p.archived = TRUE \/ f.archived]
MergeRaw(f, p) ==
    [label    |-> IF p.label # None THEN p.label ELSE f.label,
     parent   |-> IF p.clear THEN None ELSE IF p.parent # None THEN p.parent ELSE f.parent,
     archived |-> p.archived]
Merge(f, p) ==
    [label    |-> IF p.label # None THEN p.label ELSE f.label,
     parent   |-> IF p.clear THEN None ELSE IF p.parent # None THEN p.parent ELSE f.parent,
     archived |-> IF p.archived # None THEN p.archived ELSE f.archived]

(* The bodies the PATCH endpoint of id accepts.                              *)
PatchesFor(id) ==
    {p \in Patches : /\ p.parent \in ParentsOf(id) \cup {None}
                     /\ p.clear => id \in Projects}

(* PATCH: the row is read and merged; then a new parent is looked up.        *)
(* Bug: the look-up is left out.                                             *)
PatchRowUnchecked(th, id, p) ==
    /\ thread[th].pc = "idle"
    /\ state[id] # "unborn" /\ p \in PatchesFor(id)
    /\ Become(th, IF Live(id) THEN Busy("commit", "update", id, p, Merge(fields[id], p))
                  ELSE Idle("missing"))
PatchRow(th, id, p) ==
    /\ thread[th].pc = "idle"
    /\ state[id] # "unborn" /\ p \in PatchesFor(id)
    /\ Become(th, IF Live(id)
                  THEN Busy(IF p.parent = None THEN "commit" ELSE "parent",
                            "update", id, p, Merge(fields[id], p))
                  ELSE Idle("missing"))

FindParent(th) ==
    /\ thread[th].pc = "parent"
    /\ Become(th, IF Live(thread[th].patch.parent) THEN [thread[th] EXCEPT !.pc = "commit"]
                  ELSE Idle("missing"))

DeleteRow(th, id) ==
    /\ thread[th].pc = "idle"
    /\ state[id] # "unborn"
    /\ Become(th, IF Live(id) THEN Busy("commit", "delete", id, NoPatch, NoFields)
                  ELSE Idle("missing"))

-----------------------------------------------------------------------------
(* The last statement, and the answer: IntegrityError is "error" (a 500).    *)

(* REFERENCES, from both sides.  Bug: PRAGMA foreign_keys is off.            *)
ForeignKeyOff(f) == f \in Fields
ForeignKey(f) == f.parent = None \/ Live(f.parent)

Referenced(id) == id \in tracked \/ \E child \in Ids : Live(child) /\ fields[child].parent = id

(* Whether WHERE id = ? finds a row.  Bug: INSERT OR REPLACE.                *)
MatchedUpsert(id) == id \in Ids
Matched(id) == Live(id)

(* The thread answers; if it wrote id, the others that rely on id have raced. *)
Finish(th, answer, written) ==
    thread' = [other \in Threads |->
                  IF other = th THEN Idle(answer)
                  ELSE LET r == thread[other]
                       IN [r EXCEPT !.raced =
                              @ \/ (r.pc # "idle" /\ {r.id, r.fields.parent} \cap written # {})]]

Committing(th, op) == thread[th].pc = "commit" /\ thread[th].op = op

Write(id, s, f) ==
    /\ state' = [state EXCEPT ![id] = s]
    /\ fields' = [fields EXCEPT ![id] = f]
    /\ UNCHANGED tracked

CommitCreate(th) ==
    /\ Committing(th, "create")
    /\ IF ForeignKey(thread[th].fields)
       THEN /\ Write(thread[th].id, "live", thread[th].fields)
            /\ Finish(th, "ok", {thread[th].id})
       ELSE Finish(th, "error", {}) /\ UNCHANGED <<state, fields, tracked>>

(* An UPDATE that finds no row succeeds, and the handler answers 200.        *)
CommitUpdate(th) ==
    /\ Committing(th, "update")
    /\ IF ~ Matched(thread[th].id)
       THEN Finish(th, "ok", {}) /\ UNCHANGED <<state, fields, tracked>>
       ELSE IF ForeignKey(thread[th].fields)
       THEN /\ Write(thread[th].id, "live", thread[th].fields)
            /\ Finish(th, "ok", {thread[th].id})
       ELSE Finish(th, "error", {}) /\ UNCHANGED <<state, fields, tracked>>

CommitDelete(th) ==
    /\ Committing(th, "delete")
    /\ IF ~ Live(thread[th].id)
       THEN Finish(th, "ok", {}) /\ UNCHANGED <<state, fields, tracked>>
       ELSE IF ~ Referenced(thread[th].id)
       THEN /\ Write(thread[th].id, "gone", NoFields)
            /\ Finish(th, "ok", {thread[th].id})
       ELSE Finish(th, "error", {}) /\ UNCHANGED <<state, fields, tracked>>

(* An entry event is recorded for a task (Ticker's concern, here in one).    *)
TrackTask(t) ==
    /\ Live(t)
    /\ tracked' = tracked \cup {t}
    /\ UNCHANGED <<state, fields, thread>>

Handler(th) ==
    \/ FindParent(th)
    \/ CommitCreate(th) \/ CommitUpdate(th) \/ CommitDelete(th)
    \/ \E id \in Ids :
          \/ DeleteRow(th, id)
          \/ \E f \in Fields : PostRow(th, id, f)
          \/ \E p \in Patches : PatchRow(th, id, p)

Next == (\E th \in Threads : Handler(th)) \/ (\E t \in Tasks : TrackTask(t))

Spec == Init /\ [][Next]_catalog

-----------------------------------------------------------------------------
CatalogTypeOK ==
    /\ state \in [Ids -> {"unborn", "live", "gone"}]
    /\ fields \in [Ids -> Fields]
    /\ tracked \subseteq Tasks
    /\ thread \in [Threads -> Request]

(* Whatever the handlers' checks and commits interleave to, no row and no    *)
(* entry event names a row that is not there, and every task has a project.  *)
RefsHold ==
    /\ tracked \subseteq {id \in Ids : Live(id)}
    /\ \A id \in Ids : Live(id) =>
          /\ fields[id].parent \in ParentsOf(id)
          /\ fields[id].parent # None => Live(fields[id].parent)

(* A deleted row does not come back, though updates of it may be in flight.  *)
NoResurrection ==
    [][\A id \in Ids : state[id] = "gone" => state'[id] = "gone"]_catalog

(* Thread th answers in this step.                                           *)
Answers(th, answer) ==
    thread[th].pc = "commit" /\ thread'[th].pc = "idle" /\ thread'[th].answer = answer

(* A PATCH that nobody interfered with changes the fields it carries, as it  *)
(* carries them, and no others; and no other row.                            *)
UndisturbedPatchIsExact ==
    [][\A th \in Threads :
          LET r == thread[th]
          IN thread[th].op = "update" /\ Answers(th, "ok") /\ ~ thread[th].raced =>
                /\ \A id \in Ids \ {r.id} : fields'[id] = fields[id]
                /\ state' = state
                /\ \A k \in {"label", "archived"} :
                      fields'[r.id][k] \in (IF r.patch[k] = None THEN {fields[r.id][k]}
                                            ELSE {r.patch[k]})
                /\ r.patch.clear => fields'[r.id].parent = None
                /\ ~ r.patch.clear =>
                      fields'[r.id].parent \in (IF r.patch.parent = None
                                                THEN {fields[r.id].parent}
                                                ELSE {r.patch.parent})]_catalog

(* The foreign keys never fail a create or a patch by themselves: such a 500 *)
(* (where the checks promise a 404) needs another thread's commit in between. *)
ErrorsNeedARace ==
    [][\A th \in Threads :
          thread[th].op \in {"create", "update"} /\ Answers(th, "error")
              => thread[th].raced]_catalog

-----------------------------------------------------------------------------
(* Refinement *)

Rows == INSTANCE Tables WITH
    Parents <- [id \in Ids |-> ParentsOf(id)],
    parent  <- [id \in Ids |-> fields[id].parent],
    named   <- tracked

(* The requests of any number of threads, each a look-up, a check and a      *)
(* statement with the others' statements in between, come to one step of the *)
(* tables each or to none: an answered 404, a 500, or an UPDATE of a row     *)
(* that went in the meantime.                                                *)
ImplementsTables == Rows!Spec

-----------------------------------------------------------------------------
(* What the tests say *)

(* test_patch_name_preserves_archived: a PATCH preserves the fields it does  *)
(* not carry.                                                                *)
PatchKeepsOtherFields ==
    [][\A th \in Threads :
          LET r == thread[th]
          IN r.op = "update" /\ Answers(th, "ok") /\ r.patch.archived = None
                => fields'[r.id].archived = fields[r.id].archived]_catalog
=============================================================================
