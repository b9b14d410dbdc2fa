---------------------------- MODULE TaskWorkflow ----------------------------
(***************************************************************************)
(* The critical section between task status and the workflow definition:   *)
(* concurrent requests that create, replace, patch and delete tasks, that  *)
(* replace the active definition (PUT /v1/workflow), that read a task's    *)
(* legal moves, and workers that seed the first definition.                *)
(*                                                                         *)
(* A session is one request (or one worker's seed) with a database         *)
(* transaction of its own.  Its handler is a sequence of statements; every *)
(* statement is one action, so sessions interleave wherever the handler    *)
(* awaits.  Statements run under READ COMMITTED: each reads the latest     *)
(* committed rows, and nothing locks a row that was only read.  A flush    *)
(* and the commit right after it are one action: a second writer of the    *)
(* row waits for the first one's commit and then applies its own change,   *)
(* which is what two actions in commit order do.                           *)
(*                                                                         *)
(* The transaction-scoped advisory guard is held SHARED by the task writes *)
(* that touch a status and EXCLUSIVE by PUT and seed.                      *)
(***************************************************************************)
EXTENDS Workflow, FiniteSets, SequencesExt

CONSTANTS Session,          \* requests in flight at once
          Task,             \* task ids
          Document,         \* definition documents a PUT may carry
          Definition,       \* the workflow each document parses to
          DefaultDocument,  \* the document of the seed
          Requests,         \* the requests the environment sends
          Unborn, Deleted,  \* a task id never used, a row removed
          NoRequest, NoDocument,
          MaxVersion,       \* bound: no PUT starts at this many versions
          MaxOutbox         \* bound: no write starts at this many events

\* The requests a session can serve. A patch whose status is Omitted has no
\* "status" among its fields; elsewhere Omitted is a null or absent status.
Status  == StateName \cup {Omitted}
Request ==
    [kind : {"create"}, status : Status]
      \cup [kind : {"replace", "patch"}, task : Task, status : Status, roles : SUBSET Role]
      \cup [kind : {"delete", "moves"}, task : Task]
      \cup [kind : {"put"}, document : Document]
      \cup [kind : {"seed"}]

ASSUME DocumentAssumption ==
    /\ DefaultDocument \in Document /\ NoDocument \notin Document
    /\ \A d \in Document : IsWorkflow(Definition[d])
ASSUME RequestAssumption == Requests \subseteq Request /\ NoRequest \notin Request
ASSUME AbsentAssumption ==
    {Unborn, Deleted} \cap (StateName \cup {Omitted}) = {} /\ Unborn # Deleted
ASSUME FiniteAssumption == IsFiniteSet(Session) /\ IsFiniteSet(Task)
ASSUME BoundAssumption == MaxVersion \in Nat /\ MaxOutbox \in Nat

VARIABLES
    tasks,      \* the tasks table: each id's status, Unborn or Deleted
    workflows,  \* the workflow_definitions table: documents by version
    outbox,     \* the events staged so far, in commit order
    guard,      \* the advisory guard: what each session holds of it
    pc,         \* the statement each session runs next
    req,        \* the request each session serves
    version,    \* the definition version each session read, 0 for none
    loaded,     \* the status of the task row each session loaded
    target      \* the status each session decided to write

vars == <<tasks, workflows, outbox, guard, pc, req, version, loaded, target>>
db   == <<tasks, workflows, outbox>>

\* Requests that write a status, and so take the guard shared.
WritesStatus(r) ==
    \/ r.kind \in {"create", "replace"}
    \/ r.kind = "patch" /\ r.status # Omitted

\* Requests that write the definition, and so take it exclusive.
WritesDefinition(r) == r.kind \in {"put", "seed"}

Live(t) == tasks[t] \in StateName

Occupancy == [name \in StateName |-> Cardinality({t \in Task : tasks[t] = name})]

\* The highest version, and what the session's loaded definition says.
Active    == Definition[workflows[Len(workflows)]]
Loaded(s) == Definition[workflows[version[s]]]

-----------------------------------------------------------------------------
\* Events

TaskEvent(type, t, status)      == [type |-> type, task |-> t, status |-> status]
StatusChanged(t, from, status)  ==
    [type |-> "TaskStatusChanged", task |-> t, from |-> from, status |-> status]
StaleWorkflowUpdated(v)         == [type |-> "WorkflowUpdated", version |-> v - 1]  \* mutant
WorkflowUpdated(v)              == [type |-> "WorkflowUpdated", version |-> v]

Event ==
    [type : {"TaskCreated", "TaskUpdated", "TaskCompleted", "TaskDeleted"},
     task : Task, status : StateName]
      \cup [type : {"TaskStatusChanged"}, task : Task, from : StateName, status : StateName]
      \cup [type : {"WorkflowUpdated"}, version : Nat]

\* mutant: completion decided by the state the task leaves
UpdateEventsByOrigin(s) ==
    LET t == req[s].task
    IN  IF target[s] = loaded[s]
        THEN <<TaskEvent("TaskUpdated", t, target[s])>>
        ELSE <<TaskEvent("TaskUpdated", t, target[s]),
               StatusChanged(t, loaded[s], target[s])>>
             \o IF Completes(Loaded(s), loaded[s])
                THEN <<TaskEvent("TaskCompleted", t, target[s])>>
                ELSE << >>

\* The events of an update that changed something: the snapshot carries the
\* row as this session has it, loaded before and with the target after.
UpdateEvents(s) ==
    LET t == req[s].task
    IN  IF target[s] = loaded[s]
        THEN <<TaskEvent("TaskUpdated", t, target[s])>>
        ELSE <<TaskEvent("TaskUpdated", t, target[s]),
               StatusChanged(t, loaded[s], target[s])>>
             \o IF Completes(Loaded(s), target[s])
                THEN <<TaskEvent("TaskCompleted", t, target[s])>>
                ELSE << >>

-----------------------------------------------------------------------------
Init ==
    /\ tasks     = [t \in Task |-> Unborn]
    /\ workflows = << >>
    /\ outbox    = << >>
    /\ guard     = [s \in Session |-> "none"]
    /\ pc        = [s \in Session |-> "idle"]
    /\ req       = [s \in Session |-> NoRequest]
    /\ version   = [s \in Session |-> 0]
    /\ loaded    = [s \in Session |-> Omitted]
    /\ target    = [s \in Session |-> Omitted]

Goto(s, l) == pc' = [pc EXCEPT ![s] = l]

\* The session's transaction is over, committed or rolled back: the guard
\* is released with it.
End(s) ==
    /\ Goto(s, "idle")
    /\ guard'   = [guard EXCEPT ![s] = "none"]
    /\ req'     = [req EXCEPT ![s] = NoRequest]
    /\ version' = [version EXCEPT ![s] = 0]
    /\ loaded'  = [loaded EXCEPT ![s] = Omitted]
    /\ target'  = [target EXCEPT ![s] = Omitted]

\* A session that ends with nothing written: an error answer, an update
\* that changed nothing, a read.
Refuse(s) == End(s) /\ UNCHANGED db

\* A request arrives. A worker serves requests only after its seed has run.
Receive(s, r) ==
    /\ pc[s] = "idle"
    /\ r.kind # "seed" => workflows # << >>
    /\ r.kind = "put" => Len(workflows) < MaxVersion
    /\ r.kind \notin {"seed", "moves"} => Len(outbox) < MaxOutbox
    /\ req' = [req EXCEPT ![s] = r]
    /\ Goto(s, IF WritesStatus(r) \/ WritesDefinition(r) THEN "acquire"
               ELSE IF r.kind = "moves" THEN "definition"
               ELSE "read")
    /\ UNCHANGED <<db, guard, version, loaded, target>>

\* mutant: the shared form on another key, which waits for nobody
AcquireSharedOtherKey(s) ==
    /\ pc[s] = "acquire" /\ WritesStatus(req[s])
    /\ guard' = [guard EXCEPT ![s] = "shared"]
    /\ Goto(s, "definition")
    /\ UNCHANGED <<db, req, version, loaded, target>>

\* acquire_workflow_guard: shared waits for exclusive holders, exclusive
\* waits for every holder.
AcquireShared(s) ==
    /\ pc[s] = "acquire" /\ WritesStatus(req[s])
    /\ \A o \in Session \ {s} : guard[o] # "exclusive"
    /\ guard' = [guard EXCEPT ![s] = "shared"]
    /\ Goto(s, "definition")
    /\ UNCHANGED <<db, req, version, loaded, target>>

\* mutant: PUT takes the guard while task writes hold it
AcquireExclusiveOverShared(s) ==
    /\ pc[s] = "acquire" /\ WritesDefinition(req[s])
    /\ \A o \in Session \ {s} : guard[o] # "exclusive"
    /\ guard' = [guard EXCEPT ![s] = "exclusive"]
    /\ Goto(s, IF req[s].kind = "put" THEN "strand" ELSE "existing")
    /\ UNCHANGED <<db, req, version, loaded, target>>

\* mutant: the seed takes no guard
AcquireExclusiveButSeed(s) ==
    /\ pc[s] = "acquire" /\ WritesDefinition(req[s])
    /\ req[s].kind = "seed" \/ \A o \in Session \ {s} : guard[o] = "none"
    /\ guard' = [guard EXCEPT ![s] = IF req[s].kind = "seed" THEN "none" ELSE "exclusive"]
    /\ Goto(s, IF req[s].kind = "put" THEN "strand" ELSE "existing")
    /\ UNCHANGED <<db, req, version, loaded, target>>

AcquireExclusive(s) ==
    /\ pc[s] = "acquire" /\ WritesDefinition(req[s])
    /\ \A o \in Session \ {s} : guard[o] = "none"
    /\ guard' = [guard EXCEPT ![s] = "exclusive"]
    /\ Goto(s, IF req[s].kind = "put" THEN "strand" ELSE "existing")
    /\ UNCHANGED <<db, req, version, loaded, target>>

\* get_active: the row with the highest version.
ReadDefinition(s) ==
    /\ pc[s] = "definition"
    /\ version' = [version EXCEPT ![s] = Len(workflows)]
    /\ Goto(s, IF req[s].kind = "create" THEN "check" ELSE "read")
    /\ UNCHANGED <<db, guard, req, loaded, target>>

\* mutant: no not-found check on the row
ReadAnyTask(s) ==
    /\ pc[s] = "read"
    /\ loaded' = [loaded EXCEPT ![s] = tasks[req[s].task]]
    /\ target' = [target EXCEPT ![s] = tasks[req[s].task]]
    /\ Goto(s, IF WritesStatus(req[s]) THEN "check"
               ELSE IF req[s].kind = "moves" THEN "answer"
               ELSE "commit")
    /\ UNCHANGED <<db, guard, req, version>>

\* repo.get: a plain SELECT, or 404.
ReadTask(s) ==
    /\ pc[s] = "read"
    /\ LET t == req[s].task
       IN  IF ~Live(t)
           THEN Refuse(s)
           ELSE /\ loaded' = [loaded EXCEPT ![s] = tasks[t]]
                /\ target' = [target EXCEPT ![s] = tasks[t]]
                /\ Goto(s, IF WritesStatus(req[s]) THEN "check"
                           ELSE IF req[s].kind = "moves" THEN "answer"
                           ELSE "commit")
                /\ UNCHANGED <<db, guard, req, version>>

\* The status a write ends in: replace and create fall back to the default
\* entry state.
Wanted(s) == TargetOf(Loaded(s), req[s].status)

\* The occupancy count, when the engine asks for it, and the engine's check.
Verdict(s) ==
    LET w         == Loaded(s)
        from      == loaded[s]
        occupancy == IF NeedsOccupancy(w, from, req[s].status) THEN Occupancy ELSE NoOccupancy
    IN  IF req[s].kind = "create"
        THEN CheckEntry(w, req[s].status, occupancy)
        ELSE CheckMove(w, from, Wanted(s), req[s].roles, occupancy)

CheckStatus(s) ==
    /\ pc[s] = "check"
    /\ IF Verdict(s) # "ok"
       THEN Refuse(s)
       ELSE /\ target' = [target EXCEPT ![s] = Wanted(s)]
            /\ Goto(s, "commit")
            /\ UNCHANGED <<db, guard, req, version, loaded>>

CommitCreate(s) ==
    /\ pc[s] = "commit" /\ req[s].kind = "create"
    /\ \E t \in Task :
         /\ tasks[t] = Unborn
         /\ tasks'  = [tasks EXCEPT ![t] = target[s]]
         /\ outbox' = Append(outbox, TaskEvent("TaskCreated", t, target[s]))
    /\ UNCHANGED workflows
    /\ End(s)

\* mutant: an UPDATE that matches no row still commits its events
CommitUpdateUnmatched(s) ==
    /\ pc[s] = "commit" /\ req[s].kind \in {"replace", "patch"}
    /\ \E edited \in BOOLEAN :
         LET t     == req[s].task
             moved == target[s] # loaded[s]
         IN  IF moved \/ edited
             THEN /\ tasks'  = IF moved /\ Live(t) THEN [tasks EXCEPT ![t] = target[s]] ELSE tasks
                  /\ outbox' = outbox \o UpdateEvents(s)
                  /\ UNCHANGED workflows
                  /\ End(s)
             ELSE Refuse(s)

\* Only columns that differ from the loaded row are written, so a write
\* whose status did not move leaves the stored status alone; `edited` says
\* whether another column differs. An UPDATE that matches no row raises
\* StaleDataError and rolls back.
CommitUpdate(s) ==
    /\ pc[s] = "commit" /\ req[s].kind \in {"replace", "patch"}
    /\ \E edited \in BOOLEAN :
         LET t     == req[s].task
             moved == target[s] # loaded[s]
         IN  IF (moved \/ edited) /\ Live(t)
             THEN /\ tasks'  = IF moved THEN [tasks EXCEPT ![t] = target[s]] ELSE tasks
                  /\ outbox' = outbox \o UpdateEvents(s)
                  /\ UNCHANGED workflows
                  /\ End(s)
             ELSE Refuse(s)

\* A DELETE that matches no row is no error: the event is committed all the
\* same.
CommitDelete(s) ==
    /\ pc[s] = "commit" /\ req[s].kind = "delete"
    /\ tasks'  = [tasks EXCEPT ![req[s].task] = Deleted]
    /\ outbox' = Append(outbox, TaskEvent("TaskDeleted", req[s].task, loaded[s]))
    /\ UNCHANGED workflows
    /\ End(s)

\* legal_moves answers from the definition and the row it read.
AnswerMoves(s) == pc[s] = "answer" /\ Refuse(s)

\* replace_active, the strand guard: no row may sit in a state the new
\* definition does not know.
Stranded(d) == {t \in Task : Live(t) /\ tasks[t] \notin StateNames(Definition[d])}

CheckStranded(s) ==
    /\ pc[s] = "strand"
    /\ IF Stranded(req[s].document) # {}
       THEN Refuse(s)
       ELSE Goto(s, "highest") /\ UNCHANGED <<db, guard, req, version, loaded, target>>

\* seed_workflow_if_missing: any row means another worker has seeded.
CheckSeeded(s) ==
    /\ pc[s] = "existing"
    /\ IF workflows # << >>
       THEN Refuse(s)
       ELSE Goto(s, "highest") /\ UNCHANGED <<db, guard, req, version, loaded, target>>

ReadHighest(s) ==
    /\ pc[s] = "highest"
    /\ version' = [version EXCEPT ![s] = Len(workflows)]
    /\ Goto(s, "store")
    /\ UNCHANGED <<db, guard, req, loaded, target>>

\* The insert of version max + 1, which the UNIQUE column may refuse. The
\* seed stages no event.
StoreDefinition(s) ==
    /\ pc[s] = "store"
    /\ IF version[s] # Len(workflows)
       THEN Refuse(s)
       ELSE /\ \/ /\ req[s].kind = "put"
                  /\ workflows' = Append(workflows, req[s].document)
                  /\ outbox'    = Append(outbox, WorkflowUpdated(version[s] + 1))
               \/ /\ req[s].kind = "seed"
                  /\ workflows' = Append(workflows, DefaultDocument)
                  /\ UNCHANGED outbox
            /\ UNCHANGED tasks
            /\ End(s)

\* A rollback at any await: a timeout, a lost connection, a lost client, a
\* duplicate title, a killed worker.
Abort(s) == pc[s] # "idle" /\ Refuse(s)

Statement(s) ==
    \/ AcquireShared(s)  \/ AcquireExclusive(s)
    \/ ReadDefinition(s) \/ ReadTask(s) \/ CheckStatus(s)
    \/ CommitCreate(s)   \/ CommitUpdate(s) \/ CommitDelete(s)
    \/ AnswerMoves(s)
    \/ CheckStranded(s)  \/ CheckSeeded(s) \/ ReadHighest(s) \/ StoreDefinition(s)

Next ==
    \E s \in Session :
        \/ \E r \in Requests : Receive(s, r)
        \/ Statement(s)
        \/ Abort(s)

Spec == Init /\ [][Next]_vars

-----------------------------------------------------------------------------
\* Properties

\* Every variable has its type: a status is the name of some state.
TypeOK ==
    /\ tasks \in [Task -> StateName \cup {Unborn, Deleted}]
    /\ workflows \in Seq(Document)
    /\ outbox \in Seq(Event)
    /\ guard \in [Session -> {"none", "shared", "exclusive"}]
    /\ pc \in [Session -> {"idle", "acquire", "definition", "read", "check", "commit",
                           "answer", "strand", "existing", "highest", "store"}]
    /\ req \in [Session -> Requests \cup {NoRequest}]
    /\ version \in [Session -> Nat]
    /\ loaded \in [Session -> Status]
    /\ target \in [Session -> Status]

(***************************************************************************)
(* No task sits in a state the active definition does not know: the        *)
(* anti-stranding promise of the strand guard together with the advisory   *)
(* guard, whatever the interleaving of task writes, PUTs and seeds.        *)
(***************************************************************************)
NoStranded ==
    \A t \in Task : Live(t) => workflows # << >> /\ tasks[t] \in StateNames(Active)

(***************************************************************************)
(* Between its check and its commit, a status write stays right about the  *)
(* definition: unless another session moved the row meanwhile, the move it *)
(* is about to commit is one the definition active at the commit names for *)
(* the row's status, open to the caller's roles; a create still enters an  *)
(* entry state.                                                            *)
(***************************************************************************)
MoveStillLegal ==
    \A s \in Session : pc[s] = "commit" /\ WritesStatus(req[s]) =>
        IF req[s].kind = "create"
        THEN target[s] \in EntryStates(Active)
        ELSE loaded[s] # target[s] =>
               /\ Allows(Active, loaded[s], target[s])
               /\ ~Forbidden(Active, loaded[s], target[s], req[s].roles)

(***************************************************************************)
(* The UNIQUE version column never refuses a definition: max + 1 is still  *)
(* free when PUT or seed inserts it, however many workers seed at once.    *)
(***************************************************************************)
VersionNeverClashes ==
    \A s \in Session : pc[s] = "store" => version[s] = Len(workflows)

\* The events that say where a task is, and the last of a set of positions.
TellsStatus(t) ==
    {i \in DOMAIN outbox :
        /\ outbox[i].type \in {"TaskCreated", "TaskStatusChanged", "TaskDeleted"}
        /\ outbox[i].task = t}

LastIn(S) == CHOOSE i \in S : \A j \in S : j <= i

(***************************************************************************)
(* A consumer that replays the outbox in commit order knows every task's   *)
(* status: the last event about a creation, a status change or a deletion  *)
(* says where the row is, lost updates included.                           *)
(***************************************************************************)
OutboxTellsStatus ==
    \A t \in Task :
        tasks[t] = IF TellsStatus(t) = {}
                   THEN Unborn
                   ELSE LET e == outbox[LastIn(TellsStatus(t))]
                        IN  IF e.type = "TaskDeleted" THEN Deleted ELSE e.status

Announcements == {i \in DOMAIN outbox : outbox[i].type = "WorkflowUpdated"}

(***************************************************************************)
(* Every definition version after the seed's is announced once, in order,  *)
(* and no other version is.                                                *)
(***************************************************************************)
VersionsAnnounced ==
    /\ {outbox[i].version : i \in Announcements} = 2..Len(workflows)
    /\ \A i, j \in Announcements : i < j => outbox[i].version < outbox[j].version

\* A step that commits an event of that type about the task.
ToldIn(type, t) ==
    \E i \in DOMAIN outbox' \ DOMAIN outbox :
        outbox'[i].type = type /\ outbox'[i].task = t

(***************************************************************************)
(* A status change that lands in a completing state of the definition      *)
(* active at that moment is told by a TaskCompleted of the same commit, and *)
(* no other step tells one.                                                *)
(***************************************************************************)
CompletionTold ==
    [][\A t \in Task :
         ToldIn("TaskCompleted", t) <=>
            /\ ToldIn("TaskStatusChanged", t)
            /\ Live(t) /\ tasks'[t] \in StateName
            /\ Completes(Active, tasks'[t])]_vars

(***************************************************************************)
(* A limited state is overshot by no more than the other writers in flight *)
(* when the limit was last checked, and not further by time: an entry into *)
(* a state never leaves it holding more than its wip_limit plus one item   *)
(* for each other session.                                                 *)
(***************************************************************************)
OvershootBounded ==
    [][\A name \in StateName :
         Occupancy'[name] > Occupancy[name] =>
            LET limit == StateOf(Active, name).wip_limit
            IN  limit # NoLimit =>
                  Occupancy'[name] <= limit + Cardinality(Session) - 1]_vars

(***************************************************************************)
(* GET /tasks/{id}/transitions always has an answer: the status of the row *)
(* is a state of the definition the moves are looked up in.                *)
(***************************************************************************)
LegalMovesAnswered ==
    \A s \in Session : pc[s] = "answer" => loaded[s] \in StateNames(Loaded(s))

Lifecycle == INSTANCE TaskLifecycle
    WITH status <- tasks,
         definition <- IF workflows = << >> THEN NoDocument ELSE workflows[Len(workflows)]

(***************************************************************************)
(* Concurrent requests implement TaskLifecycle in its loose form: a row    *)
(* starts in an entry state of the active definition, every later status   *)
(* is the end of a move that definition names (though not always from the  *)
(* status it overwrites), and no definition is activated that strands a    *)
(* row.                                                                    *)
(***************************************************************************)
LooseLifecycle == Lifecycle!LooseSpec

(***************************************************************************)
(* In its strict form: a status only ever changes along a move that the    *)
(* active definition names for the pair (stored status, new status).       *)
(***************************************************************************)
StrictLifecycle == Lifecycle!Spec
=============================================================================
