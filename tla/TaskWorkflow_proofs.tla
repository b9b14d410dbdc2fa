------------------------- MODULE TaskWorkflow_proofs ------------------------
(***************************************************************************)
(* Proofs about TaskWorkflow, for every set of sessions, tasks, documents  *)
(* and requests and for every bound.                                       *)
(***************************************************************************)
EXTENDS TaskWorkflow, SequenceTheorems, FiniteSetTheorems, TLAPS

-----------------------------------------------------------------------------
\* What the engine's verdicts say about the definition they were given.

LEMMA EntryKnown ==
    ASSUME NEW w, IsWorkflow(w)
    PROVE  EntryStates(w) \subseteq StateNames(w)
BY DEF IsWorkflow, EntryStates, EntryPositions, StateNames

LEMMA NamesTyped ==
    ASSUME NEW w, IsWorkflow(w)
    PROVE  StateNames(w) \subseteq StateName
<1>1. \A i \in DOMAIN w.states : w.states[i] \in State
  BY DEF IsWorkflow
<1>2. \A i \in DOMAIN w.states : w.states[i].name \in StateName
  BY <1>1 DEF State
<1>. QED  BY <1>2 DEF StateNames

LEMMA EntryVerdict ==
    ASSUME NEW w, NEW status, NEW occupancy,
           CheckEntry(w, status, occupancy) = "ok"
    PROVE  /\ TargetOf(w, status) \in StateNames(w)
           /\ TargetOf(w, status) \in EntryStates(w)
BY DEF CheckEntry

LEMMA MoveVerdict ==
    ASSUME NEW w, NEW from, NEW to, NEW roles, NEW occupancy,
           CheckMove(w, from, to, roles, occupancy) = "ok"
    PROVE  /\ to \in StateNames(w)
           /\ from # to => Allows(w, from, to) /\ ~Forbidden(w, from, to, roles)
BY DEF CheckMove

-----------------------------------------------------------------------------
(***************************************************************************)
(* The inductive invariant: who holds the guard where, what a session that *)
(* holds it knows about the definition, and what follows for the tables.   *)
(***************************************************************************)

\* The statements a request of each kind gets to.
Reaches(s) ==
    CASE pc[s] = "idle"       -> req[s] = NoRequest
      [] pc[s] = "acquire"    -> WritesStatus(req[s]) \/ WritesDefinition(req[s])
      [] pc[s] = "definition" -> WritesStatus(req[s]) \/ req[s].kind = "moves"
      [] pc[s] = "read"       -> req[s].kind \in {"replace", "patch", "delete", "moves"}
      [] pc[s] = "check"      -> WritesStatus(req[s])
      [] pc[s] = "commit"     -> req[s].kind \in {"create", "replace", "patch", "delete"}
      [] pc[s] = "answer"     -> req[s].kind = "moves"
      [] pc[s] = "strand"     -> req[s].kind = "put"
      [] pc[s] = "existing"   -> req[s].kind = "seed"
      [] pc[s] = "highest"    -> WritesDefinition(req[s])
      [] pc[s] = "store"      -> WritesDefinition(req[s])

Flow == \A s \in Session : Reaches(s) /\ (pc[s] # "idle" => req[s] \in Requests)

\* The guard excludes, and the statements of a critical section hold it.
Guarded ==
    /\ \A s, o \in Session : guard[s] = "exclusive" /\ o # s => guard[o] = "none"
    /\ \A s \in Session :
         /\ pc[s] \in {"definition", "read", "check", "commit"} /\ WritesStatus(req[s])
              => guard[s] = "shared"
         /\ pc[s] \in {"strand", "existing", "highest", "store"} => guard[s] = "exclusive"

\* No request but a seed runs before the first definition.
Seeded ==
    \A s \in Session : pc[s] # "idle" /\ req[s].kind # "seed" => workflows # << >>

\* The definition a status write checks against is the active one.
Fresh ==
    \A s \in Session :
        /\ pc[s] \in {"read", "check", "commit"} /\ WritesStatus(req[s])
             => version[s] = Len(workflows)
        /\ pc[s] = "store" => version[s] = Len(workflows)

\* What the check established about the status a write is about to commit.
Checked ==
    \A s \in Session :
        /\ pc[s] = "check" /\ req[s].kind # "create" => loaded[s] \in StateName
        /\ pc[s] = "commit" =>
             /\ target[s] \in StateName
             /\ req[s].kind # "create" => loaded[s] \in StateName
             /\ WritesStatus(req[s]) => target[s] \in StateNames(Active)
             /\ ~WritesStatus(req[s]) => target[s] = loaded[s]

\* What the strand guard and the seed's probe established.
Cleared ==
    \A s \in Session : pc[s] \in {"highest", "store"} =>
        /\ req[s].kind = "put" => Stranded(req[s].document) = {}
        /\ req[s].kind = "seed" => workflows = << >>

Inv == /\ TypeOK /\ Flow /\ Guarded /\ Seeded /\ Fresh
       /\ Checked /\ Cleared /\ NoStranded /\ MoveStillLegal

-----------------------------------------------------------------------------
LEMMA ActiveIsWorkflow ==
    ASSUME TypeOK, workflows # << >>
    PROVE  IsWorkflow(Active)
BY DocumentAssumption DEF TypeOK, Active

LEMMA InitInv == Init => Inv
BY AbsentAssumption
   DEF Init, Inv, TypeOK, Flow, Reaches, Guarded, Seeded, Fresh, Checked, Cleared,
       NoStranded, MoveStillLegal, Live, Status

\* An action of one session leaves the others where they are.
LEMMA FlowFrame ==
    ASSUME Flow, NEW s \in Session,
           Reaches(s)', pc'[s] # "idle" => req'[s] \in Requests,
           \A o \in Session \ {s} : pc'[o] = pc[o] /\ req'[o] = req[o]
    PROVE  Flow'
<1>. SUFFICES ASSUME NEW o \in Session \ {s}
              PROVE  Reaches(o)' /\ (pc'[o] # "idle" => req'[o] \in Requests)
  BY DEF Flow
<1>1. Reaches(o) /\ (pc[o] # "idle" => req[o] \in Requests)
  BY DEF Flow
<1>. QED  BY <1>1 DEF Reaches, WritesStatus, WritesDefinition

\* A session that ends without writing keeps the invariant: it leaves the
\* tables alone and gives up what it held.
LEMMA RefuseInv ==
    ASSUME Inv, NEW s \in Session, Refuse(s)
    PROVE  Inv'
<1>. USE DEF Inv, Refuse, End, Goto, db
<1>1. TypeOK'
  BY DEF TypeOK, Status
<1>2. Flow'
  <2>1. Reaches(s)' /\ (pc'[s] # "idle" => req'[s] \in Requests)
    BY DEF Flow, Reaches, TypeOK, WritesStatus, WritesDefinition
  <2>2. \A o \in Session \ {s} : pc'[o] = pc[o] /\ req'[o] = req[o]
    BY DEF TypeOK
  <2>. QED  BY <2>1, <2>2, FlowFrame
<1>3. Guarded'
  BY DEF Guarded, TypeOK, WritesStatus
<1>4. Seeded'
  BY DEF Seeded, TypeOK
<1>5. Fresh'
  BY DEF Fresh, TypeOK, WritesStatus
<1>6. Checked'
  BY DEF Checked, TypeOK, WritesStatus, Active
<1>7. Cleared'
  BY DEF Cleared, TypeOK, Stranded, Live
<1>8. NoStranded'
  BY DEF NoStranded, Live, Active
<1>9. MoveStillLegal'
  BY DEF MoveStillLegal, TypeOK, WritesStatus, Active
<1>. QED  BY <1>1, <1>2, <1>3, <1>4, <1>5, <1>6, <1>7, <1>8, <1>9

LEMMA ReceiveInv ==
    ASSUME Inv, NEW s \in Session, NEW r \in Requests, Receive(s, r)
    PROVE  Inv'
<1>. USE RequestAssumption DEF Inv, Receive, Goto, db
<1>1. TypeOK'
  BY DEF TypeOK
<1>2. Flow'
  <2>1. r.kind \in {"create", "replace", "patch", "delete", "moves", "put", "seed"}
    BY DEF Request
  <2>2. Reaches(s)' /\ req'[s] \in Requests
    BY <2>1 DEF Reaches, TypeOK, WritesStatus, WritesDefinition
  <2>3. ASSUME NEW o \in Session \ {s}
        PROVE  Reaches(o)' /\ (pc'[o] # "idle" => req'[o] \in Requests)
    BY <2>3 DEF Flow, Reaches, TypeOK, WritesStatus, WritesDefinition
  <2>. QED  BY <2>2, <2>3 DEF Flow
<1>3. Guarded'
  BY DEF Guarded, TypeOK, WritesStatus, WritesDefinition
<1>4. Seeded'
  BY DEF Seeded, TypeOK
<1>5. Fresh'
  BY DEF Fresh, TypeOK, WritesStatus
<1>6. Checked'
  BY DEF Checked, TypeOK, WritesStatus, Active
<1>7. Cleared'
  BY DEF Cleared, TypeOK, Stranded, Live
<1>8. NoStranded'
  BY DEF NoStranded, Live, Active
<1>9. MoveStillLegal'
  BY DEF MoveStillLegal, TypeOK, WritesStatus, Active
<1>. QED  BY <1>1, <1>2, <1>3, <1>4, <1>5, <1>6, <1>7, <1>8, <1>9

LEMMA AcquireSharedInv ==
    ASSUME Inv, NEW s \in Session, AcquireShared(s)
    PROVE  Inv'
<1>. USE DEF Inv, AcquireShared, Goto, db
<1>1. TypeOK'
  BY DEF TypeOK
<1>2. Flow'
  <2>1. Reaches(s)' /\ (pc'[s] # "idle" => req'[s] \in Requests)
    BY DEF Flow, Reaches, TypeOK, WritesStatus, WritesDefinition
  <2>2. \A o \in Session \ {s} : pc'[o] = pc[o] /\ req'[o] = req[o]
    BY DEF TypeOK
  <2>. QED  BY <2>1, <2>2, FlowFrame
<1>3. Guarded'
  BY DEF Guarded, TypeOK, WritesStatus, WritesDefinition
<1>4. Seeded'
  BY DEF Seeded, TypeOK
<1>5. Fresh'
  BY DEF Fresh, TypeOK, WritesStatus
<1>6. Checked'
  BY DEF Checked, TypeOK, WritesStatus, Active
<1>7. Cleared'
  BY DEF Cleared, TypeOK, Stranded, Live
<1>8. NoStranded'
  BY DEF NoStranded, Live, Active
<1>9. MoveStillLegal'
  BY DEF MoveStillLegal, TypeOK, WritesStatus, Active
<1>. QED  BY <1>1, <1>2, <1>3, <1>4, <1>5, <1>6, <1>7, <1>8, <1>9

LEMMA AcquireExclusiveInv ==
    ASSUME Inv, NEW s \in Session, AcquireExclusive(s)
    PROVE  Inv'
<1>. USE DEF Inv, AcquireExclusive, Goto, db
<1>1. TypeOK'
  BY DEF TypeOK
<1>2. Flow'
  <2>1. Reaches(s)' /\ (pc'[s] # "idle" => req'[s] \in Requests)
    BY DEF Flow, Reaches, TypeOK, WritesStatus, WritesDefinition
  <2>2. \A o \in Session \ {s} : pc'[o] = pc[o] /\ req'[o] = req[o]
    BY DEF TypeOK
  <2>. QED  BY <2>1, <2>2, FlowFrame
<1>3. Guarded'
  BY DEF Guarded, TypeOK, WritesStatus, WritesDefinition
<1>4. Seeded'
  BY DEF Seeded, TypeOK
<1>5. Fresh'
  BY DEF Fresh, TypeOK, WritesStatus
<1>6. Checked'
  BY DEF Checked, TypeOK, WritesStatus, Active
<1>7. Cleared'
  BY DEF Cleared, TypeOK, Stranded, Live
<1>8. NoStranded'
  BY DEF NoStranded, Live, Active
<1>9. MoveStillLegal'
  BY DEF MoveStillLegal, TypeOK, WritesStatus, Active
<1>. QED  BY <1>1, <1>2, <1>3, <1>4, <1>5, <1>6, <1>7, <1>8, <1>9

LEMMA ReadDefinitionInv ==
    ASSUME Inv, NEW s \in Session, ReadDefinition(s)
    PROVE  Inv'
<1>. USE DEF Inv, ReadDefinition, Goto, db
<1>1. TypeOK'
  BY DEF TypeOK
<1>2. Flow'
  <2>1. WritesStatus(req[s]) \/ req[s].kind = "moves"
    BY DEF Flow, Reaches
  <2>2. Reaches(s)' /\ req'[s] \in Requests
    BY <2>1 DEF Flow, Reaches, TypeOK, WritesStatus
  <2>3. ASSUME NEW o \in Session \ {s}
        PROVE  Reaches(o)' /\ (pc'[o] # "idle" => req'[o] \in Requests)
    BY <2>3 DEF Flow, Reaches, TypeOK, WritesStatus, WritesDefinition
  <2>. QED  BY <2>2, <2>3 DEF Flow
<1>3. Guarded'
  BY DEF Guarded, TypeOK, WritesStatus, WritesDefinition
<1>4. Seeded'
  BY DEF Seeded, TypeOK
<1>5. Fresh'
  BY DEF Fresh, TypeOK, WritesStatus
<1>6. Checked'
  BY DEF Checked, Flow, Reaches, TypeOK, WritesStatus, Active
<1>7. Cleared'
  BY DEF Cleared, TypeOK, Stranded, Live
<1>8. NoStranded'
  BY DEF NoStranded, Live, Active
<1>9. MoveStillLegal'
  BY DEF MoveStillLegal, TypeOK, WritesStatus, Active
<1>. QED  BY <1>1, <1>2, <1>3, <1>4, <1>5, <1>6, <1>7, <1>8, <1>9

LEMMA ReadTaskInv ==
    ASSUME Inv, NEW s \in Session, ReadTask(s)
    PROVE  Inv'
<1>1. CASE ~Live(req[s].task)
  BY <1>1, RefuseInv DEF ReadTask
<1>2. CASE Live(req[s].task)
  <2>. USE <1>2 DEF Inv, ReadTask, Goto, db
  <2>0. /\ req[s].kind \in {"replace", "patch", "delete", "moves"}
        /\ pc[s] = "read"
        /\ tasks[req[s].task] \in StateName
        /\ loaded' = [loaded EXCEPT ![s] = tasks[req[s].task]]
        /\ target' = [target EXCEPT ![s] = tasks[req[s].task]]
        /\ pc' = [pc EXCEPT ![s] = IF WritesStatus(req[s]) THEN "check"
                                   ELSE IF req[s].kind = "moves" THEN "answer"
                                   ELSE "commit"]
        /\ UNCHANGED <<tasks, workflows, outbox, guard, req, version>>
    BY DEF Flow, Reaches, Live
  <2>. HIDE <1>2 DEF ReadTask
  <2>1. TypeOK'
    BY <2>0 DEF TypeOK, Status
  <2>2. Flow'
    <3>1. Reaches(s)' /\ req'[s] \in Requests
      BY <2>0 DEF Flow, Reaches, TypeOK, WritesStatus
    <3>2. ASSUME NEW o \in Session \ {s}
          PROVE  Reaches(o)' /\ (pc'[o] # "idle" => req'[o] \in Requests)
      BY <2>0, <3>2 DEF Flow, Reaches, TypeOK, WritesStatus, WritesDefinition
    <3>. QED  BY <3>1, <3>2 DEF Flow
  <2>3. Guarded'
    BY <2>0 DEF Guarded, TypeOK, WritesStatus
  <2>4. Seeded'
    BY <2>0 DEF Seeded, TypeOK
  <2>5. Fresh'
    BY <2>0 DEF Fresh, TypeOK, WritesStatus
  <2>6. Checked'
    BY <2>0 DEF Checked, TypeOK, WritesStatus, Active
  <2>7. Cleared'
    BY <2>0 DEF Cleared, TypeOK, Stranded, Live
  <2>8. NoStranded'
    BY <2>0 DEF NoStranded, Live, Active
  <2>9. MoveStillLegal'
    BY <2>0 DEF MoveStillLegal, TypeOK, WritesStatus, Active
  <2>. QED  BY <2>1, <2>2, <2>3, <2>4, <2>5, <2>6, <2>7, <2>8, <2>9
<1>. QED  BY <1>1, <1>2

LEMMA CheckStatusInv ==
    ASSUME Inv, NEW s \in Session, CheckStatus(s)
    PROVE  Inv'
<1>1. CASE Verdict(s) # "ok"
  BY <1>1, RefuseInv DEF CheckStatus
<1>2. CASE Verdict(s) = "ok"
  <2>. USE DEF Inv
  <2>0. /\ WritesStatus(req[s])
        /\ pc[s] = "check"
        /\ target' = [target EXCEPT ![s] = Wanted(s)]
        /\ pc' = [pc EXCEPT ![s] = "commit"]
        /\ UNCHANGED <<tasks, workflows, outbox, guard, req, version, loaded>>
    BY <1>2 DEF CheckStatus, Goto, db, Flow, Reaches
  <2>1. /\ req[s].kind # "seed"
        /\ workflows # << >>
        /\ Loaded(s) = Active
        /\ IsWorkflow(Active)
    BY <2>0, ActiveIsWorkflow DEF WritesStatus, Seeded, Fresh, Loaded, Active
  <2>2. /\ Wanted(s) \in StateNames(Active)
        /\ req[s].kind = "create" => Wanted(s) \in EntryStates(Active)
        /\ req[s].kind # "create" /\ loaded[s] # Wanted(s) =>
             /\ Allows(Active, loaded[s], Wanted(s))
             /\ ~Forbidden(Active, loaded[s], Wanted(s), req[s].roles)
    BY <1>2, <2>1, EntryVerdict, MoveVerdict DEF Verdict, Wanted
  <2>3. Wanted(s) \in StateName
    BY <2>1, <2>2, NamesTyped
  <2>4. TypeOK'
    BY <2>0, <2>3 DEF TypeOK, Status
  <2>5. Flow'
    <3>1. Reaches(s)' /\ req'[s] \in Requests
      BY <2>0 DEF Flow, Reaches, TypeOK, WritesStatus
    <3>2. ASSUME NEW o \in Session \ {s}
          PROVE  Reaches(o)' /\ (pc'[o] # "idle" => req'[o] \in Requests)
      BY <2>0, <3>2 DEF Flow, Reaches, TypeOK, WritesStatus, WritesDefinition
    <3>. QED  BY <3>1, <3>2 DEF Flow
  <2>6. Guarded'
    BY <2>0 DEF Guarded, TypeOK, WritesStatus
  <2>7. Seeded'
    BY <2>0 DEF Seeded, TypeOK
  <2>8. Fresh'
    BY <2>0 DEF Fresh, TypeOK, WritesStatus
  <2>9. Checked'
    BY <2>0, <2>2, <2>3 DEF Checked, TypeOK, WritesStatus, Active
  <2>10. Cleared'
    BY <2>0 DEF Cleared, TypeOK, Stranded, Live
  <2>11. NoStranded'
    BY <2>0 DEF NoStranded, Live, Active
  <2>12. MoveStillLegal'
    BY <2>0, <2>2 DEF MoveStillLegal, TypeOK, WritesStatus, Active
  <2>. QED  BY <2>4, <2>5, <2>6, <2>7, <2>8, <2>9, <2>10, <2>11, <2>12
<1>. QED  BY <1>1, <1>2

(***************************************************************************)
(* A commit of a task row: whatever events it stages, the invariant holds  *)
(* after it when the row gets a status of the active definition under the  *)
(* shared guard, keeps its status, or is removed.                          *)
(***************************************************************************)
LEMMA RowCommitInv ==
    ASSUME Inv, NEW s \in Session, NEW t \in Task, NEW status,
           End(s), workflows' = workflows, outbox' \in Seq(Event),
           tasks' = [tasks EXCEPT ![t] = status],
           \/ /\ status \in StateName /\ status \in StateNames(Active)
              /\ workflows # << >> /\ guard[s] = "shared"
           \/ status = tasks[t]
           \/ status = Deleted
    PROVE  Inv'
<1>. USE DEF Inv, End, Goto
<1>1. TypeOK'
  BY DEF TypeOK, Status
<1>2. Flow'
  <2>1. Reaches(s)' /\ (pc'[s] # "idle" => req'[s] \in Requests)
    BY DEF Flow, Reaches, TypeOK, WritesStatus, WritesDefinition
  <2>2. \A o \in Session \ {s} : pc'[o] = pc[o] /\ req'[o] = req[o]
    BY DEF TypeOK
  <2>. QED  BY <2>1, <2>2, FlowFrame
<1>3. Guarded'
  BY DEF Guarded, TypeOK, WritesStatus
<1>4. Seeded'
  BY DEF Seeded, TypeOK
<1>5. Fresh'
  BY DEF Fresh, TypeOK, WritesStatus
<1>6. Checked'
  BY DEF Checked, TypeOK, WritesStatus, Active
<1>7. Cleared'
  <2>. SUFFICES ASSUME NEW o \in Session, pc'[o] \in {"highest", "store"}
                PROVE  (/\ req[o].kind = "put" => Stranded(req[o].document) = {}
                        /\ req[o].kind = "seed" => workflows = << >>)'
    BY DEF Cleared
  <2>1. /\ o # s /\ pc[o] \in {"highest", "store"} /\ req'[o] = req[o]
        /\ guard[s] # "shared"
    BY DEF TypeOK, Guarded
  <2>2. \A u \in Task : Live(u)' => Live(u) /\ tasks'[u] = tasks[u]
    BY <2>1, AbsentAssumption DEF Live, TypeOK
  <2>3. /\ req[o].kind = "put" => Stranded(req[o].document) = {}
        /\ req[o].kind = "seed" => workflows = << >>
    BY <2>1 DEF Cleared
  <2>4. req[o].kind = "put" => Stranded(req[o].document)' = {}
    BY <2>1, <2>2, <2>3 DEF Stranded
  <2>. QED  BY <2>1, <2>3, <2>4
<1>8. NoStranded'
  BY AbsentAssumption DEF NoStranded, Live, Active, TypeOK
<1>9. MoveStillLegal'
  BY DEF MoveStillLegal, TypeOK, WritesStatus, Active
<1>. QED  BY <1>1, <1>2, <1>3, <1>4, <1>5, <1>6, <1>7, <1>8, <1>9

LEMMA CommitCreateInv ==
    ASSUME Inv, NEW s \in Session, CommitCreate(s)
    PROVE  Inv'
<1>1. PICK t \in Task :
        /\ tasks'  = [tasks EXCEPT ![t] = target[s]]
        /\ outbox' = Append(outbox, TaskEvent("TaskCreated", t, target[s]))
  BY DEF CommitCreate
<1>2. /\ pc[s] = "commit" /\ req[s].kind = "create"
      /\ workflows' = workflows /\ End(s)
  BY DEF CommitCreate
<1>3. /\ target[s] \in StateName /\ target[s] \in StateNames(Active)
      /\ workflows # << >> /\ guard[s] = "shared"
  BY <1>2 DEF Inv, Checked, Guarded, Seeded, WritesStatus
<1>4. outbox' \in Seq(Event)
  <2>1. TaskEvent("TaskCreated", t, target[s]) \in Event
    BY <1>3 DEF TaskEvent, Event
  <2>. QED  BY <1>1, <2>1 DEF Inv, TypeOK
<1>. QED  BY <1>1, <1>2, <1>3, <1>4, RowCommitInv

LEMMA UpdateEventsTyped ==
    ASSUME NEW s \in Session, req[s].task \in Task,
           target[s] \in StateName, loaded[s] \in StateName
    PROVE  UpdateEvents(s) \in Seq(Event)
<1>. DEFINE t == req[s].task
<1>1. /\ TaskEvent("TaskUpdated", t, target[s]) \in Event
      /\ TaskEvent("TaskCompleted", t, target[s]) \in Event
      /\ StatusChanged(t, loaded[s], target[s]) \in Event
  BY DEF TaskEvent, StatusChanged, Event
<1>2. <<TaskEvent("TaskUpdated", t, target[s])>> \in Seq(Event)
  BY <1>1
<1>3. <<TaskEvent("TaskUpdated", t, target[s]),
        StatusChanged(t, loaded[s], target[s])>> \in Seq(Event)
  BY <1>1
<1>4. (IF Completes(Loaded(s), target[s])
       THEN <<TaskEvent("TaskCompleted", t, target[s])>>
       ELSE << >>) \in Seq(Event)
  BY <1>1
<1>5. \A a, b \in Seq(Event) : a \o b \in Seq(Event)
  BY ConcatProperties
<1>. QED  BY <1>2, <1>3, <1>4, <1>5 DEF UpdateEvents

LEMMA CommitUpdateInv ==
    ASSUME Inv, NEW s \in Session, CommitUpdate(s)
    PROVE  Inv'
<1>. DEFINE t == req[s].task
<1>1. /\ pc[s] = "commit"
      /\ req[s].kind \in {"replace", "patch"}
      /\ t \in Task
  <2>1. req[s] \in Request
    BY RequestAssumption DEF CommitUpdate, Inv, Flow
  <2>. QED  BY <2>1 DEF CommitUpdate, Request
<1>2. CASE Refuse(s)
  BY <1>2, RefuseInv
<1>3. CASE /\ tasks'  = IF target[s] # loaded[s] THEN [tasks EXCEPT ![t] = target[s]] ELSE tasks
           /\ outbox' = outbox \o UpdateEvents(s)
           /\ workflows' = workflows
           /\ End(s)
  <2>1. /\ target[s] \in StateName /\ loaded[s] \in StateName
        /\ workflows # << >>
        /\ target[s] # loaded[s] =>
             target[s] \in StateNames(Active) /\ guard[s] = "shared"
    BY <1>1 DEF Inv, Checked, Guarded, Seeded
  <2>2. outbox' \in Seq(Event)
    BY <1>1, <1>3, <2>1, UpdateEventsTyped, ConcatProperties DEF Inv, TypeOK
  <2>3. CASE target[s] # loaded[s]
    BY <1>1, <1>3, <2>1, <2>2, <2>3, RowCommitInv
  <2>4. CASE target[s] = loaded[s]
    <3>1. tasks' = [tasks EXCEPT ![t] = tasks[t]]
      BY <1>3, <2>4 DEF Inv, TypeOK
    <3>. QED  BY <1>1, <1>3, <2>2, <3>1, RowCommitInv
  <2>. QED  BY <2>3, <2>4
<1>. QED  BY <1>2, <1>3 DEF CommitUpdate

LEMMA CommitDeleteInv ==
    ASSUME Inv, NEW s \in Session, CommitDelete(s)
    PROVE  Inv'
<1>1. /\ pc[s] = "commit" /\ req[s].kind = "delete"
      /\ req[s].task \in Task
  <2>1. req[s] \in Request
    BY RequestAssumption DEF CommitDelete, Inv, Flow
  <2>. QED  BY <2>1 DEF CommitDelete, Request
<1>2. outbox' \in Seq(Event)
  <2>1. TaskEvent("TaskDeleted", req[s].task, loaded[s]) \in Event
    BY <1>1 DEF Inv, Checked, TaskEvent, Event
  <2>. QED  BY <2>1 DEF CommitDelete, Inv, TypeOK
<1>. QED  BY <1>1, <1>2, RowCommitInv DEF CommitDelete

\* The strand guard lets only a definition through that strands nothing.
LEMMA CheckStrandedInv ==
    ASSUME Inv, NEW s \in Session, CheckStranded(s)
    PROVE  Inv'
<1>1. CASE Refuse(s)
  BY <1>1, RefuseInv
<1>2. CASE /\ Stranded(req[s].document) = {}
           /\ Goto(s, "highest")
           /\ UNCHANGED <<db, guard, req, version, loaded, target>>
  <2>. USE DEF Inv
  <2>0. /\ pc[s] = "strand"
        /\ pc' = [pc EXCEPT ![s] = "highest"]
        /\ Stranded(req[s].document) = {}
        /\ UNCHANGED <<tasks, workflows, outbox, guard, req, version, loaded, target>>
    BY <1>2 DEF CheckStranded, Goto, db
  <2>1. TypeOK'
    BY <2>0 DEF TypeOK
  <2>2. Flow'
    <3>1. Reaches(s)' /\ (pc'[s] # "idle" => req'[s] \in Requests)
      BY <2>0 DEF Flow, Reaches, TypeOK, WritesStatus, WritesDefinition
    <3>2. \A o \in Session \ {s} : pc'[o] = pc[o] /\ req'[o] = req[o]
      BY <2>0 DEF TypeOK
    <3>. QED  BY <3>1, <3>2, FlowFrame
  <2>3. Guarded'
    BY <2>0 DEF Guarded, TypeOK, WritesStatus
  <2>4. Seeded'
    BY <2>0 DEF Seeded, TypeOK
  <2>5. Fresh'
    BY <2>0 DEF Fresh, TypeOK, WritesStatus
  <2>6. Checked'
    BY <2>0 DEF Checked, TypeOK, WritesStatus, Active
  <2>7. Cleared'
    BY <2>0 DEF Cleared, Flow, Reaches, TypeOK, Stranded, Live
  <2>8. NoStranded'
    BY <2>0 DEF NoStranded, Live, Active
  <2>9. MoveStillLegal'
    BY <2>0 DEF MoveStillLegal, TypeOK, WritesStatus, Active
  <2>. QED  BY <2>1, <2>2, <2>3, <2>4, <2>5, <2>6, <2>7, <2>8, <2>9
<1>. QED  BY <1>1, <1>2 DEF CheckStranded

\* The seed goes on only when there is no definition.
LEMMA CheckSeededInv ==
    ASSUME Inv, NEW s \in Session, CheckSeeded(s)
    PROVE  Inv'
<1>1. CASE Refuse(s)
  BY <1>1, RefuseInv
<1>2. CASE /\ workflows = << >>
           /\ Goto(s, "highest")
           /\ UNCHANGED <<db, guard, req, version, loaded, target>>
  <2>. USE DEF Inv
  <2>0. /\ pc[s] = "existing"
        /\ pc' = [pc EXCEPT ![s] = "highest"]
        /\ workflows = << >>
        /\ UNCHANGED <<tasks, workflows, outbox, guard, req, version, loaded, target>>
    BY <1>2 DEF CheckSeeded, Goto, db
  <2>1. TypeOK'
    BY <2>0 DEF TypeOK
  <2>2. Flow'
    <3>1. Reaches(s)' /\ (pc'[s] # "idle" => req'[s] \in Requests)
      BY <2>0 DEF Flow, Reaches, TypeOK, WritesStatus, WritesDefinition
    <3>2. \A o \in Session \ {s} : pc'[o] = pc[o] /\ req'[o] = req[o]
      BY <2>0 DEF TypeOK
    <3>. QED  BY <3>1, <3>2, FlowFrame
  <2>3. Guarded'
    BY <2>0 DEF Guarded, TypeOK, WritesStatus
  <2>4. Seeded'
    BY <2>0 DEF Seeded, TypeOK
  <2>5. Fresh'
    BY <2>0 DEF Fresh, TypeOK, WritesStatus
  <2>6. Checked'
    BY <2>0 DEF Checked, TypeOK, WritesStatus, Active
  <2>7. Cleared'
    BY <2>0 DEF Cleared, Flow, Reaches, TypeOK, Stranded, Live
  <2>8. NoStranded'
    BY <2>0 DEF NoStranded, Live, Active
  <2>9. MoveStillLegal'
    BY <2>0 DEF MoveStillLegal, TypeOK, WritesStatus, Active
  <2>. QED  BY <2>1, <2>2, <2>3, <2>4, <2>5, <2>6, <2>7, <2>8, <2>9
<1>. QED  BY <1>1, <1>2 DEF CheckSeeded

LEMMA ReadHighestInv ==
    ASSUME Inv, NEW s \in Session, ReadHighest(s)
    PROVE  Inv'
<1>. USE DEF Inv, ReadHighest, Goto, db
<1>1. TypeOK'
  BY DEF TypeOK
<1>2. Flow'
  <2>1. Reaches(s)' /\ (pc'[s] # "idle" => req'[s] \in Requests)
    BY DEF Flow, Reaches, TypeOK, WritesStatus, WritesDefinition
  <2>2. \A o \in Session \ {s} : pc'[o] = pc[o] /\ req'[o] = req[o]
    BY DEF TypeOK
  <2>. QED  BY <2>1, <2>2, FlowFrame
<1>3. Guarded'
  BY DEF Guarded, TypeOK, WritesStatus
<1>4. Seeded'
  BY DEF Seeded, TypeOK
<1>5. Fresh'
  BY DEF Fresh, TypeOK, WritesStatus
<1>6. Checked'
  BY DEF Checked, TypeOK, WritesStatus, Active
<1>7. Cleared'
  BY DEF Cleared, TypeOK, Stranded, Live
<1>8. NoStranded'
  BY DEF NoStranded, Live, Active
<1>9. MoveStillLegal'
  BY DEF MoveStillLegal, TypeOK, WritesStatus, Active
<1>. QED  BY <1>1, <1>2, <1>3, <1>4, <1>5, <1>6, <1>7, <1>8, <1>9

\* A new definition is activated while no status write is in its critical
\* section and every task sits in one of its states.
LEMMA StoreDefinitionInv ==
    ASSUME Inv, NEW s \in Session, StoreDefinition(s)
    PROVE  Inv'
<1>1. CASE Refuse(s)
  BY <1>1, RefuseInv
<1>2. ASSUME NEW d \in Document,
             pc[s] = "store", End(s), tasks' = tasks,
             workflows' = Append(workflows, d), outbox' \in Seq(Event),
             \A t \in Task : Live(t) => tasks[t] \in StateNames(Definition[d])
      PROVE  Inv'
  <2>. USE <1>2 DEF Inv, End, Goto
  <2>0. /\ \A o \in Session \ {s} : guard[o] = "none"
        /\ Active' = Definition[d]
        /\ workflows' # << >>
    BY DEF Guarded, Active, TypeOK
  <2>1. TypeOK'
    BY DEF TypeOK, Status
  <2>2. Flow'
    <3>1. Reaches(s)' /\ (pc'[s] # "idle" => req'[s] \in Requests)
      BY DEF Flow, Reaches, TypeOK, WritesStatus, WritesDefinition
    <3>2. \A o \in Session \ {s} : pc'[o] = pc[o] /\ req'[o] = req[o]
      BY DEF TypeOK
    <3>. QED  BY <3>1, <3>2, FlowFrame
  <2>3. Guarded'
    BY DEF Guarded, TypeOK, WritesStatus
  <2>4. Seeded'
    BY <2>0 DEF Seeded
  <2>5. Fresh'
    BY <2>0 DEF Fresh, Guarded, TypeOK, WritesStatus
  <2>6. Checked'
    BY <2>0 DEF Checked, Guarded, TypeOK, WritesStatus
  <2>7. Cleared'
    BY <2>0 DEF Cleared, Guarded, TypeOK
  <2>8. NoStranded'
    BY <2>0 DEF NoStranded, Live
  <2>9. MoveStillLegal'
    BY <2>0 DEF MoveStillLegal, Guarded, TypeOK, WritesStatus
  <2>. QED  BY <2>1, <2>2, <2>3, <2>4, <2>5, <2>6, <2>7, <2>8, <2>9
<1>3. CASE ~Refuse(s) /\ req[s].kind = "put"
  <2>1. /\ pc[s] = "store" /\ End(s) /\ tasks' = tasks
        /\ workflows' = Append(workflows, req[s].document)
        /\ outbox' = Append(outbox, WorkflowUpdated(version[s] + 1))
    BY <1>3 DEF StoreDefinition
  <2>2. req[s].document \in Document
    <3>1. req[s] \in Request
      BY <2>1, RequestAssumption DEF Inv, Flow
    <3>. QED  BY <1>3, <3>1 DEF Request
  <2>3. outbox' \in Seq(Event)
    <3>1. WorkflowUpdated(version[s] + 1) \in Event
      BY DEF WorkflowUpdated, Event, Inv, TypeOK
    <3>. QED  BY <2>1, <3>1 DEF Inv, TypeOK
  <2>4. \A t \in Task : Live(t) => tasks[t] \in StateNames(Definition[req[s].document])
    BY <1>3, <2>1 DEF Inv, Cleared, Stranded
  <2>. QED  BY <1>2, <2>1, <2>2, <2>3, <2>4
<1>4. CASE ~Refuse(s) /\ req[s].kind = "seed"
  <2>1. /\ pc[s] = "store" /\ End(s) /\ tasks' = tasks
        /\ workflows' = Append(workflows, DefaultDocument)
        /\ outbox' = outbox
    BY <1>4 DEF StoreDefinition
  <2>2. \A t \in Task : ~Live(t)
    BY <1>4, <2>1 DEF Inv, Cleared, NoStranded
  <2>. QED  BY <1>2, <2>1, <2>2, DocumentAssumption DEF Inv, TypeOK
<1>. QED  BY <1>1, <1>3, <1>4 DEF StoreDefinition

-----------------------------------------------------------------------------
LEMMA StepInv == Inv /\ [Next]_vars => Inv'
<1>. SUFFICES ASSUME Inv, [Next]_vars PROVE Inv'
  OBVIOUS
<1>1. CASE UNCHANGED vars
  <2>. USE <1>1 DEF vars, Inv
  <2>1. TypeOK'
    BY DEF TypeOK
  <2>2. Flow'
    BY DEF Flow, Reaches, WritesStatus, WritesDefinition
  <2>3. Guarded'
    BY DEF Guarded, WritesStatus
  <2>4. Seeded' /\ Fresh'
    BY DEF Seeded, Fresh
  <2>5. Checked' /\ MoveStillLegal'
    BY DEF Checked, MoveStillLegal, Active, WritesStatus
  <2>6. Cleared' /\ NoStranded'
    BY DEF Cleared, NoStranded, Live, Active, Stranded
  <2>. QED  BY <2>1, <2>2, <2>3, <2>4, <2>5, <2>6
<1>2. ASSUME NEW s \in Session, NEW r \in Requests, Receive(s, r)
      PROVE  Inv'
  BY <1>2, ReceiveInv
<1>3. ASSUME NEW s \in Session, Statement(s)
      PROVE  Inv'
  BY <1>3, AcquireSharedInv, AcquireExclusiveInv, ReadDefinitionInv, ReadTaskInv,
     CheckStatusInv, CommitCreateInv, CommitUpdateInv, CommitDeleteInv, RefuseInv,
     CheckStrandedInv, CheckSeededInv, ReadHighestInv, StoreDefinitionInv
     DEF Statement, AnswerMoves
<1>4. ASSUME NEW s \in Session, Abort(s)
      PROVE  Inv'
  BY <1>4, RefuseInv DEF Abort
<1>. QED  BY <1>1, <1>2, <1>3, <1>4 DEF Next

THEOREM InvHolds == Spec => []Inv
BY InitInv, StepInv, PTL DEF Spec

(***************************************************************************)
(* Every variable keeps its type, whatever the sessions do.                *)
(***************************************************************************)
THEOREM TypeCorrect == Spec => []TypeOK
<1>1. Inv => TypeOK
  BY DEF Inv
<1>. QED  BY <1>1, InvHolds, PTL

(***************************************************************************)
(* No interleaving of task writes, PUTs and seeds strands a task in a      *)
(* state the active definition does not know.                              *)
(***************************************************************************)
THEOREM NothingStranded == Spec => []NoStranded
<1>1. Inv => NoStranded
  BY DEF Inv
<1>. QED  BY <1>1, InvHolds, PTL

(***************************************************************************)
(* What a status write was allowed to do when it was checked, it is still  *)
(* allowed to do, for the status it loaded, when it commits.               *)
(***************************************************************************)
THEOREM ChecksStayValid == Spec => []MoveStillLegal
<1>1. Inv => MoveStillLegal
  BY DEF Inv
<1>. QED  BY <1>1, InvHolds, PTL

(***************************************************************************)
(* PUT and seed always insert a version that is still free.                *)
(***************************************************************************)
THEOREM VersionsAreFree == Spec => []VersionNeverClashes
<1>1. Inv => VersionNeverClashes
  BY DEF Inv, Fresh, VersionNeverClashes
<1>. QED  BY <1>1, InvHolds, PTL

-----------------------------------------------------------------------------
(***************************************************************************)
(* Refinement. The row a session loaded has been inserted, and stays so.   *)
(***************************************************************************)
Born == \A s \in Session :
    pc[s] \in {"check", "commit"} /\ req[s].kind # "create" => tasks[req[s].task] # Unborn

\* A row is never un-inserted: the only statuses written are those of a
\* checked target and of a deletion.
LEMMA StaysBorn ==
    ASSUME Inv, NEW s \in Session, Statement(s), NEW t \in Task, tasks[t] # Unborn
    PROVE  tasks'[t] # Unborn
<1>1. CASE UNCHANGED tasks
  BY <1>1
<1>2. CASE CommitCreate(s)
  BY <1>2, AbsentAssumption DEF CommitCreate, Inv, TypeOK
<1>3. CASE CommitUpdate(s)
  <2>1. target[s] \in StateName
    BY <1>3 DEF CommitUpdate, Inv, Checked
  <2>. QED  BY <1>3, <2>1, AbsentAssumption DEF CommitUpdate, Refuse, db, Inv, TypeOK
<1>4. CASE CommitDelete(s)
  BY <1>4, AbsentAssumption DEF CommitDelete, Inv, TypeOK
<1>. QED
  BY <1>1, <1>2, <1>3, <1>4
     DEF Statement, AcquireShared, AcquireExclusive, ReadDefinition, ReadTask, CheckStatus,
         AnswerMoves, CheckStranded, CheckSeeded, ReadHighest, StoreDefinition, Refuse, db

\* A session past its read works on a task.
LEMMA LoadsTask ==
    ASSUME Inv, NEW s \in Session, pc[s] \in {"check", "commit"}, req[s].kind # "create"
    PROVE  req[s].task \in Task
<1>1. req[s] \in Request /\ req[s].kind \in {"replace", "patch", "delete"}
  BY RequestAssumption DEF Inv, Flow, Reaches, WritesStatus, TypeOK
<1>. QED  BY <1>1 DEF Request

LEMMA BornStep == Inv /\ Born /\ [Next]_vars => Born'
<1>. SUFFICES ASSUME Inv, Born, [Next]_vars, NEW o \in Session,
                     pc'[o] \in {"check", "commit"}, req'[o].kind # "create"
              PROVE  tasks'[req'[o].task] # Unborn
  BY DEF Born
<1>1. CASE UNCHANGED vars
  BY <1>1 DEF vars, Born
<1>2. ASSUME NEW s \in Session, NEW r \in Requests, Receive(s, r)
      PROVE  tasks'[req'[o].task] # Unborn
  BY <1>2 DEF Receive, Goto, db, Born, Inv, TypeOK
<1>3. ASSUME NEW s \in Session, Abort(s)
      PROVE  tasks'[req'[o].task] # Unborn
  BY <1>3 DEF Abort, Refuse, End, Goto, db, Born, Inv, TypeOK
<1>4. ASSUME NEW s \in Session, Statement(s)
      PROVE  tasks'[req'[o].task] # Unborn
  <2>1. CASE Refuse(s)
    BY <2>1 DEF Refuse, End, Goto, db, Born, Inv, TypeOK
  <2>2. CASE CommitCreate(s) \/ CommitUpdate(s) \/ CommitDelete(s) \/ StoreDefinition(s)
    <3>1. Refuse(s) \/ End(s)
      BY <2>2 DEF CommitCreate, CommitUpdate, CommitDelete, StoreDefinition
    <3>2. CASE End(s)
      <4>1. /\ o # s /\ req'[o] = req[o]
            /\ pc[o] \in {"check", "commit"} /\ req[o].kind # "create"
        BY <3>2 DEF End, Goto, Inv, TypeOK
      <4>. QED  BY <1>4, <4>1, StaysBorn, LoadsTask DEF Born
    <3>. QED  BY <2>1, <3>1, <3>2
  <2>3. CASE ReadTask(s) /\ ~Refuse(s)
    <3>1. /\ req' = req /\ tasks' = tasks /\ Live(req[s].task)
          /\ \A x \in Session \ {s} : pc'[x] = pc[x]
      BY <2>3 DEF ReadTask, Goto, db, Inv, TypeOK
    <3>. QED  BY <3>1, AbsentAssumption DEF Live, Born
  <2>4. CASE ReadDefinition(s)
    <3>1. /\ req' = req /\ tasks' = tasks
          /\ pc'[o] = pc[o] \/ (o = s /\ req[s].kind = "create") \/ pc'[o] = "read"
      BY <2>4 DEF ReadDefinition, Goto, db, Inv, TypeOK
    <3>. QED  BY <3>1 DEF Born
  <2>5. CASE CheckStatus(s) /\ ~Refuse(s)
    <3>1. /\ req' = req /\ tasks' = tasks /\ pc[s] = "check"
          /\ \A x \in Session \ {s} : pc'[x] = pc[x]
      BY <2>5 DEF CheckStatus, Goto, db, Inv, TypeOK
    <3>. QED  BY <3>1 DEF Born
  <2>6. CASE \/ AcquireShared(s) \/ AcquireExclusive(s)
             \/ ~Refuse(s) /\ (CheckStranded(s) \/ CheckSeeded(s))
             \/ ReadHighest(s)
    <3>1. /\ req' = req /\ tasks' = tasks
          /\ pc'[s] \notin {"check", "commit"}
          /\ \A x \in Session \ {s} : pc'[x] = pc[x]
      BY <2>6 DEF AcquireShared, AcquireExclusive, CheckStranded, CheckSeeded, ReadHighest,
                  Goto, db, Inv, TypeOK
    <3>. QED  BY <3>1 DEF Born
  <2>. QED  BY <1>4, <2>1, <2>2, <2>3, <2>4, <2>5, <2>6 DEF Statement, AnswerMoves
<1>. QED  BY <1>1, <1>2, <1>3, <1>4 DEF Next

\* The engine's operators, as the abstract specification names them.
LEMMA SameEngine ==
    ASSUME NEW w
    PROVE  /\ Lifecycle!StateNames(w) = StateNames(w)
           /\ Lifecycle!EntryStates(w) = EntryStates(w)
           /\ \A from, to : Lifecycle!Allows(w, from, to) = Allows(w, from, to)
           /\ \A from : Lifecycle!MovesFrom(w, from) = MovesFrom(w, from)
BY DEF Lifecycle!StateNames, StateNames, Lifecycle!EntryStates, EntryStates,
       Lifecycle!EntryPositions, EntryPositions, Lifecycle!Allows, Allows,
       Lifecycle!MovesFrom, MovesFrom

\* The document the abstract specification calls active.
ActiveDocument == IF workflows = << >> THEN NoDocument ELSE workflows[Len(workflows)]

LEMMA SameCurrent ==
    ASSUME TypeOK, workflows # << >>
    PROVE  /\ ActiveDocument \in Document /\ ActiveDocument # NoDocument
           /\ Lifecycle!Current = Active
BY DocumentAssumption DEF TypeOK, ActiveDocument, Lifecycle!Current, Active

LEMMA CommitCreateCreates ==
    ASSUME Inv, NEW s \in Session, CommitCreate(s)
    PROVE  \E t \in Task : Lifecycle!Create(t)
<1>1. PICK t \in Task : tasks[t] = Unborn /\ tasks' = [tasks EXCEPT ![t] = target[s]]
  BY DEF CommitCreate
<1>2. workflows # << >> /\ workflows' = workflows
  BY DEF CommitCreate, Inv, Seeded
<1>3. target[s] \in EntryStates(Active)
  BY DEF CommitCreate, Inv, MoveStillLegal, WritesStatus
<1>4. target[s] \in Lifecycle!EntryStates(Lifecycle!Current)
  BY <1>2, <1>3, SameCurrent, SameEngine DEF Inv
<1>. QED  BY <1>1, <1>2, <1>4, SameCurrent DEF Lifecycle!Create, Inv, ActiveDocument

LEMMA CommitUpdateOverwrites ==
    ASSUME Inv, NEW s \in Session, CommitUpdate(s), tasks' # tasks
    PROVE  \E t \in Task : Lifecycle!Overwrite(t)
<1>. DEFINE t == req[s].task
<1>1. /\ Live(t) /\ workflows' = workflows /\ target[s] # loaded[s]
      /\ tasks' = [tasks EXCEPT ![t] = target[s]]
      /\ pc[s] = "commit" /\ req[s].kind \in {"replace", "patch"}
  BY DEF CommitUpdate, Refuse, db
<1>2. t \in Task
  BY <1>1, LoadsTask
<1>3. workflows # << >>
  BY <1>1 DEF Inv, Seeded
<1>4. WritesStatus(req[s])
  BY <1>1 DEF Inv, Checked
<1>5. Allows(Active, loaded[s], target[s])
  BY <1>1, <1>4 DEF Inv, MoveStillLegal
<1>6. loaded[s] \in StateNames(Active) /\ target[s] \in StateNames(Active)
  BY <1>3, <1>5, ActiveIsWorkflow DEF Inv, Allows, IsWorkflow
<1>7. target[s] \in MovesFrom(Active, loaded[s])
  BY <1>5, <1>6 DEF MovesFrom
<1>8. \E from \in Lifecycle!StateNames(Lifecycle!Current) :
        target[s] \in Lifecycle!MovesFrom(Lifecycle!Current, from)
  BY <1>3, <1>6, <1>7, SameCurrent, SameEngine DEF Inv
<1>. QED  BY <1>1, <1>2, <1>8 DEF Lifecycle!Overwrite, Lifecycle!Exists, Live

LEMMA CommitDeleteRemoves ==
    ASSUME Inv, Born, NEW s \in Session, CommitDelete(s), tasks' # tasks
    PROVE  \E t \in Task : Lifecycle!Remove(t)
<1>. DEFINE t == req[s].task
<1>1. /\ workflows' = workflows /\ tasks' = [tasks EXCEPT ![t] = Deleted]
      /\ pc[s] = "commit" /\ req[s].kind # "create"
  BY DEF CommitDelete
<1>2. t \in Task /\ tasks[t] # Unborn
  BY <1>1, LoadsTask DEF Born
<1>3. tasks[t] # Deleted
  BY <1>1, <1>2 DEF Inv, TypeOK
<1>4. tasks[t] \in StateName
  BY <1>2, <1>3 DEF Inv, TypeOK
<1>. QED  BY <1>1, <1>2, <1>4 DEF Lifecycle!Remove, Lifecycle!Exists

LEMMA StoreDefinitionActivates ==
    ASSUME Inv, NEW s \in Session, StoreDefinition(s), workflows' # workflows
    PROVE  \E d \in Document : Lifecycle!Activate(d)
<1>1. pc[s] = "store" /\ tasks' = tasks
  BY DEF StoreDefinition, Refuse, db
<1>2. PICK d \in Document :
        /\ workflows' = Append(workflows, d)
        /\ \A t \in Task : Live(t) => tasks[t] \in StateNames(Definition[d])
  <2>1. CASE req[s].kind = "put"
    <3>1. req[s] \in Request
      BY <1>1, RequestAssumption DEF Inv, Flow
    <3>2. req[s].document \in Document
      BY <2>1, <3>1 DEF Request
    <3>. QED  BY <1>1, <2>1, <3>2 DEF StoreDefinition, Refuse, db, Inv, Cleared, Stranded
  <2>2. CASE req[s].kind = "seed"
    <3>1. \A t \in Task : ~Live(t)
      BY <1>1, <2>2 DEF Inv, Cleared, NoStranded
    <3>. QED  BY <2>2, <3>1, DocumentAssumption DEF StoreDefinition, Refuse, db
  <2>. QED  BY <1>1, <2>1, <2>2 DEF Inv, Flow, Reaches, WritesDefinition
<1>3. ActiveDocument' = d
  <2>1. /\ Len(Append(workflows, d)) = Len(workflows) + 1
        /\ Append(workflows, d)[Len(workflows) + 1] = d
        /\ Append(workflows, d) # << >>
    <3>1. workflows \in Seq(Document)
      BY DEF Inv, TypeOK
    <3>. QED  BY <1>2, <3>1, AppendProperties
  <2>. QED  BY <1>2, <2>1 DEF ActiveDocument
<1>. QED  BY <1>1, <1>2, <1>3, SameEngine DEF Lifecycle!Activate, Lifecycle!Exists, Live, ActiveDocument

LEMMA StepLifecycle ==
    Inv /\ Born /\ [Next]_vars => [Lifecycle!LooseNext]_<<tasks, ActiveDocument>>
<1>. SUFFICES ASSUME Inv, Born, [Next]_vars, ~UNCHANGED <<tasks, ActiveDocument>>
              PROVE  Lifecycle!LooseNext
  OBVIOUS
<1>1. ~UNCHANGED <<tasks, workflows>>
  BY DEF ActiveDocument
<1>2. PICK s \in Session : Statement(s)
  BY <1>1 DEF Next, vars, Receive, Abort, Refuse, db
<1>3. \/ CommitCreate(s)
      \/ CommitUpdate(s) /\ tasks' # tasks
      \/ CommitDelete(s) /\ tasks' # tasks
      \/ StoreDefinition(s) /\ workflows' # workflows
  BY <1>1, <1>2
     DEF Statement, AcquireShared, AcquireExclusive, ReadDefinition, ReadTask, CheckStatus,
         CommitUpdate, CommitDelete, AnswerMoves, CheckStranded, CheckSeeded, ReadHighest,
         StoreDefinition, Refuse, db
<1>. QED  BY <1>3, CommitCreateCreates, CommitUpdateOverwrites, CommitDeleteRemoves,
             StoreDefinitionActivates DEF Lifecycle!LooseNext, Lifecycle!Common

LEMMA BornHolds == Spec => []Born
<1>1. Init => Born
  BY DEF Init, Born
<1>. QED  BY <1>1, BornStep, InvHolds, PTL DEF Spec

(***************************************************************************)
(* Concurrent requests implement the loose lifecycle: whatever they        *)
(* overwrite, every change of a row or of the definition is a step the     *)
(* services promise.                                                       *)
(***************************************************************************)
THEOREM ImplementsLifecycle == Spec => LooseLifecycle
<1>1. Init => Lifecycle!Init
  BY DEF Init, Lifecycle!Init
<1>. QED  BY <1>1, StepLifecycle, InvHolds, BornHolds, PTL
             DEF Spec, LooseLifecycle, Lifecycle!LooseSpec, ActiveDocument

-----------------------------------------------------------------------------
\* How far a limited state can be overshot

(***************************************************************************)
(* A session enters a state when its commit will put a row there that was  *)
(* not there when it looked.  Whatever the sessions that have passed the   *)
(* check add, the state keeps within its limit plus the other sessions:    *)
(* the count was below the limit when the last of them looked, and a       *)
(* commit takes one from those to come for each item it adds.              *)
(***************************************************************************)
Enters(s, name) ==
    /\ pc[s] = "commit" /\ target[s] = name
    /\ req[s].kind = "create" \/ loaded[s] # name

Entering(name) == {s \in Session : Enters(s, name)}
Limit(name)    == StateOf(Active, name).wip_limit

RoomIn(name) ==
    Entering(name) # {} /\ Limit(name) # NoLimit =>
        Occupancy[name] + Cardinality(Entering(name)) <= Limit(name) + Cardinality(Session) - 1

Room == \A name \in StateName : RoomIn(name)

\* No row is loaded before it is read, and a create reads none.
Unread ==
    \A s \in Session :
        pc[s] \in {"idle", "acquire", "definition"} \/ req[s].kind = "create" =>
            loaded[s] = Omitted

-----------------------------------------------------------------------------
\* Counting.

LEMMA EnteringCounted ==
    ASSUME NEW name
    PROVE  /\ IsFiniteSet(Entering(name)) /\ Cardinality(Entering(name)) \in Nat
           /\ Cardinality(Session) \in Nat
           /\ Cardinality(Entering(name)) <= Cardinality(Session)
<1>1. Entering(name) \subseteq Session
  BY DEF Entering
<1>. QED  BY <1>1, FiniteAssumption, FS_Subset, FS_CardinalityType

LEMMA OccupancyCounted ==
    ASSUME NEW name \in StateName
    PROVE  /\ Occupancy[name] \in Nat
           /\ Occupancy[name] = Cardinality({t \in Task : tasks[t] = name})
           /\ IsFiniteSet({t \in Task : tasks[t] = name})
<1>1. IsFiniteSet({t \in Task : tasks[t] = name})
  BY FiniteAssumption, FS_Subset
<1>. QED  BY <1>1, FS_CardinalityType DEF Occupancy

\* A write to one row adds at most that row, and only to the state it names.
LEMMA OccupancyMoves ==
    ASSUME TypeOK, NEW t \in Task, NEW x, tasks' = [tasks EXCEPT ![t] = x], NEW name \in StateName
    PROVE  /\ Occupancy'[name] \in Nat
           /\ Occupancy'[name] <= Occupancy[name] + 1
           /\ name # x => Occupancy'[name] <= Occupancy[name]
<1>. DEFINE Before == {u \in Task : tasks[u] = name}
            After  == {u \in Task : tasks'[u] = name}
<1>1. After \subseteq Before \cup {t} /\ (name # x => After \subseteq Before)
  BY DEF TypeOK
<1>2. IsFiniteSet(Before) /\ IsFiniteSet(After)
  BY FiniteAssumption, FS_Subset
<1>3. Occupancy[name] = Cardinality(Before) /\ Occupancy'[name] = Cardinality(After)
  BY DEF Occupancy
<1>. HIDE DEF Before, After
<1>4. /\ IsFiniteSet(Before \cup {t}) /\ Cardinality(Before \cup {t}) \in Nat
      /\ Cardinality(Before \cup {t}) <= Cardinality(Before) + 1
      /\ Cardinality(Before) \in Nat /\ Cardinality(After) \in Nat
  <2>1. Cardinality(Before) \in Nat /\ Cardinality(After) \in Nat
    BY <1>2, FS_CardinalityType
  <2>2. /\ IsFiniteSet(Before \cup {t})
        /\ \/ Cardinality(Before \cup {t}) = Cardinality(Before)
           \/ Cardinality(Before \cup {t}) = Cardinality(Before) + 1
    BY <1>2, FS_AddElement
  <2>. QED  BY <2>1, <2>2
<1>5. Cardinality(After) <= Cardinality(Before \cup {t})
  BY <1>1, <1>4, FS_Subset
<1>6. name # x => Cardinality(After) <= Cardinality(Before)
  BY <1>1, <1>2, FS_Subset
<1>. QED  BY <1>3, <1>4, <1>5, <1>6

\* A limit of the active definition is a number.
LEMMA LimitTyped ==
    ASSUME TypeOK, workflows # << >>, NEW name \in StateNames(Active)
    PROVE  Limit(name) \in Nat \cup {NoLimit}
<1>1. IsWorkflow(Active)
  BY ActiveIsWorkflow
<1>2. \E i \in DOMAIN Active.states : Active.states[i].name = name
  BY DEF StateNames
<1>3. StateOf(Active, name) \in State
  BY <1>1, <1>2 DEF StateOf, IsWorkflow
<1>. QED  BY <1>3 DEF Limit, State

\* Who enters a state holds the guard, and the state is one of the active
\* definition's.
LEMMA EntersGuarded ==
    ASSUME Inv, NEW s \in Session, NEW name, Enters(s, name)
    PROVE  /\ WritesStatus(req[s]) /\ guard[s] = "shared" /\ workflows # << >>
           /\ name \in StateNames(Active) /\ Limit(name) \in Nat \cup {NoLimit}
<1>1. pc[s] = "commit" /\ target[s] = name
  BY DEF Enters
<1>2. WritesStatus(req[s])
  BY <1>1 DEF Enters, Inv, Checked, WritesStatus
<1>3. guard[s] = "shared" /\ workflows # << >> /\ name \in StateNames(Active)
  BY <1>1, <1>2 DEF Inv, Guarded, Seeded, Checked, WritesStatus
<1>. QED  BY <1>2, <1>3, LimitTyped DEF Inv

-----------------------------------------------------------------------------
\* Steps that let nobody in.

LEMMA RoomFrame ==
    ASSUME Inv, NEW name \in StateName, RoomIn(name), workflows' = workflows,
           Entering(name)' \subseteq Entering(name),
           Occupancy'[name] \in Nat, Occupancy'[name] <= Occupancy[name]
    PROVE  RoomIn(name)'
<1>. SUFFICES ASSUME Entering(name)' # {}, Limit(name)' # NoLimit
              PROVE  (Occupancy[name] + Cardinality(Entering(name))
                         <= Limit(name) + Cardinality(Session) - 1)'
  BY DEF RoomIn
<1>1. Limit(name)' = Limit(name)
  BY DEF Limit, Active
<1>2. PICK s \in Session : Enters(s, name)
  BY DEF Entering
<1>3. Limit(name) \in Nat
  BY <1>1, <1>2, EntersGuarded
<1>4. Occupancy[name] + Cardinality(Entering(name)) <= Limit(name) + Cardinality(Session) - 1
  BY <1>1 DEF RoomIn
<1>5. /\ Cardinality(Entering(name)') \in Nat
      /\ Cardinality(Entering(name)') <= Cardinality(Entering(name))
  <2>1. IsFiniteSet(Entering(name)) /\ Entering(name)' \subseteq Entering(name)
    BY EnteringCounted
  <2>. QED  BY <2>1, FS_Subset, FS_CardinalityType
<1>6. Occupancy[name] \in Nat /\ Cardinality(Entering(name)) \in Nat /\ Cardinality(Session) \in Nat
  BY EnteringCounted, OccupancyCounted
<1>. QED  BY <1>1, <1>3, <1>4, <1>5, <1>6

Stays(o) == pc'[o] = pc[o] /\ req'[o] = req[o] /\ loaded'[o] = loaded[o] /\ target'[o] = target[o]

\* A step of s that touches no row and does not bring s to enter.
LEMMA RoomQuiet ==
    ASSUME Inv, Room, NEW s \in Session, UNCHANGED <<tasks, workflows>>,
           \A o \in Session \ {s} : Stays(o), \A name \in StateName : ~Enters(s, name)'
    PROVE  Room'
<1>. SUFFICES ASSUME NEW name \in StateName
              PROVE  RoomIn(name)'
  BY DEF Room
<1>1. Entering(name)' \subseteq Entering(name)
  BY DEF Entering, Enters, Stays
<1>2. Occupancy'[name] = Occupancy[name] /\ Occupancy[name] \in Nat
  BY OccupancyCounted DEF Occupancy
<1>3. Occupancy'[name] \in Nat /\ Occupancy'[name] <= Occupancy[name]
  BY <1>2
<1>4. RoomIn(name) /\ workflows' = workflows
  BY DEF Room
<1>. QED  BY <1>1, <1>3, <1>4, RoomFrame

\* A session that ends enters nothing more.
LEMMA EndLeaves ==
    ASSUME Inv, NEW s \in Session, End(s)
    PROVE  /\ pc'[s] = "idle" /\ loaded'[s] = Omitted
           /\ \A o \in Session \ {s} : Stays(o)
           /\ \A name : Entering(name)' = Entering(name) \ {s}
<1>1. pc'[s] = "idle" /\ loaded'[s] = Omitted /\ \A o \in Session \ {s} : Stays(o)
  BY DEF End, Goto, Inv, TypeOK, Stays
<1>. QED  BY <1>1 DEF Entering, Enters, Stays

LEMMA RefuseRoom ==
    ASSUME Inv, Room, NEW s \in Session, Refuse(s)
    PROVE  Room'
<1>1. UNCHANGED <<tasks, workflows>> /\ End(s)
  BY DEF Refuse, db
<1>2. \A name \in StateName : ~Enters(s, name)'
  BY <1>1, EndLeaves DEF Enters
<1>. QED  BY <1>1, <1>2, EndLeaves, RoomQuiet

-----------------------------------------------------------------------------
\* The check, and the commits.

\* A create or a move the engine lets through found the state below its limit.
LEMMA BelowLimit ==
    ASSUME Inv, Unread, NEW s \in Session, pc[s] = "check", Verdict(s) = "ok",
           req[s].kind = "create" \/ loaded[s] # Wanted(s), Limit(Wanted(s)) # NoLimit
    PROVE  /\ Wanted(s) \in StateNames(Active)
           /\ Occupancy[Wanted(s)] < Limit(Wanted(s))
<1>1. /\ Loaded(s) = Active /\ workflows # << >>
      /\ WritesStatus(req[s])
  BY DEF Inv, Flow, Reaches, Fresh, Seeded, Loaded, Active, WritesStatus
<1>2. Wanted(s) = TargetOf(Active, req[s].status)
  BY <1>1 DEF Wanted
<1>. DEFINE occupancy == IF NeedsOccupancy(Active, loaded[s], req[s].status)
                         THEN Occupancy ELSE NoOccupancy
<1>3. \/ CheckEntry(Active, req[s].status, occupancy) = "ok" /\ req[s].kind = "create"
      \/ CheckMove(Active, loaded[s], Wanted(s), req[s].roles, occupancy) = "ok"
           /\ req[s].kind # "create"
  BY <1>1 DEF Verdict
<1>. HIDE DEF occupancy
<1>4. /\ Wanted(s) \in StateNames(Active)
      /\ ~Full(Active, Wanted(s), occupancy)
  BY <1>2, <1>3 DEF CheckEntry, CheckMove
<1>5. Wanted(s) \in StateName
  BY <1>1, <1>4, NamesTyped, ActiveIsWorkflow DEF Inv
<1>6. loaded[s] # Wanted(s)
  BY <1>5, OmittedAssumption DEF Unread
<1>7. occupancy = Occupancy
  BY <1>2, <1>4, <1>6 DEF occupancy, NeedsOccupancy, Limit
<1>8. ~(Occupancy[Wanted(s)] >= Limit(Wanted(s)))
  BY <1>4, <1>7 DEF Full, Limit
<1>9. Limit(Wanted(s)) \in Nat /\ Occupancy[Wanted(s)] \in Nat
  BY <1>1, <1>4, <1>5, LimitTyped, OccupancyCounted DEF Inv
<1>. QED  BY <1>4, <1>8, <1>9

LEMMA CheckRoom ==
    ASSUME Inv, Room, Unread, NEW s \in Session, CheckStatus(s)
    PROVE  Room'
<1>1. CASE Refuse(s)
  BY <1>1, RefuseRoom
<1>2. CASE ~Refuse(s)
  <2>1. /\ pc[s] = "check" /\ Verdict(s) = "ok"
        /\ pc' = [pc EXCEPT ![s] = "commit"] /\ target' = [target EXCEPT ![s] = Wanted(s)]
        /\ UNCHANGED <<tasks, workflows, req, loaded>>
    BY <1>2 DEF CheckStatus, Goto, db
  <2>2. (\A o \in Session \ {s} : Stays(o)) /\ target'[s] = Wanted(s) /\ req'[s] = req[s]
        /\ loaded'[s] = loaded[s]
    BY <2>1 DEF Inv, TypeOK, Stays
  <2>. SUFFICES ASSUME NEW name \in StateName
                PROVE  RoomIn(name)'
    BY DEF Room
  <2>3. Occupancy'[name] = Occupancy[name] /\ Occupancy[name] \in Nat
    BY <2>1, OccupancyCounted DEF Occupancy
  <2>4. CASE Enters(s, name)'
    <3>1. name = Wanted(s) /\ (req[s].kind = "create" \/ loaded[s] # Wanted(s))
      BY <2>2, <2>4 DEF Enters
    <3>2. Limit(name)' = Limit(name)
      BY <2>1 DEF Limit, Active
    <3>. SUFFICES ASSUME Limit(name) # NoLimit
                  PROVE  (Occupancy[name] + Cardinality(Entering(name))
                             <= Limit(name) + Cardinality(Session) - 1)'
      BY <3>2 DEF RoomIn
    <3>3. name \in StateNames(Active) /\ Occupancy[name] < Limit(name)
      BY <2>1, <3>1, BelowLimit
    <3>4. Limit(name) \in Nat
      BY <2>1, <3>3, LimitTyped DEF Inv, Seeded, Flow, Reaches, WritesStatus
    <3>5. Cardinality(Entering(name)') \in Nat /\ Cardinality(Session) \in Nat
          /\ Cardinality(Entering(name)') <= Cardinality(Session)
      <4>1. Entering(name)' \subseteq Session
        BY DEF Entering
      <4>. QED  BY <4>1, FiniteAssumption, FS_Subset, FS_CardinalityType
    <3>. QED  BY <2>3, <3>2, <3>3, <3>4, <3>5
  <2>5. CASE ~Enters(s, name)'
    <3>1. Entering(name)' \subseteq Entering(name)
      BY <2>2, <2>5 DEF Entering, Enters, Stays
    <3>2. Occupancy'[name] \in Nat /\ Occupancy'[name] <= Occupancy[name]
      BY <2>3
    <3>. QED  BY <2>1, <3>1, <3>2, RoomFrame DEF Room
  <2>. QED  BY <2>4, <2>5
<1>. QED  BY <1>1, <1>2

\* A commit that writes one row takes its session from those to enter.
LEMMA CommitRoom ==
    ASSUME Inv, Room, NEW s \in Session, End(s), NEW t \in Task, NEW x,
           tasks' = [tasks EXCEPT ![t] = x], workflows' = workflows,
           x \in StateName => Enters(s, x)
    PROVE  Room'
<1>. SUFFICES ASSUME NEW name \in StateName
              PROVE  RoomIn(name)'
  BY DEF Room
<1>1. Entering(name)' = Entering(name) \ {s}
  BY EndLeaves
<1>2. /\ Occupancy'[name] \in Nat /\ Occupancy'[name] <= Occupancy[name] + 1
      /\ name # x => Occupancy'[name] <= Occupancy[name]
  BY OccupancyMoves DEF Inv
<1>3. RoomIn(name)
  BY DEF Room
<1>4. CASE name # x
  BY <1>1, <1>2, <1>3, <1>4, RoomFrame
<1>5. CASE name = x
  <2>1. s \in Entering(name) /\ Limit(name)' = Limit(name) /\ Limit(name) \in Nat \cup {NoLimit}
    BY <1>5, EntersGuarded DEF Entering, Limit, Active
  <2>. SUFFICES ASSUME Limit(name) # NoLimit
                PROVE  (Occupancy[name] + Cardinality(Entering(name))
                           <= Limit(name) + Cardinality(Session) - 1)'
    BY <2>1 DEF RoomIn
  <2>2. Cardinality(Entering(name)') = Cardinality(Entering(name)) - 1
    BY <1>1, <2>1, EnteringCounted, FS_RemoveElement
  <2>3. Occupancy[name] + Cardinality(Entering(name)) <= Limit(name) + Cardinality(Session) - 1
    BY <1>3, <2>1 DEF RoomIn
  <2>4. Occupancy[name] \in Nat /\ Cardinality(Entering(name)) \in Nat /\ Cardinality(Session) \in Nat
    BY EnteringCounted, OccupancyCounted
  <2>5. Limit(name) \in Nat
    BY <2>1
  <2>. QED  BY <1>2, <2>1, <2>2, <2>3, <2>4, <2>5
<1>. QED  BY <1>4, <1>5

\* The row a committing session writes, if any, and where it enters.
LEMMA RowWritten ==
    ASSUME Inv, NEW s \in Session, ~Refuse(s),
           CommitCreate(s) \/ CommitUpdate(s) \/ CommitDelete(s)
    PROVE  /\ End(s) /\ workflows' = workflows
           /\ \/ tasks' = tasks
              \/ \E t \in Task : \E x : /\ tasks' = [tasks EXCEPT ![t] = x]
                                        /\ x \in StateName => Enters(s, x)
<1>1. CASE CommitCreate(s)
  <2>1. pc[s] = "commit" /\ req[s].kind = "create" /\ End(s) /\ workflows' = workflows
    BY <1>1 DEF CommitCreate
  <2>2. \E t \in Task : tasks' = [tasks EXCEPT ![t] = target[s]]
    BY <1>1 DEF CommitCreate
  <2>3. Enters(s, target[s])
    BY <2>1 DEF Enters
  <2>. QED  BY <2>1, <2>2, <2>3
<1>2. CASE CommitUpdate(s)
  <2>1. /\ pc[s] = "commit" /\ req[s].kind \in {"replace", "patch"} /\ End(s)
        /\ workflows' = workflows
        /\ tasks' = IF target[s] # loaded[s] THEN [tasks EXCEPT ![req[s].task] = target[s]] ELSE tasks
    BY <1>2 DEF CommitUpdate
  <2>2. req[s].task \in Task
    BY <2>1, LoadsTask
  <2>3. target[s] # loaded[s] => Enters(s, target[s])
    BY <2>1 DEF Enters
  <2>. QED  BY <2>1, <2>2, <2>3
<1>3. CASE CommitDelete(s)
  <2>1. /\ pc[s] = "commit" /\ req[s].kind = "delete" /\ End(s) /\ workflows' = workflows
        /\ tasks' = [tasks EXCEPT ![req[s].task] = Deleted]
    BY <1>3 DEF CommitDelete
  <2>2. req[s].task \in Task /\ Deleted \notin StateName
    BY <2>1, LoadsTask, AbsentAssumption
  <2>. QED  BY <2>1, <2>2
<1>. QED  BY <1>1, <1>2, <1>3

LEMMA WriterRoom ==
    ASSUME Inv, Room, NEW s \in Session,
           CommitCreate(s) \/ CommitUpdate(s) \/ CommitDelete(s)
    PROVE  Room'
<1>1. CASE Refuse(s)
  BY <1>1, RefuseRoom
<1>2. CASE ~Refuse(s)
  <2>1. End(s) /\ workflows' = workflows
    BY <1>2, RowWritten
  <2>2. CASE tasks' = tasks
    <3>1. \A name \in StateName : ~Enters(s, name)'
      BY <2>1, EndLeaves DEF Enters
    <3>. QED  BY <2>1, <2>2, <3>1, EndLeaves, RoomQuiet
  <2>3. CASE \E t \in Task : \E x : /\ tasks' = [tasks EXCEPT ![t] = x]
                                    /\ x \in StateName => Enters(s, x)
    BY <2>1, <2>3, CommitRoom
  <2>. QED  BY <1>2, <2>2, <2>3, RowWritten
<1>. QED  BY <1>1, <1>2

\* While a definition is stored nobody is about to enter a state.
LEMMA StoreRoom ==
    ASSUME Inv, Room, NEW s \in Session, StoreDefinition(s)
    PROVE  Room'
<1>1. CASE Refuse(s)
  BY <1>1, RefuseRoom
<1>2. CASE ~Refuse(s)
  <2>1. End(s) /\ pc[s] = "store" /\ \A o \in Session \ {s} : guard[o] = "none"
    BY <1>2 DEF StoreDefinition, Inv, Guarded
  <2>2. ASSUME NEW name \in StateName, NEW o \in Entering(name)'
        PROVE  FALSE
    <3>1. o \in Session \ {s} /\ Enters(o, name)
      BY <2>1, <2>2, EndLeaves DEF Entering
    <3>. QED  BY <2>1, <3>1, EntersGuarded
  <2>. QED  BY <2>2 DEF Room, RoomIn
<1>. QED  BY <1>1, <1>2

\* The other statements bring nobody to enter: a delete or a patch without a
\* status goes from its read to its commit with the status it loaded.
LEMMA QuietRoom ==
    ASSUME Inv, Room, NEW s \in Session,
           \/ \E r \in Requests : Receive(s, r)
           \/ AcquireShared(s) \/ AcquireExclusive(s) \/ ReadDefinition(s) \/ ReadTask(s)
           \/ AnswerMoves(s) \/ Abort(s)
           \/ CheckStranded(s) \/ CheckSeeded(s) \/ ReadHighest(s)
    PROVE  Room'
<1>1. CASE Refuse(s)
  BY <1>1, RefuseRoom
<1>2. CASE ~Refuse(s)
  <2>1. CASE ReadTask(s)
    <3>1. /\ pc[s] = "read" /\ UNCHANGED <<tasks, workflows, req>>
          /\ loaded' = [loaded EXCEPT ![s] = tasks[req[s].task]]
          /\ target' = [target EXCEPT ![s] = tasks[req[s].task]]
          /\ \A o \in Session \ {s} : pc'[o] = pc[o]
      BY <1>2, <2>1 DEF ReadTask, Goto, db, Inv, TypeOK
    <3>2. req[s].kind # "create" /\ loaded'[s] = target'[s] /\ \A o \in Session \ {s} : Stays(o)
      BY <3>1 DEF Inv, Flow, Reaches, TypeOK, Stays
    <3>3. \A name \in StateName : ~Enters(s, name)'
      BY <3>1, <3>2 DEF Enters
    <3>. QED  BY <3>1, <3>2, <3>3, RoomQuiet
  <2>2. CASE ~ReadTask(s)
    <3>1. /\ UNCHANGED <<tasks, workflows>> /\ pc'[s] # "commit"
          /\ \A o \in Session \ {s} : Stays(o)
      <4>1. ASSUME NEW r \in Requests, Receive(s, r)
            PROVE  /\ UNCHANGED <<tasks, workflows>> /\ pc'[s] # "commit"
                   /\ \A o \in Session \ {s} : Stays(o)
        BY <4>1 DEF Receive, Goto, db, Inv, TypeOK, Stays
      <4>2. AcquireShared(s) \/ AcquireExclusive(s) \/ ReadDefinition(s) =>
              /\ UNCHANGED <<tasks, workflows>> /\ pc'[s] # "commit"
              /\ \A o \in Session \ {s} : Stays(o)
        BY DEF AcquireShared, AcquireExclusive, ReadDefinition, Goto, db, Inv, TypeOK, Stays
      <4>3. CheckStranded(s) \/ CheckSeeded(s) \/ ReadHighest(s) =>
              /\ UNCHANGED <<tasks, workflows>> /\ pc'[s] # "commit"
              /\ \A o \in Session \ {s} : Stays(o)
        BY <1>2 DEF CheckStranded, CheckSeeded, ReadHighest, Goto, db, Inv, TypeOK, Stays
      <4>. QED  BY <1>2, <2>2, <4>1, <4>2, <4>3 DEF AnswerMoves, Abort
    <3>2. \A name \in StateName : ~Enters(s, name)'
      BY <3>1 DEF Enters
    <3>. QED  BY <3>1, <3>2, RoomQuiet
  <2>. QED  BY <2>1, <2>2
<1>. QED  BY <1>1, <1>2

LEMMA RoomStep == Inv /\ Unread /\ Room /\ [Next]_vars => Room'
<1>. SUFFICES ASSUME Inv, Unread, Room, [Next]_vars
              PROVE  Room'
  OBVIOUS
<1>1. CASE UNCHANGED vars
  BY <1>1 DEF vars, Room, RoomIn, Entering, Enters, Limit, Active, Occupancy
<1>. QED  BY <1>1, QuietRoom, CheckRoom, WriterRoom, StoreRoom DEF Next, Statement

LEMMA UnreadStep == Inv /\ Unread /\ [Next]_vars => Unread'
<1>. SUFFICES ASSUME Inv, Unread, [Next]_vars, NEW o \in Session,
                     pc'[o] \in {"idle", "acquire", "definition"} \/ req'[o].kind = "create"
              PROVE  loaded'[o] = Omitted
  BY DEF Unread
<1>1. CASE UNCHANGED vars
  BY <1>1 DEF vars, Unread
<1>2. ASSUME NEW s \in Session, NEW r \in Requests, Receive(s, r)
      PROVE  loaded'[o] = Omitted
  BY <1>2 DEF Receive, Goto, Unread, Inv, TypeOK
<1>3. ASSUME NEW s \in Session, End(s)
      PROVE  loaded'[o] = Omitted
  BY <1>3, EndLeaves DEF Stays, Unread
<1>4. ASSUME NEW s \in Session, ReadTask(s), ~Refuse(s)
      PROVE  loaded'[o] = Omitted
  <2>1. /\ pc[s] = "read" /\ req' = req /\ pc'[s] \in {"check", "answer", "commit"}
        /\ \A u \in Session \ {s} : pc'[u] = pc[u] /\ loaded'[u] = loaded[u]
    BY <1>4 DEF ReadTask, Goto, Inv, TypeOK
  <2>2. req[s].kind # "create"
    BY <2>1 DEF Inv, Flow, Reaches
  <2>. QED  BY <2>1, <2>2 DEF Unread
<1>5. ASSUME NEW s \in Session, Statement(s), ~ReadTask(s), ~End(s)
      PROVE  loaded'[o] = Omitted
  <2>1. ~Refuse(s)
    BY <1>5 DEF Refuse
  <2>2. /\ loaded' = loaded /\ req' = req
        /\ \/ pc[s] \in {"acquire", "definition"} \/ pc'[s] \notin {"idle", "acquire", "definition"}
        /\ \A u \in Session \ {s} : pc'[u] = pc[u]
    BY <1>5, <2>1 DEF Statement, AcquireShared, AcquireExclusive, ReadDefinition, CheckStatus,
       CommitCreate, CommitUpdate, CommitDelete, AnswerMoves, CheckStranded, CheckSeeded,
       ReadHighest, StoreDefinition, Goto, Inv, TypeOK
  <2>. QED  BY <2>2 DEF Unread
<1>. QED  BY <1>1, <1>2, <1>3, <1>4, <1>5 DEF Next, Abort, Refuse

LEMMA RoomHolds == Spec => [](Room /\ Unread)
<1>1. Init => Room /\ Unread
  BY DEF Init, Room, RoomIn, Entering, Enters, Unread
<1>. QED  BY <1>1, RoomStep, UnreadStep, InvHolds, PTL DEF Spec

(***************************************************************************)
(* An entry into a limited state never leaves it holding more than its     *)
(* limit plus one item for each other session, however many tasks there    *)
(* are and however their checks and commits interleave.                    *)
(***************************************************************************)
THEOREM OvershootIsBounded == Spec => OvershootBounded
<1>1. ASSUME Inv, Room, [Next]_vars, NEW name \in StateName, Occupancy'[name] > Occupancy[name],
             Limit(name) # NoLimit
      PROVE  Occupancy'[name] <= Limit(name) + Cardinality(Session) - 1
  <2>1. tasks' # tasks
    BY <1>1, OccupancyCounted DEF Occupancy
  <2>2. PICK s \in Session : ~Refuse(s) /\ (CommitCreate(s) \/ CommitUpdate(s) \/ CommitDelete(s))
    BY <1>1, <2>1 DEF Next, vars, Receive, Statement, Abort, Refuse, db, AcquireShared,
       AcquireExclusive, ReadDefinition, ReadTask, CheckStatus, AnswerMoves, CheckStranded,
       CheckSeeded, ReadHighest, StoreDefinition
  <2>. DEFINE Writes(t, x) == tasks' = [tasks EXCEPT ![t] = x] /\ (x \in StateName => Enters(s, x))
  <2>3. tasks' = tasks \/ \E t \in Task : \E x : Writes(t, x)
    BY <1>1, <2>2, RowWritten
  <2>. HIDE DEF Writes
  <2>4. PICK t \in Task : \E x : Writes(t, x)
    BY <2>1, <2>3
  <2>5. PICK x : Writes(t, x)
    BY <2>4
  <2>6. tasks' = [tasks EXCEPT ![t] = x] /\ (x \in StateName => Enters(s, x))
    BY <2>5 DEF Writes
  <2>7. /\ Occupancy'[name] \in Nat /\ Occupancy'[name] <= Occupancy[name] + 1
        /\ name # x => Occupancy'[name] <= Occupancy[name]
    BY <1>1, <2>6, OccupancyMoves DEF Inv
  <2>8. Occupancy[name] \in Nat /\ Cardinality(Entering(name)) \in Nat /\ Cardinality(Session) \in Nat
        /\ IsFiniteSet(Entering(name))
    BY EnteringCounted, OccupancyCounted
  <2>9. s \in Entering(name)
    BY <1>1, <2>6, <2>7, <2>8 DEF Entering
  <2>10. Limit(name) \in Nat
    BY <1>1, <2>9, EntersGuarded DEF Entering
  <2>11. Cardinality(Entering(name)) >= 1
    BY <2>8, <2>9, FS_EmptySet
  <2>12. Occupancy[name] + Cardinality(Entering(name)) <= Limit(name) + Cardinality(Session) - 1
    BY <1>1, <2>9 DEF Room, RoomIn
  <2>. QED  BY <2>7, <2>8, <2>10, <2>11, <2>12
<1>2. Inv /\ Room /\ [Next]_vars =>
        \A name \in StateName :
          Occupancy'[name] > Occupancy[name] =>
             LET limit == StateOf(Active, name).wip_limit
             IN  limit # NoLimit =>
                   Occupancy'[name] <= limit + Cardinality(Session) - 1
  BY <1>1 DEF Limit
<1>. QED  BY <1>2, InvHolds, RoomHolds, PTL DEF Spec, OvershootBounded
=============================================================================
