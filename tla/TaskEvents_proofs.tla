-------------------------- MODULE TaskEvents_proofs -------------------------
(***************************************************************************)
(* What the outbox tells of tasks and definitions, proved of TaskWorkflow  *)
(* from its inductive invariant (TaskWorkflow_proofs).                     *)
(***************************************************************************)
EXTENDS TaskWorkflow_proofs

-----------------------------------------------------------------------------
\* Events appended by a commit, and where they stand in the outbox.

Appends(es) == es \in Seq(Event) /\ outbox' = outbox \o es

LEMMA Appended ==
    ASSUME TypeOK, NEW es, Appends(es)
    PROVE  /\ Len(outbox) \in Nat /\ Len(es) \in Nat
           /\ DOMAIN outbox = 1 .. Len(outbox) /\ DOMAIN outbox' = 1 .. Len(outbox) + Len(es)
           /\ \A i \in DOMAIN outbox : outbox'[i] = outbox[i]
           /\ \A i \in DOMAIN outbox' \ DOMAIN outbox :
                 i - Len(outbox) \in 1 .. Len(es) /\ outbox'[i] = es[i - Len(outbox)]
           /\ \A k \in 1 .. Len(es) :
                 /\ Len(outbox) + k \in DOMAIN outbox' \ DOMAIN outbox
                 /\ outbox'[Len(outbox) + k] = es[k]
<1>1. outbox \in Seq(Event) /\ es \in Seq(Event) /\ outbox' = outbox \o es
  BY DEF TypeOK, Appends
<1>2. /\ Len(outbox) \in Nat /\ Len(es) \in Nat
      /\ DOMAIN outbox = 1 .. Len(outbox) /\ DOMAIN outbox' = 1 .. Len(outbox) + Len(es)
      /\ \A i \in 1 .. Len(outbox) + Len(es) :
            outbox'[i] = IF i <= Len(outbox) THEN outbox[i] ELSE es[i - Len(outbox)]
  BY <1>1, ConcatProperties
<1>. QED  BY <1>2

\* A step that tells of a task appends an event that does.
LEMMA ToldAppended ==
    ASSUME TypeOK, NEW es, Appends(es), NEW type, NEW t
    PROVE  ToldIn(type, t) <=> \E k \in 1 .. Len(es) : es[k].type = type /\ es[k].task = t
<1>1. ASSUME ToldIn(type, t)
      PROVE  \E k \in 1 .. Len(es) : es[k].type = type /\ es[k].task = t
  BY <1>1, Appended DEF ToldIn
<1>2. ASSUME NEW k \in 1 .. Len(es), es[k].type = type, es[k].task = t
      PROVE  ToldIn(type, t)
  BY <1>2, Appended DEF ToldIn
<1>. QED  BY <1>1, <1>2

-----------------------------------------------------------------------------
(***************************************************************************)
(* The inductive form of OutboxTellsStatus: the last event that tells of a *)
(* task is there to be found, and says where the row is.                   *)
(***************************************************************************)
Tells(e, t) == e.type \in {"TaskCreated", "TaskStatusChanged", "TaskDeleted"} /\ e.task = t
StatusIn(e) == IF e.type = "TaskDeleted" THEN Deleted ELSE e.status

Standing(t) ==
    \/ TellsStatus(t) = {} /\ tasks[t] = Unborn
    \/ \E i \in TellsStatus(t) :
          (\A j \in TellsStatus(t) : j <= i) /\ tasks[t] = StatusIn(outbox[i])

Telling == (\A t \in Task : Standing(t)) /\ VersionsAnnounced

LEMMA LastIsLast ==
    ASSUME NEW S \in SUBSET Nat, NEW i \in S, \A j \in S : j <= i
    PROVE  LastIn(S) = i
<1>1. \A k \in S : (\A j \in S : j <= k) => k = i
  OBVIOUS
<1>2. LastIn(S) \in S /\ \A j \in S : j <= LastIn(S)
  BY DEF LastIn
<1>. QED  BY <1>1, <1>2

LEMMA StandingTells ==
    ASSUME TypeOK, \A t \in Task : Standing(t)
    PROVE  OutboxTellsStatus
<1>. SUFFICES ASSUME NEW t \in Task
              PROVE  tasks[t] = IF TellsStatus(t) = {} THEN Unborn
                                ELSE StatusIn(outbox[LastIn(TellsStatus(t))])
  BY DEF OutboxTellsStatus, StatusIn
<1>1. TellsStatus(t) \in SUBSET Nat
  BY DEF TellsStatus, TypeOK
<1>2. ASSUME NEW i \in TellsStatus(t), \A j \in TellsStatus(t) : j <= i
      PROVE  LastIn(TellsStatus(t)) = i
  BY <1>1, <1>2, LastIsLast
<1>. QED  BY <1>2 DEF Standing

\* Events that do not tell of a task leave its standing alone.
LEMMA StandingKept ==
    ASSUME TypeOK, NEW es, Appends(es), NEW t \in Task, Standing(t), tasks'[t] = tasks[t],
           \A k \in 1 .. Len(es) : ~Tells(es[k], t)
    PROVE  Standing(t)'
<1>1. TellsStatus(t)' = TellsStatus(t)
  <2>1. ASSUME NEW i \in TellsStatus(t)'
        PROVE  i \in TellsStatus(t)
    <3>1. i \in DOMAIN outbox' /\ Tells(outbox'[i], t)
      BY <2>1 DEF TellsStatus, Tells
    <3>2. i \in DOMAIN outbox
      BY <3>1, Appended
    <3>. QED  BY <3>1, <3>2, Appended DEF TellsStatus, Tells
  <2>2. ASSUME NEW i \in TellsStatus(t)
        PROVE  i \in TellsStatus(t)'
    BY Appended DEF TellsStatus
  <2>. QED  BY <2>1, <2>2
<1>2. \A i \in TellsStatus(t) : outbox'[i] = outbox[i]
  BY Appended DEF TellsStatus
<1>. QED  BY <1>1, <1>2 DEF Standing

\* The last event that tells of a task decides its standing.
LEMMA StandingTold ==
    ASSUME TypeOK, NEW es, Appends(es), NEW t \in Task, NEW k \in 1 .. Len(es),
           Tells(es[k], t), tasks'[t] = StatusIn(es[k]),
           \A j \in 1 .. Len(es) : Tells(es[j], t) => j <= k
    PROVE  Standing(t)'
<1>. DEFINE i == Len(outbox) + k
<1>1. i \in DOMAIN outbox' /\ outbox'[i] = es[k]
  BY Appended
<1>2. i \in TellsStatus(t)'
  BY <1>1 DEF TellsStatus, Tells
<1>3. ASSUME NEW j \in TellsStatus(t)'
      PROVE  j <= i
  <2>1. j \in DOMAIN outbox' /\ Tells(outbox'[j], t)
    BY <1>3 DEF TellsStatus, Tells
  <2>2. CASE j \in DOMAIN outbox
    BY <2>2, Appended
  <2>3. CASE j \notin DOMAIN outbox
    <3>1. j - Len(outbox) \in 1 .. Len(es) /\ outbox'[j] = es[j - Len(outbox)]
      BY <2>1, <2>3, Appended
    <3>2. j - Len(outbox) <= k
      BY <2>1, <3>1
    <3>. QED  BY <2>1, <3>2, Appended
  <2>. QED  BY <2>2, <2>3
<1>4. tasks'[t] = StatusIn(outbox'[i])
  BY <1>1
<1>. HIDE DEF i
<1>. QED  BY <1>2, <1>3, <1>4 DEF Standing, StatusIn

\* Events of tasks announce no definition.
LEMMA AnnouncedKept ==
    ASSUME TypeOK, NEW es, Appends(es), VersionsAnnounced, workflows' = workflows,
           \A k \in 1 .. Len(es) : es[k].type # "WorkflowUpdated"
    PROVE  VersionsAnnounced'
<1>1. Announcements' = Announcements
  <2>1. ASSUME NEW i \in Announcements'
        PROVE  i \in Announcements
    <3>1. i \in DOMAIN outbox' /\ outbox'[i].type = "WorkflowUpdated"
      BY <2>1 DEF Announcements
    <3>2. CASE i \notin DOMAIN outbox
      <4>1. i - Len(outbox) \in 1 .. Len(es) /\ outbox'[i] = es[i - Len(outbox)]
        BY <3>1, <3>2, Appended
      <4>. QED  BY <3>1, <4>1
    <3>. QED  BY <3>1, <3>2, Appended DEF Announcements
  <2>2. ASSUME NEW i \in Announcements
        PROVE  i \in Announcements'
    BY Appended DEF Announcements
  <2>. QED  BY <2>1, <2>2
<1>2. \A i \in Announcements : outbox'[i] = outbox[i]
  BY Appended DEF Announcements
<1>. QED  BY <1>1, <1>2 DEF VersionsAnnounced

-----------------------------------------------------------------------------
\* The steps that write, each with the events it appends.

Created(s, t) ==
    /\ target[s] \in StateName
    /\ tasks' = [tasks EXCEPT ![t] = target[s]] /\ workflows' = workflows
    /\ Appends(<<TaskEvent("TaskCreated", t, target[s])>>)

Touched(s, t) ==
    /\ UNCHANGED <<tasks, workflows>>
    /\ Appends(<<TaskEvent("TaskUpdated", t, target[s])>>)

Moved(s, t) ==
    /\ Live(t) /\ target[s] \in StateName
    /\ tasks' = [tasks EXCEPT ![t] = target[s]] /\ workflows' = workflows
    /\ \E es :
         /\ Appends(es) /\ Len(es) = IF Completes(Active, target[s]) THEN 3 ELSE 2
         /\ es[1] = TaskEvent("TaskUpdated", t, target[s])
         /\ es[2] = StatusChanged(t, loaded[s], target[s])
         /\ Len(es) = 3 => es[3] = TaskEvent("TaskCompleted", t, target[s])

Removed(s, t) ==
    /\ tasks' = [tasks EXCEPT ![t] = Deleted] /\ workflows' = workflows
    /\ Appends(<<TaskEvent("TaskDeleted", t, loaded[s])>>)

Announced(d) ==
    /\ tasks' = tasks /\ workflows # << >> /\ workflows' = Append(workflows, d)
    /\ Appends(<<WorkflowUpdated(Len(workflows) + 1)>>)

Planted ==
    /\ workflows = << >> /\ workflows' = <<DefaultDocument>>
    /\ UNCHANGED <<tasks, outbox>>

LEMMA Creation ==
    ASSUME Inv, NEW s \in Session, CommitCreate(s)
    PROVE  \E t \in Task : Created(s, t)
<1>1. target[s] \in StateName
  BY DEF CommitCreate, Inv, Checked
<1>2. PICK t \in Task : /\ tasks' = [tasks EXCEPT ![t] = target[s]] /\ workflows' = workflows
                        /\ outbox' = Append(outbox, TaskEvent("TaskCreated", t, target[s]))
  BY DEF CommitCreate
<1>3. TaskEvent("TaskCreated", t, target[s]) \in Event
  BY <1>1 DEF TaskEvent, Event
<1>4. outbox' = outbox \o <<TaskEvent("TaskCreated", t, target[s])>>
  BY <1>2, <1>3, AppendIsConcat DEF Inv, TypeOK
<1>5. Appends(<<TaskEvent("TaskCreated", t, target[s])>>)
  BY <1>3, <1>4 DEF Appends
<1>6. Created(s, t)
  BY <1>1, <1>2, <1>5 DEF Created
<1>. QED  BY <1>6

LEMMA Update ==
    ASSUME Inv, NEW s \in Session, CommitUpdate(s), ~Refuse(s)
    PROVE  \E t \in Task : Touched(s, t) \/ Moved(s, t)
<1>. DEFINE t == req[s].task
            a == TaskEvent("TaskUpdated", t, target[s])
            b == StatusChanged(t, loaded[s], target[s])
            c == TaskEvent("TaskCompleted", t, target[s])
<1>1. /\ pc[s] = "commit" /\ req[s].kind \in {"replace", "patch"} /\ Live(t)
      /\ tasks' = IF target[s] # loaded[s] THEN [tasks EXCEPT ![t] = target[s]] ELSE tasks
      /\ workflows' = workflows /\ outbox' = outbox \o UpdateEvents(s)
  BY DEF CommitUpdate
<1>2. t \in Task /\ target[s] \in StateName /\ loaded[s] \in StateName
  BY <1>1, LoadsTask DEF Inv, Checked
<1>3. Appends(UpdateEvents(s))
  BY <1>1, <1>2, UpdateEventsTyped DEF Appends
<1>4. CASE target[s] = loaded[s]
  BY <1>1, <1>2, <1>3, <1>4 DEF Touched, UpdateEvents
<1>5. CASE target[s] # loaded[s]
  <2>1. Loaded(s) = Active
    BY <1>1, <1>5 DEF Inv, Checked, Fresh, Loaded, Active
  <2>2. a \in Event /\ b \in Event /\ c \in Event
    BY <1>2 DEF TaskEvent, StatusChanged, Event
  <2>3. UpdateEvents(s) = <<a, b>> \o (IF Completes(Active, target[s]) THEN <<c>> ELSE << >>)
    BY <1>5, <2>1 DEF UpdateEvents
  <2>. HIDE DEF a, b, c
  <2>4. CASE Completes(Active, target[s])
    <3>1. UpdateEvents(s) = <<a, b>> \o <<c>> /\ <<a, b>> \in Seq(Event) /\ <<c>> \in Seq(Event)
      BY <2>2, <2>3, <2>4
    <3>2. Len(UpdateEvents(s)) = 3 /\ UpdateEvents(s)[1] = a /\ UpdateEvents(s)[2] = b
          /\ UpdateEvents(s)[3] = c
      BY <3>1, ConcatProperties
    <3>3. Moved(s, t)
      BY <1>1, <1>2, <1>3, <1>5, <2>4, <3>2 DEF Moved, a, b, c
    <3>. QED  BY <1>2, <3>3
  <2>5. CASE ~Completes(Active, target[s])
    <3>1. UpdateEvents(s) = <<a, b>> \o << >> /\ <<a, b>> \in Seq(Event) /\ << >> \in Seq(Event)
      BY <2>2, <2>3, <2>5
    <3>2. Len(UpdateEvents(s)) = 2 /\ UpdateEvents(s)[1] = a /\ UpdateEvents(s)[2] = b
      BY <3>1, ConcatProperties
    <3>3. Moved(s, t)
      BY <1>1, <1>2, <1>3, <1>5, <2>5, <3>2 DEF Moved, a, b, c
    <3>. QED  BY <1>2, <3>3
  <2>. QED  BY <2>4, <2>5
<1>. QED  BY <1>4, <1>5

LEMMA Removal ==
    ASSUME Inv, NEW s \in Session, CommitDelete(s)
    PROVE  \E t \in Task : Removed(s, t)
<1>. DEFINE t == req[s].task
<1>1. /\ pc[s] = "commit" /\ req[s].kind = "delete"
      /\ tasks' = [tasks EXCEPT ![t] = Deleted] /\ workflows' = workflows
      /\ outbox' = Append(outbox, TaskEvent("TaskDeleted", t, loaded[s]))
  BY DEF CommitDelete
<1>2. t \in Task /\ loaded[s] \in StateName
  BY <1>1, LoadsTask DEF Inv, Checked
<1>3. TaskEvent("TaskDeleted", t, loaded[s]) \in Event
  BY <1>2 DEF TaskEvent, Event
<1>4. outbox' = outbox \o <<TaskEvent("TaskDeleted", t, loaded[s])>>
  BY <1>1, <1>3, AppendIsConcat DEF Inv, TypeOK
<1>5. Appends(<<TaskEvent("TaskDeleted", t, loaded[s])>>)
  BY <1>3, <1>4 DEF Appends
<1>6. Removed(s, t)
  BY <1>1, <1>5 DEF Removed
<1>. QED  BY <1>2, <1>6

LEMMA Storing ==
    ASSUME Inv, NEW s \in Session, StoreDefinition(s), ~Refuse(s)
    PROVE  Planted \/ \E d \in Document : Announced(d)
<1>1. pc[s] = "store" /\ version[s] = Len(workflows) /\ tasks' = tasks
  BY DEF StoreDefinition
<1>2. CASE req[s].kind = "put"
  <2>1. req[s] \in Request /\ workflows # << >>
    BY <1>1, <1>2, RequestAssumption DEF Inv, Flow, Seeded
  <2>2. req[s].document \in Document
    BY <1>2, <2>1 DEF Request
  <2>3. /\ workflows' = Append(workflows, req[s].document)
        /\ outbox' = Append(outbox, WorkflowUpdated(Len(workflows) + 1))
    BY <1>1, <1>2 DEF StoreDefinition
  <2>4. WorkflowUpdated(Len(workflows) + 1) \in Event
    BY DEF WorkflowUpdated, Event, Inv, TypeOK
  <2>5. outbox' = outbox \o <<WorkflowUpdated(Len(workflows) + 1)>>
    BY <2>3, <2>4, AppendIsConcat DEF Inv, TypeOK
  <2>. QED  BY <1>1, <2>1, <2>2, <2>3, <2>4, <2>5 DEF Announced, Appends
<1>3. CASE req[s].kind = "seed"
  <2>1. workflows = << >> /\ workflows' = Append(workflows, DefaultDocument) /\ outbox' = outbox
    BY <1>1, <1>3 DEF StoreDefinition, Inv, Cleared
  <2>. QED  BY <1>1, <2>1 DEF Planted
<1>. QED  BY <1>2, <1>3 DEF StoreDefinition

\* Every step is one of these, or writes nothing.
LEMMA Writes ==
    ASSUME Inv, [Next]_vars
    PROVE  \/ UNCHANGED db
           \/ \E s \in Session, t \in Task :
                 Created(s, t) \/ Touched(s, t) \/ Moved(s, t) \/ Removed(s, t)
           \/ Planted \/ \E d \in Document : Announced(d)
<1>1. CASE UNCHANGED vars
  BY <1>1 DEF vars, db
<1>2. ASSUME NEW s \in Session, (\E r \in Requests : Receive(s, r)) \/ Refuse(s)
      PROVE  UNCHANGED db
  BY <1>2 DEF Receive, Refuse
<1>3. ASSUME NEW s \in Session, Statement(s), ~Refuse(s)
      PROVE  \/ UNCHANGED db
             \/ CommitCreate(s) \/ CommitUpdate(s) \/ CommitDelete(s) \/ StoreDefinition(s)
  BY <1>3 DEF Statement, AcquireShared, AcquireExclusive, ReadDefinition, ReadTask, CheckStatus,
              AnswerMoves, CheckStranded, CheckSeeded, ReadHighest
<1>. QED  BY <1>1, <1>2, <1>3, Creation, Update, Removal, Storing DEF Next, Abort

-----------------------------------------------------------------------------
\* Each kind of write keeps what the outbox tells.

LEMMA OtherTasks ==
    ASSUME TypeOK, NEW es, Appends(es), NEW t \in Task, \A u \in Task : Standing(u),
           \A u \in Task \ {t} : tasks'[u] = tasks[u],
           \A k \in 1 .. Len(es) : es[k].type # "WorkflowUpdated" => es[k].task = t,
           Standing(t)'
    PROVE  \A u \in Task : Standing(u)'
<1>. SUFFICES ASSUME NEW u \in Task \ {t}
              PROVE  Standing(u)'
  OBVIOUS
<1>1. \A k \in 1 .. Len(es) : ~Tells(es[k], u)
  BY DEF Tells
<1>. QED  BY <1>1, StandingKept

LEMMA CreatedTells ==
    ASSUME TypeOK, Telling, NEW s \in Session, NEW t \in Task, Created(s, t)
    PROVE  Telling'
<1>. DEFINE e  == TaskEvent("TaskCreated", t, target[s])
            es == <<e>>
<1>1. /\ Appends(es) /\ tasks' = [tasks EXCEPT ![t] = target[s]] /\ workflows' = workflows
      /\ e.type = "TaskCreated" /\ e.task = t /\ e.status = target[s]
  BY DEF Created, TaskEvent
<1>. HIDE DEF e
<1>2. Len(es) = 1 /\ es[1] = e
  OBVIOUS
<1>. HIDE DEF es
<1>3. Tells(es[1], t) /\ tasks'[t] = StatusIn(es[1])
  BY <1>1, <1>2 DEF Tells, StatusIn, TypeOK
<1>4. Standing(t)'
  <2>1. 1 \in 1 .. Len(es) /\ \A j \in 1 .. Len(es) : j <= 1
    BY <1>2
  <2>. QED  BY <1>1, <1>3, <2>1, StandingTold
<1>5. \A u \in Task : Standing(u)'
  <2>1. \A u \in Task \ {t} : tasks'[u] = tasks[u]
    BY <1>1 DEF TypeOK
  <2>. QED  BY <1>1, <1>2, <1>4, <2>1, OtherTasks DEF Telling
<1>6. VersionsAnnounced'
  BY <1>1, <1>2, AnnouncedKept DEF Telling
<1>. QED  BY <1>5, <1>6 DEF Telling

LEMMA RemovedTells ==
    ASSUME TypeOK, Telling, NEW s \in Session, NEW t \in Task, Removed(s, t)
    PROVE  Telling'
<1>. DEFINE e  == TaskEvent("TaskDeleted", t, loaded[s])
            es == <<e>>
<1>1. /\ Appends(es) /\ tasks' = [tasks EXCEPT ![t] = Deleted] /\ workflows' = workflows
      /\ e.type = "TaskDeleted" /\ e.task = t
  BY DEF Removed, TaskEvent
<1>. HIDE DEF e
<1>2. Len(es) = 1 /\ es[1] = e
  OBVIOUS
<1>. HIDE DEF es
<1>3. Tells(es[1], t) /\ tasks'[t] = StatusIn(es[1])
  BY <1>1, <1>2 DEF Tells, StatusIn, TypeOK
<1>4. Standing(t)'
  <2>1. 1 \in 1 .. Len(es) /\ \A j \in 1 .. Len(es) : j <= 1
    BY <1>2
  <2>. QED  BY <1>1, <1>3, <2>1, StandingTold
<1>5. \A u \in Task : Standing(u)'
  <2>1. \A u \in Task \ {t} : tasks'[u] = tasks[u]
    BY <1>1 DEF TypeOK
  <2>. QED  BY <1>1, <1>2, <1>4, <2>1, OtherTasks DEF Telling
<1>6. VersionsAnnounced'
  BY <1>1, <1>2, AnnouncedKept DEF Telling
<1>. QED  BY <1>5, <1>6 DEF Telling

LEMMA TouchedTells ==
    ASSUME TypeOK, Telling, NEW s \in Session, NEW t \in Task, Touched(s, t)
    PROVE  Telling'
<1>. DEFINE e  == TaskEvent("TaskUpdated", t, target[s])
            es == <<e>>
<1>1. /\ Appends(es) /\ tasks' = tasks /\ workflows' = workflows
      /\ e.type = "TaskUpdated" /\ e.task = t
  BY DEF Touched, TaskEvent
<1>. HIDE DEF e
<1>2. Len(es) = 1 /\ es[1] = e
  OBVIOUS
<1>. HIDE DEF es
<1>3. \A u \in Task, k \in 1 .. Len(es) : ~Tells(es[k], u)
  BY <1>1, <1>2 DEF Tells
<1>4. \A u \in Task : Standing(u)'
  BY <1>1, <1>3, StandingKept DEF Telling
<1>5. VersionsAnnounced'
  BY <1>1, <1>2, AnnouncedKept DEF Telling
<1>. QED  BY <1>4, <1>5 DEF Telling

LEMMA TwoOrThree ==
    ASSUME NEW n \in {2, 3}, NEW k \in 1 .. n
    PROVE  k = 1 \/ k = 2 \/ (k = 3 /\ n = 3)
<1>1. n \in Int /\ k \in Int /\ 1 <= k /\ k <= n /\ n <= 3
  OBVIOUS
<1>. QED  BY <1>1

\* What the events of a move say, by position.
LEMMA MoveEvents ==
    ASSUME NEW s \in Session, NEW t \in Task, Moved(s, t)
    PROVE  \E es :
             /\ Appends(es) /\ Len(es) \in {2, 3}
             /\ es[1].type = "TaskUpdated" /\ es[1].task = t
             /\ es[2].type = "TaskStatusChanged" /\ es[2].task = t /\ es[2].status = target[s]
             /\ Len(es) = 3 <=> Completes(Active, target[s])
             /\ Len(es) = 3 => es[3].type = "TaskCompleted" /\ es[3].task = t
  BY DEF Moved, TaskEvent, StatusChanged

LEMMA MovedTells ==
    ASSUME TypeOK, Telling, NEW s \in Session, NEW t \in Task, Moved(s, t)
    PROVE  Telling'
<1>1. PICK es :
        /\ Appends(es) /\ Len(es) \in {2, 3}
        /\ es[1].type = "TaskUpdated" /\ es[1].task = t
        /\ es[2].type = "TaskStatusChanged" /\ es[2].task = t /\ es[2].status = target[s]
        /\ Len(es) = 3 <=> Completes(Active, target[s])
        /\ Len(es) = 3 => es[3].type = "TaskCompleted" /\ es[3].task = t
  BY MoveEvents
<1>2. tasks' = [tasks EXCEPT ![t] = target[s]] /\ workflows' = workflows
  BY DEF Moved
<1>3. \A k \in 1 .. Len(es) : k = 1 \/ k = 2 \/ (k = 3 /\ Len(es) = 3)
  <2>1. Len(es) \in {2, 3}
    BY <1>1
  <2>. QED  BY <2>1, TwoOrThree
<1>4. Tells(es[2], t) /\ tasks'[t] = StatusIn(es[2])
  BY <1>1, <1>2 DEF Tells, StatusIn, TypeOK
<1>5. \A k \in 1 .. Len(es) : Tells(es[k], t) => k <= 2
  BY <1>1, <1>3 DEF Tells
<1>6. Standing(t)'
  BY <1>1, <1>4, <1>5, StandingTold
<1>7. \A u \in Task : Standing(u)'
  <2>1. \A u \in Task \ {t} : tasks'[u] = tasks[u]
    BY <1>2 DEF TypeOK
  <2>2. \A k \in 1 .. Len(es) : es[k].task = t
    BY <1>1, <1>3
  <2>. QED  BY <1>1, <1>6, <2>1, <2>2, OtherTasks DEF Telling
<1>8. VersionsAnnounced'
  <2>1. \A k \in 1 .. Len(es) : es[k].type # "WorkflowUpdated"
    BY <1>1, <1>3
  <2>. QED  BY <1>1, <1>2, <2>1, AnnouncedKept DEF Telling
<1>. QED  BY <1>7, <1>8 DEF Telling

\* A definition is announced under the next version.
LEMMA AnnouncedTells ==
    ASSUME TypeOK, Telling, NEW d \in Document, Announced(d)
    PROVE  Telling'
<1>. DEFINE v  == Len(workflows) + 1
            e  == WorkflowUpdated(v)
            es == <<e>>
            n  == Len(outbox) + 1
<1>1. /\ Appends(es) /\ tasks' = tasks /\ workflows # << >>
      /\ e.type = "WorkflowUpdated" /\ e.version = v
  BY DEF Announced, WorkflowUpdated
<1>2. Len(workflows') = v /\ Len(workflows) \in Nat /\ Len(workflows) >= 1
  BY <1>1, AppendProperties DEF Announced, TypeOK
<1>. HIDE DEF e
<1>3. Len(es) = 1 /\ es[1] = e
  OBVIOUS
<1>. HIDE DEF es
<1>4. \A u \in Task, k \in 1 .. Len(es) : ~Tells(es[k], u)
  BY <1>1, <1>3 DEF Tells
<1>5. \A u \in Task : Standing(u)'
  BY <1>1, <1>4, StandingKept DEF Telling
<1>6. /\ Len(outbox) \in Nat /\ DOMAIN outbox = 1 .. Len(outbox)
      /\ DOMAIN outbox' = 1 .. n /\ outbox'[n] = e
      /\ \A i \in 1 .. Len(outbox) : outbox'[i] = outbox[i]
  <2>1. 1 \in 1 .. Len(es)
    BY <1>3
  <2>2. /\ Len(outbox) \in Nat /\ DOMAIN outbox = 1 .. Len(outbox)
        /\ DOMAIN outbox' = 1 .. Len(outbox) + Len(es)
        /\ \A i \in DOMAIN outbox : outbox'[i] = outbox[i]
        /\ outbox'[Len(outbox) + 1] = es[1]
    BY <1>1, <2>1, Appended
  <2>. QED  BY <1>3, <2>2
<1>7. Announcements' = Announcements \cup {n}
  BY <1>1, <1>6 DEF Announcements
<1>8. /\ \A i \in Announcements : i < n /\ outbox'[i] = outbox[i]
      /\ \A i \in Announcements : outbox[i].version \in 2 .. Len(workflows)
      /\ outbox'[n].version = v
  BY <1>1, <1>6 DEF Announcements, Telling, VersionsAnnounced
<1>9. {outbox'[i].version : i \in Announcements'} = 2 .. Len(workflows')
  <2>1. {outbox'[i].version : i \in Announcements'} = {outbox[i].version : i \in Announcements} \cup {v}
    BY <1>7, <1>8
  <2>2. 2 .. Len(workflows') = 2 .. Len(workflows) \cup {v}
    BY <1>2
  <2>. QED  BY <2>1, <2>2 DEF Telling, VersionsAnnounced
<1>10. ASSUME NEW i \in Announcements', NEW j \in Announcements', i < j
       PROVE  outbox'[i].version < outbox'[j].version
  <2>1. i \in Announcements
    BY <1>6, <1>7, <1>8, <1>10 DEF Announcements
  <2>2. CASE j \in Announcements
    BY <1>8, <1>10, <2>1, <2>2 DEF Telling, VersionsAnnounced
  <2>3. CASE j = n
    BY <1>2, <1>8, <2>1, <2>3
  <2>. QED  BY <1>7, <2>2, <2>3
<1>11. VersionsAnnounced'
  BY <1>9, <1>10 DEF VersionsAnnounced
<1>. QED  BY <1>5, <1>11 DEF Telling

LEMMA PlantedTells ==
    ASSUME TypeOK, Telling, Planted
    PROVE  Telling'
<1>1. Len(workflows) = 0 /\ Len(workflows') = 1 /\ UNCHANGED <<tasks, outbox>>
  BY DEF Planted
<1>2. 2 .. Len(workflows') = 2 .. Len(workflows)
  BY <1>1
<1>3. \A t \in Task : Standing(t)'
  BY <1>1 DEF Telling, Standing, TellsStatus
<1>4. VersionsAnnounced'
  BY <1>1, <1>2 DEF Telling, VersionsAnnounced, Announcements
<1>. QED  BY <1>3, <1>4 DEF Telling

LEMMA TellingStep == Inv /\ Telling /\ [Next]_vars => Telling'
<1>. SUFFICES ASSUME Inv, Telling, [Next]_vars
              PROVE  Telling'
  OBVIOUS
<1>1. TypeOK
  BY DEF Inv
<1>2. CASE UNCHANGED db
  BY <1>2 DEF db, Telling, Standing, TellsStatus, VersionsAnnounced, Announcements
<1>. QED  BY <1>1, <1>2, Writes, CreatedTells, TouchedTells, MovedTells, RemovedTells,
             PlantedTells, AnnouncedTells

LEMMA TellingInit == Init => Telling
<1>. SUFFICES ASSUME Init
              PROVE  Telling
  OBVIOUS
<1>1. DOMAIN outbox = {} /\ Len(workflows) = 0
  BY DEF Init
<1>2. 2 .. Len(workflows) = {}
  BY <1>1
<1>. QED  BY <1>1, <1>2 DEF Init, Telling, Standing, TellsStatus, VersionsAnnounced, Announcements

LEMMA TellingHolds == Spec => []Telling
<1>. QED  BY TellingInit, TellingStep, InvHolds, PTL DEF Spec

(***************************************************************************)
(* The last event about a task's creation, status or deletion says where   *)
(* its row is, whatever the sessions overwrote of each other's work.       *)
(***************************************************************************)
THEOREM OutboxIsTruthful == Spec => []OutboxTellsStatus
<1>1. Inv /\ Telling => OutboxTellsStatus
  BY StandingTells DEF Inv, Telling
<1>. QED  BY <1>1, InvHolds, TellingHolds, PTL

(***************************************************************************)
(* Every version a PUT inserted is announced, once and in order.           *)
(***************************************************************************)
THEOREM VersionsAreAnnounced == Spec => []VersionsAnnounced
<1>1. Telling => VersionsAnnounced
  BY DEF Telling
<1>. QED  BY <1>1, TellingHolds, PTL

(***************************************************************************)
(* A task's completion is told exactly when a move lands it in a state     *)
(* that completes in the definition active at that moment.                 *)
(***************************************************************************)
THEOREM CompletionIsTold == Spec => CompletionTold
<1>. DEFINE Agrees(t) ==
       ToldIn("TaskCompleted", t) <=>
          /\ ToldIn("TaskStatusChanged", t)
          /\ Live(t) /\ tasks'[t] \in StateName
          /\ Completes(Active, tasks'[t])
<1>1. ASSUME Inv, [Next]_vars, NEW t \in Task
      PROVE  Agrees(t)
  <2>. USE DEF Inv
  <2>1. CASE UNCHANGED outbox
    BY <2>1 DEF ToldIn
  <2>2. ASSUME NEW e, Appends(<<e>>), e.type \notin {"TaskCompleted", "TaskStatusChanged"}
        PROVE  Agrees(t)
    <3>. DEFINE es == <<e>>
    <3>1. Len(es) = 1 /\ es[1] = e /\ Appends(es)
      BY <2>2
    <3>. HIDE DEF es
    <3>2. ~ToldIn("TaskCompleted", t) /\ ~ToldIn("TaskStatusChanged", t)
      BY <1>1, <2>2, <3>1, ToldAppended
    <3>. QED  BY <3>2
  <2>3. ASSUME NEW s \in Session, NEW u \in Task, Moved(s, u)
        PROVE  Agrees(t)
    <3>1. PICK es :
            /\ Appends(es) /\ Len(es) \in {2, 3}
            /\ es[1].type = "TaskUpdated" /\ es[1].task = u
            /\ es[2].type = "TaskStatusChanged" /\ es[2].task = u /\ es[2].status = target[s]
            /\ Len(es) = 3 <=> Completes(Active, target[s])
            /\ Len(es) = 3 => es[3].type = "TaskCompleted" /\ es[3].task = u
      BY <2>3, MoveEvents
    <3>2. \A k \in 1 .. Len(es) : k = 1 \/ k = 2 \/ (k = 3 /\ Len(es) = 3)
      <4>1. Len(es) \in {2, 3}
        BY <3>1
      <4>. QED  BY <4>1, TwoOrThree
    <3>3. ToldIn("TaskStatusChanged", t) <=> t = u
      BY <1>1, <3>1, <3>2, ToldAppended
    <3>4. ToldIn("TaskCompleted", t) <=> t = u /\ Completes(Active, target[s])
      BY <1>1, <3>1, <3>2, ToldAppended
    <3>5. t = u => Live(t) /\ tasks'[t] = target[s] /\ target[s] \in StateName
      BY <1>1, <2>3 DEF Moved, TypeOK
    <3>. QED  BY <3>3, <3>4, <3>5
  <2>4. ASSUME NEW s \in Session, NEW u \in Task, Created(s, u) \/ Touched(s, u) \/ Removed(s, u)
        PROVE  Agrees(t)
    BY <2>2, <2>4 DEF Created, Touched, Removed, TaskEvent
  <2>5. ASSUME NEW d \in Document, Announced(d)
        PROVE  Agrees(t)
    BY <2>2, <2>5 DEF Announced, WorkflowUpdated
  <2>. QED  BY <1>1, <2>1, <2>3, <2>4, <2>5, Writes DEF db, Planted
<1>2. Inv /\ [Next]_vars => \A t \in Task : Agrees(t)
  BY <1>1
<1>. QED  BY <1>2, InvHolds, PTL DEF Spec, CompletionTold
=============================================================================
