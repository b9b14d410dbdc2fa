------------------------------ MODULE TaskTags ------------------------------
(***************************************************************************)
(* The tag vocabulary and the tags of tasks: the tag half of TaskService   *)
(* (_stage_tags), the tags repository and TagService.                      *)
(*                                                                         *)
(* A session is one request with a READ COMMITTED transaction of its own;  *)
(* each statement is one action and sees what is committed when it runs.   *)
(* No advisory guard protects tags.  What does order sessions are the      *)
(* database's own locks, kept from a statement to the commit:              *)
(*   - a flushed INSERT of a tag holds its name_key: another INSERT of the *)
(*     key waits, then fails on the UNIQUE constraint;                     *)
(*   - a DELETE of task_tags rows fixes its rows when it starts, waits for *)
(*     those another session has deleted, and skips the ones that are gone *)
(*     by then: a row inserted meanwhile is not among them;                *)
(*   - an INSERT of a row that another session has deleted waits for it.   *)
(* An error of the database that nothing translates rolls back (a 500).    *)
(*                                                                         *)
(* Names are display names already stripped; Key is casefold.  A task's    *)
(* other columns are one question, `edited`: does any of them change?      *)
(***************************************************************************)
EXTENDS Naturals, FiniteSets, SequencesExt

CONSTANTS Session,          \* requests in flight at once
          Task,             \* task ids
          TagId,            \* bound: the tag ids there are to mint
          Name,             \* display names
          Key,              \* the name_key of each name
          Blank,            \* a name with no visible character
          Omitted,          \* no "tags" in a PATCH
          Unborn, Deleted,  \* an id never used, a row removed
          Live,             \* a row of tasks
          Requests,         \* the requests the environment sends
          NoRequest,
          MaxOutbox         \* bound: no write starts at this many events

\* The id of a create is the one the handler mints.
Names   == Seq(Name \cup {Blank})
Request ==
    [kind : {"create"}, task : Task, names : Names \ {<< >>}]
      \cup [kind : {"update"}, task : Task, names : Names \cup {Omitted}]
      \cup [kind : {"delete"}, task : Task]
      \cup [kind : {"delete_tag"}, tag : TagId]
      \cup [kind : {"list"}]

ASSUME NameAssumption ==
    /\ Name = DOMAIN Key
    /\ {Blank, Unborn, Deleted} \cap Name = {}
    /\ Cardinality({Live, Unborn, Deleted}) = 3
ASSUME TagRequestAssumption == Requests \subseteq Request /\ NoRequest \notin Request

VARIABLES
    tasks,      \* the tasks table: Unborn, Live or Deleted
    tags,       \* the tags table: each id's name, Unborn or Deleted
    links,      \* the task_tags table: <<task, tag>> rows
    outbox,     \* the events about tags, in commit order
    pc, req,    \* the statement a session runs next, the request it serves
    before,     \* the display names its task had
    resolved,   \* the tag ids its names resolved to
    minted,     \* those of them it has to insert, with their names
    doomed,     \* the rows its DELETE will remove, or has removed
    late        \* history: rows others linked since it cleared or counted

db   == <<tasks, tags, links, outbox>>
vars == <<tasks, tags, links, outbox, pc, req, before, resolved, minted, doomed, late>>

NoTags == [i \in {} |-> Blank]

-----------------------------------------------------------------------------
\* The tables

Exists(i)   == tags[i] \in Name
RowsOf(t)   == {row \in links : row[1] = t}
HoldersOf(i) == {row \in links : row[2] = i}
NamesOf(t)  == {tags[row[2]] : row \in RowsOf(t)}
TakenKeys   == {Key[tags[i]] : i \in {j \in TagId : Exists(j)}}

\* What the request asks for: its names, and for each key the first name
\* that spells it.
Asked(s)     == ToSet(req[s].names)
AskedKeys(s) == {Key[n] : n \in Asked(s)}
Spelling(s, k) == req[s].names[SelectInSeq(req[s].names, LAMBDA n : Key[n] = k)]

\* Keys and rows a session's open transaction keeps others from.
MintedKeys(s) == {Key[minted[s][i]] : i \in DOMAIN minted[s]}
HeldKeys(s)   == IF pc[s] \in {"lock", "commit"} THEN MintedKeys(s) ELSE {}
HeldRows(s)   == IF pc[s] = "commit" THEN doomed[s] ELSE {}
Others(s)     == Session \ {s}

\* The tags table with the tags it minted.
Inserted(s) == [i \in TagId |-> IF i \in DOMAIN minted[s] THEN minted[s][i] ELSE tags[i]]

TagsChanged(s) ==
    [type |-> "TaskTagsChanged", task |-> req[s].task, tags |-> Asked(s),
     added |-> Asked(s) \ before[s], removed |-> before[s] \ Asked(s)]
TagDeleted(i) == [type |-> "TagDeleted", tag |-> i]

\* mutant: a set that only shrinks is not told
TagEventsIfAdded(s) == IF Asked(s) \subseteq before[s] THEN << >> ELSE <<TagsChanged(s)>>
TagEvents(s)        == <<TagsChanged(s)>>

Event ==
    [type : {"TaskTagsChanged"}, task : Task,
     tags : SUBSET Name, added : SUBSET Name, removed : SUBSET Name]
      \cup [type : {"TagDeleted"}, tag : TagId]

-----------------------------------------------------------------------------
Init ==
    /\ tasks    = [t \in Task |-> Unborn]
    /\ tags     = [i \in TagId |-> Unborn]
    /\ links    = {}
    /\ outbox   = << >>
    /\ pc       = [s \in Session |-> "idle"]
    /\ req      = [s \in Session |-> NoRequest]
    /\ before   = [s \in Session |-> {}]
    /\ resolved = [s \in Session |-> {}]
    /\ minted   = [s \in Session |-> NoTags]
    /\ doomed   = [s \in Session |-> {}]
    /\ late     = [s \in Session |-> {}]

Goto(s, l) == pc' = [pc EXCEPT ![s] = l]

Reset(s) ==
    /\ Goto(s, "idle")
    /\ req'      = [req EXCEPT ![s] = NoRequest]
    /\ before'   = [before EXCEPT ![s] = {}]
    /\ resolved' = [resolved EXCEPT ![s] = {}]
    /\ minted'   = [minted EXCEPT ![s] = NoTags]

\* The transaction ends with nothing written.
Refuse(s) ==
    /\ Reset(s)
    /\ doomed' = [doomed EXCEPT ![s] = {}]
    /\ late'   = [late EXCEPT ![s] = {}]
    /\ UNCHANGED db

\* The transaction commits. A DELETE that waited finds these rows gone.
Commit(s, removed, added, events) ==
    /\ links'  = (links \ removed) \cup added
    /\ outbox' = outbox \o events
    /\ doomed' = [o \in Session |-> IF o = s THEN {} ELSE doomed[o] \ removed]
    /\ late'   = [o \in Session |->
                    IF o # s /\ pc[o] \in {"lock", "commit", "drop"}
                    THEN late[o] \cup added ELSE {}]
    /\ Reset(s)

Receive(s, r) ==
    /\ pc[s] = "idle"
    /\ r.kind # "list" => Len(outbox) < MaxOutbox
    /\ r.kind = "create" =>
         tasks[r.task] = Unborn /\ \A o \in Others(s) : req[o] # NoRequest =>
             ~(req[o].kind = "create" /\ req[o].task = r.task)
    /\ req' = [req EXCEPT ![s] = r]
    /\ Goto(s, CASE r.kind = "create"            -> "names"
                 [] r.kind \in {"update", "delete"} -> "read"
                 [] r.kind = "delete_tag"        -> "tag"
                 [] r.kind = "list"              -> "list")
    /\ UNCHANGED <<db, before, resolved, minted, doomed, late>>

\* repo.get, or 404.
ReadTask(s) ==
    /\ pc[s] = "read"
    /\ IF tasks[req[s].task] # Live
       THEN Refuse(s)
       ELSE /\ Goto(s, IF req[s].kind = "delete" THEN "erase"
                       ELSE IF req[s].names = Omitted THEN "keep" ELSE "names")
            /\ UNCHANGED <<db, req, before, resolved, minted, doomed, late>>

\* names_for_tasks: a create's row is flushed by then and has no tags.
ReadNames(s) ==
    /\ pc[s] = "names"
    /\ before' = [before EXCEPT ![s] = NamesOf(req[s].task)]
    /\ Goto(s, "resolve")
    /\ UNCHANGED <<db, req, resolved, minted, doomed, late>>

\* resolve, then the comparison of display names that decides whether the
\* tag set moved. clean_name raises for a blank name.
Resolve(s) ==
    /\ pc[s] = "resolve"
    /\ IF Blank \in Asked(s)
       THEN Refuse(s)
       ELSE LET found   == {i \in TagId : Exists(i) /\ Key[tags[i]] \in AskedKeys(s)}
                missing == AskedKeys(s) \ TakenKeys
                unused  == {i \in TagId : tags[i] = Unborn
                                          /\ \A o \in Session : i \notin DOMAIN minted[o]}
            IN  \E ids \in SUBSET unused :
                  /\ Cardinality(ids) = Cardinality(missing)
                  /\ \E f \in Bijection(ids, missing) :
                       minted' = [minted EXCEPT ![s] = [i \in ids |-> Spelling(s, f[i])]]
                  /\ resolved' = [resolved EXCEPT ![s] = found \cup ids]
                  /\ Goto(s, IF before[s] = Asked(s) THEN "keep" ELSE "clear")
                  /\ UNCHANGED <<db, req, before, doomed, late>>

\* mutant: a minted key is neither waited for nor refused
ClearLinksTwice(s) ==
    /\ pc[s] = "clear"
    /\ doomed' = [doomed EXCEPT ![s] = RowsOf(req[s].task)]
    /\ Goto(s, "lock")
    /\ UNCHANGED <<db, req, before, resolved, minted, late>>

\* mutant: only the names read earlier and not asked for are removed
ClearLinksByDiff(s) ==
    /\ pc[s] = "clear"
    /\ \A o \in Others(s) : HeldKeys(o) \cap MintedKeys(s) = {}
    /\ IF MintedKeys(s) \cap TakenKeys # {}
       THEN Refuse(s)
       ELSE /\ doomed' = [doomed EXCEPT ![s] =
                 {row \in RowsOf(req[s].task) : tags[row[2]] \in before[s] \ Asked(s)}]
            /\ Goto(s, "lock")
            /\ UNCHANGED <<db, req, before, resolved, minted, late>>

\* set_for_task: the autoflush inserts the minted tags, then the DELETE
\* starts and fixes its rows.
ClearLinks(s) ==
    /\ pc[s] = "clear"
    /\ \A o \in Others(s) : HeldKeys(o) \cap MintedKeys(s) = {}
    /\ IF MintedKeys(s) \cap TakenKeys # {}
       THEN Refuse(s)
       ELSE /\ doomed' = [doomed EXCEPT ![s] = RowsOf(req[s].task)]
            /\ Goto(s, "lock")
            /\ UNCHANGED <<db, req, before, resolved, minted, late>>

\* The DELETE has locked every row that is still there.
LockLinks(s) ==
    /\ pc[s] = "lock"
    /\ \A o \in Others(s) : HeldRows(o) \cap doomed[s] = {}
    /\ Goto(s, "commit")
    /\ UNCHANGED <<db, req, before, resolved, minted, doomed, late>>

\* The commit of a create or an update whose tag set moved: the changed
\* columns, the new links and the event. It fails when a row it needs is
\* gone (StaleDataError, foreign keys) or a link is there already.
CommitTags(s) ==
    /\ pc[s] = "commit"
    /\ LET t     == req[s].task
           added == {<<t, i>> : i \in resolved[s]}
           stale(edited) ==
               \/ req[s].kind = "update" /\ tasks[t] # Live /\ (edited \/ added # {})
               \/ \E i \in resolved[s] \ DOMAIN minted[s] : ~Exists(i)
               \/ added \cap (links \ doomed[s]) # {}
       IN  /\ \A o \in Others(s) : HeldRows(o) \cap added = {}
           /\ \E edited \in BOOLEAN :
                IF stale(edited)
                THEN Refuse(s)
                ELSE /\ tasks' = [tasks EXCEPT ![t] = IF req[s].kind = "create" THEN Live ELSE @]
                     /\ tags'  = Inserted(s)
                     /\ Commit(s, doomed[s], added, TagEvents(s))

\* The commit of an update whose tag set did not move. Tags it minted all
\* the same are inserted if another column changed.
CommitKept(s) ==
    /\ pc[s] = "keep"
    /\ \/ Refuse(s)
       \/ /\ \A o \in Others(s) : HeldKeys(o) \cap MintedKeys(s) = {}
          /\ tasks[req[s].task] = Live
          /\ MintedKeys(s) \cap TakenKeys = {}
          /\ tags' = Inserted(s)
          /\ UNCHANGED tasks
          /\ Commit(s, {}, {}, << >>)

\* DELETE of a task cascades to its links.
CommitDelete(s) ==
    /\ pc[s] = "erase"
    /\ \A o \in Others(s) : HeldRows(o) \cap RowsOf(req[s].task) = {}
    /\ tasks' = [tasks EXCEPT ![req[s].task] = Deleted]
    /\ UNCHANGED tags
    /\ Commit(s, RowsOf(req[s].task), {}, << >>)

\* TagService.delete: 404, then the guard, then the row with its links.
ReadTag(s) ==
    /\ pc[s] = "tag"
    /\ IF ~Exists(req[s].tag)
       THEN Refuse(s)
       ELSE Goto(s, "count") /\ UNCHANGED <<db, req, before, resolved, minted, doomed, late>>

\* mutant: the guard lets a tag go that one task holds
CountTasksBeyondOne(s) ==
    /\ pc[s] = "count"
    /\ IF Cardinality(HoldersOf(req[s].tag)) > 1
       THEN Refuse(s)
       ELSE Goto(s, "drop") /\ UNCHANGED <<db, req, before, resolved, minted, doomed, late>>

CountTasks(s) ==
    /\ pc[s] = "count"
    /\ IF HoldersOf(req[s].tag) # {}
       THEN Refuse(s)
       ELSE Goto(s, "drop") /\ UNCHANGED <<db, req, before, resolved, minted, doomed, late>>

\* mutant: no cascade to the links
RemoveTagAlone(s) ==
    /\ pc[s] = "drop"
    /\ tags' = [tags EXCEPT ![req[s].tag] = Deleted]
    /\ UNCHANGED tasks
    /\ Commit(s, {}, {}, <<TagDeleted(req[s].tag)>>)

\* A DELETE that matches no row is no error.
RemoveTag(s) ==
    /\ pc[s] = "drop"
    /\ \A o \in Others(s) : HeldRows(o) \cap HoldersOf(req[s].tag) = {}
    /\ tags' = [tags EXCEPT ![req[s].tag] = Deleted]
    /\ UNCHANGED tasks
    /\ Commit(s, HoldersOf(req[s].tag), {}, <<TagDeleted(req[s].tag)>>)

\* list_tags: one SELECT.
ListTags(s) == pc[s] = "list" /\ Refuse(s)

\* A rollback at any await, and the victim of a database deadlock.
Abort(s) == pc[s] # "idle" /\ Refuse(s)

Next ==
    \E s \in Session :
        \/ \E r \in Requests : Receive(s, r)
        \/ ReadTask(s) \/ ReadNames(s) \/ Resolve(s) \/ ClearLinks(s) \/ LockLinks(s)
        \/ CommitTags(s) \/ CommitKept(s) \/ CommitDelete(s)
        \/ ReadTag(s) \/ CountTasks(s) \/ RemoveTag(s) \/ ListTags(s)
        \/ Abort(s)

Spec == Init /\ [][Next]_vars

-----------------------------------------------------------------------------
\* Properties

Mintable == UNION {[ids -> Name] : ids \in SUBSET TagId}

\* Every variable has its type: what a session read are names, not holes.
TypeOK ==
    /\ tasks \in [Task -> {Unborn, Live, Deleted}]
    /\ tags \in [TagId -> Name \cup {Unborn, Deleted}]
    /\ links \subseteq Task \X TagId
    /\ outbox \in Seq(Event)
    /\ pc \in [Session -> {"idle", "read", "names", "resolve", "clear", "lock", "commit",
                           "keep", "erase", "tag", "count", "drop", "list"}]
    /\ req \in [Session -> Requests \cup {NoRequest}]
    /\ before \in [Session -> SUBSET Name]
    /\ resolved \in [Session -> SUBSET TagId]
    /\ minted \in [Session -> Mintable]
    /\ doomed \in [Session -> SUBSET (Task \X TagId)]
    /\ late \in [Session -> SUBSET (Task \X TagId)]

(***************************************************************************)
(* The tables stay sound under every interleaving of mints, replacements,  *)
(* deletions and cascades: a key names one tag, and a link joins a live    *)
(* task to an existing tag.                                                *)
(***************************************************************************)
VocabularySound ==
    /\ \A i, j \in TagId : Exists(i) /\ Exists(j) /\ Key[tags[i]] = Key[tags[j]] => i = j
    /\ \A row \in links : tasks[row[1]] = Live /\ Exists(row[2])

KeysOf(t) == {Key[tags[row[2]]] : row \in RowsOf(t)}

\* A step that commits the replacement of t's tags by s.
Replaces(s, t) ==
    pc[s] = "commit" /\ req[s].task = t /\ outbox' # outbox /\ pc'[s] = "idle"

(***************************************************************************)
(* A replacement leaves its task with every tag asked for, and with        *)
(* another one only if a session linked it after the replacement's DELETE  *)
(* had begun: what the DELETE could see never survives.                    *)
(***************************************************************************)
ReplacementBounded ==
    [][\A s \in Session, t \in Task : Replaces(s, t) =>
         /\ AskedKeys(s) \subseteq KeysOf(t)'
         /\ \A row \in RowsOf(t)' : Key[tags'[row[2]]] \in AskedKeys(s) \/ row \in late[s]]_vars

\* A step that commits the deletion of a tag by s.
Drops(s) == pc[s] = "drop" /\ outbox' # outbox /\ pc'[s] = "idle"

(***************************************************************************)
(* Deleting a tag takes it from a task only if the link was committed      *)
(* after the delete counted the tag's tasks: a link the guard could see is *)
(* never lost. That any is lost is what HeldTagsRefused is about.          *)
(***************************************************************************)
DeletionBounded ==
    [][\A s \in Session : Drops(s) => links \ links' \subseteq late[s]]_vars

(***************************************************************************)
(* A task that keeps living gets and loses tags only in a commit that      *)
(* stages a TaskTagsChanged about it, or by the deletion of the tag.       *)
(***************************************************************************)
ChangesTold ==
    [][\A t \in Task : tasks'[t] = Live /\ RowsOf(t)' # RowsOf(t) =>
         \E i \in DOMAIN outbox' \ DOMAIN outbox :
            \/ outbox'[i].type = "TaskTagsChanged" /\ outbox'[i].task = t
            \/ outbox'[i].type = "TagDeleted" /\ <<t, outbox'[i].tag>> \in links]_vars

(***************************************************************************)
(* docs/FRD.md section 2.7: the list is replaced, never merged. After a    *)
(* replacement the task has exactly the tags asked for.                    *)
(***************************************************************************)
ReplacedNeverMerged ==
    [][\A s \in Session, t \in Task : Replaces(s, t) => KeysOf(t)' = AskedKeys(s)]_vars

(***************************************************************************)
(* docs/FRD.md section 2.7, tags/MODULE.md and TagService.delete: deleting *)
(* a tag that is in use is refused. A deletion that commits finds no task  *)
(* holding the tag, and so untags none.                                    *)
(***************************************************************************)
HeldTagsRefused ==
    [][\A s \in Session : Drops(s) => HoldersOf(req[s].tag) = {}]_vars
=============================================================================
