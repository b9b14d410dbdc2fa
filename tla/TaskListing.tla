---------------------------- MODULE TaskListing ----------------------------
(***************************************************************************)
(* GET /v1/tasks while tasks are written: a client walks the listing page  *)
(* by page.  One request is up to four statements, each of which sees what *)
(* is committed when it runs: the tag filter is resolved to task ids, the  *)
(* page is selected, the total is counted, and the tags of the page are    *)
(* read for the response.                                                  *)
(*                                                                         *)
(* A row stands for the columns the listing looks at and for the tags of   *)
(* the task.  Rows that the ORDER BY does not tell apart come back in any  *)
(* order.  A write is one committed change of one task.                    *)
(***************************************************************************)
EXTENDS Naturals, FiniteSets, SequencesExt

CONSTANTS Id,             \* task ids, ordered as uuid7 values are
          Row,            \* what a task may look like
          Unborn, Gone,   \* an id never used, a task deleted
          Tag, Name,      \* name keys; names as a client spells them
          KeyOf,          \* the key of each name, or NoTag
          NoTag,          \* the key of a name no tag carries
          Queries,        \* the queries the client walks
          AnyTask,        \* no tag filter
          MaxWrites       \* bound: how often matches come and go, or tags are lost

ASSUME IdAssumption  == Id \subseteq Nat /\ IsFiniteSet(Id) /\ MaxWrites \in Nat
ASSUME RowAssumption ==
    /\ \A r \in Row : r.priority \in Nat /\ r.created_at \in Nat /\ r.tags \subseteq Tag
    /\ {Unborn, Gone} \cap Row = {} /\ NoTag \notin Tag
    /\ KeyOf \in [Name -> Tag \cup {NoTag}] /\ \A S \in SUBSET Id : S # AnyTask

\* A filter that is not given is empty.
Query == [statuses : SUBSET {r.status : r \in Row}, tags : Seq(Name), op : {"and", "or"},
          order_dir : {"asc", "desc"}, limit : Nat \ {0}]
ASSUME QueryAssumption == Queries \subseteq Query

VARIABLES
    table,      \* the tasks, with their tags
    query, offset,
    pc,         \* the statement the request runs next
    ids,        \* what the tag filter resolved to
    items, total, names,   \* the page, the count, the tags read
    seen,       \* the ids listed so far, page after page
    start,      \* history: who matched when the walk began,
    changed,    \* who was written since, who since the request began,
    touched,
    arrivals, departures,  \* how often a match came or went,
    losses      \* and how often a task lost the tags asked for

walk  == <<query, offset, pc, ids, items, total, names, seen, start>>
vars  == <<table, query, offset, pc, ids, items, total, names, seen,
           start, changed, touched, arrivals, departures, losses>>

Tasks == {i \in Id : table[i] \in Row}

\* What the documentation promises of a filter.
Carries(q, r) ==
    LET keys == {KeyOf[n] : n \in ToSet(q.tags)} IN
    /\ r \in Row
    /\ IF q.tags = << >> THEN TRUE
       ELSE IF q.op = "and" THEN keys \subseteq r.tags ELSE keys \cap r.tags # {}
Matches(q, r) ==
    /\ Carries(q, r)
    /\ q.statuses # {} => r.status \in q.statuses
Matching == {i \in Id : Matches(query, table[i])}

-----------------------------------------------------------------------------
\* The statements

\* The tag join grouped by task: AND counts the tags each task matched.
NameKeys(q) == [n \in DOMAIN q.tags |-> KeyOf[q.tags[n]]]

\* mutant: the names asked for are counted, not the keys
MatchingAllNames(keys, all) ==
    LET Matched(i) == table[i].tags \cap ToSet(keys) IN
    {i \in Tasks : Matched(i) # {} /\ (all => Cardinality(Matched(i)) = Len(keys))}
TaskIdsMatching(keys, all) ==
    LET Matched(i) == table[i].tags \cap ToSet(keys) IN
    {i \in Tasks : Matched(i) # {} /\ (all => Cardinality(Matched(i)) = Cardinality(ToSet(keys)))}

Selected == {i \in Tasks : /\ query.statuses # {} => table[i].status \in query.statuses
                           /\ ids # AnyTask => i \in ids}

Precedes(r, s) == IF query.order_dir = "desc" THEN r.priority > s.priority
                  ELSE r.priority < s.priority

\* mutant: no tiebreak
BeforeByPriority(i, j) == Precedes(table[i], table[j])
\* mutant: no final tiebreak
BeforeByCreation(i, j) ==
    \/ Precedes(table[i], table[j])
    \/ /\ table[i].priority = table[j].priority
       /\ table[i].created_at < table[j].created_at
Before(i, j) ==
    \/ Precedes(table[i], table[j])
    \/ /\ table[i].priority = table[j].priority
       /\ \/ table[i].created_at < table[j].created_at
          \/ table[i].created_at = table[j].created_at /\ i < j

\* The orders the database may return a selection in.
Ordered(S) == {s \in SetToSeqs(S) : \A m, n \in DOMAIN s : m < n => ~Before(s[n], s[m])}

\* mutant: OFFSET without LIMIT
WindowOpen(s) == SubSeq(s, offset + 1, Len(s))
Window(s)     == SubSeq(s, offset + 1, IF Len(s) < offset + query.limit THEN Len(s) ELSE offset + query.limit)

-----------------------------------------------------------------------------
Init ==
    /\ table \in [Id -> Row \cup {Unborn}]
    /\ query \in Queries
    /\ offset = 0
    /\ pc = "resolve"
    /\ ids = AnyTask
    /\ items = << >> /\ total = 0 /\ names = << >>
    /\ seen = << >>
    /\ start = Matching
    /\ changed = {} /\ touched = {}
    /\ arrivals = 0 /\ departures = 0 /\ losses = 0

\* TaskService.list: the tag filter first.  No task carrying the tags is an
\* answer, not the absence of a filter.
Resolve ==
    /\ pc = "resolve"
    /\ ids' = IF query.tags = << >> THEN AnyTask
              ELSE TaskIdsMatching(NameKeys(query), query.op = "and")
    /\ pc' = "items"
    /\ UNCHANGED <<table, query, offset, items, total, names, seen,
                   start, changed, touched, arrivals, departures, losses>>

Select ==
    /\ pc = "items"
    /\ \E s \in Ordered(Selected) :
         items' = [n \in DOMAIN Window(s) |-> [id |-> Window(s)[n], row |-> table[Window(s)[n]]]]
    /\ pc' = "count"
    /\ UNCHANGED <<table, query, offset, ids, total, names, seen,
                   start, changed, touched, arrivals, departures, losses>>

Count ==
    /\ pc = "count"
    /\ total' = Cardinality(Selected)
    /\ pc' = "names"
    /\ UNCHANGED <<table, query, offset, ids, items, names, seen,
                   start, changed, touched, arrivals, departures, losses>>

\* One query for the tags of the page; the response is complete.  A task
\* that is gone by now has none.
ReadNames ==
    /\ pc = "names"
    /\ names' = [n \in DOMAIN items |->
                   IF items[n].id \in Tasks THEN table[items[n].id].tags ELSE {}]
    /\ seen' = seen \o [n \in DOMAIN items |-> items[n].id]
    /\ pc' = "answered"
    /\ UNCHANGED <<table, query, offset, ids, items, total,
                   start, changed, touched, arrivals, departures, losses>>

\* The client asks for the next page until one is not full.
NextPage ==
    /\ pc = "answered"
    /\ IF Len(items) < query.limit
       THEN pc' = "done" /\ UNCHANGED offset
       ELSE pc' = "resolve" /\ offset' = offset + query.limit
    /\ items' = << >> /\ total' = 0 /\ names' = << >> /\ ids' = AnyTask
    /\ touched' = {}
    /\ UNCHANGED <<table, query, seen, start, changed, arrivals, departures, losses>>

\* A request creates, updates or deletes a task and its tags.
Write(i, r) ==
    /\ pc # "done"
    /\ arrivals + departures + losses < MaxWrites
    /\ table[i] # r
    /\ table[i] = Unborn => r # Gone
    /\ table[i] \in Row /\ r \in Row => r.created_at = table[i].created_at
    /\ table[i] # Gone
    /\ table'      = [table EXCEPT ![i] = r]
    /\ changed'    = changed \cup {i}
    /\ touched'    = touched \cup {i}
    /\ departures' = departures + (IF Matches(query, table[i]) THEN 1 ELSE 0)
    /\ arrivals'   = arrivals + (IF Matches(query, r) THEN 1 ELSE 0)
    /\ losses'     = losses + (IF Carries(query, table[i]) /\ r \in Row /\ ~Carries(query, r)
                               THEN 1 ELSE 0)
    /\ UNCHANGED walk

Next ==
    \/ Resolve \/ Select \/ Count \/ ReadNames \/ NextPage
    \/ \E i \in Id, r \in Row \cup {Gone} : Write(i, r)

Spec == Init /\ [][Next]_vars

-----------------------------------------------------------------------------
\* Properties

\* Type invariant; a page holds no more than was asked for.
TypeOK ==
    /\ table \in [Id -> Row \cup {Unborn, Gone}]
    /\ query \in Queries /\ offset \in Nat
    /\ pc \in {"resolve", "items", "count", "names", "answered", "done"}
    /\ ids = AnyTask \/ ids \subseteq Id
    /\ items \in Seq([id : Id, row : Row]) /\ Len(items) <= query.limit
    /\ total \in Nat
    /\ Len(names) \in {0, Len(items)} /\ ToSet(names) \subseteq SUBSET Tag
    /\ seen \in Seq(Id)
    /\ start \subseteq Id /\ touched \subseteq changed /\ changed \subseteq Id
    /\ arrivals \in Nat /\ departures \in Nat /\ losses \in Nat

\* A response built while nobody wrote is the documented one: the tasks that
\* match, no other, counted, in order, with the tags they were selected for;
\* and a task nobody wrote meanwhile is listed only if it matches
\* (TaskService.list, the repository's list, task_ids_matching, _many).
ListingExact ==
    pc = "answered" =>
        /\ touched = {} =>
             /\ total = Cardinality(Matching)
             /\ \A i \in Matching :
                  i \in {items[n].id : n \in DOMAIN items} <=>
                      Cardinality({j \in Matching : Before(j, i)}) \in
                          offset..(offset + query.limit - 1)
             /\ \A m, n \in DOMAIN items : m < n => Before(items[m].id, items[n].id)
        /\ \A n \in DOMAIN items : items[n].id \notin touched =>
             /\ items[n].row = table[items[n].id] /\ names[n] = items[n].row.tags
             /\ Matches(query, items[n].row)

\* A walk misses a task that matched all along only if another left the
\* listing while it ran, or lost the tags asked for: a page selected by ids
\* resolved before still lists it, in the place of one that matches.  No more
\* tasks are missed than that happened: paging itself loses none (the ORDER BY
\* of list and its final tiebreak, the ids that TaskService.list passes on).
SkipsBounded ==
    pc = "done" => Cardinality((start \ changed) \ ToSet(seen)) <= departures + losses

\* A walk lists a task again only as often as tasks entered the listing, or
\* lost the tags asked for while the ids resolved before still listed them
\* (the repository's list, TaskService.list).
RepeatsBounded ==
    pc = "done" => Len(seen) - Cardinality(ToSet(seen)) <= arrivals + losses
=============================================================================
