# task-service: TLA+ models and proofs

The service is a FastAPI application over PostgreSQL: tasks that move through a
configurable workflow, the workflow definition itself, a tag vocabulary, and a
transactional outbox that delivers domain events. Everything difficult about it is
concurrency: several workers, each an asyncio process with many requests in flight,
share the tables, one advisory lock and the outbox.

## Inventory

| Component | State it keeps | Operations | What is hard | What makes it correct |
| --- | --- | --- | --- | --- |
| Workflow definition and engine (`services/workflows/domain`) | none: pure functions of a definition | entry states, move check, role guard, WIP limit, completion | order of the checks, default entry, a status the definition lacks | every verdict is right for the definition it was given |
| Task writes (`services/tasks/application`, `infrastructure`) | `tasks` rows | create, replace, patch, delete, legal moves | each handler is several statements of a READ COMMITTED transaction under a shared advisory guard; rows are read without locks | only legal moves are committed, events tell what happened |
| Definition storage (`services/workflows/application`, `infrastructure`) | `workflow_definitions`, one row per version; advisory guard `wkfl` | read active, replace | check-then-insert of a version, strand check against concurrent task writes | no task is stranded, versions are consecutive and announced |
| Seed (`infrastructure/seed.py`) | the same table | insert version 1 once | workers start at the same time | exactly one seed |
| Outbox and relay (`core/outbox.py`, `core/event_bus.py`, `main.py`) | `outbox` rows; per relay: batch, open transaction, stop event | stage, claim, dispatch, commit, retry, dead-letter, prune, sleep, stop | crash between dispatch and commit, lost connection, several relays, a failing oldest row, shutdown | at-least-once, nothing lost or delivered twice without a fault, everything settles, shutdown returns |
| Tags (`services/tags`, `TaskService._stage_tags`) | `tags`, `task_tags` | resolve or mint, replace a task's set, list, delete if unused | mint race, guard race, whole-set replacement without a lock | one row per key, guarded deletion, sets are replaced |
| Document parsing (`services/workflows/serialization.py`) | none | validate and build a definition, write it back as a document | all problems are reported at once, unreachable states, stored documents are parsed again on every read | what parses is a definition the engine can work with, and what was stored reads back |
| Request path (`TaskService`, task and tag repositories, `core/database.py`, `core/errors.py`, `core/middleware.py`, probes) | per request: session, pending rows, open transaction, pooled connection; per worker: the pool | the calls of a handler in order, flush, commit, rollback, response read, error to status, 413, 504 | autoflush decides where a duplicate key surfaces, unique keys in doubt until another commit, deadlocks, a full pool, a lost acknowledgement, a handler that goes on after its 504, a client that retries | answers are true, a duplicate title is a 409, a create sent again is made again only if its task was renamed or deleted in between, writes are atomic, every handler ends |
| Task listing (`list`, `task_ids_matching`, `list_tasks`) | none of its own: four statements per page | filter, order, window, count, tags of the page | statements see different states, ties in the order, offsets while rows move | an undisturbed page is exact, a walk misses and repeats no more than the writes account for |
| Serialisation, headers, compression, configuration, listeners, migrations | none, or a request's own | I/O and formatting | none | not modelled, see the end |

Interactions. A request handler of the tasks feature calls the workflows repository
(guard, active definition), its own repository and the tags repository on one session, so
one transaction; every write adds outbox rows to the same commit. PUT /v1/workflow counts
task statuses through a port into the tasks table. A relay per worker reads the outbox and
calls the bus's subscribers. The advisory guard is the only lock between the features: it
is SHARED for writes that touch a status, EXCLUSIVE for PUT and seed, and released by
commit or rollback.

The hazards found while reading are in `PROJECT.json` under `hazards`, each at its line
with the properties that watch it.

## Plan

Order of work, the most important behaviour first. Items 1 to 10 are done.

1. `Workflow`, `TaskLifecycle`, `TaskWorkflow`: the definition, the engine, and the critical
   section between task status and definition; proofs in `TaskWorkflow_proofs`.
2. `EventDelivery`, `Outbox`, `OutboxOutage`: delivery, its abstract promise, the retry window.
3. The first theorems: type correctness, no stranding, validity of checks, free versions,
   and the refinement of `TaskLifecycle`.
4. `TaskTags`: mint, replace, guard and cascade; a passing run for what holds under any
   interleaving and violation runs for what the documents promise beyond it.
5. `WorkflowDocument`: parsing rules, and `unreachable_states` as the worklist of the code
   against reachability as a reference, over all small definitions.
6. `TitleRegistry`, `Requests`: the request path from the client's side, and the registry of
   unique titles it implements.
7. `TaskListing`: reads that are no snapshot, and what paging promises nevertheless.
8. `Outbox_proofs`: the inductive invariant of the relays (row locks are exclusive, marks are
   those of finished attempts), type correctness, and the refinement of `EventDelivery`.
9. On top of the invariant of `TaskWorkflow_proofs`: how far a limit is overshot, there, and
   what the outbox tells of tasks and versions, in `TaskEvents_proofs`.
10. `Requests_proofs` with the refinement of `TitleRegistry`, `TaskTags_proofs`,
   `WorkflowDocument_proofs`, `TaskListing_proofs`.
11. `TaskWorkflow` composed with `Outbox`: what a listener sees of the order of events.

## Modules

**`Workflow`** is the pure domain: what a definition is (`IsWorkflow`, the constructor's
checks), entry states, and the engine. `CheckEntry` and `CheckMove` return the name of the
error the code raises, in the order it decides it, or `"ok"`. Transition names and
uninterpreted metadata are left out.

**`TaskWorkflow`** is the core. A session is one request with its transaction; `pc` is the
statement it runs next, and each statement of the handlers is one action:

| Action | Code |
| --- | --- |
| `Receive` | a request of the environment; only `seed` comes before the first definition (`lifespan` seeds before it serves) |
| `AcquireShared`, `AcquireExclusive` | `acquire_workflow_guard` |
| `ReadDefinition` | `get_active` |
| `ReadTask` | `repo.get`, a plain SELECT; 404 ends the session |
| `CheckStatus` | occupancy count when the engine asks for it, then `resolve_entry` or `check_move` |
| `CommitCreate`, `CommitUpdate`, `CommitDelete` | the flush and the commit with the staged events |
| `AnswerMoves` | `legal_moves` |
| `CheckStranded`, `CheckSeeded`, `ReadHighest`, `StoreDefinition` | `replace_active` and `seed_workflow_if_missing` |
| `Abort` | a rollback at any await: timeout, lost connection, duplicate title, killed worker |

Statements see the latest committed rows. A flush and its commit are one action: a second
writer of the row waits for the first one's commit, then applies its own change, which is
what two actions in commit order do. SQLAlchemy writes only the columns that differ from the
loaded row, so an update whose status did not move does not write the status; an UPDATE that
matches no row raises, a DELETE that matches none does not. Both are in the commit actions.
`CommitUpdate`'s `edited` stands for every column but the status.

**`TaskLifecycle`** is what both features promise with no sessions, locks or events. `Spec`
lets a status change only along a move from the status stored; `LooseSpec` also lets a move
overwrite a status it was not made for.

**`Outbox`** is one relay per worker over the shared table. Events are numbered in
`(occurred_at, id)` order and may commit in any order. `Claim` takes the oldest deliverable
rows nobody holds; `Handle`, `Fail` and `Delivered` are the loop body of `deliver_pending`,
one subscriber call at a time; `Commit` writes all marks of the batch. `StartCleanup` and
`PurgeBatch` are the prune pass, whose cutoff is taken once; `Rest`, `Wake`, `Told` and
`Leave` are `_run`. `Crash`, `Disconnect`, `TickFails` and `CleanupFails` are the faults, at
most `MaxFaults` of them. After `Disconnect` the server has dropped the locks and the relay
goes on dispatching until its commit raises. `received`, `attempts` and `faults` are the
outside world: they record what happened, the program does not read them.

**`EventDelivery`** is the abstract promise: owed until received by every subscriber or
parked; only what was delivered is forgotten. **`OutboxOutage`** adds to `Outbox` a history
variable that counts poll intervals slept through, to say what the retry ceiling is worth.

**`TaskTags`** is the tag half of the task handlers and the tags feature. No advisory guard
protects tags; what orders two requests are PostgreSQL's own locks, and those are the
module's `HeldKeys` and `HeldRows`: a flushed tag holds its `name_key`, and a DELETE of links
fixes its rows when it starts and keeps them to the commit.

| Action | Code |
| --- | --- |
| `Receive`, `ReadTask` | the routes; `repo.get` |
| `ReadNames`, `Resolve` | `_stage_tags`: `names_for_tasks`, `resolve`, and the comparison of display names |
| `ClearLinks`, `LockLinks` | `set_for_task`: the autoflush of minted tags and the start of the DELETE; the DELETE done |
| `CommitTags`, `CommitKept` | the commit of a create or update whose tag set moved, or did not |
| `CommitDelete` | DELETE of a task with the cascade to its links |
| `ReadTag`, `CountTasks`, `RemoveTag` | `TagService.delete`: 404, the guard, the DELETE with its cascade |
| `ListTags`, `Abort` | one SELECT; a rollback at any await |

A tag minted by a request appears in `tags` at its commit; until then it is in `minted`.
`CommitTags` fails as a whole when the task is gone, a resolved tag is gone, or a link it
inserts is there already, as the foreign keys and the primary key make it. `late` is a history
variable: the links other requests committed since this one cleared or counted.
`ReplacementBounded` and `DeletionBounded` say what a race can cost and no more; that it costs
anything contradicts the documents, which is what `ReplacedNeverMerged` and `HeldTagsRefused`
are for (runs `tags_merge` and `tags_untag`). `TaskTags`
does not repeat the workflow guard or the statuses: task writes hold the guard shared or, for
a PATCH without a status, not at all, so it orders none of them.

**`WorkflowDocument`** parses one document as `workflow_from_document` does: `ParseState` and
`ParseTransition` take one entry each and collect its problems, `Build` rejects or constructs,
`Visit` is one turn of the loop of `unreachable_states` (any state may be popped: the frontier
starts as a list of a set), `Decide` accepts or reports what was not reached, and
`StoreAndReload` is PUT followed by the next read, which parses `workflow_to_document`'s form.
`WellFormed` and `ProblemsOf` say what a document should be without parsing it, and
reachability as a property of closed sets of states, so that the two can be compared. An
unreachable state is only reported when the document has no other problem, as in the code.

The first boot does not parse: `seed_workflow_if_missing` stores the definition that
`default_workflow` builds, and the first request reads its document back. That is the second
disjunct of `Init`. `AllowTransition` maps sets of definitions, so that a call that raises a
`ValueError` leaves none; `DefaultWorkflow` is what is left after the six calls.

**`Requests`** is one worker as its clients see it. A handler is one attempt of one client; its
`plan` is what is left of the calls its service method makes, in the code's order. A request may
name any id, the row another client's create has just made included:

| Action | Code |
| --- | --- |
| `Send` | the client's request, sent again after a 503 or 504; `BodySizeLimitMiddleware` and body validation answer without a session |
| `Begin` | the first statements: guard, definition, row; 404 before any refusal of the engine |
| `Flush`, `Flushed` | one pending row reaches the database at the next query (autoflush), in `stage`, or in the commit; `stage` and `persist` translate a violated title key, nothing else does |
| `ResolveTags` | `_stage_tags`: `resolve` mints what is missing in the caller's order; an unchanged set is left alone |
| `Mutate` | `apply_replace`, `apply_patch` or `delete` on the loaded row; an update that changed nothing skips the commit |
| `Commit` | `_commit_or_translate`; the acknowledgement of the database may be lost |
| `Read`, `Close` | the tags of the response, or a probe's `SELECT 1`; the end of `session_factory` |
| `PoolTimeout`, `Fail`, `Victim` | every connection is taken for `pool_timeout`; a statement fails; PostgreSQL breaks a deadlock |
| `RequestTimeout` | `RequestTimeoutMiddleware`: the client has its 504, the handler goes on |

`held` are the unique keys and rows an open transaction keeps others from; a statement that
needs one waits (`Awaited`) and is decided when the holder has ended. `StatusOf` is the
mapping of the exception classes and handlers of `core/errors.py`. An error of the database
is `operational` (503, and what the probes catch) or `driver` (500): which of the two
SQLAlchemy makes of a deadlock, a cancelled statement or a lost connection is the driver's
business, so both may happen. The engine's refusals and whether a tag set moved are choices:
`TaskWorkflow` and `TaskTags` decide them. The share locks that links take on the task row
are in as the wait of a commit for whoever writes that row.

**`TitleRegistry`** is what the request path promises of the tables: each write happens as a
whole in one step, no two tasks share a title key, an id has at most one life.

**`TaskListing`** is a client that walks `GET /v1/tasks` page by page while others write.
`Resolve`, `Select`, `Count` and `ReadNames` are the four statements of a page; `Write` is one
commit of another request. `Ordered` is every order the `ORDER BY` allows, so a tie it leaves
open is a choice. `start`, `changed`, `touched`, `arrivals`, `departures` and `losses` are
history. A loss is a write that takes the tags asked for from a task, whether it matched or
not: one PATCH can set a status the filter wants and drop the tag, and between the tag filter
and the page that task, which never matched, takes a place in the listing. Whoever it pushes
over the page's end is then skipped by the next page, so a bound by departures alone would be
false.

`MC*` modules give the constants their values. Operators marked `mutant` are not part of the
model: each is what a definition would be with a plausible mistake in the code, and shows
that a property notices it.

## Runs

| Run | Instance | Result |
| --- | --- | --- |
| `core` | 2 sessions, 3 tasks, requests of every kind, 3 definitions, one with a limit of 1 on its entry state, at most 3 versions and 3 events before a write starts | `TypeOK`, `NoStranded`, `MoveStillLegal`, `VersionNeverClashes`, `OutboxTellsStatus`, `VersionsAnnounced`, `CompletionTold`, `OvershootBounded` and the refinement `LooseLifecycle` hold |
| `strict` | as `core`, with 2 tasks | violated: a lost update commits a move no transition names (docs/FRD.md:43) |
| `moves` | as `core`, with 2 tasks and 4 events | violated: the transitions endpoint has no answer, a 500 (docs/FRD.md:120) |
| `outbox_safety` | 2 relays, 2 events, one with two subscribers, batches of 2, 2 retries, 2 faults | `TypeOK`, `AttemptsAccounted` and the refinement `AtLeastOnce` hold |
| `outbox_liveness` | 2 relays, 2 events, batches of 1, 2 retries, 1 fault | `EventuallySettled`, `StopReturns` hold |
| `tags_races` | 2 sessions, 2 tasks, 3 tag ids, 3 names of 2 keys, requests of every kind, 4 events before a write starts | `TypeOK`, `VocabularySound`, `ReplacementBounded`, `DeletionBounded`, `ChangesTold` hold |
| `tags_merge` | 2 sessions, 1 task | violated: two replacements merge (docs/FRD.md:100) |
| `tags_untag` | as `tags_merge` | violated: a tag that a task holds is deleted and the task untagged (docs/FRD.md:102, services/tags/MODULE.md:19, the docstring of `TagService.delete`) |
| `document` | all documents of up to 3 state entries of 8 forms and 2 transition entries of 6 forms; all 512 transition graphs over 3 states with 3 choices of entry states; the seed's definition | `TypeOK`, `AcceptsWellFormed`, `ReportsAll`, `StoredReadsBack`, `ParseReturns` hold |
| `requests` | 2 clients, one may send twice, a pool of 2, 3 titles, 2 tags, 1 task at the start, 36 pairs of requests | `TypeOK`, `AnswersTrue`, `TitleClashIs409`, `NothingLeaks`, `RepeatsNeedRelease`, `HandlersEnd` and the refinement `AtomicWrites` hold |
| `listing` | 3 tasks of 4 looks that tie on priority and creation, 7 queries with and without filters, pages of 1 and 2, matches come or go and tags are lost at most twice during a walk | `TypeOK`, `ListingExact`, `SkipsBounded`, `RepeatsBounded` hold |
| `outbox_outage` | 1 relay, no fault, 2 events in batches of 2, 3 retries | violated: dead-lettered without an interval slept (core/constants.py:53) |

Why the bounds are enough. Two sessions show every pair of handlers in every order; the
guard's two modes and the races found are between pairs. Three tasks let a status be held by
one task while two others enter it, so a limit of 1 can be overshot by the pair, and by a
third one if the check were off by one. The three definitions differ in what matters: one allows
every move, one removes moves and guards one with a role, one removes a state and limits
another, entered by create and by move. Three
versions give two PUTs after the seed. `MaxVersion` and `MaxOutbox` only stop new requests:
those in flight finish. In `outbox_safety` a batch holds two rows, so a commit can publish
one and kill the other, and a second relay can hold the other half; two faults let a
disconnected relay also crash, or two workers fail. In `outbox_liveness` a batch of one
makes the oldest row block the queue until it is settled, and makes every batch full.

`tags_races` has two
spellings of one key and a name of its own, so sets grow, shrink, collapse and are respelled,
and one tag id more than keys, so a deleted tag can be minted again. In `document` every rule
is broken by some entry, before and after sound ones; three states give self-loops, cycles
and chains.

`requests` has a handler more than connections,
so the pool can be full while two wait for each other, and a first attempt can still be running
when the second one starts. Pairs of creates mint two tags in opposite orders next to equal or
different titles; updates of one task collide with its deletion, with each other and with a
create of their title; the probes and the boundary's refusals meet a create. Seven pairs write or
read the row that the other client's first attempt creates, before or after its retry: it is
renamed to a third title or to one that is taken, retagged, or deleted. One refusal of the
engine stands for all: they end a handler at the same place. `listing` has a page boundary
inside a tie in every order, a task that can leave and return, filters by status, by both
spellings of one tag, by two tags and by an unknown name; with one more coming or going
(`MaxWrites = 3`, two minutes) the same holds. No bound is needed on other writes.

Fairness. The safety runs assume none. `FairSpec` of `Outbox` assumes that the relay task of
a running worker is scheduled (`WF_vars(Work(r))`): asyncio runs a ready task, a sleep ends,
and a handler returns. The last is what docs/TIS.md section 8.2 asks of listeners, and the shipped
ones only log. Nothing assumes that a stopped or crashed worker comes back, that producers
write, or that handlers succeed; `EventuallySettled` is stated for the case that some worker
stays up. `Spec` of `Requests`
assumes `WF_vars(Proceed(h))` for each handler: asyncio runs a ready task, the database
answers, turns a waiter away from a full pool or breaks a circle of waiters. It does not assume
that the request timeout fires, that statements fail or that clients retry, so `HandlersEnd`
rests on none of them. `FairSpec` of `WorkflowDocument` is `WF_vars(Next)`: parsing is sequential code
without an await, and runs until it returns.

## Proofs

Each proof module holds for every value of the constants that satisfies the named assumptions
of the module it is about: any sessions, tasks, tags, clients, relays, documents and bounds.
The assumptions are those the code justifies. Documents are workflows and requests are well
formed (`DocumentAssumption`, `RequestAssumption`, `TagRequestAssumption`, `ParseAssumption`:
what the routes let through), null values are none of the names, and what is counted is finite
(`FiniteAssumption` for the sessions and tasks of `TaskWorkflow`, `RelayAssumption` for the
workers of `Outbox`, `IdAssumption` for the ids of `TaskListing`). `PoolAssumption` is the
pool's size and each client's number of attempts.

| Module | Theorems |
| --- | --- |
| `TaskWorkflow_proofs` | `TypeCorrect`, `NothingStranded`, `ChecksStayValid`, `VersionsAreFree`, and `ImplementsLifecycle`, the refinement `Spec => LooseLifecycle`; `OvershootIsBounded` |
| `TaskEvents_proofs` | `OutboxIsTruthful`, `VersionsAreAnnounced`, `CompletionIsTold` (an action property) |
| `Outbox_proofs` | `TypeCorrect`, `AttemptsRecorded`, and `ImplementsDelivery`, the refinement `Spec => AtLeastOnce` |
| `TaskTags_proofs` | `TypeCorrect`, `VocabularyStaysSound`, `ReplacementsBounded`, `DeletionsBounded`, `ChangesAreTold` |
| `WorkflowDocument_proofs` | `TypeCorrect`, `AcceptsExactly`, `EveryProblemReported`, `StoredIsReadable` |
| `Requests_proofs` | `TypeCorrect`, `NothingIsLeaked`, `TitleClashesAreTranslated`, `AnswersStayTrue`, `OnlyReleasesRepeat`, and `ImplementsRegistry`, the refinement `Spec => AtomicWrites` |
| `TaskListing_proofs` | `TypeCorrect`, `ListingIsExact`, `SkipsAreBounded`, `RepeatsAreBounded` |

No invariant of the runs is inductive alone. Each module has an `Inv` that is, with one lemma
per action of `Next`, and the theorems follow from it.

*`TaskWorkflow`.* `Inv` adds what ties a session's statement to
the guard: `Flow` (which requests reach which statement), `Guarded` (an exclusive holder is
alone, and every statement of a critical section holds the guard in its mode), `Seeded`,
`Fresh` (a status write's definition is the active one, which is why PUT must wait for it),
`Checked` (what the verdict established until the commit) and `Cleared` (what the strand
check established until the insert). No stranding is then the meeting of `Fresh` with `Checked`
(a write commits a state of the active definition) and of `Cleared` with `Guarded` (no write
commits between the strand check and the insert). The refinement needs one more invariant,
`Born` (the row a session loaded stays inserted), so that a second DELETE maps to a stutter.

*Events.* The last event about a task is found from the back of the outbox, so each commit
needs what it appends and that nothing older is later. What a commit tells depends on the
row the session loaded, not on the row it overwrites: the events are truthful all the same,
because a status that did not move is neither written nor told. Versions are announced by
counting: the versions told are `2 .. Len(workflows)` in order.

*Limits.* `Room` says that the items in a state and the sessions about to enter it are at most
the limit plus the number of other sessions. It is inductive because the session that checks
last saw the count below the limit, and a commit takes one from those to come for each item it
adds; a PUT that tightens a limit finds no session between check and commit (`Guarded`).

*`Outbox`.* Claims of open transactions are disjoint and their rows still deliverable
(`LocksExclude`), only claimed rows are marked, each one way (`MarksClaimed`), the subscribers
called so far have received the row (`CalledReceived`). `Accounted` counts, for an event, the
attempts made against those recorded and those that open transactions are about to record; a
relay that crashes or loses its connection moves from the recorders to the losers and pays a
fault for it. The refinement maps a commit to one abstract step per settled row.

*`TaskTags`.* `Local(s)` is what a session knows of its request: the keys it has flushed are
nobody else's (`Mints`), each id it resolved stands for a name asked for, or did until it was
deleted (`Resolves`), and a link of its task that its DELETE does not remove is a late one
(`Dooms`). `Apart` keeps the minted ids and held keys of two sessions disjoint, which is where
the unique index does its work.

*`Requests`.* `OnCourse` lists what may be left of a handler's calls, per kind of request;
`Pends` and `Holds` say which rows are pending and which keys are held at each call, so that a
title is pending only where its clash is translated; `Commits` and `Tells` tie the answer to
the commit, and `Tables` says that keys are exclusive, rows unique, and the row a create names
is there only if that create committed and has its title until a committed write takes it away
(`Births`). `OnlyReleasesRepeat` is then `UniqueRows` over the rows of two attempts. `Missing`, the recursive function that picks the
tags to mint, is handled by showing that its equation has a solution for every list, by
induction over the list's length.

*`WorkflowDocument`.* `Parsed` relates the states, the table and the errors so far to the
entries looked at so far: the names are those of the sound entries, the table's moves those of
the faultless ones, and the errors with a position are exactly the problems of those entries.
`Searching` is the worklist's invariant: what was found is needed by every closed set that
holds the entries, and what was found and is not on the frontier has its successors found;
with an empty frontier the found states are the least closed set, so they are all states
exactly when every closed set is. `StoredSound` carries the definition over the reload; the
lemmas `DocumentStates` and `DocumentMoves` say what its canonical document contains, for the
sorted list of its moves (`ListedLists`, by induction over the size of the set).

*`TaskListing`.* `Inv` says what each statement leaves behind of the tasks nobody wrote since:
which ids carry the tags (`Resolved`, where counting distinct keys makes AND exact), what the
page shows and in which order (`Listed`), how many match (`Counted`), their tags (`Named`). The order is total
because of its last tiebreak, so a task's place is the number of tasks before it, and a page is
the tasks whose places are in its stretch. `SkipsPaid` and `RepeatsPaid` account for a walk in
places: the steady tasks it has missed are those before the place it has come to, the listed
ones it will repeat are those at that place or behind. Taking a task out of a set lets at most
one other come before a given place (`AheadOfPart`), putting one in moves at most one over it
(`BehindOfPart`), so a departure pays for one miss and an arrival for one repetition. While a
page is selected by ids resolved before, the selection is not what matches, and the invariants
speak of the matches nobody wrote since the ids were resolved; a task that lost its tags is the
only kind selected without matching and is paid for by its loss.

`NaturalFacts` has the two facts about natural numbers most of these rest on: a nonempty set
has a least element, and induction up to a number with a set in the place of a property, which
the provers can instantiate where they cannot instantiate an operator.

Only model-checked: liveness (`EventuallySettled`, `StopReturns`, `HandlersEnd`,
`ParseReturns`), which is beyond the prover: its backends know neither fairness nor `ENABLED`.
Every other property of a passing run is stated by a theorem.

## Not modelled

- Field rules of request bodies, and titles as text: a title is its key. That `casefold` can make
  a key longer than its column is listed as a hazard and left to a test.
- Which tasks in a deletion race are told twice: the second of two concurrent DELETEs commits a
  second `TaskDeleted`; the models allow it and no property forbids it. Likewise another
  spelling of a tag is announced as a change.
- A minted tag that no task ends up with: reachable in `TaskTags`, and harmless to the invariants.
- An idempotency key. The service has none, and no document promises that a create sent again is
  made once; `RepeatsNeedRelease` says exactly when it is made twice, and the `requests` run
  reaches that case: another client renames or deletes the new task, and the retry finds the
  title free.
- Request ids, security headers, compression, error layout and details, configuration, logging,
  OpenAPI: per-request formatting with no effect on state.
- In `Requests`: the advisory guard (`TaskWorkflow` has it; it is a handler's first statement, so
  nobody waits for it while holding a key), connection recycling and pre-ping, more than one
  worker (another worker's handler differs in the pool it uses).
- The order in which PostgreSQL queues waiters for the guard; only who may hold it.
- Re-driving a dead letter: an operator's manual SQL.
- Migrations and container start: run once before the service.
