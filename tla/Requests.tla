------------------------------ MODULE Requests ------------------------------
(***************************************************************************)
(* The request path of one worker, as its clients see it: the connection   *)
(* pool, the transaction of a handler, the unique keys it flushes, the     *)
(* commit, the tags read for the response, the status an error becomes,    *)
(* the request timeout, and a client that sends its request again.         *)
(*                                                                         *)
(* A handler runs the calls of its service method in order (its plan).     *)
(* SQLAlchemy flushes pending rows before any query, so where a duplicate  *)
(* key surfaces depends on what is pending at the next statement.  An      *)
(* INSERT of a unique key, or an UPDATE or DELETE of a row, waits for the  *)
(* open transaction that holds it and is decided when that one has ended.  *)
(* Handlers that wait for each other in a circle lose one of them to the   *)
(* database.  A session holds a connection from its first statement to its *)
(* commit or rollback; the response read after a commit takes a new one.   *)
(*                                                                         *)
(* Starlette runs the handler in a task of its own: the 504 answers the    *)
(* client, the handler goes on and its own answer is dropped.              *)
(*                                                                         *)
(* Left to other modules: the guard and the checks of the engine           *)
(* (TaskWorkflow; here a refusal that may happen), the rows and locks of   *)
(* task_tags (TaskTags; here a tag set that may or may not have moved).    *)
(***************************************************************************)
EXTENDS Naturals, FiniteSets, SequencesExt

CONSTANTS Client,
          Attempts,      \* bound: how often each client sends its request
          PoolSize,      \* pool_size + max_overflow
          Title, Tag,    \* title keys and tag name keys
          Task,          \* the tasks there are at the start
          TitleOf,       \* and the title of each
          Omitted,       \* no "tags" in a PATCH
          NoRow, NoAnswer, NoKey,
          Scenario,      \* who sends which request
          Verdicts       \* the refusals of the engine that may happen

Handler == UNION {{c} \X (1..Attempts[c]) : c \in Client}
Id      == Task \cup Handler    \* a create names its row itself
Key     == Title \cup Tag \cup Id

\* A request may name any id: a task there was, or the row a create has made.
Request ==
    [kind : {"create"}, title : Title, tags : Seq(Tag)]
      \cup [kind : {"update"}, task : Id, title : Title, tags : Seq(Tag) \cup {Omitted}]
      \cup [kind : {"delete", "get"}, task : Id]
      \cup [kind : {"ready", "diagnose", "oversized", "invalid"}]

ASSUME PoolAssumption == PoolSize \in Nat \ {0} /\ Attempts \in [Client -> Nat]
ASSUME RequestAssumption ==
    /\ Verdicts \subseteq {"transition_forbidden", "invalid_transition",
                          "wip_limit_exceeded", "unknown_status"}
    /\ Scenario \subseteq [Client -> Request]
    /\ TitleOf \in [Task -> Title] /\ IsInjective(TitleOf)
    /\ Title \cap Tag = {} /\ (Title \cup Tag) \cap Id = {}
    /\ Task \cap Handler = {} /\ NoRow \notin Title /\ NoKey \notin Key
    /\ Omitted \notin Seq(Tag) /\ NoAnswer \notin Nat

VARIABLES
    req,        \* the request each client sends
    row,        \* the tasks table: each id's title_key, or NoRow
    tags,       \* the tags table: the name_keys there are
    plan,       \* the calls a handler has still to make
    pending,    \* keys of rows its session has not flushed yet
    held,       \* keys its open transaction keeps others from
    conn,       \* handlers holding a pooled connection
    loaded,     \* the title its row had when it was loaded
    dirty,      \* handlers with something to commit
    committed,  \* handlers whose write the database has taken
    answer,     \* the status the client was sent
    clash       \* history: the unique key a handler failed on

db   == <<row, tags>>
vars == <<req, row, tags, plan, pending, held, conn, loaded, dirty, committed, answer, clash>>

Req(h)    == req[h[1]]
Step(h)   == IF plan[h] = << >> THEN "done" ELSE Head(plan[h])
Unsent(h) == plan[h] = << >> /\ answer[h] = NoAnswer

-----------------------------------------------------------------------------
\* The calls of a request, in the order the service makes them.  "begin" is
\* the first statement (guard, definition, row), "mutate" changes the loaded
\* row in memory, "read" fetches the tags for the response, "close" is the
\* end of the session once the response is out.

TagsGiven(r) == r.tags \notin {Omitted, << >>}

\* A create without names stages no tags; a PUT without any clears them.
CreateCalls(r) == IF TagsGiven(r) THEN <<"stage", "tags", "link">> ELSE << >>
Restaging(r)   == IF r.tags = Omitted THEN << >> ELSE <<"tags", "link">>

\* mutant: the row is mutated before the tags are staged
UpdateCallsMutatingFirst(r) == <<"mutate">> \o Restaging(r)
UpdateCalls(r)              == Restaging(r) \o <<"mutate">>

Plan(r) ==
    CASE r.kind = "create" -> <<"begin">> \o CreateCalls(r) \o <<"persist", "read", "close">>
      [] r.kind = "update" -> <<"begin">> \o UpdateCalls(r) \o <<"persist", "read", "close">>
      [] r.kind = "delete" -> <<"begin", "mutate", "persist", "close">>
      [] r.kind = "get"    -> <<"begin", "read", "close">>
      [] r.kind \in {"ready", "diagnose"} -> <<"probe", "close">>

\* The calls that send a query, and so flush what is pending first.
Queries == {"stage", "tags", "link", "persist", "read"}

\* The row a write is about.
Target(h) == IF Req(h).kind = "create" THEN h ELSE Req(h).task

\* mutant: a new title does not count as a change
ChangedButTitle(h) == FALSE
Changed(h)         == Req(h).title # loaded[h]

-----------------------------------------------------------------------------
\* The status of an answer

\* Errors of the engine and of the features by class, then the database's:
\* "operational" is what the driver reports as OperationalError, "driver"
\* any other error of the database that nothing translates.
StatusOf ==
    [transition_forbidden |-> 403, task_not_found |-> 404,
     duplicate_task |-> 409, invalid_transition |-> 409, wip_limit_exceeded |-> 409,
     payload_too_large |-> 413, validation_error |-> 422, unknown_status |-> 422,
     driver |-> 500, operational |-> 503, pool_timeout |-> 503, request_timeout |-> 504]

DatabaseErrors == {"operational", "driver"}
Status         == {StatusOf[e] : e \in DOMAIN StatusOf} \cup {200, 201, 204}
Retryable      == {503, 504}

SuccessOf(r) == CASE r.kind = "create" -> 201 [] r.kind = "delete" -> 204 [] OTHER -> 200

\* A client is answered once; what a handler has to say after a 504 is dropped.
Told(h, s)   == IF answer[h] = NoAnswer THEN s ELSE answer[h]
Answer(h, s) == answer' = [answer EXCEPT ![h] = Told(h, s)]

-----------------------------------------------------------------------------
\* The session

\* mutant: an error after a failed flush keeps the transaction open
EndTransactionIfClean(h) ==
    IF held[h] = {} THEN conn' = conn \ {h} /\ held' = held ELSE UNCHANGED <<conn, held>>
EndTransaction(h) ==
    /\ conn' = conn \ {h}
    /\ held' = [held EXCEPT ![h] = {}]

\* mutant: overflow connections are not counted
ConnectedUnbounded(h) == conn' = conn \cup {h}
Connected(h) ==
    /\ h \in conn \/ Cardinality(conn) < PoolSize
    /\ conn' = conn \cup {h}

\* The next call; a handler with nothing left to do but close has answered.
Continue(h, calls) ==
    /\ plan' = [plan EXCEPT ![h] = calls]
    /\ IF calls = <<"close">> THEN Answer(h, SuccessOf(Req(h))) ELSE UNCHANGED answer

\* The handler raises: the session is rolled back and closed, then the
\* exception handlers answer.
Raise(h, s, k) ==
    /\ plan'    = [plan EXCEPT ![h] = << >>]
    /\ pending' = [pending EXCEPT ![h] = << >>]
    /\ dirty'   = dirty \ {h}
    /\ clash'   = [clash EXCEPT ![h] = k]
    /\ Answer(h, s)
    /\ EndTransaction(h)
    /\ UNCHANGED <<req, db, loaded, committed>>

Holders(h, k) == {g \in Handler \ {h} : k \in held[g]}

\* Whom the statement h is about to run waits for.  Rows of task_tags
\* reference the task, so a commit waits for whoever is writing it.
Awaited(h) ==
    IF pending[h] # << >> /\ Step(h) \in Queries THEN Holders(h, Head(pending[h]))
    ELSE IF Step(h) = "persist" /\ pending[h] = << >> THEN Holders(h, Target(h))
    ELSE {}

Deadlocked(h) ==
    /\ Awaited(h) # {}
    /\ \E circle \in SUBSET Handler :
         /\ h \in circle
         /\ \A g \in circle : Awaited(g) \cap circle # {}

\* mutant: the tasks table has no unique title key
TakenTagsOnly(h, k) == k \in tags
Taken(h, k) ==
    \/ k \in tags
    \/ k \in Title /\ \E i \in Id \ {Target(h)} : row[i] = k

\* An UPDATE, or a link, whose row was deleted after it was loaded.
\* mutant: a row that is gone is written again
UnmatchedNever(h) == FALSE
Unmatched(h)      == Req(h).kind = "update" /\ row[Target(h)] = NoRow

-----------------------------------------------------------------------------
Init ==
    /\ req \in Scenario
    /\ row       = [i \in Id |-> IF i \in Task THEN TitleOf[i] ELSE NoRow]
    /\ tags      = {}
    /\ plan      = [h \in Handler |-> << >>]
    /\ pending   = [h \in Handler |-> << >>]
    /\ held      = [h \in Handler |-> {}]
    /\ conn      = {}
    /\ loaded    = [h \in Handler |-> NoRow]
    /\ dirty     = {}
    /\ committed = {}
    /\ answer    = [h \in Handler |-> NoAnswer]
    /\ clash     = [h \in Handler |-> NoKey]

\* A client sends its request, or sends it again after an answer that says
\* the service could not serve it.  What the boundary refuses gets no session.
Send(c, n) ==
    LET h == <<c, n>> IN
    /\ Unsent(h)
    /\ n > 1 => answer[<<c, n - 1>>] \in Retryable
    /\ CASE req[c].kind = "oversized" ->
              Answer(h, StatusOf.payload_too_large) /\ UNCHANGED plan
         [] req[c].kind = "invalid" ->
              Answer(h, StatusOf.validation_error) /\ UNCHANGED plan
         [] OTHER ->
              plan' = [plan EXCEPT ![h] = Plan(req[c])] /\ UNCHANGED answer
    /\ UNCHANGED <<req, db, pending, held, conn, loaded, dirty, committed, clash>>

\* The first statements: the definition and, but for a create, the row, which
\* is missed before the engine refuses anything.  No role guards a create.
Begin(h) ==
    /\ Step(h) = "begin"
    /\ \/ /\ Req(h).kind = "create" \/ row[Target(h)] # NoRow
          /\ Connected(h)
          /\ Continue(h, Tail(plan[h]))
          /\ loaded'  = [loaded EXCEPT ![h] = row[Target(h)]]
          /\ pending' = [pending EXCEPT ![h] = IF Req(h).kind = "create" THEN <<Req(h).title>> ELSE @]
          /\ dirty'   = IF Req(h).kind = "create" THEN dirty \cup {h} ELSE dirty
          /\ UNCHANGED <<req, db, held, committed, clash>>
       \/ /\ Req(h).kind # "create" /\ row[Target(h)] = NoRow
          /\ h \in conn \/ Cardinality(conn) < PoolSize
          /\ Raise(h, StatusOf.task_not_found, NoKey)
       \/ \E e \in Verdicts :
            /\ \/ Req(h).kind = "create" /\ e # "transition_forbidden"
               \/ Req(h).kind = "update" /\ row[Target(h)] # NoRow
            /\ h \in conn \/ Cardinality(conn) < PoolSize
            /\ Raise(h, StatusOf[e], NoKey)

\* One pending row reaches the database.  Only stage and persist translate a
\* violated constraint, and only that of the title.  An UPDATE of a row that
\* is gone matches nothing, which the session takes for an error; a DELETE
\* of one passes.
Flush(h) ==
    /\ pending[h] # << >>
    /\ Step(h) \in Queries
    /\ Awaited(h) = {}
    /\ LET k == Head(pending[h]) IN
       \/ /\ Taken(h, k)
          /\ Raise(h, IF k \in Title /\ Step(h) \in {"stage", "persist"}
                      THEN StatusOf.duplicate_task ELSE StatusOf.driver, k)
       \/ /\ k \in Id /\ Unmatched(h)
          /\ Raise(h, StatusOf.driver, NoKey)
       \/ /\ ~Taken(h, k)
          /\ k \in Id => ~Unmatched(h)
          /\ pending' = [pending EXCEPT ![h] = Tail(@)]
          /\ held'    = [held EXCEPT ![h] = @ \cup {k} \cup
                            (IF k \in Id THEN {row[k]} \ {NoRow} ELSE {})]
          /\ UNCHANGED <<req, db, plan, conn, loaded, dirty, committed, answer, clash>>

\* stage and set_for_task are done once their rows are flushed.
Flushed(h) ==
    /\ Step(h) \in {"stage", "link"}
    /\ pending[h] = << >>
    /\ Continue(h, Tail(plan[h]))
    /\ UNCHANGED <<req, db, pending, held, conn, loaded, dirty, committed, clash>>

\* The names of a sequence that have no tag, in their order.
Missing(names) ==
    LET among[i \in 0..Len(names)] ==
          IF i = 0 THEN << >>
          ELSE IF names[i] \in tags THEN among[i - 1]
          ELSE Append(among[i - 1], names[i])
    IN  among[Len(names)]

\* The names are resolved: those without a tag are minted in the caller's
\* order.  An update whose tags did not move does not rewrite its links.
ResolveTags(h) ==
    /\ Step(h) = "tags"
    /\ pending[h] = << >>
    /\ LET missing == Missing(Req(h).tags) IN
       /\ pending' = [pending EXCEPT ![h] = missing]
       /\ \/ /\ Continue(h, Tail(plan[h]))
             /\ dirty' = dirty \cup {h}
          \/ /\ Req(h).kind = "update" /\ missing = << >>
             /\ Continue(h, Tail(Tail(plan[h])))
             /\ UNCHANGED dirty
    /\ UNCHANGED <<req, db, held, conn, loaded, committed, clash>>

\* The loaded row changes in memory; an update that changed nothing skips
\* the commit and answers from the transaction it is in.
Mutate(h) ==
    /\ Step(h) = "mutate"
    /\ LET writes == Req(h).kind = "delete" \/ Changed(h) IN
       /\ dirty'   = IF writes THEN dirty \cup {h} ELSE dirty
       /\ pending' = [pending EXCEPT ![h] = @ \o
             (IF ~writes THEN << >>
              ELSE IF Req(h).kind = "delete" THEN <<Target(h)>>
              ELSE <<Target(h), Req(h).title>>)]
    /\ Continue(h, IF h \notin dirty' /\ plan[h][2] = "persist"
                   THEN Tail(Tail(plan[h])) ELSE Tail(plan[h]))
    /\ UNCHANGED <<req, db, held, conn, loaded, committed, clash>>

\* The row, its tags and the commit.  An answer of the database to the COMMIT
\* may be lost: the write is made, the handler sees an error.
Written(h) ==
    CASE Req(h).kind = "create" -> [row EXCEPT ![h] = Req(h).title]
      [] Req(h).kind = "delete" -> [row EXCEPT ![Target(h)] = NoRow]
      [] Req(h).kind = "update" ->
           IF Target(h) \in held[h] THEN [row EXCEPT ![Target(h)] = Req(h).title] ELSE row

Commit(h) ==
    /\ Step(h) = "persist"
    /\ pending[h] = << >>
    /\ Awaited(h) = {}
    /\ \/ /\ ~Unmatched(h)
          /\ row'       = Written(h)
          /\ tags'      = tags \cup (held[h] \cap Tag)
          /\ committed' = committed \cup {h}
          /\ dirty'     = dirty \ {h}
          /\ EndTransaction(h)
          /\ UNCHANGED <<req, pending, loaded, clash>>
          /\ \/ Continue(h, Tail(plan[h]))
             \/ \E e \in DatabaseErrors :
                  /\ plan' = [plan EXCEPT ![h] = << >>]
                  /\ Answer(h, StatusOf[e])
       \/ /\ Unmatched(h)
          /\ Raise(h, StatusOf.driver, NoKey)

\* The tags of the answer, or SELECT 1.
Read(h) ==
    /\ Step(h) \in {"read", "probe"}
    /\ pending[h] = << >>
    /\ Connected(h)
    /\ Continue(h, Tail(plan[h]))
    /\ UNCHANGED <<req, db, pending, held, loaded, dirty, committed, clash>>

\* The session outlives its response.
Close(h) ==
    /\ Step(h) = "close"
    /\ plan' = [plan EXCEPT ![h] = << >>]
    /\ EndTransaction(h)
    /\ UNCHANGED <<req, db, pending, loaded, dirty, committed, answer, clash>>

\* Every connection is taken until pool_timeout: an error no probe catches.
PoolTimeout(h) ==
    /\ Step(h) \in {"begin", "read", "probe"}
    /\ h \notin conn
    /\ Cardinality(conn) >= PoolSize
    /\ Raise(h, StatusOf.pool_timeout, NoKey)

\* The database ends one transaction of a circle.
Victim(h) ==
    /\ Deadlocked(h)
    /\ \E e \in DatabaseErrors : Raise(h, StatusOf[e], NoKey)

\* A statement fails: the connection is lost, a lock or statement timeout.
\* /diagnose reports the first kind of error in a 200; /readyz's own 503 has
\* the status the handlers would give it.
Fail(h) ==
    /\ Step(h) \in Queries \cup {"begin", "probe"}
    /\ h \in conn \/ Cardinality(conn) < PoolSize
    /\ \E e \in DatabaseErrors :
         Raise(h, IF Req(h).kind = "diagnose" /\ e = "operational" THEN 200 ELSE StatusOf[e], NoKey)

RequestTimeout(h) ==
    /\ plan[h] # << >>
    /\ answer[h] = NoAnswer
    /\ Answer(h, StatusOf.request_timeout)
    /\ UNCHANGED <<req, db, plan, pending, held, conn, loaded, dirty, committed, clash>>

Proceed(h) ==
    \/ Begin(h) \/ Flush(h) \/ Flushed(h) \/ ResolveTags(h) \/ Mutate(h)
    \/ Commit(h) \/ Read(h) \/ Close(h) \/ PoolTimeout(h) \/ Victim(h)

Next ==
    \/ \E h \in Handler : Send(h[1], h[2])
    \/ \E h \in Handler : Proceed(h) \/ Fail(h) \/ RequestTimeout(h)

\* Handlers run on, a full pool turns them away, the database breaks circles.
\* Nothing rests on the request timeout or on a failing database.
Fairness == \A h \in Handler : WF_vars(Proceed(h))
Spec     == Init /\ [][Next]_vars /\ Fairness

-----------------------------------------------------------------------------
\* Properties

\* Type invariant; never more connections out than the pool has.
TypeOK ==
    /\ req \in Scenario
    /\ row \in [Id -> Title \cup {NoRow}]
    /\ tags \subseteq Tag
    /\ plan \in [Handler -> Seq(Queries \cup {"begin", "mutate", "probe", "close"})]
    /\ pending \in [Handler -> Seq(Key)]
    /\ held \in [Handler -> SUBSET Key]
    /\ conn \subseteq Handler /\ Cardinality(conn) <= PoolSize
    /\ loaded \in [Handler -> Title \cup {NoRow}]
    /\ dirty \subseteq Handler /\ committed \subseteq Handler
    /\ answer \in [Handler -> Status \cup {NoAnswer}]
    /\ clash \in [Handler -> Title \cup Tag \cup {NoKey}]

\* What a client is told is true, now and later: after a success its write is
\* in the database (or there was nothing to write), after a 4xx it is not and
\* never will be.  Only a 5xx leaves the client in doubt (errors.py, service.py).
AnswersTrue ==
    \A h \in Handler :
        /\ answer[h] \in {201, 204} => h \in committed
        /\ answer[h] = 200 /\ Req(h).kind = "update" =>
               h \in committed \/ Req(h).title = loaded[h]
        /\ answer[h] \in 400..499 => h \notin committed /\ plan[h] = << >>

\* A title that is taken is a 409, whichever call flushed the row and whatever
\* tags went with it: the flush must not happen outside stage and persist
\* (TaskService.replace, patch and create, the comment in replace).
TitleClashIs409 ==
    \A h \in Handler : clash[h] \in Title => answer[h] \in {409, 504}

\* Keys and rows are held only under a connection, and a handler that has
\* ended keeps none of them: a handler that waits for the pool keeps nothing
\* others wait for (session_factory, stage and _commit_or_translate).
NothingLeaks ==
    \A h \in Handler :
        /\ held[h] # {} => h \in conn
        /\ h \in conn => plan[h] # << >>

\* A write that takes the title of h's row from it.
Releases(g, h) ==
    /\ Req(g).kind \in {"update", "delete"}
    /\ Req(g).task = h
    /\ Req(g).kind = "update" => Req(g).title # Req(h).title

\* A create sent again after a 503 or a 504 is not made a second time, however
\* late its earlier attempt commits, unless somebody has renamed or deleted the
\* task it made: nothing but the unique title key tells that the two attempts
\* are one request (stage, persist and RequestTimeoutMiddleware).
RepeatsNeedRelease ==
    \A c \in Client : req[c].kind = "create" =>
        \A m, n \in 1..Attempts[c] :
            m # n /\ {<<c, m>>, <<c, n>>} \subseteq committed =>
                \E g \in committed : Releases(g, <<c, m>>) \/ Releases(g, <<c, n>>)

\* The statements of all handlers together behave like single steps on a
\* registry of unique titles.
Creates  == {h \in Handler : Req(h).kind = "create"}
Registry == INSTANCE TitleRegistry WITH used <- Task \cup (committed \cap Creates)
AtomicWrites == Registry!Spec

\* Every handler ends and gives back what it holds, whoever waits for whom
\* for a row, a key or a connection, without the help of the request timeout.
HandlersEnd == \A h \in Handler : plan[h] # << >> ~> plan[h] = << >>
=============================================================================
