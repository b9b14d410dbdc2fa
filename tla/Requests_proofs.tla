-------------------------- MODULE Requests_proofs --------------------------
(***************************************************************************)
(* Proofs about Requests, for any clients, attempts, titles, tags, tasks,  *)
(* requests and pool size: the types, what handlers hold, what clients are *)
(* told, and that the handlers implement TitleRegistry.                    *)
(***************************************************************************)
EXTENDS Requests, NaturalFacts, SequenceTheorems

-----------------------------------------------------------------------------
\* The inductive invariant

\* What may be left of the calls of a request.
Closing      == <<"close">>
Reading      == <<"read", "close">>
Saving       == <<"persist", "read", "close">>
Probing      == <<"probe", "close">>
Getting      == <<"begin", "read", "close">>
CreateLinks  == <<"link", "persist", "read", "close">>
CreateTags   == <<"tags", "link", "persist", "read", "close">>
CreateStage  == <<"stage", "tags", "link", "persist", "read", "close">>
CreateTagged == <<"begin", "stage", "tags", "link", "persist", "read", "close">>
CreatePlain  == <<"begin", "persist", "read", "close">>
UpdateRow    == <<"mutate", "persist", "read", "close">>
UpdateLinks  == <<"link", "mutate", "persist", "read", "close">>
UpdateTags   == <<"tags", "link", "mutate", "persist", "read", "close">>
UpdateTagged == <<"begin", "tags", "link", "mutate", "persist", "read", "close">>
UpdatePlain  == <<"begin", "mutate", "persist", "read", "close">>
Removing     == <<"persist", "close">>
DeleteRow    == <<"mutate", "persist", "close">>
DeletePlain  == <<"begin", "mutate", "persist", "close">>

Ends  == {<< >>, Closing}
Saves == Ends \cup {Reading, Saving}

OnCourse(r, p) ==
    \/ /\ r.kind = "create" /\ TagsGiven(r)
       /\ p \in Saves \cup {CreateLinks, CreateTags, CreateStage, CreateTagged}
    \/ r.kind = "create" /\ p \in Saves \cup {CreatePlain}
    \/ /\ r.kind = "update" /\ r.tags # Omitted
       /\ p \in Saves \cup {UpdateRow, UpdateLinks, UpdateTags, UpdateTagged}
    \/ r.kind = "update" /\ p \in Saves \cup {UpdateRow, UpdatePlain}
    \/ r.kind = "delete" /\ p \in Ends \cup {Removing, DeleteRow, DeletePlain}
    \/ r.kind = "get" /\ p \in Ends \cup {Reading, Getting}
    \/ r.kind \in {"ready", "diagnose"} /\ p \in Ends \cup {Probing}
    \/ r.kind \in {"oversized", "invalid"} /\ p = << >>

InTransaction == {"stage", "tags", "link", "mutate", "persist"}

\* A handler between its first statement and its commit has a connection;
\* without one it holds nothing, and it is not over while it has one.
Connects(h) ==
    /\ Step(h) \in InTransaction => h \in conn
    /\ held[h] # {} => h \in conn
    /\ h \in conn => Step(h) # "done"
    /\ Step(h) = "begin" => held[h] = {}

\* What may be pending at each call: a title only where its clash is translated.
Pends(h) ==
    /\ Step(h) \notin {"stage", "link", "persist"} => pending[h] = << >>
    /\ Step(h) = "stage" => pending[h] \in {<< >>, <<Req(h).title>>}
    /\ Step(h) = "link" => pending[h] \in Seq(Tag)
    /\ Step(h) = "persist" =>
         CASE Req(h).kind = "create" -> pending[h] \in {<< >>, <<Req(h).title>>}
           [] Req(h).kind = "update" ->
                pending[h] \in {<< >>, <<Req(h).title>>, <<Target(h), Req(h).title>>}
           [] Req(h).kind = "delete" -> pending[h] \in {<< >>, <<Target(h)>>}

\* What a handler holds of the keys its commit needs.
Holds(h) ==
    /\ Req(h).kind = "delete" => held[h] \cap Tag = {}
    /\ Req(h).kind = "update" /\ Step(h) \in {"tags", "link", "mutate"} => held[h] \subseteq Tag
    /\ Req(h).kind = "update" /\ pending[h] = <<Req(h).title>> => Target(h) \in held[h]
    /\ Req(h).kind = "update" /\ Step(h) = "persist" /\ pending[h] = << >> /\ Target(h) \in held[h]
         => Req(h).title \in held[h]
    /\ Req(h).kind = "create" /\ pending[h] = << >> /\ Step(h) \in InTransaction
         => Req(h).title \in held[h]
    /\ Req(h).kind = "create" /\ Step(h) = "link" => Req(h).title \in held[h]

\* Who has committed, and what that means for the answer still to come.
Commits(h) ==
    /\ h \in committed => Step(h) \in {"done", "read", "close"}
    /\ Unsent(h) => h \notin committed
    /\ Req(h).kind = "create" /\ Step(h) \in {"read", "close"} => h \in committed
    /\ Req(h).kind = "delete" /\ Step(h) = "close" => h \in committed
    /\ Req(h).kind = "update" /\ Step(h) \in {"read", "close"} =>
         h \in committed \/ Req(h).title = loaded[h]

\* The client of a handler that runs has no answer, or its 504.
Tells(h) ==
    /\ Step(h) \notin {"done", "close"} => answer[h] \in {NoAnswer, 504}
    /\ Step(h) = "close" => answer[h] # NoAnswer
    /\ clash[h] \in Title => answer[h] \in {409, 504}
    /\ answer[h] \in {201, 204} => h \in committed
    /\ answer[h] = 200 /\ Req(h).kind = "update" =>
         h \in committed \/ Req(h).title = loaded[h]
    /\ answer[h] \in 400..499 => h \notin committed /\ plan[h] = << >>

Local(h) ==
    /\ OnCourse(Req(h), plan[h])
    /\ Connects(h)
    /\ Pends(h)
    /\ Holds(h)
    /\ Commits(h)
    /\ Tells(h)

\* No key or row is held twice.
Exclusive == \A g, h \in Handler, k \in Key : k \in held[g] /\ k \in held[h] => g = h

UniqueRows == \A i, j \in Id : row[i] = row[j] /\ row[i] # NoRow => i = j

\* The title of a row is held by nobody but the one that writes the row.
HeldTitles ==
    \A h \in Handler, i \in Id : row[i] # NoRow /\ row[i] \in held[h] =>
        /\ Req(h).kind \in {"update", "delete"}
        /\ i = Target(h)
        /\ i \in held[h]

\* A tag that is held is being minted.
HeldTags == \A h \in Handler : held[h] \cap tags = {}

\* The row a create names is there only once the create has committed, and
\* keeps the title it was given until somebody takes it away.
Births ==
    \A h \in Handler :
        /\ row[h] # NoRow => Req(h).kind = "create" /\ h \in committed
        /\ Req(h).kind = "create" /\ h \in committed =>
             row[h] = Req(h).title \/ \E g \in committed : Releases(g, h)

Tables == Exclusive /\ UniqueRows /\ HeldTitles /\ HeldTags /\ Births

Inv ==
    /\ TypeOK
    /\ IsFiniteSet(conn)
    /\ \A h \in Handler : Local(h)
    /\ Tables

-----------------------------------------------------------------------------
\* Requests and handlers

Kinds == {"create", "update", "delete", "get", "ready", "diagnose", "oversized", "invalid"}

\* What a request of each kind carries.
LEMMA RequestShape ==
    ASSUME NEW r \in Request
    PROVE  /\ r.kind \in Kinds
           /\ r.kind = "create" => r.title \in Title /\ r.tags \in Seq(Tag)
           /\ r.kind = "update" =>
                r.task \in Id /\ r.title \in Title /\ r.tags \in Seq(Tag) \cup {Omitted}
           /\ r.kind \in {"delete", "get"} => r.task \in Id
BY DEF Request, Kinds

LEMMA HandlerShape ==
    ASSUME NEW h \in Handler
    PROVE  h[1] \in Client /\ h[2] \in 1..Attempts[h[1]] /\ h = <<h[1], h[2]>>
BY DEF Handler

LEMMA ReqType ==
    ASSUME req \in Scenario, NEW h \in Handler
    PROVE  Req(h) \in Request
BY HandlerShape, RequestAssumption DEF Req

LEMMA TargetType ==
    ASSUME req \in Scenario, NEW h \in Handler
    PROVE  /\ Req(h).kind = "create" => Target(h) = h
           /\ Req(h).kind \in {"update", "delete", "get"} => Target(h) = Req(h).task
           /\ Req(h).kind \in {"create", "update", "delete", "get"} => Target(h) \in Id
BY ReqType, RequestShape DEF Target, Id

\* The kinds of keys are apart, and so are the ids of tasks and of handlers.
LEMMA KeysApart ==
    /\ Title \cap Tag = {} /\ Title \cap Id = {} /\ Tag \cap Id = {}
    /\ Task \cap Handler = {} /\ NoRow \notin Title /\ NoKey \notin Key
    /\ Title \subseteq Key /\ Tag \subseteq Key /\ Id \subseteq Key
    /\ Task \subseteq Id /\ Handler \subseteq Id
BY RequestAssumption DEF Key, Id

LEMMA StatusType ==
    /\ Status = {200, 201, 204, 403, 404, 409, 413, 422, 500, 503, 504}
    /\ NoAnswer \notin Status
    /\ \A e \in DatabaseErrors : StatusOf[e] \in {500, 503}
    /\ \A e \in Verdicts : StatusOf[e] \in {403, 409, 422}
<1>1. Status = {200, 201, 204, 403, 404, 409, 413, 422, 500, 503, 504}
  <2>. DEFINE D == {"transition_forbidden", "task_not_found", "duplicate_task", "invalid_transition",
                    "wip_limit_exceeded", "payload_too_large", "validation_error",
                    "unknown_status", "driver", "operational", "pool_timeout", "request_timeout"}
  <2>1. DOMAIN StatusOf = D
    BY DEF StatusOf
  <2>2. {StatusOf[e] : e \in D} = {403, 404, 409, 413, 422, 500, 503, 504}
    BY DEF StatusOf
  <2>. QED  BY <2>1, <2>2 DEF Status
<1>2. NoAnswer \notin Status
  BY <1>1, RequestAssumption
<1>3. \A e \in DatabaseErrors : StatusOf[e] \in {500, 503}
  BY DEF DatabaseErrors, StatusOf
<1>4. \A e \in Verdicts : StatusOf[e] \in {403, 409, 422}
  BY RequestAssumption DEF StatusOf
<1>. QED  BY <1>1, <1>2, <1>3, <1>4

\* Neither no answer nor a 504 says anything about the write.
LEMMA Doubt ==
    /\ NoAnswer \notin {200, 201, 204, 409, 413, 422, 504} /\ NoAnswer \notin 400..499
    /\ 504 \notin 400..499
<1>1. NoAnswer \notin Nat
  BY RequestAssumption
<1>. QED  BY <1>1

-----------------------------------------------------------------------------
\* Plans

First(p) == IF p = << >> THEN "done" ELSE Head(p)

\* The first call of each list, and what is left after it.
LEMMA Calls ==
    /\ Closing # << >> /\ Head(Closing) = "close" /\ Tail(Closing) = << >>
    /\ Reading # << >> /\ Head(Reading) = "read" /\ Tail(Reading) = Closing
    /\ Saving # << >> /\ Head(Saving) = "persist" /\ Tail(Saving) = Reading
    /\ Probing # << >> /\ Head(Probing) = "probe" /\ Tail(Probing) = Closing
    /\ Getting # << >> /\ Head(Getting) = "begin" /\ Tail(Getting) = Reading
    /\ CreateLinks # << >> /\ Head(CreateLinks) = "link" /\ Tail(CreateLinks) = Saving
    /\ CreateTags # << >> /\ Head(CreateTags) = "tags" /\ Tail(CreateTags) = CreateLinks
    /\ CreateStage # << >> /\ Head(CreateStage) = "stage" /\ Tail(CreateStage) = CreateTags
    /\ CreateTagged # << >> /\ Head(CreateTagged) = "begin" /\ Tail(CreateTagged) = CreateStage
    /\ CreatePlain # << >> /\ Head(CreatePlain) = "begin" /\ Tail(CreatePlain) = Saving
    /\ UpdateRow # << >> /\ Head(UpdateRow) = "mutate" /\ Tail(UpdateRow) = Saving
    /\ UpdateLinks # << >> /\ Head(UpdateLinks) = "link" /\ Tail(UpdateLinks) = UpdateRow
    /\ UpdateTags # << >> /\ Head(UpdateTags) = "tags" /\ Tail(UpdateTags) = UpdateLinks
    /\ UpdateTagged # << >> /\ Head(UpdateTagged) = "begin" /\ Tail(UpdateTagged) = UpdateTags
    /\ UpdatePlain # << >> /\ Head(UpdatePlain) = "begin" /\ Tail(UpdatePlain) = UpdateRow
    /\ Removing # << >> /\ Head(Removing) = "persist" /\ Tail(Removing) = Closing
    /\ DeleteRow # << >> /\ Head(DeleteRow) = "mutate" /\ Tail(DeleteRow) = Removing
    /\ DeletePlain # << >> /\ Head(DeletePlain) = "begin" /\ Tail(DeletePlain) = DeleteRow
    /\ UpdateRow[2] = "persist" /\ DeleteRow[2] = "persist"
<1>1. Closing # << >> /\ Head(Closing) = "close" /\ Tail(Closing) = << >>
  BY DEF Closing
<1>2. Reading # << >> /\ Head(Reading) = "read" /\ Tail(Reading) = Closing
  BY DEF Reading, Closing
<1>3. Saving # << >> /\ Head(Saving) = "persist" /\ Tail(Saving) = Reading
  BY DEF Saving, Reading
<1>4. Probing # << >> /\ Head(Probing) = "probe" /\ Tail(Probing) = Closing
  BY DEF Probing, Closing
<1>5. Getting # << >> /\ Head(Getting) = "begin" /\ Tail(Getting) = Reading
  BY DEF Getting, Reading
<1>6. CreateLinks # << >> /\ Head(CreateLinks) = "link" /\ Tail(CreateLinks) = Saving
  BY DEF CreateLinks, Saving
<1>7. CreateTags # << >> /\ Head(CreateTags) = "tags" /\ Tail(CreateTags) = CreateLinks
  BY DEF CreateTags, CreateLinks
<1>8. CreateStage # << >> /\ Head(CreateStage) = "stage" /\ Tail(CreateStage) = CreateTags
  BY DEF CreateStage, CreateTags
<1>9. CreateTagged # << >> /\ Head(CreateTagged) = "begin" /\ Tail(CreateTagged) = CreateStage
  BY DEF CreateTagged, CreateStage
<1>10. CreatePlain # << >> /\ Head(CreatePlain) = "begin" /\ Tail(CreatePlain) = Saving
  BY DEF CreatePlain, Saving
<1>11. UpdateRow # << >> /\ Head(UpdateRow) = "mutate" /\ Tail(UpdateRow) = Saving
  BY DEF UpdateRow, Saving
<1>12. UpdateLinks # << >> /\ Head(UpdateLinks) = "link" /\ Tail(UpdateLinks) = UpdateRow
  BY DEF UpdateLinks, UpdateRow
<1>13. UpdateTags # << >> /\ Head(UpdateTags) = "tags" /\ Tail(UpdateTags) = UpdateLinks
  BY DEF UpdateTags, UpdateLinks
<1>14. UpdateTagged # << >> /\ Head(UpdateTagged) = "begin" /\ Tail(UpdateTagged) = UpdateTags
  BY DEF UpdateTagged, UpdateTags
<1>15. UpdatePlain # << >> /\ Head(UpdatePlain) = "begin" /\ Tail(UpdatePlain) = UpdateRow
  BY DEF UpdatePlain, UpdateRow
<1>16. Removing # << >> /\ Head(Removing) = "persist" /\ Tail(Removing) = Closing
  BY DEF Removing, Closing
<1>17. DeleteRow # << >> /\ Head(DeleteRow) = "mutate" /\ Tail(DeleteRow) = Removing
  BY DEF DeleteRow, Removing
<1>18. DeletePlain # << >> /\ Head(DeletePlain) = "begin" /\ Tail(DeletePlain) = DeleteRow
  BY DEF DeletePlain, DeleteRow
<1>19. UpdateRow[2] = "persist" /\ DeleteRow[2] = "persist"
  BY DEF UpdateRow, DeleteRow
<1>. QED  BY <1>1, <1>2, <1>3, <1>4, <1>5, <1>6, <1>7, <1>8, <1>9, <1>10, <1>11, <1>12, <1>13, <1>14, <1>15, <1>16, <1>17, <1>18, <1>19

\* The call after each call: what a request of each kind does next.
LEMMA Onward ==
    ASSUME NEW r, NEW p, OnCourse(r, p), p # << >>
    PROVE  /\ OnCourse(r, Tail(p))
           /\ Head(p) \in InTransaction \cup {"begin", "read", "probe", "close"}
           /\ Head(p) = "close" <=> Tail(p) = << >>
           /\ Head(p) = "begin" =>
                /\ r.kind = "create" => First(Tail(p)) \in {"stage", "persist"}
                /\ r.kind = "update" => First(Tail(p)) \in {"tags", "mutate"}
                /\ r.kind = "delete" => First(Tail(p)) = "mutate"
                /\ r.kind = "get" => First(Tail(p)) = "read"
                /\ r.kind \in {"create", "update", "delete", "get"}
           /\ Head(p) = "stage" => r.kind = "create" /\ First(Tail(p)) = "tags"
           /\ Head(p) = "tags" =>
                /\ r.kind \in {"create", "update"} /\ r.tags # Omitted
                /\ First(Tail(p)) = "link"
           /\ Head(p) = "link" =>
                /\ r.kind \in {"create", "update"}
                /\ r.kind = "create" => First(Tail(p)) = "persist"
                /\ r.kind = "update" => First(Tail(p)) = "mutate"
           /\ Head(p) = "mutate" =>
                /\ r.kind \in {"update", "delete"}
                /\ First(Tail(p)) = "persist"
                /\ p[2] = "persist"
           /\ Head(p) = "persist" =>
                /\ r.kind \in {"create", "update", "delete"}
                /\ r.kind = "delete" => First(Tail(p)) = "close"
                /\ r.kind # "delete" => First(Tail(p)) = "read"
           /\ Head(p) = "read" =>
                r.kind \in {"create", "update", "get"} /\ First(Tail(p)) = "close"
           /\ Head(p) = "probe" =>
                r.kind \in {"ready", "diagnose"} /\ First(Tail(p)) = "close"
<1>. DEFINE Lead(q)   == Head(q)
            Rest(q)   == Tail(q)
            Second(q) == q[2]
<1>1. /\ Lead(Closing) = "close" /\ Rest(Closing) = << >> /\ First(<< >>) = "done"
      /\ Lead(Reading) = "read" /\ Rest(Reading) = Closing /\ First(Closing) = "close"
      /\ Lead(Saving) = "persist" /\ Rest(Saving) = Reading /\ First(Reading) = "read"
      /\ Lead(Probing) = "probe" /\ Rest(Probing) = Closing
      /\ Lead(Getting) = "begin" /\ Rest(Getting) = Reading
      /\ Reading # << >> /\ Closing # << >>
  BY Calls DEF First
<1>2. /\ Lead(CreateLinks) = "link" /\ Rest(CreateLinks) = Saving
      /\ Lead(CreateTags) = "tags" /\ Rest(CreateTags) = CreateLinks
      /\ Lead(CreateStage) = "stage" /\ Rest(CreateStage) = CreateTags
      /\ Lead(CreateTagged) = "begin" /\ Rest(CreateTagged) = CreateStage
      /\ Lead(CreatePlain) = "begin" /\ Rest(CreatePlain) = Saving
      /\ First(Saving) = "persist" /\ First(CreateLinks) = "link"
      /\ First(CreateTags) = "tags" /\ First(CreateStage) = "stage"
      /\ << >> \notin {Saving, CreateLinks, CreateTags, CreateStage}
  BY Calls DEF First
<1>3. /\ Lead(UpdateRow) = "mutate" /\ Rest(UpdateRow) = Saving
      /\ Lead(UpdateLinks) = "link" /\ Rest(UpdateLinks) = UpdateRow
      /\ Lead(UpdateTags) = "tags" /\ Rest(UpdateTags) = UpdateLinks
      /\ Lead(UpdateTagged) = "begin" /\ Rest(UpdateTagged) = UpdateTags
      /\ Lead(UpdatePlain) = "begin" /\ Rest(UpdatePlain) = UpdateRow
      /\ First(UpdateRow) = "mutate" /\ First(UpdateLinks) = "link"
      /\ First(UpdateTags) = "tags"
      /\ << >> \notin {UpdateRow, UpdateLinks, UpdateTags}
  BY Calls DEF First
<1>4. /\ Lead(Removing) = "persist" /\ Rest(Removing) = Closing
      /\ Lead(DeleteRow) = "mutate" /\ Rest(DeleteRow) = Removing
      /\ Lead(DeletePlain) = "begin" /\ Rest(DeletePlain) = DeleteRow
      /\ First(Removing) = "persist" /\ First(DeleteRow) = "mutate"
      /\ Removing # << >> /\ DeleteRow # << >>
      /\ Second(UpdateRow) = "persist" /\ Second(DeleteRow) = "persist"
  BY Calls DEF First
<1>. HIDE DEF Lead, Rest, Second
<1>5. /\ OnCourse(r, Rest(p))
      /\ Lead(p) \in InTransaction \cup {"begin", "read", "probe", "close"}
      /\ Lead(p) = "close" <=> Rest(p) = << >>
      /\ Lead(p) = "begin" =>
           /\ r.kind = "create" => First(Rest(p)) \in {"stage", "persist"}
           /\ r.kind = "update" => First(Rest(p)) \in {"tags", "mutate"}
           /\ r.kind = "delete" => First(Rest(p)) = "mutate"
           /\ r.kind = "get" => First(Rest(p)) = "read"
           /\ r.kind \in {"create", "update", "delete", "get"}
      /\ Lead(p) = "stage" => r.kind = "create" /\ First(Rest(p)) = "tags"
      /\ Lead(p) = "tags" =>
           /\ r.kind \in {"create", "update"} /\ r.tags # Omitted
           /\ First(Rest(p)) = "link"
      /\ Lead(p) = "link" =>
           /\ r.kind \in {"create", "update"}
           /\ r.kind = "create" => First(Rest(p)) = "persist"
           /\ r.kind = "update" => First(Rest(p)) = "mutate"
      /\ Lead(p) = "mutate" =>
           /\ r.kind \in {"update", "delete"}
           /\ First(Rest(p)) = "persist"
           /\ Second(p) = "persist"
      /\ Lead(p) = "persist" =>
           /\ r.kind \in {"create", "update", "delete"}
           /\ r.kind = "delete" => First(Rest(p)) = "close"
           /\ r.kind # "delete" => First(Rest(p)) = "read"
      /\ Lead(p) = "read" =>
           r.kind \in {"create", "update", "get"} /\ First(Rest(p)) = "close"
      /\ Lead(p) = "probe" =>
           r.kind \in {"ready", "diagnose"} /\ First(Rest(p)) = "close"
  <2>. USE <1>1, <1>2, <1>3, <1>4 DEF InTransaction, Ends, Saves
  <2>1. CASE r.kind = "create" /\ TagsGiven(r)
    <3>1. r.tags # Omitted
      BY <2>1 DEF TagsGiven
    <3>2. p \in Saves \cup {CreateLinks, CreateTags, CreateStage, CreateTagged, CreatePlain}
      BY <2>1 DEF OnCourse
    <3>3. CASE p \in Saves \cup {CreatePlain}
      BY <2>1, <3>3 DEF OnCourse
    <3>4. CASE p \in {CreateLinks, CreateTags}
      BY <2>1, <3>1, <3>4 DEF OnCourse
    <3>5. CASE p \in {CreateStage, CreateTagged}
      BY <2>1, <3>1, <3>5 DEF OnCourse
    <3>. QED  BY <3>2, <3>3, <3>4, <3>5
  <2>2. CASE r.kind = "create" /\ ~TagsGiven(r)
    BY <2>2 DEF OnCourse
  <2>3. CASE r.kind = "update" /\ r.tags # Omitted
    <3>1. p \in Saves \cup {UpdateRow, UpdateLinks, UpdateTags, UpdateTagged, UpdatePlain}
      BY <2>3 DEF OnCourse
    <3>2. CASE p \in Saves \cup {UpdateRow, UpdatePlain}
      BY <2>3, <3>2 DEF OnCourse
    <3>3. CASE p \in {UpdateLinks, UpdateTags, UpdateTagged}
      BY <2>3, <3>3 DEF OnCourse
    <3>. QED  BY <3>1, <3>2, <3>3
  <2>4. CASE r.kind = "update" /\ r.tags = Omitted
    BY <2>4 DEF OnCourse
  <2>5. CASE r.kind = "delete"
    BY <2>5 DEF OnCourse
  <2>6. CASE r.kind = "get"
    BY <2>6 DEF OnCourse
  <2>7. CASE r.kind \in {"ready", "diagnose"}
    BY <2>7 DEF OnCourse
  <2>. QED  BY <2>1, <2>2, <2>3, <2>4, <2>5, <2>6, <2>7 DEF OnCourse
<1>. QED  BY <1>5 DEF Lead, Rest, Second

\* An update that skips a call: the links, or the commit.
LEMMA Skipping ==
    ASSUME NEW r, NEW p, OnCourse(r, p), p # << >>, r.kind = "update"
    PROVE  /\ Head(p) = "tags" =>
                OnCourse(r, Tail(Tail(p))) /\ First(Tail(Tail(p))) = "mutate"
           /\ Head(p) = "mutate" =>
                OnCourse(r, Tail(Tail(p))) /\ First(Tail(Tail(p))) = "read"
<1>. USE Calls DEF First, Ends, Saves
<1>1. CASE r.tags # Omitted
  BY <1>1 DEF OnCourse
<1>2. CASE r.tags = Omitted
  BY <1>2 DEF OnCourse
<1>. QED  BY <1>1, <1>2

\* The handler has answered when only the close is left.
LEMMA OnlyClose ==
    ASSUME NEW r, NEW p, OnCourse(r, p)
    PROVE  /\ p = <<"close">> <=> First(p) = "close"
           /\ p = << >> <=> First(p) = "done"
<1>1. p \in {<< >>, Closing, Reading, Saving, Probing, Getting, CreateLinks, CreateTags,
            CreateStage, CreateTagged, CreatePlain, UpdateRow, UpdateLinks, UpdateTags,
            UpdateTagged, UpdatePlain, Removing, DeleteRow, DeletePlain}
  BY DEF OnCourse, Ends, Saves
<1>2. p = Closing <=> First(p) = "close"
  <2>1. First(Closing) = "close"
    BY Calls DEF First
  <2>2. CASE p \in {<< >>, Closing, Reading, Saving, Probing, Getting}
    BY <2>1, <2>2, Calls DEF First
  <2>3. CASE p \in {CreateLinks, CreateTags, CreateStage, CreateTagged, CreatePlain}
    BY <2>1, <2>3, Calls DEF First
  <2>4. CASE p \in {UpdateRow, UpdateLinks, UpdateTags, UpdateTagged, UpdatePlain}
    BY <2>1, <2>4, Calls DEF First
  <2>5. CASE p \in {Removing, DeleteRow, DeletePlain}
    BY <2>1, <2>5, Calls DEF First
  <2>. QED  BY <1>1, <2>2, <2>3, <2>4, <2>5
<1>3. p = << >> <=> First(p) = "done"
  BY <1>1, Calls DEF First
<1>. QED  BY <1>2, <1>3 DEF Closing

\* Short lists put together.
LEMMA Joined11 ==
    ASSUME NEW a, NEW b
    PROVE  <<a>> \o <<b>> = <<a, b>>
<1>. DEFINE S == {a, b}
            p == <<a>>
            q == <<b>>
            z == p \o q
<1>1. p \in Seq(S) /\ q \in Seq(S) /\ Len(p) = 1 /\ Len(q) = 1
  OBVIOUS
<1>2. z \in Seq(S) /\ Len(z) = 2 /\ \A i \in 1..2 : z[i] = IF i <= 1 THEN p[i] ELSE q[i - 1]
  <2>. HIDE DEF p, q, S
  <2>1. /\ z \in Seq(S) /\ Len(z) = Len(p) + Len(q)
        /\ \A i \in 1..Len(p) + Len(q) : z[i] = IF i <= Len(p) THEN p[i] ELSE q[i - Len(p)]
    BY <1>1, ConcatProperties
  <2>. HIDE DEF z
  <2>. QED  BY <1>1, <2>1
<1>3. z[1] = a /\ z[2] = b
  <2>1. z[1] = p[1] /\ z[2] = q[2 - 1]
    <3>. HIDE DEF z
    <3>. QED  BY <1>2
  <2>. QED  BY <2>1
<1>4. z = <<a, b>>
  <2>. HIDE DEF z
  <2>. QED  BY <1>2, <1>3
<1>. QED  BY <1>4

LEMMA Joined21 ==
    ASSUME NEW a, NEW b, NEW c
    PROVE  <<a, b>> \o <<c>> = <<a, b, c>>
<1>. DEFINE S == {a, b, c}
            p == <<a, b>>
            q == <<c>>
            z == p \o q
<1>1. p \in Seq(S) /\ q \in Seq(S) /\ Len(p) = 2 /\ Len(q) = 1
  OBVIOUS
<1>2. z \in Seq(S) /\ Len(z) = 3 /\ \A i \in 1..3 : z[i] = IF i <= 2 THEN p[i] ELSE q[i - 2]
  <2>. HIDE DEF p, q, S
  <2>1. /\ z \in Seq(S) /\ Len(z) = Len(p) + Len(q)
        /\ \A i \in 1..Len(p) + Len(q) : z[i] = IF i <= Len(p) THEN p[i] ELSE q[i - Len(p)]
    BY <1>1, ConcatProperties
  <2>. HIDE DEF z
  <2>. QED  BY <1>1, <2>1
<1>3. z[1] = a /\ z[2] = b /\ z[3] = c
  <2>1. z[1] = p[1] /\ z[2] = p[2] /\ z[3] = q[3 - 2]
    <3>. HIDE DEF z
    <3>. QED  BY <1>2
  <2>. QED  BY <2>1
<1>4. z = <<a, b, c>>
  <2>. HIDE DEF z
  <2>. QED  BY <1>2, <1>3
<1>. QED  BY <1>4

LEMMA Joined13 ==
    ASSUME NEW a, NEW b, NEW c, NEW d
    PROVE  <<a>> \o <<b, c, d>> = <<a, b, c, d>>
<1>. DEFINE S == {a, b, c, d}
            p == <<a>>
            q == <<b, c, d>>
            z == p \o q
<1>1. p \in Seq(S) /\ q \in Seq(S) /\ Len(p) = 1 /\ Len(q) = 3
  OBVIOUS
<1>2. z \in Seq(S) /\ Len(z) = 4 /\ \A i \in 1..4 : z[i] = IF i <= 1 THEN p[i] ELSE q[i - 1]
  <2>. HIDE DEF p, q, S
  <2>1. /\ z \in Seq(S) /\ Len(z) = Len(p) + Len(q)
        /\ \A i \in 1..Len(p) + Len(q) : z[i] = IF i <= Len(p) THEN p[i] ELSE q[i - Len(p)]
    BY <1>1, ConcatProperties
  <2>. HIDE DEF z
  <2>. QED  BY <1>1, <2>1
<1>3. z[1] = a /\ z[2] = b /\ z[3] = c /\ z[4] = d
  <2>1. z[1] = p[1] /\ z[2] = q[2 - 1] /\ z[3] = q[3 - 1] /\ z[4] = q[4 - 1]
    <3>. HIDE DEF z
    <3>. QED  BY <1>2
  <2>. QED  BY <2>1
<1>4. z = <<a, b, c, d>>
  <2>. HIDE DEF z
  <2>. QED  BY <1>2, <1>3
<1>. QED  BY <1>4

LEMMA Joined23 ==
    ASSUME NEW a, NEW b, NEW c, NEW d, NEW e
    PROVE  <<a, b>> \o <<c, d, e>> = <<a, b, c, d, e>>
<1>. DEFINE S == {a, b, c, d, e}
            p == <<a, b>>
            q == <<c, d, e>>
            z == p \o q
<1>1. p \in Seq(S) /\ q \in Seq(S) /\ Len(p) = 2 /\ Len(q) = 3
  OBVIOUS
<1>2. z \in Seq(S) /\ Len(z) = 5 /\ \A i \in 1..5 : z[i] = IF i <= 2 THEN p[i] ELSE q[i - 2]
  <2>. HIDE DEF p, q, S
  <2>1. /\ z \in Seq(S) /\ Len(z) = Len(p) + Len(q)
        /\ \A i \in 1..Len(p) + Len(q) : z[i] = IF i <= Len(p) THEN p[i] ELSE q[i - Len(p)]
    BY <1>1, ConcatProperties
  <2>. HIDE DEF z
  <2>. QED  BY <1>1, <2>1
<1>3. z[1] = a /\ z[2] = b /\ z[3] = c /\ z[4] = d /\ z[5] = e
  <2>1. z[1] = p[1] /\ z[2] = p[2] /\ z[3] = q[3 - 2] /\ z[4] = q[4 - 2] /\ z[5] = q[5 - 2]
    <3>. HIDE DEF z
    <3>. QED  BY <1>2
  <2>. QED  BY <2>1
<1>4. z = <<a, b, c, d, e>>
  <2>. HIDE DEF z
  <2>. QED  BY <1>2, <1>3
<1>. QED  BY <1>4

LEMMA Joined43 ==
    ASSUME NEW a, NEW b, NEW c, NEW d, NEW e, NEW f, NEW g
    PROVE  <<a, b, c, d>> \o <<e, f, g>> = <<a, b, c, d, e, f, g>>
<1>. DEFINE S == {a, b, c, d, e, f, g}
            p == <<a, b, c, d>>
            q == <<e, f, g>>
            z == p \o q
<1>1. p \in Seq(S) /\ q \in Seq(S) /\ Len(p) = 4 /\ Len(q) = 3
  OBVIOUS
<1>2. z \in Seq(S) /\ Len(z) = 7 /\ \A i \in 1..7 : z[i] = IF i <= 4 THEN p[i] ELSE q[i - 4]
  <2>. HIDE DEF p, q, S
  <2>1. /\ z \in Seq(S) /\ Len(z) = Len(p) + Len(q)
        /\ \A i \in 1..Len(p) + Len(q) : z[i] = IF i <= Len(p) THEN p[i] ELSE q[i - Len(p)]
    BY <1>1, ConcatProperties
  <2>. HIDE DEF z
  <2>. QED  BY <1>1, <2>1
<1>3. z[1] = a /\ z[2] = b /\ z[3] = c /\ z[4] = d /\ z[5] = e /\ z[6] = f /\ z[7] = g
  <2>1. z[1] = p[1] /\ z[2] = p[2] /\ z[3] = p[3] /\ z[4] = p[4] /\ z[5] = q[5 - 4] /\ z[6] = q[6 - 4] /\ z[7] = q[7 - 4]
    <3>. HIDE DEF z
    <3>. QED  BY <1>2
  <2>. QED  BY <2>1
<1>4. z = <<a, b, c, d, e, f, g>>
  <2>. HIDE DEF z
  <2>. QED  BY <1>2, <1>3
<1>. QED  BY <1>4

\* Every request starts on its course.
LEMMA PlanOnCourse ==
    ASSUME NEW r \in Request, r.kind \notin {"oversized", "invalid"}
    PROVE  OnCourse(r, Plan(r)) /\ First(Plan(r)) \in {"begin", "probe"} /\ Plan(r) # << >>
<1>1. CASE r.kind = "create" /\ TagsGiven(r)
  <2>1. Plan(r) = CreateTagged
    <3>1. <<"begin">> \o <<"stage", "tags", "link">> = <<"begin", "stage", "tags", "link">>
      BY Joined13
    <3>2. <<"begin", "stage", "tags", "link">> \o <<"persist", "read", "close">> = CreateTagged
      BY Joined43 DEF CreateTagged
    <3>3. Plan(r) = (<<"begin">> \o <<"stage", "tags", "link">>) \o <<"persist", "read", "close">>
      BY <1>1 DEF Plan, CreateCalls
    <3>. QED  BY ONLY <3>1, <3>2, <3>3
  <2>. QED  BY <1>1, <2>1, Calls DEF OnCourse, First
<1>2. CASE r.kind = "create" /\ ~TagsGiven(r)
  <2>1. <<"begin">> \o << >> = <<"begin">>
    OBVIOUS
  <2>2. Plan(r) = CreatePlain
    <3>1. <<"begin">> \o <<"persist", "read", "close">> = CreatePlain
      BY Joined13 DEF CreatePlain
    <3>2. Plan(r) = (<<"begin">> \o << >>) \o <<"persist", "read", "close">>
      BY <1>2 DEF Plan, CreateCalls
    <3>. QED  BY ONLY <2>1, <3>1, <3>2
  <2>. QED  BY <1>2, <2>2, Calls DEF OnCourse, First
<1>3. CASE r.kind = "update" /\ r.tags # Omitted
  <2>1. Plan(r) = UpdateTagged
    <3>1. <<"tags", "link">> \o <<"mutate">> = <<"tags", "link", "mutate">>
      BY Joined21
    <3>2. <<"begin">> \o <<"tags", "link", "mutate">> = <<"begin", "tags", "link", "mutate">>
      BY Joined13
    <3>3. <<"begin", "tags", "link", "mutate">> \o <<"persist", "read", "close">> = UpdateTagged
      BY Joined43 DEF UpdateTagged
    <3>4. Plan(r) = (<<"begin">> \o (<<"tags", "link">> \o <<"mutate">>)) \o <<"persist", "read", "close">>
      BY <1>3 DEF Plan, UpdateCalls, Restaging
    <3>. QED  BY ONLY <3>1, <3>2, <3>3, <3>4
  <2>. QED  BY <1>3, <2>1, Calls DEF OnCourse, First
<1>4. CASE r.kind = "update" /\ r.tags = Omitted
  <2>1. << >> \o <<"mutate">> = <<"mutate">>
    OBVIOUS
  <2>2. Plan(r) = UpdatePlain
    <3>1. <<"begin">> \o <<"mutate">> = <<"begin", "mutate">>
      BY Joined11
    <3>2. <<"begin", "mutate">> \o <<"persist", "read", "close">> = UpdatePlain
      BY Joined23 DEF UpdatePlain
    <3>3. Plan(r) = (<<"begin">> \o (<< >> \o <<"mutate">>)) \o <<"persist", "read", "close">>
      BY <1>4 DEF Plan, UpdateCalls, Restaging
    <3>. QED  BY ONLY <2>1, <3>1, <3>2, <3>3
  <2>. QED  BY <1>4, <2>2, Calls DEF OnCourse, First
<1>5. CASE r.kind = "delete"
  <2>1. Plan(r) = DeletePlain
    BY <1>5 DEF Plan, DeletePlain
  <2>. QED  BY <1>5, <2>1, Calls DEF OnCourse, First
<1>6. CASE r.kind = "get"
  <2>1. Plan(r) = Getting
    BY <1>6 DEF Plan, Getting
  <2>. QED  BY <1>6, <2>1, Calls DEF OnCourse, First
<1>7. CASE r.kind \in {"ready", "diagnose"}
  <2>1. Plan(r) = Probing
    BY <1>7 DEF Plan, Probing
  <2>. QED  BY <1>7, <2>1, Calls DEF OnCourse, First
<1>. QED  BY <1>1, <1>2, <1>3, <1>4, <1>5, <1>6, <1>7, RequestShape DEF Kinds

\* The names to mint are a sequence of names: the recursion over the names
\* asked for has a solution, and every value of it is one.
LEMMA MissingType ==
    ASSUME NEW names \in Seq(Tag)
    PROVE  Missing(names) \in Seq(Tag)
<1>. DEFINE N == Len(names)
            Grown(s, i) == IF names[i] \in tags THEN s ELSE Append(s, names[i])
            Solves(f, n) == f = [i \in 0..n |-> IF i = 0 THEN << >> ELSE Grown(f[i - 1], i)]
            Solved == {n \in 0..N : \E f : Solves(f, n)}
<1>1. N \in Nat
  OBVIOUS
<1>2. 0 \in Solved
  <2>. DEFINE f == [i \in 0..0 |-> << >>]
  <2>1. f = [i \in 0..0 |-> IF i = 0 THEN << >> ELSE Grown(f[i - 1], i)]
    <3>1. \A i \in 0..0 : i = 0
      OBVIOUS
    <3>. QED  BY <3>1
  <2>2. Solves(f, 0)
    BY <2>1
  <2>. HIDE DEF f, Solves
  <2>. QED  BY <2>2, <1>1
<1>3. ASSUME NEW n \in Nat, n < N, n \in Solved
      PROVE  n + 1 \in Solved
  <2>1. PICK f : Solves(f, n)
    BY <1>3
  <2>. DEFINE g == [i \in 0..n + 1 |-> IF i <= n THEN f[i] ELSE Grown(f[n], i)]
              h == [i \in 0..n + 1 |-> IF i = 0 THEN << >> ELSE Grown(g[i - 1], i)]
  <2>2. ASSUME NEW i \in 0..n + 1
        PROVE  g[i] = h[i]
    <3>1. CASE i = 0
      <4>1. g[0] = f[0] /\ f[0] = << >>
        BY <2>1
      <4>. QED  BY <3>1, <4>1
    <3>2. CASE i # 0 /\ i <= n
      <4>1. i - 1 \in 0..n + 1 /\ i - 1 <= n /\ i \in 0..n
        BY <3>2
      <4>2. f[i] = Grown(f[i - 1], i)
        BY <2>1, <3>2, <4>1
      <4>3. g[i] = f[i] /\ g[i - 1] = f[i - 1]
        BY <3>2, <4>1
      <4>4. h[i] = Grown(g[i - 1], i)
        BY <3>2
      <4>. QED  BY <4>2, <4>3, <4>4
    <3>3. CASE i = n + 1
      <4>1. g[i] = Grown(f[n], i) /\ g[n] = f[n] /\ i - 1 = n /\ i # 0
        BY <3>3, <1>3
      <4>2. h[i] = Grown(g[n], i)
        BY <4>1
      <4>. QED  BY <4>1, <4>2
    <3>. QED  BY <3>1, <3>2, <3>3
  <2>3. g = h
    BY <2>2
  <2>4. Solves(g, n + 1)
    BY <2>3
  <2>. HIDE DEF g, Solves
  <2>. QED  BY <2>4, <1>1, <1>3
<1>4. N \in Solved
  <2>. HIDE DEF Solved, N
  <2>1. 0..N \subseteq Solved
    BY <1>1, <1>2, <1>3, IntervalInduction
  <2>. QED  BY <1>1, <2>1
<1>. DEFINE among == CHOOSE f : Solves(f, N)
<1>5. Solves(among, N)
  BY <1>4
<1>6. Missing(names) = among[N]
  BY DEF Missing
<1>. DEFINE Typed == {i \in 0..N : among[i] \in Seq(Tag)}
<1>7. /\ among[0] = << >>
      /\ \A i \in 0..N : i # 0 => among[i] = Grown(among[i - 1], i)
  <2>1. among = [i \in 0..N |-> IF i = 0 THEN << >> ELSE Grown(among[i - 1], i)]
    BY <1>5
  <2>. HIDE DEF among
  <2>2. 0 \in 0..N
    BY <1>1
  <2>. QED  BY <2>1, <2>2
<1>. HIDE DEF among
<1>8. 0 \in Typed
  <2>1. << >> \in Seq(Tag)
    OBVIOUS
  <2>2. 0 \in 0..N
    BY <1>1
  <2>3. among[0] \in Seq(Tag)
    BY ONLY <1>7, <2>1
  <2>. QED  BY <2>2, <2>3
<1>9. ASSUME NEW n \in Nat, n < N, n \in Typed
      PROVE  n + 1 \in Typed
  <2>1. n + 1 \in 0..N /\ n + 1 # 0 /\ (n + 1) - 1 = n /\ n + 1 \in 1..N
    BY <1>1, <1>9
  <2>2. among[n + 1] = Grown(among[n], n + 1)
    BY <1>7, <2>1
  <2>3. names[n + 1] \in Tag
    BY <2>1
  <2>4. among[n] \in Seq(Tag)
    BY <1>9
  <2>5. Grown(among[n], n + 1) \in Seq(Tag)
    BY <2>3, <2>4
  <2>. QED  BY <2>1, <2>2, <2>5
<1>10. N \in Typed
  <2>. HIDE DEF Typed, N
  <2>1. 0..N \subseteq Typed
    BY <1>1, <1>8, <1>9, IntervalInduction
  <2>. QED  BY <1>1, <2>1
<1>. QED  BY <1>6, <1>10

\* A list of calls is a sequence of calls, and no calls are left at the end.
LEMMA CourseType ==
    ASSUME NEW r, NEW p, OnCourse(r, p)
    PROVE  p \in Seq(Queries \cup {"begin", "mutate", "probe", "close"})
<1>. DEFINE S == Queries \cup {"begin", "mutate", "probe", "close"}
<1>1. /\ "stage" \in S /\ "tags" \in S /\ "link" \in S /\ "persist" \in S /\ "read" \in S
      /\ "begin" \in S /\ "mutate" \in S /\ "probe" \in S /\ "close" \in S
  BY DEF Queries
<1>. HIDE DEF S
<1>2. << >> \in Seq(S) /\ Closing \in Seq(S) /\ Reading \in Seq(S) /\ Saving \in Seq(S)
  BY <1>1 DEF Closing, Reading, Saving
<1>3. Probing \in Seq(S) /\ Getting \in Seq(S) /\ Removing \in Seq(S)
  BY <1>1 DEF Probing, Getting, Removing
<1>4. CreateLinks \in Seq(S) /\ CreateTags \in Seq(S)
  BY <1>1 DEF CreateLinks, CreateTags
<1>5. CreateStage \in Seq(S)
  BY <1>1 DEF CreateStage
<1>6. CreateTagged \in Seq(S)
  BY <1>1 DEF CreateTagged
<1>7. CreatePlain \in Seq(S) /\ UpdateRow \in Seq(S)
  BY <1>1 DEF CreatePlain, UpdateRow
<1>8. UpdateLinks \in Seq(S) /\ UpdateTags \in Seq(S)
  BY <1>1 DEF UpdateLinks, UpdateTags
<1>9. UpdateTagged \in Seq(S) /\ UpdatePlain \in Seq(S)
  BY <1>1 DEF UpdateTagged, UpdatePlain
<1>10. DeleteRow \in Seq(S) /\ DeletePlain \in Seq(S)
  BY <1>1 DEF DeleteRow, DeletePlain
<1>11. p \in Seq(S)
  BY <1>2, <1>3, <1>4, <1>5, <1>6, <1>7, <1>8, <1>9, <1>10 DEF OnCourse, Ends, Saves
<1>. QED  BY <1>11 DEF S

LEMMA EndOnCourse ==
    ASSUME NEW r \in Request
    PROVE  OnCourse(r, << >>)
BY RequestShape DEF OnCourse, Ends, Saves, Kinds

-----------------------------------------------------------------------------
\* Frames

\* What a handler has to itself does not change.
Kept(g) ==
    /\ plan'[g] = plan[g] /\ pending'[g] = pending[g] /\ held'[g] = held[g]
    /\ loaded'[g] = loaded[g] /\ answer'[g] = answer[g] /\ clash'[g] = clash[g]
    /\ g \in conn' <=> g \in conn
    /\ g \in committed' <=> g \in committed

LEMMA KeptLocal ==
    ASSUME NEW g \in Handler, Local(g), req' = req, Kept(g)
    PROVE  Local(g)'
<1>1. /\ Req(g)' = Req(g) /\ Step(g)' = Step(g) /\ Target(g)' = Target(g)
      /\ Unsent(g)' <=> Unsent(g)
  BY DEF Req, Step, Target, Unsent, Kept
<1>2. OnCourse(Req(g), plan[g])'
  BY <1>1 DEF Local, Kept, OnCourse
<1>3. Connects(g)'
  BY <1>1 DEF Local, Kept, Connects
<1>4. Pends(g)'
  BY <1>1 DEF Local, Kept, Pends
<1>5. Holds(g)'
  BY <1>1 DEF Local, Kept, Holds
<1>6. Commits(g)'
  BY <1>1 DEF Local, Kept, Commits
<1>7. Tells(g)'
  <2>1. /\ plan'[g] = plan[g] /\ answer'[g] = answer[g] /\ clash'[g] = clash[g]
        /\ loaded'[g] = loaded[g]
        /\ g \in committed' <=> g \in committed
    BY DEF Kept
  <2>2. Tells(g)
    BY DEF Local
  <2>. QED  BY <1>1, <2>1, <2>2 DEF Tells
<1>. QED  BY <1>2, <1>3, <1>4, <1>5, <1>6, <1>7 DEF Local

\* A step of one handler that keeps its part and the tables keeps all.
LEMMA OneMoves ==
    ASSUME Inv, NEW h \in Handler, req' = req,
           \A g \in Handler \ {h} : Kept(g),
           TypeOK', IsFiniteSet(conn'), Local(h)', Tables'
    PROVE  Inv'
<1>1. \A g \in Handler : Local(g)'
  <2>. SUFFICES ASSUME NEW g \in Handler PROVE Local(g)'
    OBVIOUS
  <2>1. CASE g = h
    BY <2>1
  <2>2. CASE g # h
    BY <2>2, KeptLocal DEF Inv
  <2>. QED  BY <2>1, <2>2
<1>. QED  BY <1>1 DEF Inv

\* Giving up keys disturbs nobody.
LEMMA TablesSteady ==
    ASSUME Tables, TypeOK, req' = req, row' = row, tags' = tags, committed' = committed,
           \A g \in Handler : held'[g] = held[g] \/ held'[g] = {}
    PROVE  Tables'
<1>1. Exclusive'
  BY DEF Tables, Exclusive
<1>2. UniqueRows'
  BY DEF Tables, UniqueRows
<1>3. HeldTitles'
  BY DEF Tables, HeldTitles, Req, Target
<1>4. HeldTags'
  BY DEF Tables, HeldTags
<1>5. Births'
  BY DEF Tables, Births, Releases, Req
<1>. QED  BY <1>1, <1>2, <1>3, <1>4, <1>5 DEF Tables

LEMMA ConnGrows ==
    ASSUME TypeOK, IsFiniteSet(conn), NEW h \in Handler, Connected(h)
    PROVE  conn' \subseteq Handler /\ IsFiniteSet(conn') /\ Cardinality(conn') <= PoolSize
<1>1. conn' = conn \cup {h}
  BY DEF Connected
<1>2. CASE h \in conn
  <2>1. conn' = conn
    BY <1>1, <1>2
  <2>. QED  BY <2>1 DEF TypeOK
<1>3. CASE h \notin conn
  <2>1. Cardinality(conn) < PoolSize
    BY <1>3 DEF Connected
  <2>2. IsFiniteSet(conn') /\ Cardinality(conn') = Cardinality(conn) + 1
    BY <1>1, <1>3, FS_AddElement
  <2>3. Cardinality(conn) \in Nat /\ PoolSize \in Nat
    BY FS_CardinalityType, PoolAssumption
  <2>4. Cardinality(conn') <= PoolSize
    BY <2>1, <2>2, <2>3
  <2>. QED  BY <1>1, <2>2, <2>4 DEF TypeOK
<1>. QED  BY <1>2, <1>3

LEMMA ConnShrinks ==
    ASSUME TypeOK, IsFiniteSet(conn), NEW h, conn' = conn \ {h}
    PROVE  conn' \subseteq Handler /\ IsFiniteSet(conn') /\ Cardinality(conn') <= PoolSize
<1>1. conn' \subseteq conn
  OBVIOUS
<1>2. IsFiniteSet(conn') /\ Cardinality(conn') <= Cardinality(conn)
  BY <1>1, FS_Subset
<1>3. Cardinality(conn) \in Nat /\ Cardinality(conn') \in Nat /\ PoolSize \in Nat
  BY <1>2, FS_CardinalityType, PoolAssumption
<1>4. Cardinality(conn) <= PoolSize
  BY DEF TypeOK
<1>. QED  BY <1>1, <1>2, <1>3, <1>4 DEF TypeOK

\* What every handler's local part gives at once.
LEMMA LocalAt ==
    ASSUME Inv, NEW h \in Handler
    PROVE  /\ Req(h) \in Request
           /\ OnCourse(Req(h), plan[h])
           /\ Connects(h) /\ Pends(h) /\ Holds(h) /\ Commits(h) /\ Tells(h)
           /\ Step(h) = First(plan[h])
           /\ plan[h] # << >> => Step(h) = Head(plan[h])
           /\ plan[h] = << >> <=> Step(h) = "done"
BY ReqType, OnlyClose DEF Inv, Local, TypeOK, Step, First

\* A handler that goes on to calls of its course that are not the end.
LEMMA Continues ==
    ASSUME Inv, NEW h \in Handler, NEW q, OnCourse(Req(h), q), q # << >>, Continue(h, q)
    PROVE  /\ plan' \in [Handler -> Seq(Queries \cup {"begin", "mutate", "probe", "close"})]
           /\ plan'[h] = q /\ Step(h)' = First(q) /\ ~Unsent(h)'
           /\ \A g \in Handler \ {h} : plan'[g] = plan[g] /\ answer'[g] = answer[g]
           /\ answer' \in [Handler -> Status \cup {NoAnswer}]
           /\ First(q) # "close" => answer' = answer
           /\ First(q) = "close" => answer'[h] = Told(h, SuccessOf(Req(h)))
<1>1. plan' = [plan EXCEPT ![h] = q]
  BY DEF Continue
<1>2. plan'[h] = q /\ \A g \in Handler \ {h} : plan'[g] = plan[g]
  BY <1>1 DEF Inv, TypeOK
<1>3. q \in Seq(Queries \cup {"begin", "mutate", "probe", "close"})
  BY CourseType
<1>4. plan' \in [Handler -> Seq(Queries \cup {"begin", "mutate", "probe", "close"})]
  BY <1>1, <1>3 DEF Inv, TypeOK
<1>5. q = <<"close">> <=> First(q) = "close"
  BY OnlyClose
<1>6. CASE First(q) # "close"
  <2>1. answer' = answer
    BY <1>5, <1>6 DEF Continue
  <2>. QED  BY <1>2, <1>4, <1>6, <2>1 DEF Inv, TypeOK, Step, First, Unsent
<1>7. CASE First(q) = "close"
  <2>1. answer' = [answer EXCEPT ![h] = Told(h, SuccessOf(Req(h)))]
    BY <1>5, <1>7 DEF Continue, Answer
  <2>2. SuccessOf(Req(h)) \in Status
    BY StatusType DEF SuccessOf
  <2>3. Told(h, SuccessOf(Req(h))) \in Status \cup {NoAnswer}
    BY <2>2 DEF Told, Inv, TypeOK
  <2>. QED  BY <1>2, <1>4, <1>7, <2>1, <2>3 DEF Inv, TypeOK, Step, First, Unsent
<1>. QED  BY <1>6, <1>7

\* A handler that raises leaves nothing behind, whatever it raises: its keys
\* and its connection are given back, and what it answers is true if the
\* error is one a running handler may report.
LEMMA RaiseInv ==
    ASSUME Inv, NEW h \in Handler, NEW s, NEW k, Raise(h, s, k),
           Step(h) \notin {"done", "close"},
           s \in Status, s \notin {201, 204},
           s = 200 => Req(h).kind # "update",
           s \in 400..499 => h \notin committed,
           k \in Title \cup Tag \cup {NoKey}, k \in Title => s = 409
    PROVE  Inv'
<1>1. /\ req' = req /\ row' = row /\ tags' = tags /\ loaded' = loaded /\ committed' = committed
      /\ plan' = [plan EXCEPT ![h] = << >>] /\ pending' = [pending EXCEPT ![h] = << >>]
      /\ dirty' = dirty \ {h} /\ clash' = [clash EXCEPT ![h] = k]
      /\ answer' = [answer EXCEPT ![h] = Told(h, s)]
      /\ conn' = conn \ {h} /\ held' = [held EXCEPT ![h] = {}]
  BY DEF Raise, Answer, EndTransaction, db
<1>2. /\ plan'[h] = << >> /\ pending'[h] = << >> /\ clash'[h] = k
      /\ answer'[h] = Told(h, s) /\ held'[h] = {} /\ h \notin conn'
  BY <1>1 DEF Inv, TypeOK
<1>3. \A g \in Handler \ {h} : Kept(g)
  BY <1>1 DEF Kept, Inv, TypeOK
<1>4. /\ conn' \subseteq Handler /\ IsFiniteSet(conn') /\ Cardinality(conn') <= PoolSize
  <2>1. TypeOK /\ IsFiniteSet(conn) /\ conn' = conn \ {h}
    BY <1>1 DEF Inv
  <2>. QED  BY <2>1, ConnShrinks
<1>5. answer[h] \in {NoAnswer, 504} /\ Told(h, s) \in Status
  BY LocalAt, StatusType DEF Tells, Told
<1>6. TypeOK'
  <2>1. << >> \in Seq(Queries \cup {"begin", "mutate", "probe", "close"}) /\ << >> \in Seq(Key)
    OBVIOUS
  <2>. QED  BY <1>1, <1>4, <1>5, <2>1 DEF Inv, TypeOK
<1>7. Tables'
  <2>1. \A g \in Handler : held'[g] = held[g] \/ held'[g] = {}
    BY <1>2, <1>3 DEF Kept
  <2>. QED  BY <1>1, <2>1, TablesSteady DEF Inv
<1>8. Local(h)'
  <2>1. Req(h)' = Req(h) /\ Step(h)' = "done" /\ Req(h) \in Request
    BY <1>1, <1>2, LocalAt DEF Req, Step
  <2>2. OnCourse(Req(h), plan[h])'
    BY <1>2, <2>1, EndOnCourse
  <2>3. Connects(h)'
    BY <1>2, <2>1 DEF Connects, InTransaction
  <2>4. Pends(h)'
    BY <1>2, <2>1 DEF Pends
  <2>5. Holds(h)'
    BY <1>2, <2>1 DEF Holds, InTransaction
  <2>6. Commits(h)'
    BY <1>2, <1>5, <2>1, StatusType DEF Commits, Unsent
  <2>7. Tells(h)'
    <3>1. Told(h, s) = s \/ (Told(h, s) = 504 /\ answer[h] = 504)
      BY <1>5 DEF Told
    <3>2. answer'[h] = s \/ answer'[h] = 504
      BY <1>2, <3>1
    <3>3. NoKey \notin Title /\ Tag \cap Title = {}
      BY KeysApart DEF Key
    <3>4. clash'[h] \in Title => answer'[h] \in {409, 504}
      BY <1>2, <3>2, <3>3
    <3>5. answer'[h] \notin {201, 204}
      BY <3>2
    <3>6. answer'[h] = 200 => Req(h).kind # "update"
      BY <3>2
    <3>7. answer'[h] \in 400..499 => h \notin committed'
      <4>1. committed' = committed
        BY <1>1
      <4>2. 504 \notin 400..499
        OBVIOUS
      <4>3. s \in 400..499 => h \notin committed
        OBVIOUS
      <4>. QED  BY ONLY <3>2, <4>1, <4>2, <4>3
    <3>. QED  BY <1>2, <2>1, <3>4, <3>5, <3>6, <3>7 DEF Tells
  <2>. QED  BY <2>2, <2>3, <2>4, <2>5, <2>6, <2>7 DEF Local
<1>9. req' = req /\ IsFiniteSet(conn')
  BY <1>1, <1>4
<1>. QED  BY <1>3, <1>6, <1>7, <1>8, <1>9, OneMoves

-----------------------------------------------------------------------------
\* The inductive invariant holds at the start

LEMMA InitInv == Init => Inv
<1>. SUFFICES ASSUME Init PROVE Inv
  OBVIOUS
<1>1. /\ req \in Scenario /\ tags = {} /\ conn = {} /\ dirty = {} /\ committed = {}
      /\ row = [i \in Id |-> IF i \in Task THEN TitleOf[i] ELSE NoRow]
      /\ plan = [h \in Handler |-> << >>] /\ pending = [h \in Handler |-> << >>]
      /\ held = [h \in Handler |-> {}] /\ loaded = [h \in Handler |-> NoRow]
      /\ answer = [h \in Handler |-> NoAnswer] /\ clash = [h \in Handler |-> NoKey]
  BY DEF Init
<1>2. IsFiniteSet(conn) /\ Cardinality(conn) <= PoolSize
  <2>1. IsFiniteSet(conn) /\ Cardinality(conn) = 0
    BY <1>1, FS_EmptySet
  <2>. QED  BY <2>1, PoolAssumption
<1>3. \A i \in Task : row[i] = TitleOf[i] /\ TitleOf[i] \in Title
  BY <1>1, KeysApart, RequestAssumption
<1>4. \A h \in Handler : row[h] = NoRow
  BY <1>1, KeysApart
<1>5. TypeOK
  <2>1. row \in [Id -> Title \cup {NoRow}]
    BY <1>1, <1>3
  <2>2. << >> \in Seq(Queries \cup {"begin", "mutate", "probe", "close"}) /\ << >> \in Seq(Key)
    OBVIOUS
  <2>. QED  BY <1>1, <1>2, <2>1, <2>2 DEF TypeOK
<1>6. ASSUME NEW h \in Handler
      PROVE  Local(h)
  <2>1. Step(h) = "done" /\ Req(h) \in Request
    BY <1>1, ReqType DEF Step
  <2>2. OnCourse(Req(h), plan[h])
    BY <1>1, <2>1, EndOnCourse
  <2>3. Connects(h) /\ Pends(h) /\ Holds(h) /\ Commits(h)
    BY <1>1, <2>1 DEF Connects, Pends, Holds, Commits, InTransaction
  <2>4. Tells(h)
    <3>1. answer[h] = NoAnswer /\ clash[h] = NoKey
      BY <1>1
    <3>2. NoKey \notin Title
      BY KeysApart
    <3>. QED  BY <2>1, <3>1, <3>2, Doubt DEF Tells
  <2>. QED  BY <2>2, <2>3, <2>4 DEF Local
<1>7. Tables
  <2>1. Exclusive /\ HeldTitles /\ HeldTags
    BY <1>1 DEF Exclusive, HeldTitles, HeldTags
  <2>2. UniqueRows
    <3>1. \A i, j \in Task : TitleOf[i] = TitleOf[j] => i = j
      BY RequestAssumption DEF IsInjective
    <3>2. \A i \in Id : row[i] # NoRow => i \in Task
      BY <1>1
    <3>. QED  BY <1>3, <3>1, <3>2 DEF UniqueRows
  <2>3. Births
    BY <1>1, <1>4 DEF Births
  <2>. QED  BY <2>1, <2>2, <2>3 DEF Tables
<1>. QED  BY <1>2, <1>5, <1>6, <1>7 DEF Inv

-----------------------------------------------------------------------------
\* Each step keeps it

LEMMA SendInv ==
    ASSUME Inv, NEW h \in Handler, Send(h[1], h[2])
    PROVE  Inv'
<1>1. h = <<h[1], h[2]>> /\ req[h[1]] = Req(h)
  BY HandlerShape DEF Req
<1>2. /\ Unsent(h)
      /\ req' = req /\ row' = row /\ tags' = tags /\ pending' = pending /\ held' = held
      /\ conn' = conn /\ loaded' = loaded /\ dirty' = dirty /\ committed' = committed
      /\ clash' = clash
  BY <1>1 DEF Send, db
<1>3. /\ plan[h] = << >> /\ answer[h] = NoAnswer /\ Step(h) = "done"
      /\ h \notin committed /\ h \notin conn /\ held[h] = {} /\ pending[h] = << >>
      /\ clash[h] \notin Title
  <2>1. plan[h] = << >> /\ answer[h] = NoAnswer /\ Step(h) = "done"
    BY <1>2 DEF Unsent, Step
  <2>2. Commits(h) /\ Connects(h) /\ Pends(h) /\ Tells(h)
    BY LocalAt
  <2>3. NoAnswer \notin {409, 504}
    BY RequestAssumption
  <2>. QED  BY <1>2, <2>1, <2>2, <2>3 DEF Commits, Connects, Pends, Tells
<1>4. Req(h)' = Req(h) /\ Target(h)' = Target(h) /\ Req(h) \in Request
  BY <1>2, LocalAt DEF Req, Target
<1>5. Tables' /\ IsFiniteSet(conn')
  <2>1. \A g \in Handler : held'[g] = held[g] \/ held'[g] = {}
    BY <1>2
  <2>. QED  BY <1>2, <2>1, TablesSteady DEF Inv
<1>6. CASE Req(h).kind \in {"oversized", "invalid"}
  <2>1. /\ plan' = plan
        /\ \/ answer' = [answer EXCEPT ![h] = Told(h, 413)]
           \/ answer' = [answer EXCEPT ![h] = Told(h, 422)]
    BY <1>1, <1>6 DEF Send, Answer, StatusOf
  <2>2. /\ answer' = [answer EXCEPT ![h] = 413] \/ answer' = [answer EXCEPT ![h] = 422]
    BY <1>3, <2>1 DEF Told
  <2>3. answer' \in [Handler -> Status \cup {NoAnswer}] /\ answer'[h] \in {413, 422}
    <3>1. 413 \in Status /\ 422 \in Status
      BY StatusType
    <3>2. answer \in [Handler -> Status \cup {NoAnswer}]
      BY DEF Inv, TypeOK
    <3>. QED  BY <2>2, <3>1, <3>2
  <2>4. TypeOK'
    BY <1>2, <2>1, <2>3 DEF Inv, TypeOK
  <2>5. \A g \in Handler \ {h} : Kept(g)
    BY <1>2, <2>1, <2>2 DEF Kept, Inv, TypeOK
  <2>6. Local(h)'
    <3>1. Step(h)' = "done"
      BY <1>3, <2>1 DEF Step
    <3>2. OnCourse(Req(h), plan[h])' /\ Connects(h)' /\ Pends(h)' /\ Holds(h)'
      BY <1>2, <1>3, <1>4, <2>1, <3>1, EndOnCourse DEF Connects, Pends, Holds, InTransaction
    <3>3. Commits(h)'
      BY <1>2, <1>3, <3>1 DEF Commits
    <3>4. Tells(h)'
      BY <1>2, <1>3, <1>4, <2>1, <2>3, <3>1 DEF Tells
    <3>. QED  BY <3>2, <3>3, <3>4 DEF Local
  <2>. QED  BY <1>2, <1>5, <2>4, <2>5, <2>6, OneMoves
<1>7. CASE Req(h).kind \notin {"oversized", "invalid"}
  <2>1. plan' = [plan EXCEPT ![h] = Plan(Req(h))] /\ answer' = answer
    BY <1>1, <1>7 DEF Send
  <2>2. /\ OnCourse(Req(h), Plan(Req(h))) /\ Plan(Req(h)) # << >>
        /\ First(Plan(Req(h))) \in {"begin", "probe"}
    BY <1>4, <1>7, PlanOnCourse
  <2>3. plan'[h] = Plan(Req(h)) /\ \A g \in Handler \ {h} : plan'[g] = plan[g]
    BY <2>1 DEF Inv, TypeOK
  <2>4. TypeOK'
    <3>1. plan' \in [Handler -> Seq(Queries \cup {"begin", "mutate", "probe", "close"})]
      BY <2>1, <2>2, CourseType DEF Inv, TypeOK
    <3>. QED  BY <1>2, <2>1, <3>1 DEF Inv, TypeOK
  <2>5. \A g \in Handler \ {h} : Kept(g)
    BY <1>2, <2>1, <2>3 DEF Kept
  <2>6. Local(h)'
    <3>1. Step(h)' \in {"begin", "probe"}
      BY <2>2, <2>3 DEF Step, First
    <3>2. OnCourse(Req(h), plan[h])'
      BY <1>4, <2>2, <2>3
    <3>3. Connects(h)' /\ Pends(h)'
      BY <1>2, <1>3, <3>1 DEF Connects, Pends, InTransaction
    <3>6. Holds(h)'
      <4>1. <<Req(h).title>> # << >> /\ pending'[h] = << >> /\ held'[h] = {}
        BY <1>2, <1>3
      <4>. QED  BY <3>1, <4>1, <1>4 DEF Holds, InTransaction
    <3>4. Commits(h)'
      BY <1>2, <1>3, <3>1 DEF Commits
    <3>5. Tells(h)'
      <4>1. answer'[h] = NoAnswer /\ clash'[h] \notin Title
        BY <1>2, <1>3, <2>1
      <4>2. answer'[h] \notin 400..499 /\ answer'[h] \notin {200, 201, 204}
        BY <4>1, Doubt
      <4>3. Step(h)' # "done"
        BY <3>1
      <4>. QED  BY ONLY <3>1, <4>1, <4>2, <4>3 DEF Tells
    <3>. QED  BY <3>2, <3>3, <3>6, <3>4, <3>5 DEF Local
  <2>. QED  BY <1>2, <1>5, <2>4, <2>5, <2>6, OneMoves
<1>. QED  BY <1>6, <1>7

LEMMA RequestTimeoutInv ==
    ASSUME Inv, NEW h \in Handler, RequestTimeout(h)
    PROVE  Inv'
<1>1. /\ req' = req /\ row' = row /\ tags' = tags /\ plan' = plan /\ pending' = pending
      /\ held' = held /\ conn' = conn /\ loaded' = loaded /\ dirty' = dirty
      /\ committed' = committed /\ clash' = clash
      /\ plan[h] # << >> /\ answer[h] = NoAnswer
      /\ answer' = [answer EXCEPT ![h] = 504]
  BY DEF RequestTimeout, Answer, Told, StatusOf, db
<1>2. answer' \in [Handler -> Status \cup {NoAnswer}] /\ answer'[h] = 504
  <2>1. 504 \in Status /\ answer \in [Handler -> Status \cup {NoAnswer}]
    BY StatusType DEF Inv, TypeOK
  <2>. QED  BY <1>1, <2>1
<1>3. TypeOK' /\ IsFiniteSet(conn')
  BY <1>1, <1>2 DEF Inv, TypeOK
<1>4. \A g \in Handler \ {h} : Kept(g)
  BY <1>1 DEF Kept, Inv, TypeOK
<1>5. Tables'
  <2>1. \A g \in Handler : held'[g] = held[g] \/ held'[g] = {}
    BY <1>1
  <2>. QED  BY <1>1, <2>1, TablesSteady DEF Inv
<1>6. Local(h)'
  <2>1. Req(h)' = Req(h) /\ Target(h)' = Target(h) /\ Step(h)' = Step(h) /\ Step(h) # "done"
    BY <1>1, LocalAt DEF Req, Target, Step
  <2>2. OnCourse(Req(h), plan[h])'
    BY <1>1, <2>1, LocalAt
  <2>3. Connects(h)'
    BY <1>1, <2>1, LocalAt DEF Connects
  <2>4. Pends(h)'
    BY <1>1, <2>1, LocalAt DEF Pends
  <2>5. Holds(h)'
    BY <1>1, <2>1, LocalAt DEF Holds
  <2>6. Commits(h)'
    BY <1>1, <2>1, LocalAt DEF Commits, Unsent
  <2>7. Tells(h)'
    <3>1. 504 # NoAnswer
      BY Doubt
    <3>. QED  BY <1>1, <1>2, <2>1, <3>1, Doubt DEF Tells
  <2>. QED  BY <2>2, <2>3, <2>4, <2>5, <2>6, <2>7 DEF Local
<1>. QED  BY <1>1, <1>3, <1>4, <1>5, <1>6, OneMoves

LEMMA CloseInv ==
    ASSUME Inv, NEW h \in Handler, Close(h)
    PROVE  Inv'
<1>1. /\ req' = req /\ row' = row /\ tags' = tags /\ pending' = pending
      /\ loaded' = loaded /\ dirty' = dirty /\ committed' = committed /\ answer' = answer
      /\ clash' = clash /\ plan' = [plan EXCEPT ![h] = << >>]
      /\ conn' = conn \ {h} /\ held' = [held EXCEPT ![h] = {}]
      /\ Step(h) = "close"
  BY DEF Close, EndTransaction, db
<1>2. plan'[h] = << >> /\ held'[h] = {} /\ h \notin conn'
  BY <1>1 DEF Inv, TypeOK
<1>3. \A g \in Handler \ {h} : Kept(g)
  BY <1>1 DEF Kept, Inv, TypeOK
<1>4. conn' \subseteq Handler /\ IsFiniteSet(conn') /\ Cardinality(conn') <= PoolSize
  <2>1. TypeOK /\ IsFiniteSet(conn) /\ conn' = conn \ {h}
    BY <1>1 DEF Inv
  <2>. QED  BY <2>1, ConnShrinks
<1>5. TypeOK'
  <2>1. << >> \in Seq(Queries \cup {"begin", "mutate", "probe", "close"})
    OBVIOUS
  <2>. QED  BY <1>1, <1>4, <2>1 DEF Inv, TypeOK
<1>6. Tables'
  <2>1. \A g \in Handler : held'[g] = held[g] \/ held'[g] = {}
    BY <1>2, <1>3 DEF Kept
  <2>. QED  BY <1>1, <2>1, TablesSteady DEF Inv
<1>7. Local(h)'
  <2>1. Req(h)' = Req(h) /\ Step(h)' = "done" /\ Req(h) \in Request
    BY <1>1, <1>2, LocalAt DEF Req, Step
  <2>2. OnCourse(Req(h), plan[h])'
    BY <1>2, <2>1, EndOnCourse
  <2>3. Connects(h)'
    BY <1>2, <2>1 DEF Connects, InTransaction
  <2>4. Pends(h)' /\ pending'[h] = << >>
    BY <1>1, <2>1, LocalAt DEF Pends
  <2>5. Holds(h)'
    <3>1. <<Req(h).title>> # << >>
      OBVIOUS
    <3>. QED  BY <1>2, <2>1, <2>4, <3>1 DEF Holds, InTransaction
  <2>6. answer[h] # NoAnswer
    BY <1>1, LocalAt DEF Tells
  <2>7. Commits(h)'
    BY <1>1, <1>2, <2>1, <2>6 DEF Commits, Unsent
  <2>8. Tells(h)'
    <3>1. Tells(h)
      BY LocalAt
    <3>2. answer'[h] = answer[h] /\ clash'[h] = clash[h] /\ loaded'[h] = loaded[h]
      BY <1>1
    <3>3. h \in committed' <=> h \in committed
      BY <1>1
    <3>. QED  BY <1>2, <2>1, <3>1, <3>2, <3>3 DEF Tells
  <2>. QED  BY <2>2, <2>3, <2>4, <2>5, <2>7, <2>8 DEF Local
<1>. QED  BY <1>1, <1>3, <1>4, <1>5, <1>6, <1>7, OneMoves

LEMMA PoolTimeoutInv ==
    ASSUME Inv, NEW h \in Handler, PoolTimeout(h)
    PROVE  Inv'
<1>1. Raise(h, 503, NoKey) /\ Step(h) \notin {"done", "close"}
  BY DEF PoolTimeout, StatusOf
<1>2. 503 \in Status /\ 503 \notin {201, 204} /\ 503 # 200 /\ 503 \notin 400..499
  BY StatusType
<1>3. NoKey \notin Title
  BY KeysApart
<1>. QED  BY <1>1, <1>2, <1>3, RaiseInv

\* A handler that waits for another one is at a statement.
LEMMA AwaitsAtCall ==
    ASSUME NEW h \in Handler, Awaited(h) # {}
    PROVE  Step(h) \notin {"done", "close"}
BY DEF Awaited, Queries

LEMMA VictimInv ==
    ASSUME Inv, NEW h \in Handler, Victim(h)
    PROVE  Inv'
<1>1. Step(h) \notin {"done", "close"}
  BY AwaitsAtCall DEF Victim, Deadlocked
<1>2. PICK e \in DatabaseErrors : Raise(h, StatusOf[e], NoKey)
  BY DEF Victim
<1>. DEFINE s == StatusOf[e]
<1>3. s \in {500, 503} /\ s \in Status
  BY StatusType
<1>. HIDE DEF s
<1>4. s \notin {201, 204} /\ s # 200 /\ s \notin 400..499
  BY <1>3
<1>5. NoKey \notin Title
  BY KeysApart
<1>6. Raise(h, s, NoKey)
  BY <1>2 DEF s
<1>. QED  BY <1>1, <1>3, <1>4, <1>5, <1>6, RaiseInv

LEMMA FailInv ==
    ASSUME Inv, NEW h \in Handler, Fail(h)
    PROVE  Inv'
<1>1. Step(h) \notin {"done", "close"}
  BY DEF Fail, Queries
<1>2. PICK e \in DatabaseErrors :
        Raise(h, IF Req(h).kind = "diagnose" /\ e = "operational" THEN 200 ELSE StatusOf[e], NoKey)
  BY DEF Fail
<1>. DEFINE s == IF Req(h).kind = "diagnose" /\ e = "operational" THEN 200 ELSE StatusOf[e]
<1>3. s \in {200, 500, 503} /\ s \in Status /\ (s = 200 => Req(h).kind # "update")
  BY StatusType
<1>. HIDE DEF s
<1>4. s \notin {201, 204} /\ s \notin 400..499
  BY <1>3
<1>5. NoKey \notin Title
  BY KeysApart
<1>6. Raise(h, s, NoKey)
  BY <1>2 DEF s
<1>. QED  BY <1>1, <1>3, <1>4, <1>5, <1>6, RaiseInv

\* The first statements: the row is loaded, or missed, or the engine refuses.
LEMMA BeginInv ==
    ASSUME Inv, NEW h \in Handler, Begin(h)
    PROVE  Inv'
<1>. DEFINE q == Tail(plan[h])
            t == Req(h).title
<1>1. Step(h) = "begin" /\ plan[h] # << >> /\ Head(plan[h]) = "begin"
  BY LocalAt DEF Begin
<1>2. /\ OnCourse(Req(h), q) /\ q # << >>
      /\ Req(h).kind = "create" => First(q) \in {"stage", "persist"}
      /\ Req(h).kind = "update" => First(q) \in {"tags", "mutate"}
      /\ Req(h).kind = "delete" => First(q) = "mutate"
      /\ Req(h).kind = "get" => First(q) = "read"
      /\ Req(h).kind \in {"create", "update", "delete", "get"}
  BY <1>1, LocalAt, Onward
<1>3. /\ held[h] = {} /\ pending[h] = << >> /\ h \notin committed
      /\ answer[h] \in {NoAnswer, 504}
  <2>1. Connects(h) /\ Pends(h) /\ Commits(h) /\ Tells(h)
    BY LocalAt
  <2>2. held[h] = {} /\ pending[h] = << >> /\ h \notin committed
    BY <1>1, <2>1 DEF Connects, Pends, Commits
  <2>3. answer[h] \in {NoAnswer, 504}
    BY <1>1, <2>1 DEF Tells
  <2>. QED  BY <2>2, <2>3
<1>4. ASSUME Req(h).kind = "create" \/ row[Target(h)] # NoRow,
             Connected(h), Continue(h, q),
             loaded' = [loaded EXCEPT ![h] = row[Target(h)]],
             pending' = [pending EXCEPT ![h] = IF Req(h).kind = "create" THEN <<t>> ELSE @],
             dirty' = IF Req(h).kind = "create" THEN dirty \cup {h} ELSE dirty,
             UNCHANGED <<req, db, held, committed, clash>>
      PROVE  Inv'
  <2>1. /\ req' = req /\ row' = row /\ tags' = tags /\ held' = held
        /\ committed' = committed /\ clash' = clash
    BY <1>4 DEF db
  <2>2. /\ plan' \in [Handler -> Seq(Queries \cup {"begin", "mutate", "probe", "close"})]
        /\ plan'[h] = q /\ Step(h)' = First(q) /\ ~Unsent(h)'
        /\ \A g \in Handler \ {h} : plan'[g] = plan[g]
        /\ answer' = answer
    <3>1. First(q) # "close"
      BY <1>2
    <3>. HIDE DEF q
    <3>. QED  BY <1>2, <1>4, <3>1, Continues
  <2>3. conn' \subseteq Handler /\ IsFiniteSet(conn') /\ Cardinality(conn') <= PoolSize
    BY <1>4, ConnGrows DEF Inv
  <2>4. conn' = conn \cup {h}
    BY <1>4 DEF Connected
  <2>5. Target(h) \in Id /\ Req(h) \in Request
    BY <1>2, TargetType, LocalAt DEF Inv, TypeOK
  <2>6. Req(h).kind = "create" => t \in Title /\ t \in Key /\ <<t>> \in Seq(Key)
    <3>1. Req(h).kind = "create" => t \in Title /\ t \in Key
      BY <2>5, RequestShape, KeysApart
    <3>. QED  BY <3>1
  <2>7. pending'[h] = IF Req(h).kind = "create" THEN <<t>> ELSE << >>
    BY <1>3, <1>4 DEF Inv, TypeOK
  <2>8. TypeOK'
    <3>1. pending' \in [Handler -> Seq(Key)]
      BY <1>4, <2>6 DEF Inv, TypeOK
    <3>2. loaded' \in [Handler -> Title \cup {NoRow}]
      BY <1>4, <2>5 DEF Inv, TypeOK
    <3>3. dirty' \subseteq Handler
      BY <1>4 DEF Inv, TypeOK
    <3>. QED  BY <2>1, <2>2, <2>3, <3>1, <3>2, <3>3 DEF Inv, TypeOK
  <2>9. \A g \in Handler \ {h} : Kept(g)
    BY <1>4, <2>1, <2>2, <2>4 DEF Kept, Inv, TypeOK
  <2>10. Tables'
    <3>1. \A g \in Handler : held'[g] = held[g] \/ held'[g] = {}
      BY <2>1
    <3>. QED  BY <2>1, <3>1, TablesSteady DEF Inv
  <2>11. Local(h)'
    <3>1. Req(h)' = Req(h) /\ Target(h)' = Target(h)
      BY <2>1 DEF Req, Target
    <3>2. OnCourse(Req(h), plan[h])'
      BY <1>2, <2>2, <3>1
    <3>3. Connects(h)'
      BY <1>2, <2>2, <2>4, OnlyClose DEF Connects
    <3>4. Pends(h)'
      BY <1>2, <2>2, <2>7, <3>1 DEF Pends
    <3>5. Holds(h)'
      <4>1. <<t>> # << >> /\ held'[h] = {}
        BY <1>3, <2>1
      <4>. QED  BY <1>2, <2>2, <2>7, <3>1, <4>1 DEF Holds
    <3>6. Commits(h)'
      BY <1>2, <1>3, <2>1, <2>2, <3>1 DEF Commits
    <3>7. Tells(h)'
      <4>1. clash[h] \in Title => answer[h] \in {409, 504}
        BY LocalAt DEF Tells
      <4>2. answer'[h] \in {NoAnswer, 504} /\ (clash'[h] \in Title => answer'[h] \in {409, 504})
        BY <1>3, <2>1, <2>2, <4>1
      <4>3. Step(h)' \notin {"done", "close"}
        BY <1>2, <2>2
      <4>4. answer'[h] \notin {200, 201, 204} /\ answer'[h] \notin 400..499
        BY <4>2, Doubt
      <4>. QED  BY ONLY <4>2, <4>3, <4>4 DEF Tells
    <3>. QED  BY <3>2, <3>3, <3>4, <3>5, <3>6, <3>7 DEF Local
  <2>. QED  BY <2>1, <2>3, <2>8, <2>9, <2>10, <2>11, OneMoves
<1>5. NoKey \notin Title
  BY KeysApart
<1>6. ASSUME Raise(h, StatusOf.task_not_found, NoKey)
      PROVE  Inv'
  <2>1. Raise(h, 404, NoKey)
    BY <1>6 DEF StatusOf
  <2>2. 404 \in Status /\ 404 # 200 /\ 404 \notin {201, 204}
    BY StatusType
  <2>. QED  BY <1>1, <1>3, <1>5, <2>1, <2>2, RaiseInv
<1>7. ASSUME NEW e \in Verdicts, Raise(h, StatusOf[e], NoKey)
      PROVE  Inv'
  <2>. DEFINE s == StatusOf[e]
  <2>1. s \in {403, 409, 422} /\ s \in Status /\ Raise(h, s, NoKey)
    BY <1>7, StatusType
  <2>. HIDE DEF s
  <2>2. s # 200 /\ s \notin {201, 204}
    BY <2>1
  <2>. QED  BY <1>1, <1>3, <1>5, <2>1, <2>2, RaiseInv
<1>. QED  BY <1>4, <1>6, <1>7 DEF Begin

LEMMA FlushedInv ==
    ASSUME Inv, NEW h \in Handler, Flushed(h)
    PROVE  Inv'
<1>. DEFINE q == Tail(plan[h])
<1>1. /\ Step(h) \in {"stage", "link"} /\ pending[h] = << >> /\ plan[h] # << >>
      /\ Step(h) = Head(plan[h]) /\ Continue(h, q)
      /\ req' = req /\ row' = row /\ tags' = tags /\ pending' = pending /\ held' = held
      /\ conn' = conn /\ loaded' = loaded /\ dirty' = dirty /\ committed' = committed
      /\ clash' = clash
  BY LocalAt DEF Flushed, db
<1>2. /\ OnCourse(Req(h), q) /\ q # << >>
      /\ Req(h).kind \in {"create", "update"}
      /\ Step(h) = "stage" => Req(h).kind = "create" /\ First(q) = "tags"
      /\ Step(h) = "link" /\ Req(h).kind = "create" => First(q) = "persist"
      /\ Step(h) = "link" /\ Req(h).kind = "update" => First(q) = "mutate"
  BY <1>1, LocalAt, Onward
<1>3. /\ plan' \in [Handler -> Seq(Queries \cup {"begin", "mutate", "probe", "close"})]
      /\ plan'[h] = q /\ Step(h)' = First(q) /\ ~Unsent(h)'
      /\ \A g \in Handler \ {h} : plan'[g] = plan[g]
      /\ answer' = answer
  <2>1. First(q) # "close"
    BY <1>1, <1>2
  <2>. HIDE DEF q
  <2>. QED  BY <1>1, <1>2, <2>1, Continues
<1>4. TypeOK' /\ IsFiniteSet(conn')
  BY <1>1, <1>3 DEF Inv, TypeOK
<1>5. \A g \in Handler \ {h} : Kept(g)
  BY <1>1, <1>3 DEF Kept
<1>6. Tables'
  <2>1. \A g \in Handler : held'[g] = held[g] \/ held'[g] = {}
    BY <1>1
  <2>. QED  BY <1>1, <2>1, TablesSteady DEF Inv
<1>7. Local(h)'
  <2>1. Req(h)' = Req(h) /\ Target(h)' = Target(h)
    BY <1>1 DEF Req, Target
  <2>2. OnCourse(Req(h), plan[h])'
    BY <1>2, <1>3, <2>1
  <2>3. Connects(h)'
    BY <1>1, <1>2, <1>3, LocalAt DEF Connects, InTransaction
  <2>4. Pends(h)'
    BY <1>1, <1>2, <1>3, <2>1 DEF Pends
  <2>5. Holds(h)'
    <3>1. <<Req(h).title>> # << >>
      OBVIOUS
    <3>2. Holds(h)
      BY LocalAt
    <3>. QED  BY <1>1, <1>2, <1>3, <2>1, <3>1, <3>2 DEF Holds, InTransaction
  <2>6. Commits(h)'
    BY <1>1, <1>2, <1>3, <2>1, LocalAt DEF Commits
  <2>7. Tells(h)'
    <3>1. answer[h] \in {NoAnswer, 504} /\ (clash[h] \in Title => answer[h] \in {409, 504})
      BY <1>1, LocalAt DEF Tells
    <3>2. answer'[h] \in {NoAnswer, 504} /\ (clash'[h] \in Title => answer'[h] \in {409, 504})
      BY <1>1, <1>3, <3>1
    <3>3. Step(h)' \notin {"done", "close"}
      BY <1>1, <1>2, <1>3
    <3>4. answer'[h] \notin {200, 201, 204} /\ answer'[h] \notin 400..499
      BY <3>2, Doubt
    <3>. QED  BY ONLY <3>2, <3>3, <3>4 DEF Tells
  <2>. QED  BY <2>2, <2>3, <2>4, <2>5, <2>6, <2>7 DEF Local
<1>. QED  BY <1>1, <1>4, <1>5, <1>6, <1>7, OneMoves

\* The tags of the answer, or the SELECT 1 of a probe: the last statement.
LEMMA ReadInv ==
    ASSUME Inv, NEW h \in Handler, Read(h)
    PROVE  Inv'
<1>. DEFINE q == Tail(plan[h])
<1>1. /\ Step(h) \in {"read", "probe"} /\ pending[h] = << >> /\ plan[h] # << >>
      /\ Step(h) = Head(plan[h]) /\ Continue(h, q) /\ Connected(h)
      /\ req' = req /\ row' = row /\ tags' = tags /\ pending' = pending /\ held' = held
      /\ loaded' = loaded /\ dirty' = dirty /\ committed' = committed /\ clash' = clash
  BY LocalAt DEF Read, db
<1>2. /\ OnCourse(Req(h), q) /\ q # << >> /\ First(q) = "close"
      /\ Step(h) = "read" => Req(h).kind \in {"create", "update", "get"}
      /\ Step(h) = "probe" => Req(h).kind \in {"ready", "diagnose"}
  BY <1>1, LocalAt, Onward
<1>3. /\ plan' \in [Handler -> Seq(Queries \cup {"begin", "mutate", "probe", "close"})]
      /\ plan'[h] = q /\ Step(h)' = "close" /\ ~Unsent(h)'
      /\ \A g \in Handler \ {h} : plan'[g] = plan[g] /\ answer'[g] = answer[g]
      /\ answer' \in [Handler -> Status \cup {NoAnswer}]
      /\ answer'[h] = Told(h, SuccessOf(Req(h)))
  <2>. HIDE DEF q
  <2>. QED  BY <1>1, <1>2, Continues
<1>4. conn' \subseteq Handler /\ IsFiniteSet(conn') /\ Cardinality(conn') <= PoolSize
  BY <1>1, ConnGrows DEF Inv
<1>5. conn' = conn \cup {h}
  BY <1>1 DEF Connected
<1>6. TypeOK'
  BY <1>1, <1>3, <1>4 DEF Inv, TypeOK
<1>7. \A g \in Handler \ {h} : Kept(g)
  BY <1>1, <1>3, <1>5 DEF Kept
<1>8. Tables'
  <2>1. \A g \in Handler : held'[g] = held[g] \/ held'[g] = {}
    BY <1>1
  <2>. QED  BY <1>1, <2>1, TablesSteady DEF Inv
<1>9. Local(h)'
  <2>1. Req(h)' = Req(h) /\ Target(h)' = Target(h)
    BY <1>1 DEF Req, Target
  <2>2. OnCourse(Req(h), plan[h])'
    BY <1>2, <1>3, <2>1
  <2>3. Connects(h)'
    BY <1>3, <1>5 DEF Connects, InTransaction
  <2>4. Pends(h)'
    BY <1>1, <1>3 DEF Pends
  <2>5. Holds(h)'
    <3>1. <<Req(h).title>> # << >>
      OBVIOUS
    <3>2. Holds(h)
      BY LocalAt
    <3>. QED  BY <1>1, <1>3, <2>1, <3>1, <3>2 DEF Holds, InTransaction
  <2>6. /\ Req(h).kind = "create" => h \in committed
        /\ Req(h).kind = "update" => h \in committed \/ Req(h).title = loaded[h]
        /\ Req(h).kind # "delete"
    BY <1>1, <1>2, LocalAt DEF Commits
  <2>7. Commits(h)'
    BY <1>1, <1>3, <2>1, <2>6 DEF Commits
  <2>8. Tells(h)'
    <3>1. answer[h] \in {NoAnswer, 504} /\ (clash[h] \in Title => answer[h] \in {409, 504})
      BY <1>1, LocalAt DEF Tells
    <3>2. SuccessOf(Req(h)) = IF Req(h).kind = "create" THEN 201 ELSE 200
      BY <2>6 DEF SuccessOf
    <3>3. \/ answer'[h] = 504
          \/ answer[h] = NoAnswer /\ answer'[h] = SuccessOf(Req(h))
      BY <1>3, <3>1 DEF Told
    <3>4. /\ answer'[h] # NoAnswer /\ answer'[h] \notin 400..499 /\ answer'[h] # 204
          /\ answer'[h] = 201 => Req(h).kind = "create"
      BY <3>2, <3>3, Doubt
    <3>5. clash'[h] \in Title => answer'[h] = 504
      <4>1. clash[h] \in Title => answer[h] # NoAnswer
        BY <3>1, Doubt
      <4>. QED  BY <1>1, <3>3, <4>1
    <3>6. answer'[h] \in {201, 204} => h \in committed'
      BY <1>1, <2>6, <3>4
    <3>7. Req(h)'.kind = "update" => h \in committed' \/ Req(h)'.title = loaded'[h]
      BY <1>1, <2>1, <2>6
    <3>. QED  BY ONLY <1>3, <3>4, <3>5, <3>6, <3>7 DEF Tells
  <2>. QED  BY <2>2, <2>3, <2>4, <2>5, <2>7, <2>8 DEF Local
<1>. QED  BY <1>1, <1>4, <1>6, <1>7, <1>8, <1>9, OneMoves

\* The answer of a handler that is not about to answer.
LEMMA StillSilent ==
    ASSUME NEW h \in Handler, Tells(h), Step(h) \notin {"done", "close"},
           Step(h)' \notin {"done", "close"}, answer'[h] = answer[h], clash'[h] = clash[h]
    PROVE  Tells(h)'
<1>1. answer'[h] \in {NoAnswer, 504} /\ (clash'[h] \in Title => answer'[h] \in {409, 504})
  BY DEF Tells
<1>2. answer'[h] \notin {200, 201, 204} /\ answer'[h] \notin 400..499
  BY <1>1, Doubt
<1>. QED  BY <1>1, <1>2 DEF Tells

LEMMA ResolveTagsInv ==
    ASSUME Inv, NEW h \in Handler, ResolveTags(h)
    PROVE  Inv'
<1>. DEFINE missing == Missing(Req(h).tags)
<1>1. /\ Step(h) = "tags" /\ pending[h] = << >> /\ plan[h] # << >> /\ Head(plan[h]) = "tags"
      /\ req' = req /\ row' = row /\ tags' = tags /\ held' = held
      /\ conn' = conn /\ loaded' = loaded /\ committed' = committed /\ clash' = clash
      /\ pending' = [pending EXCEPT ![h] = missing]
  BY LocalAt DEF ResolveTags, db
<1>2. /\ Req(h).kind \in {"create", "update"} /\ Req(h).tags # Omitted
      /\ OnCourse(Req(h), Tail(plan[h])) /\ Tail(plan[h]) # << >>
      /\ First(Tail(plan[h])) = "link"
  BY <1>1, LocalAt, Onward
<1>3. missing \in Seq(Tag) /\ missing \in Seq(Key)
  <2>1. Req(h).tags \in Seq(Tag)
    BY <1>2, LocalAt, RequestShape
  <2>2. missing \in Seq(Tag)
    BY <2>1, MissingType
  <2>. HIDE DEF missing
  <2>. QED  BY <2>2, KeysApart
<1>. HIDE DEF missing
<1>4. /\ h \in conn /\ h \notin committed
      /\ Req(h).kind = "create" => Req(h).title \in held[h]
      /\ Req(h).kind = "update" => held[h] \subseteq Tag
  BY <1>1, LocalAt DEF Connects, Commits, Holds, InTransaction
<1>5. pending'[h] = missing /\ \A g \in Handler \ {h} : pending'[g] = pending[g]
  BY <1>1 DEF Inv, TypeOK
<1>6. Tables' /\ IsFiniteSet(conn')
  <2>1. \A g \in Handler : held'[g] = held[g] \/ held'[g] = {}
    BY <1>1
  <2>. QED  BY <1>1, <2>1, TablesSteady DEF Inv
<1>7. ASSUME NEW q, OnCourse(Req(h), q), q # << >>, Continue(h, q),
             \/ First(q) = "link"
             \/ First(q) = "mutate" /\ Req(h).kind = "update" /\ missing = << >>,
             dirty' \subseteq Handler
      PROVE  Inv'
  <2>1. /\ plan' \in [Handler -> Seq(Queries \cup {"begin", "mutate", "probe", "close"})]
        /\ plan'[h] = q /\ Step(h)' = First(q) /\ ~Unsent(h)'
        /\ \A g \in Handler \ {h} : plan'[g] = plan[g]
        /\ answer' = answer
    <3>1. First(q) # "close"
      BY <1>7
    <3>. QED  BY <1>7, <3>1, Continues
  <2>2. TypeOK'
    <3>1. pending' \in [Handler -> Seq(Key)]
      BY <1>1, <1>3 DEF Inv, TypeOK
    <3>. QED  BY <1>1, <1>7, <2>1, <3>1 DEF Inv, TypeOK
  <2>3. \A g \in Handler \ {h} : Kept(g)
    BY <1>1, <1>5, <2>1 DEF Kept
  <2>4. Local(h)'
    <3>1. Req(h)' = Req(h) /\ Target(h)' = Target(h)
      BY <1>1 DEF Req, Target
    <3>2. OnCourse(Req(h), plan[h])'
      BY <1>7, <2>1, <3>1
    <3>3. Connects(h)'
      BY <1>1, <1>4, <1>7, <2>1 DEF Connects
    <3>4. Pends(h)'
      BY <1>3, <1>5, <1>7, <2>1 DEF Pends
    <3>5. Holds(h)'
      <4>1. Req(h).kind = "update" => missing # <<Req(h).title>>
        <5>1. Req(h).kind = "update" => Req(h).title \notin Tag
          BY LocalAt, RequestShape, KeysApart
        <5>2. <<Req(h).title>>[1] = Req(h).title /\ Len(<<Req(h).title>>) = 1
          OBVIOUS
        <5>3. Len(missing) = 1 => missing[1] \in Tag
          BY <1>3
        <5>. QED  BY <5>1, <5>2, <5>3
      <4>. QED  BY <1>1, <1>2, <1>4, <1>5, <1>7, <2>1, <3>1, <4>1 DEF Holds
    <3>6. Commits(h)'
      BY <1>1, <1>4, <1>7, <2>1, <3>1 DEF Commits
    <3>7. Tells(h)'
      <4>1. Step(h)' \notin {"done", "close"}
        BY <1>7, <2>1
      <4>. QED  BY <1>1, <2>1, <4>1, LocalAt, StillSilent
    <3>. QED  BY <3>2, <3>3, <3>4, <3>5, <3>6, <3>7 DEF Local
  <2>. QED  BY <1>1, <1>6, <2>2, <2>3, <2>4, OneMoves
<1>8. dirty' \subseteq Handler
  BY DEF ResolveTags, Inv, TypeOK
<1>9. CASE Continue(h, Tail(plan[h]))
  BY <1>2, <1>7, <1>8, <1>9
<1>10. CASE Req(h).kind = "update" /\ missing = << >> /\ Continue(h, Tail(Tail(plan[h])))
  <2>1. OnCourse(Req(h), Tail(Tail(plan[h]))) /\ First(Tail(Tail(plan[h]))) = "mutate"
    BY <1>1, <1>10, LocalAt, Skipping
  <2>2. Tail(Tail(plan[h])) # << >>
    BY <2>1 DEF First
  <2>. QED  BY <1>7, <1>8, <1>10, <2>1, <2>2
<1>. QED  BY <1>9, <1>10 DEF ResolveTags, missing

\* The loaded row changes in memory.
LEMMA MutateInv ==
    ASSUME Inv, NEW h \in Handler, Mutate(h)
    PROVE  Inv'
<1>. DEFINE writes == Req(h).kind = "delete" \/ Changed(h)
            t == Req(h).title
            i == Target(h)
            rows == IF ~writes THEN << >>
                    ELSE IF Req(h).kind = "delete" THEN <<i>> ELSE <<i, t>>
<1>1. /\ Step(h) = "mutate" /\ plan[h] # << >> /\ Head(plan[h]) = "mutate"
      /\ req' = req /\ row' = row /\ tags' = tags /\ held' = held
      /\ conn' = conn /\ loaded' = loaded /\ committed' = committed /\ clash' = clash
      /\ dirty' = IF writes THEN dirty \cup {h} ELSE dirty
      /\ pending' = [pending EXCEPT ![h] = @ \o rows]
  BY LocalAt DEF Mutate, db
<1>2. /\ Req(h).kind \in {"update", "delete"}
      /\ OnCourse(Req(h), Tail(plan[h])) /\ Tail(plan[h]) # << >>
      /\ First(Tail(plan[h])) = "persist" /\ plan[h][2] = "persist"
  BY <1>1, LocalAt, Onward
<1>3. i \in Id /\ (Req(h).kind = "update" => t \in Title)
  BY <1>2, LocalAt, RequestShape, TargetType DEF Inv, TypeOK
<1>4. /\ h \in conn /\ h \notin committed /\ pending[h] = << >>
      /\ Req(h).kind = "update" => held[h] \subseteq Tag
      /\ Req(h).kind = "delete" => held[h] \cap Tag = {}
  BY <1>1, LocalAt DEF Connects, Commits, Holds, Pends, InTransaction
<1>5. rows \in Seq(Key)
  <2>1. i \in Key /\ (Req(h).kind = "update" => t \in Key)
    BY <1>3, KeysApart
  <2>2. << >> \in Seq(Key) /\ <<i>> \in Seq(Key)
    BY <2>1
  <2>3. Req(h).kind = "update" => <<i, t>> \in Seq(Key)
    BY <2>1
  <2>. QED  BY <1>2, <2>2, <2>3
<1>6. pending'[h] = rows /\ \A g \in Handler \ {h} : pending'[g] = pending[g]
  <2>1. << >> \o rows = rows
    <3>. HIDE DEF rows
    <3>. QED  BY <1>5
  <2>. HIDE DEF rows
  <2>. QED  BY <1>1, <1>4, <2>1 DEF Inv, TypeOK
<1>7. Tables' /\ IsFiniteSet(conn')
  <2>1. \A g \in Handler : held'[g] = held[g] \/ held'[g] = {}
    BY <1>1
  <2>. QED  BY <1>1, <2>1, TablesSteady DEF Inv
<1>8. ASSUME NEW q, OnCourse(Req(h), q), q # << >>, Continue(h, q),
             \/ First(q) = "persist"
             \/ First(q) = "read" /\ Req(h).kind = "update" /\ ~writes
      PROVE  Inv'
  <2>1. /\ plan' \in [Handler -> Seq(Queries \cup {"begin", "mutate", "probe", "close"})]
        /\ plan'[h] = q /\ Step(h)' = First(q) /\ ~Unsent(h)'
        /\ \A g \in Handler \ {h} : plan'[g] = plan[g]
        /\ answer' = answer
    <3>1. First(q) # "close"
      BY <1>8
    <3>. QED  BY <1>8, <3>1, Continues
  <2>2. TypeOK'
    <3>1. pending' \in [Handler -> Seq(Key)]
      <4>. HIDE DEF rows
      <4>1. pending' = [pending EXCEPT ![h] = rows]
        BY <1>1, <1>6 DEF Inv, TypeOK
      <4>. QED  BY <1>5, <4>1 DEF Inv, TypeOK
    <3>2. dirty' \subseteq Handler
      BY <1>1 DEF Inv, TypeOK
    <3>. QED  BY <1>1, <2>1, <3>1, <3>2 DEF Inv, TypeOK
  <2>3. \A g \in Handler \ {h} : Kept(g)
    BY <1>1, <1>6, <2>1 DEF Kept
  <2>4. Local(h)'
    <3>1. Req(h)' = Req(h) /\ Target(h)' = Target(h)
      BY <1>1 DEF Req, Target
    <3>2. OnCourse(Req(h), plan[h])'
      BY <1>8, <2>1, <3>1
    <3>3. Connects(h)'
      BY <1>1, <1>4, <1>8, <2>1 DEF Connects
    <3>4. Pends(h)'
      BY <1>2, <1>6, <1>8, <2>1, <3>1 DEF Pends
    <3>5. Holds(h)'
      <4>1. Req(h).kind = "update" => rows # <<t>>
        <5>1. << >> # <<t>> /\ <<i, t>> # <<t>>
          BY Len(<<i, t>>) = 2, Len(<<t>>) = 1, << >> # <<t>>
        <5>. QED  BY <5>1
      <4>2. Req(h).kind = "update" => i \notin held[h]
        BY <1>3, <1>4, KeysApart
      <4>3. Step(h)' \in {"persist", "read"}
        BY <1>8, <2>1
      <4>. QED  BY <1>1, <1>2, <1>4, <1>6, <2>1, <3>1, <4>1, <4>2, <4>3 DEF Holds
    <3>6. Commits(h)'
      BY <1>1, <1>2, <1>4, <1>8, <2>1, <3>1 DEF Commits, Changed
    <3>7. Tells(h)'
      <4>1. Step(h)' \notin {"done", "close"}
        BY <1>8, <2>1
      <4>. QED  BY <1>1, <2>1, <4>1, LocalAt, StillSilent
    <3>. QED  BY <3>2, <3>3, <3>4, <3>5, <3>6, <3>7 DEF Local
  <2>. QED  BY <1>1, <1>7, <2>2, <2>3, <2>4, OneMoves
<1>9. Continue(h, IF h \notin dirty' /\ plan[h][2] = "persist"
                  THEN Tail(Tail(plan[h])) ELSE Tail(plan[h]))
  BY DEF Mutate
<1>10. CASE h \in dirty'
  BY <1>2, <1>8, <1>9, <1>10
<1>11. CASE h \notin dirty'
  <2>1. ~writes /\ Req(h).kind = "update"
    BY <1>1, <1>2, <1>11
  <2>2. OnCourse(Req(h), Tail(Tail(plan[h]))) /\ First(Tail(Tail(plan[h]))) = "read"
    BY <1>1, <2>1, LocalAt, Skipping
  <2>3. Tail(Tail(plan[h])) # << >>
    BY <2>2 DEF First
  <2>4. Continue(h, Tail(Tail(plan[h])))
    BY <1>2, <1>9, <1>11
  <2>. QED  BY <1>8, <2>1, <2>2, <2>3, <2>4
<1>. QED  BY <1>10, <1>11

\* What is about to be flushed, and what is left to flush after it.
LEMMA Flushing ==
    ASSUME Inv, NEW h \in Handler, pending[h] # << >>, Step(h) \in Queries
    PROVE  \/ /\ Step(h) \in {"stage", "persist"} /\ Req(h).kind = "create"
              /\ Head(pending[h]) = Req(h).title /\ Tail(pending[h]) = << >>
           \/ /\ Step(h) = "link" /\ Req(h).kind \in {"create", "update"}
              /\ Head(pending[h]) \in Tag /\ Tail(pending[h]) \in Seq(Tag)
           \/ /\ Step(h) = "persist" /\ Req(h).kind = "update" /\ Target(h) \in held[h]
              /\ Head(pending[h]) = Req(h).title /\ Tail(pending[h]) = << >>
           \/ /\ Step(h) = "persist" /\ Req(h).kind = "update"
              /\ Head(pending[h]) = Target(h) /\ Tail(pending[h]) = <<Req(h).title>>
           \/ /\ Step(h) = "persist" /\ Req(h).kind = "delete"
              /\ Head(pending[h]) = Target(h) /\ Tail(pending[h]) = << >>
<1>. DEFINE p == pending[h]
            t == Req(h).title
            i == Target(h)
<1>1. Step(h) \in {"stage", "link", "persist"}
  BY LocalAt DEF Pends
<1>2. plan[h] # << >> /\ Step(h) = Head(plan[h])
  BY <1>1, LocalAt
<1>3. /\ Step(h) = "stage" => Req(h).kind = "create"
      /\ Step(h) = "link" => Req(h).kind \in {"create", "update"}
      /\ Step(h) = "persist" => Req(h).kind \in {"create", "update", "delete"}
  BY <1>2, LocalAt, Onward
<1>4. CASE Step(h) = "link"
  <2>1. p \in Seq(Tag)
    BY <1>4, LocalAt DEF Pends
  <2>. QED  BY <1>3, <1>4, <2>1
<1>5. CASE Req(h).kind = "create" /\ Step(h) # "link"
  <2>1. p = <<t>>
    BY <1>1, <1>5, LocalAt DEF Pends
  <2>. QED  BY <1>1, <1>5, <2>1
<1>6. CASE Req(h).kind = "update" /\ Step(h) = "persist"
  <2>1. p = <<t>> \/ p = <<i, t>>
    BY <1>6, LocalAt DEF Pends
  <2>2. p = <<t>> => i \in held[h]
    BY <1>6, LocalAt DEF Holds
  <2>3. CASE p = <<t>>
    BY <1>6, <2>2, <2>3
  <2>4. CASE p = <<i, t>>
    BY <1>6, <2>4
  <2>. QED  BY <2>1, <2>3, <2>4
<1>7. CASE Req(h).kind = "delete" /\ Step(h) = "persist"
  <2>1. p = <<i>>
    BY <1>7, LocalAt DEF Pends
  <2>. QED  BY <1>7, <2>1
<1>. QED  BY <1>1, <1>3, <1>4, <1>5, <1>6, <1>7

\* One pending row reaches the database.
LEMMA FlushInv ==
    ASSUME Inv, NEW h \in Handler, Flush(h)
    PROVE  Inv'
<1>. DEFINE k == Head(pending[h])
            t == Req(h).title
            i == Target(h)
            more == IF k \in Id THEN {row[k]} \ {NoRow} ELSE {}
<1>1. pending[h] # << >> /\ Step(h) \in Queries /\ Awaited(h) = {}
  BY DEF Flush
<1>2. Step(h) \in {"stage", "link", "persist"} /\ Step(h) \notin {"done", "close"}
  BY <1>1, LocalAt DEF Pends
<1>3. h \notin committed /\ h \in conn
  BY <1>2, LocalAt DEF Commits, Connects, InTransaction
<1>4. \A g \in Handler \ {h} : k \notin held[g]
  BY <1>1 DEF Awaited, Holders
<1>5. NoKey \notin Title /\ 500 \in Status /\ 409 \in Status
  BY KeysApart, StatusType
<1>6. ASSUME Taken(h, k),
             Raise(h, IF k \in Title /\ Step(h) \in {"stage", "persist"}
                      THEN StatusOf.duplicate_task ELSE StatusOf.driver, k)
      PROVE  Inv'
  <2>1. k \in Title \cup Tag
    BY <1>6 DEF Taken, Inv, TypeOK
  <2>2. k \in Title => Step(h) \in {"stage", "persist"}
    BY <1>1, <1>2, Flushing, KeysApart
  <2>. DEFINE s == IF k \in Title THEN 409 ELSE 500
  <2>3. Raise(h, s, k)
    BY <1>6, <2>2 DEF StatusOf
  <2>4. s \in Status /\ s # 200 /\ s \notin {201, 204} /\ (k \in Title => s = 409)
    BY <1>5
  <2>. HIDE DEF s, k
  <2>. QED  BY <1>2, <1>3, <2>1, <2>3, <2>4, RaiseInv
<1>7. ASSUME Raise(h, StatusOf.driver, NoKey)
      PROVE  Inv'
  <2>1. Raise(h, 500, NoKey)
    BY <1>7 DEF StatusOf
  <2>. QED  BY <1>2, <1>3, <1>5, <2>1, RaiseInv
<1>8. ASSUME ~Taken(h, k),
             pending' = [pending EXCEPT ![h] = Tail(@)],
             held' = [held EXCEPT ![h] = @ \cup {k} \cup more],
             UNCHANGED <<req, db, plan, conn, loaded, dirty, committed, answer, clash>>
      PROVE  Inv'
  <2>1. /\ req' = req /\ row' = row /\ tags' = tags /\ plan' = plan /\ conn' = conn
        /\ loaded' = loaded /\ dirty' = dirty /\ committed' = committed /\ answer' = answer
        /\ clash' = clash
    BY <1>8 DEF db
  <2>2. /\ pending'[h] = Tail(pending[h]) /\ held'[h] = held[h] \cup {k} \cup more
        /\ \A g \in Handler \ {h} : pending'[g] = pending[g] /\ held'[g] = held[g]
    BY <1>8 DEF Inv, TypeOK
  <2>3. /\ Req(h) \in Request /\ i \in Id
        /\ Req(h).kind = "create" => t \in Title /\ i = h
        /\ Req(h).kind = "update" => t \in Title /\ i \in Id
        /\ Req(h).kind = "delete" => i \in Id
        /\ Req(h).kind \in {"create", "update", "delete"}
    <3>1. Req(h).kind \in {"create", "update", "delete"}
      BY <1>1, Flushing
    <3>. QED  BY <3>1, LocalAt, RequestShape, TargetType DEF Inv, TypeOK
  <2>4. /\ k \in Key
        /\ k \in Id => k = i /\ Req(h).kind \in {"update", "delete"} /\ Step(h) = "persist"
        /\ k \in Title /\ Req(h).kind # "create" => i \in held[h] /\ Req(h).kind = "update"
    BY <1>1, <2>3, Flushing, KeysApart
  <2>5. /\ more \subseteq Title /\ more \subseteq Key
        /\ \A z \in more : k \in Id /\ z = row[k] /\ z # NoRow
    <3>1. k \in Id => row[k] \in Title \cup {NoRow}
      BY KeysApart DEF Inv, TypeOK
    <3>. QED  BY <3>1, KeysApart
  <2>. HIDE DEF more
  <2>6. TypeOK'
    <3>1. Tail(pending[h]) \in Seq(Key)
      BY <1>1 DEF Inv, TypeOK
    <3>2. pending' \in [Handler -> Seq(Key)]
      BY <1>8, <3>1 DEF Inv, TypeOK
    <3>3. held' \in [Handler -> SUBSET Key]
      <4>. HIDE DEF k
      <4>. QED  BY <1>8, <2>4, <2>5 DEF Inv, TypeOK
    <3>. QED  BY <2>1, <3>2, <3>3 DEF Inv, TypeOK
  <2>7. \A g \in Handler \ {h} : Kept(g)
    BY <2>1, <2>2 DEF Kept
  <2>8. Tables'
    <3>1. Exclusive'
      <4>1. ASSUME NEW g \in Handler \ {h}, NEW z \in Key, z \in held[g], z \in held'[h]
            PROVE  FALSE
        <5>1. Exclusive /\ HeldTitles
          BY DEF Inv, Tables
        <5>2. z \notin held[h]
          BY <4>1, <5>1 DEF Exclusive
        <5>3. z # k
          BY <1>4, <4>1
        <5>4. z \in more
          BY <2>2, <4>1, <5>2, <5>3
        <5>5. k \in Id /\ z = row[k] /\ z # NoRow
          BY <2>5, <5>4
        <5>6. k \in held[g]
          BY <4>1, <5>1, <5>5, KeysApart DEF HeldTitles
        <5>. QED  BY <1>4, <5>6
      <4>2. Exclusive
        BY DEF Inv, Tables
      <4>. HIDE DEF k
      <4>. QED  BY <2>2, <4>1, <4>2 DEF Exclusive
    <3>2. UniqueRows' /\ Births'
      BY <2>1 DEF Inv, Tables, UniqueRows, Births, Releases, Req
    <3>3. HeldTitles'
      <4>1. ASSUME NEW j \in Id, row[j] # NoRow, row[j] \in held'[h]
            PROVE  Req(h).kind \in {"update", "delete"} /\ j = i /\ j \in held'[h]
        <5>1. CASE row[j] \in held[h]
          BY <2>2, <4>1, <5>1 DEF Inv, Tables, HeldTitles
        <5>2. CASE row[j] = k
          <6>1. k \in Title
            BY <4>1, <5>2 DEF Inv, TypeOK
          <6>2. j = i
            BY <1>8, <4>1, <5>2, <6>1 DEF Taken
          <6>3. Req(h).kind # "create"
            <7>1. Req(h).kind = "create" => row[h] = NoRow
              BY <1>3 DEF Inv, Tables, Births
            <7>. QED  BY <2>3, <4>1, <6>2, <7>1
          <6>. QED  BY <2>2, <2>4, <6>1, <6>2, <6>3
        <5>3. CASE row[j] \in more
          <6>1. k \in Id /\ row[j] = row[k] /\ k \in Id
            BY <2>5, <5>3, KeysApart
          <6>2. j = k
            BY <4>1, <6>1 DEF Inv, Tables, UniqueRows
          <6>. QED  BY <2>2, <2>4, <6>1, <6>2
        <5>. QED  BY <2>2, <4>1, <5>1, <5>2, <5>3
      <4>2. HeldTitles
        BY DEF Inv, Tables
      <4>. HIDE DEF k
      <4>. QED  BY <2>1, <2>2, <4>1, <4>2 DEF HeldTitles, Req, Target
    <3>4. HeldTags'
      <4>1. k \notin tags
        BY <1>8 DEF Taken
      <4>2. more \cap tags = {}
        BY <2>5, KeysApart DEF Inv, TypeOK
      <4>3. HeldTags
        BY DEF Inv, Tables
      <4>. HIDE DEF k
      <4>. QED  BY <2>1, <2>2, <4>1, <4>2, <4>3 DEF HeldTags
    <3>. QED  BY <3>1, <3>2, <3>3, <3>4 DEF Tables
  <2>9. Local(h)'
    <3>1. Req(h)' = Req(h) /\ Target(h)' = Target(h) /\ Step(h)' = Step(h)
      BY <2>1 DEF Req, Target, Step
    <3>2. OnCourse(Req(h), plan[h])'
      BY <2>1, <3>1, LocalAt
    <3>3. Connects(h)'
      BY <1>2, <1>3, <2>1, <3>1 DEF Connects
    <3>4. Pends(h)'
      BY <1>1, <2>2, <3>1, Flushing DEF Pends
    <3>5. Holds(h)'
      <4>1. Holds(h)
        BY LocalAt
      <4>2. Req(h).kind = "delete" => held'[h] \cap Tag = {}
        BY <2>2, <2>4, <2>5, <4>1, <1>1, Flushing, KeysApart, <2>3 DEF Holds
      <4>3. Req(h).kind = "update" /\ Step(h) \in {"tags", "link", "mutate"} => held'[h] \subseteq Tag
        BY <1>1, <1>2, <2>2, <2>5, <4>1, Flushing, KeysApart DEF Holds
      <4>4. Req(h).kind = "update" /\ pending'[h] = <<t>> => i \in held'[h]
        <5>1. CASE Tail(pending[h]) \in Seq(Tag)
          <6>1. Req(h).kind = "update" => Tail(pending[h]) # <<t>>
            <7>1. Req(h).kind = "update" => t \notin Tag
              BY <2>3, KeysApart
            <7>2. <<t>> \in Seq(Tag) => t \in Tag
              OBVIOUS
            <7>. QED  BY ONLY <5>1, <7>1, <7>2
          <6>. QED  BY <2>2, <6>1
        <5>2. CASE Tail(pending[h]) \notin Seq(Tag)
          <6>1. << >> \in Seq(Tag)
            OBVIOUS
          <6>2. Req(h).kind = "update" => k = i
            BY <1>1, <5>2, <6>1, Flushing
          <6>. QED  BY <2>2, <6>2
        <5>. QED  BY <5>1, <5>2
      <4>5. Req(h).kind = "update" /\ Step(h) = "persist" /\ pending'[h] = << >> => t \in held'[h]
        <5>1. <<t>> # << >>
          OBVIOUS
        <5>2. Req(h).kind = "update" /\ Step(h) = "persist" /\ pending'[h] = << >> => k = t
          BY <1>1, <2>2, <5>1, Flushing
        <5>. QED  BY <2>2, <5>2
      <4>6. Req(h).kind = "create" => t \in held'[h]
        <5>1. Req(h).kind = "create" /\ Step(h) = "link" => t \in held[h]
          BY <4>1 DEF Holds
        <5>2. Req(h).kind = "create" /\ Step(h) # "link" => k = t
          BY <1>1, Flushing
        <5>. QED  BY <2>2, <5>1, <5>2
      <4>. HIDE DEF k
      <4>. QED  BY <3>1, <4>2, <4>3, <4>4, <4>5, <4>6 DEF Holds
    <3>6. Commits(h)'
      BY <2>1, <3>1, LocalAt DEF Commits, Unsent
    <3>7. Tells(h)'
      BY <1>2, <2>1, <3>1, LocalAt, StillSilent
    <3>. QED  BY <3>2, <3>3, <3>4, <3>5, <3>6, <3>7 DEF Local
  <2>10. IsFiniteSet(conn')
    BY <2>1 DEF Inv
  <2>. QED  BY <2>1, <2>6, <2>7, <2>8, <2>9, <2>10, OneMoves
<1>. QED  BY <1>6, <1>7, <1>8 DEF Flush

\* What a commit writes, and why the title it writes is free.
LEMMA WrittenRow ==
    ASSUME Inv, NEW h \in Handler, Step(h) = "persist", pending[h] = << >>
    PROVE  /\ Req(h).kind \in {"create", "update", "delete"}
           /\ Target(h) \in Id /\ h \notin committed
           /\ Req(h).kind = "create" =>
                /\ Target(h) = h /\ Req(h).title \in Title /\ Req(h).title \in held[h]
                /\ Written(h) = [row EXCEPT ![h] = Req(h).title]
           /\ Req(h).kind = "delete" =>
                /\ Target(h) \in Id /\ held[h] \cap Tag = {}
                /\ Written(h) = [row EXCEPT ![Target(h)] = NoRow]
           /\ Req(h).kind = "update" =>
                /\ Target(h) \in Id /\ Req(h).title \in Title
                /\ \/ Written(h) = row
                   \/ /\ Req(h).title \in held[h]
                      /\ Written(h) = [row EXCEPT ![Target(h)] = Req(h).title]
           /\ Req(h).title \in Title /\ Req(h).title \in held[h] =>
                \A j \in Id \ {Target(h)} : row[j] # Req(h).title
<1>1. plan[h] # << >> /\ Head(plan[h]) = "persist"
  BY LocalAt
<1>2. Req(h).kind \in {"create", "update", "delete"} /\ Req(h) \in Request
  BY <1>1, LocalAt, Onward
<1>3. /\ Target(h) \in Id
      /\ Req(h).kind = "create" => Target(h) = h /\ Req(h).title \in Title
      /\ Req(h).kind = "delete" => Target(h) \in Id
      /\ Req(h).kind = "update" => Target(h) \in Id /\ Req(h).title \in Title
  BY <1>2, RequestShape, TargetType DEF Inv, TypeOK
<1>4. /\ h \notin committed
      /\ Req(h).kind = "create" => Req(h).title \in held[h]
      /\ Req(h).kind = "delete" => held[h] \cap Tag = {}
      /\ Req(h).kind = "update" /\ Target(h) \in held[h] => Req(h).title \in held[h]
  BY LocalAt DEF Commits, Holds, InTransaction
<1>5. /\ Req(h).kind = "create" => Written(h) = [row EXCEPT ![h] = Req(h).title]
      /\ Req(h).kind = "delete" => Written(h) = [row EXCEPT ![Target(h)] = NoRow]
      /\ Req(h).kind = "update" =>
           \/ Written(h) = row
           \/ Target(h) \in held[h] /\ Written(h) = [row EXCEPT ![Target(h)] = Req(h).title]
  BY <1>2 DEF Written
<1>6. ASSUME Req(h).title \in Title, Req(h).title \in held[h],
             NEW j \in Id \ {Target(h)}, row[j] = Req(h).title
      PROVE  FALSE
  <2>1. row[j] # NoRow /\ row[j] \in held[h]
    BY <1>6, KeysApart
  <2>. QED  BY <1>6, <2>1 DEF Inv, Tables, HeldTitles
<1>. QED  BY <1>2, <1>3, <1>4, <1>5, <1>6

\* The commit: the tables stay sound.
LEMMA CommitTables ==
    ASSUME Inv, NEW h \in Handler, Step(h) = "persist", pending[h] = << >>, ~Unmatched(h),
           req' = req, row' = Written(h), tags' = tags \cup (held[h] \cap Tag),
           committed' = committed \cup {h}, held' = [held EXCEPT ![h] = {}]
    PROVE  Tables' /\ row' \in [Id -> Title \cup {NoRow}]
<1>. DEFINE t == Req(h).title
            i == Target(h)
<1>1. /\ held'[h] = {} /\ \A g \in Handler \ {h} : held'[g] = held[g]
      /\ \A g \in Handler : held[g] \subseteq Key
  BY DEF Inv, TypeOK
<1>2. Exclusive /\ UniqueRows /\ HeldTitles /\ HeldTags /\ Births
  BY DEF Inv, Tables
<1>3. row \in [Id -> Title \cup {NoRow}] /\ i \in Id /\ NoRow \notin Title
  BY WrittenRow, KeysApart DEF Inv, TypeOK
<1>4. \/ row' = row /\ Req(h).kind = "update"
      \/ row' = [row EXCEPT ![i] = NoRow] /\ Req(h).kind = "delete"
      \/ /\ row' = [row EXCEPT ![i] = t] /\ Req(h).kind \in {"create", "update"}
         /\ t \in Title /\ t \in held[h] /\ \A j \in Id \ {i} : row[j] # t
  BY WrittenRow
<1>5. row' \in [Id -> Title \cup {NoRow}]
  BY <1>3, <1>4
<1>6. /\ \A j \in Id \ {i} : row'[j] = row[j]
      /\ row'[i] \in {row[i], NoRow} \/ (/\ row'[i] = t /\ t \in held[h] /\ t \in Title
                                         /\ \A j \in Id \ {i} : row[j] # t)
  BY <1>3, <1>4
<1>7. Exclusive'
  BY <1>1, <1>2 DEF Exclusive
<1>8. UniqueRows'
  BY <1>2, <1>3, <1>6 DEF UniqueRows
<1>9. HeldTitles'
  <2>1. ASSUME NEW g \in Handler, NEW j \in Id, row'[j] # NoRow, row'[j] \in held'[g]
        PROVE  Req(g).kind \in {"update", "delete"} /\ j = Target(g) /\ j \in held'[g]
    <3>1. g # h /\ held'[g] = held[g]
      BY <1>1, <2>1
    <3>2. row'[j] = row[j]
      <4>1. CASE j = i /\ row'[i] = t /\ t \in held[h] /\ t \in Title
        <5>1. t \in held[g] /\ t \in Key
          BY <2>1, <3>1, <4>1, <1>1
        <5>. QED  BY <1>2, <3>1, <4>1, <5>1 DEF Exclusive
      <4>. QED  BY <1>6, <2>1, <4>1
    <3>. QED  BY <1>2, <2>1, <3>1, <3>2 DEF HeldTitles
  <2>. QED  BY <2>1 DEF HeldTitles, Req, Target
<1>10. HeldTags'
  <2>1. ASSUME NEW g \in Handler, NEW z \in held'[g], z \in tags'
        PROVE  FALSE
    <3>1. g # h /\ z \in held[g] /\ z \in Key
      BY <1>1, <2>1
    <3>2. z \notin tags
      BY <1>2, <3>1 DEF HeldTags
    <3>3. z \in held[h]
      BY <2>1, <3>2
    <3>. QED  BY <1>2, <3>1, <3>3 DEF Exclusive
  <2>. QED  BY <2>1 DEF HeldTags
<1>11. Births'
  <2>1. ASSUME NEW g \in Handler
        PROVE  /\ row'[g] # NoRow => Req(g).kind = "create" /\ g \in committed'
               /\ Req(g).kind = "create" /\ g \in committed' =>
                    row'[g] = Req(g).title \/ \E f \in committed' : Releases(f, g)
    <3>1. /\ g \in Id
          /\ row[g] # NoRow => Req(g).kind = "create" /\ g \in committed
          /\ Req(g).kind = "create" /\ g \in committed =>
               row[g] = Req(g).title \/ \E f \in committed : Releases(f, g)
      BY <1>2, KeysApart DEF Births
    <3>2. CASE Req(h).kind = "create"
      <4>1. i = h /\ row' = [row EXCEPT ![h] = t]
        BY <3>2, WrittenRow
      <4>2. CASE g = h
        BY <1>3, <3>1, <3>2, <4>1, <4>2
      <4>3. CASE g # h
        BY <1>6, <3>1, <4>1, <4>3
      <4>. QED  BY <4>2, <4>3
    <3>3. CASE Req(h).kind \in {"update", "delete"}
      <4>1. CASE g # i
        <5>1. row'[g] = row[g]
          BY <1>6, <3>1, <4>1
        <5>2. Req(g).kind = "create" /\ g \in committed' => g \in committed
          BY <3>3
        <5>. QED  BY <3>1, <5>1, <5>2
      <4>2. CASE g = i
        <5>1. Req(h).task = g
          BY <3>3, <4>2 DEF Target
        <5>2. row'[g] # NoRow => row[g] # NoRow
          <6>1. CASE Req(h).kind = "delete"
            BY <1>3, <1>4, <4>2, <6>1
          <6>2. CASE Req(h).kind = "update"
            BY <4>2, <5>1, <6>2 DEF Unmatched
          <6>. QED  BY <3>3, <6>1, <6>2
        <5>3. CASE row'[g] = row[g]
          <6>1. Req(g).kind = "create" /\ g \in committed' => g \in committed
            BY <3>3
          <6>. QED  BY <3>1, <5>3, <6>1
        <5>4. CASE row'[g] # row[g]
          <6>1. Req(h).kind = "update" => row'[g] = t
            BY <1>3, <1>4, <4>2, <5>4
          <6>2. Releases(h, g) \/ row'[g] = Req(g).title
            BY <3>3, <5>1, <6>1 DEF Releases
          <6>. QED  BY <3>1, <5>2, <6>2
        <5>. QED  BY <5>3, <5>4
      <4>. QED  BY <4>1, <4>2
    <3>. QED  BY <3>2, <3>3, WrittenRow
  <2>2. \A f, g \in Handler : Releases(f, g)' <=> Releases(f, g)
    BY DEF Releases, Req
  <2>3. committed' \subseteq Handler
    BY DEF Inv, TypeOK
  <2>. QED  BY <2>1, <2>2, <2>3 DEF Births, Req
<1>. QED  BY <1>5, <1>7, <1>8, <1>9, <1>10, <1>11 DEF Tables

LEMMA CommitInv ==
    ASSUME Inv, NEW h \in Handler, Commit(h)
    PROVE  Inv'
<1>. DEFINE q == Tail(plan[h])
<1>1. /\ Step(h) = "persist" /\ pending[h] = << >> /\ plan[h] # << >>
      /\ Head(plan[h]) = "persist"
  BY LocalAt DEF Commit
<1>2. /\ OnCourse(Req(h), q) /\ q # << >>
      /\ Req(h).kind \in {"create", "update", "delete"}
      /\ Req(h).kind = "delete" => First(q) = "close"
      /\ Req(h).kind # "delete" => First(q) = "read"
  BY <1>1, LocalAt, Onward
<1>3. h \notin committed /\ answer[h] \in {NoAnswer, 504}
  <2>1. Commits(h) /\ Tells(h)
    BY LocalAt
  <2>2. h \notin committed
    BY <1>1, <2>1 DEF Commits
  <2>3. answer[h] \in {NoAnswer, 504}
    BY <1>1, <2>1 DEF Tells
  <2>. QED  BY <2>2, <2>3
<1>4. ASSUME Raise(h, StatusOf.driver, NoKey)
      PROVE  Inv'
  <2>1. Raise(h, 500, NoKey)
    BY <1>4 DEF StatusOf
  <2>2. NoKey \notin Title /\ 500 \in Status
    BY KeysApart, StatusType
  <2>. QED  BY <1>1, <1>3, <2>1, <2>2, RaiseInv
<1>5. ASSUME ~Unmatched(h), row' = Written(h), tags' = tags \cup (held[h] \cap Tag),
             committed' = committed \cup {h}, dirty' = dirty \ {h}, EndTransaction(h),
             UNCHANGED <<req, pending, loaded, clash>>,
             \/ Continue(h, q)
             \/ \E e \in DatabaseErrors :
                  plan' = [plan EXCEPT ![h] = << >>] /\ Answer(h, StatusOf[e])
      PROVE  Inv'
  <2>1. /\ req' = req /\ pending' = pending /\ loaded' = loaded /\ clash' = clash
        /\ conn' = conn \ {h} /\ held' = [held EXCEPT ![h] = {}]
    BY <1>5 DEF EndTransaction
  <2>2. Tables' /\ row' \in [Id -> Title \cup {NoRow}]
    BY <1>1, <1>5, <2>1, CommitTables
  <2>3. conn' \subseteq Handler /\ IsFiniteSet(conn') /\ Cardinality(conn') <= PoolSize
    <3>1. TypeOK /\ IsFiniteSet(conn)
      BY DEF Inv
    <3>. QED  BY <2>1, <3>1, ConnShrinks
  <2>4. held'[h] = {} /\ h \notin conn' /\ h \in committed' /\ pending'[h] = << >>
    BY <1>1, <1>5, <2>1 DEF Inv, TypeOK
  <2>5. \/ /\ Req(h).kind # "delete" /\ Step(h)' = "read" /\ answer' = answer
        \/ /\ Req(h).kind = "delete" /\ Step(h)' = "close" /\ answer'[h] \in {204, 504}
        \/ /\ Step(h)' = "done" /\ answer'[h] \in {500, 503, 504}
    <3>1. CASE Continue(h, q)
      <4>1. /\ Step(h)' = First(q)
            /\ First(q) # "close" => answer' = answer
            /\ First(q) = "close" => answer'[h] = Told(h, SuccessOf(Req(h)))
        <5>. HIDE DEF q
        <5>. QED  BY <1>2, <3>1, Continues
      <4>2. Req(h).kind = "delete" => SuccessOf(Req(h)) = 204
        BY DEF SuccessOf
      <4>3. Req(h).kind = "delete" => Told(h, SuccessOf(Req(h))) \in {204, 504}
        BY <1>3, <4>2 DEF Told
      <4>. QED  BY <1>2, <4>1, <4>3
    <3>2. ASSUME NEW e \in DatabaseErrors,
                 plan' = [plan EXCEPT ![h] = << >>], Answer(h, StatusOf[e])
          PROVE  Step(h)' = "done" /\ answer'[h] \in {500, 503, 504}
      <4>1. Step(h)' = "done"
        BY <3>2 DEF Step, Inv, TypeOK
      <4>2. Told(h, StatusOf[e]) \in {500, 503, 504}
        BY <1>3, StatusType DEF Told
      <4>3. answer'[h] = Told(h, StatusOf[e])
        BY <3>2 DEF Answer, Inv, TypeOK
      <4>. QED  BY <4>1, <4>2, <4>3
    <3>. QED  BY <1>5, <3>1, <3>2
  <2>6. /\ plan' \in [Handler -> Seq(Queries \cup {"begin", "mutate", "probe", "close"})]
        /\ answer' \in [Handler -> Status \cup {NoAnswer}]
        /\ \A g \in Handler \ {h} : plan'[g] = plan[g] /\ answer'[g] = answer[g]
        /\ OnCourse(Req(h), plan'[h])
    <3>1. CASE Continue(h, q)
      <4>. HIDE DEF q
      <4>. QED  BY <1>2, <3>1, Continues
    <3>2. ASSUME NEW e \in DatabaseErrors,
                 plan' = [plan EXCEPT ![h] = << >>], Answer(h, StatusOf[e])
          PROVE  <2>6!1 /\ <2>6!2 /\ <2>6!3 /\ <2>6!4
      <4>1. << >> \in Seq(Queries \cup {"begin", "mutate", "probe", "close"})
        OBVIOUS
      <4>2. Told(h, StatusOf[e]) \in Status
        BY <1>3, StatusType DEF Told
      <4>3. OnCourse(Req(h), << >>)
        BY LocalAt, EndOnCourse
      <4>4. /\ plan' \in [Handler -> Seq(Queries \cup {"begin", "mutate", "probe", "close"})]
            /\ plan'[h] = << >> /\ \A g \in Handler \ {h} : plan'[g] = plan[g]
        BY <3>2, <4>1 DEF Inv, TypeOK
      <4>5. /\ answer' \in [Handler -> Status \cup {NoAnswer}]
            /\ \A g \in Handler \ {h} : answer'[g] = answer[g]
        BY <3>2, <4>2 DEF Answer, Inv, TypeOK
      <4>. QED  BY <4>3, <4>4, <4>5
    <3>. QED  BY <1>5, <3>1, <3>2
  <2>7. TypeOK'
    <3>1. tags' \subseteq Tag /\ dirty' \subseteq Handler /\ committed' \subseteq Handler
      BY <1>5 DEF Inv, TypeOK
    <3>2. held' \in [Handler -> SUBSET Key]
      BY <2>1 DEF Inv, TypeOK
    <3>. QED  BY <2>1, <2>2, <2>3, <2>6, <3>1, <3>2 DEF Inv, TypeOK
  <2>8. \A g \in Handler \ {h} : Kept(g)
    BY <1>5, <2>1, <2>6 DEF Kept, Inv, TypeOK
  <2>9. answer[h] # NoAnswer => answer'[h] = answer[h]
    <3>1. CASE Continue(h, q)
      <4>1. /\ First(q) # "close" => answer' = answer
            /\ First(q) = "close" => answer'[h] = Told(h, SuccessOf(Req(h)))
        <5>. HIDE DEF q
        <5>. QED  BY <1>2, <3>1, Continues
      <4>. QED  BY <4>1 DEF Told
    <3>2. ASSUME NEW e \in DatabaseErrors, Answer(h, StatusOf[e])
          PROVE  answer[h] # NoAnswer => answer'[h] = answer[h]
      BY <3>2 DEF Answer, Told, Inv, TypeOK
    <3>. QED  BY <1>5, <3>1, <3>2
  <2>10. Local(h)'
    <3>1. Req(h)' = Req(h) /\ Target(h)' = Target(h) /\ Step(h)' \in {"read", "close", "done"}
      BY <2>1, <2>5 DEF Req, Target
    <3>2. OnCourse(Req(h), plan[h])'
      BY <2>6, <3>1
    <3>3. Connects(h)'
      BY <2>4, <3>1 DEF Connects, InTransaction
    <3>4. Pends(h)'
      BY <2>4, <3>1 DEF Pends
    <3>5. Holds(h)'
      <4>1. <<Req(h).title>> # << >>
        OBVIOUS
      <4>. QED  BY <2>4, <3>1, <4>1 DEF Holds, InTransaction
    <3>6. ~Unsent(h)'
      <4>1. Step(h)' # "done" => plan'[h] # << >>
        BY DEF Step
      <4>2. Step(h)' = "done" => answer'[h] # NoAnswer
        BY <2>5, Doubt, StatusType
      <4>. QED  BY <4>1, <4>2 DEF Unsent
    <3>7. Commits(h)'
      BY <2>4, <3>1, <3>6 DEF Commits
    <3>8. Tells(h)'
      <4>1. clash[h] \in Title => answer[h] = 504
        <5>1. clash[h] \in Title => answer[h] \in {409, 504}
          BY LocalAt DEF Tells
        <5>. QED  BY <1>3, <5>1, Doubt
      <4>2. answer'[h] \notin 400..499
        BY <1>3, <2>5, Doubt
      <4>3. clash'[h] \in Title => answer'[h] = 504
        BY <2>1, <2>9, <4>1, Doubt
      <4>4. Step(h)' \notin {"done", "close"} => answer'[h] \in {NoAnswer, 504}
        BY <1>3, <2>5
      <4>5. Step(h)' = "close" => answer'[h] # NoAnswer
        BY <2>5, Doubt
      <4>. QED  BY ONLY <2>4, <4>2, <4>3, <4>4, <4>5 DEF Tells
    <3>. QED  BY <3>2, <3>3, <3>4, <3>5, <3>7, <3>8 DEF Local
  <2>. QED  BY <2>1, <2>2, <2>3, <2>7, <2>8, <2>10, OneMoves
<1>. QED  BY <1>4, <1>5 DEF Commit

LEMMA StepInv == Inv /\ [Next]_vars => Inv'
<1>. SUFFICES ASSUME Inv, [Next]_vars PROVE Inv'
  OBVIOUS
<1>1. ASSUME NEW h \in Handler, Proceed(h)
      PROVE  Inv'
  BY <1>1, BeginInv, FlushInv, FlushedInv, ResolveTagsInv, MutateInv, CommitInv, ReadInv,
     CloseInv, PoolTimeoutInv, VictimInv DEF Proceed
<1>2. CASE UNCHANGED vars
  <2>1. /\ req' = req /\ row' = row /\ tags' = tags /\ plan' = plan /\ pending' = pending
        /\ held' = held /\ conn' = conn /\ loaded' = loaded /\ dirty' = dirty
        /\ committed' = committed /\ answer' = answer /\ clash' = clash
    BY <1>2 DEF vars
  <2>2. TypeOK' /\ IsFiniteSet(conn')
    BY <2>1 DEF Inv, TypeOK
  <2>3. \A g \in Handler : Kept(g)
    BY <2>1 DEF Kept
  <2>4. \A g \in Handler : Local(g)'
    BY <2>1, <2>3, KeptLocal DEF Inv
  <2>5. Tables'
    BY <2>1, TablesSteady DEF Inv
  <2>. QED  BY <2>2, <2>4, <2>5 DEF Inv
<1>. QED  BY <1>1, <1>2, SendInv, FailInv, RequestTimeoutInv DEF Next

-----------------------------------------------------------------------------
\* What the runs check holds in every reachable state

\* The inductive invariant holds.
THEOREM InvHolds == Spec => []Inv
<1>. QED  BY InitInv, StepInv, PTL DEF Spec

\* Every variable has its type, and the pool never hands out more connections
\* than it has (database.py).
THEOREM TypeCorrect == Spec => []TypeOK
<1>1. Inv => TypeOK
  BY DEF Inv
<1>. QED  BY <1>1, InvHolds, PTL

\* A handler without a connection keeps no key and no row from others, and a
\* handler that has ended keeps no connection, whichever way it ended.
THEOREM NothingIsLeaked == Spec => []NothingLeaks
<1>1. Inv => NothingLeaks
  BY LocalAt DEF NothingLeaks, Connects
<1>. QED  BY <1>1, InvHolds, PTL

\* A title that is taken is never reported as anything but a 409, because a
\* title is only ever pending where its clash is translated.
THEOREM TitleClashesAreTranslated == Spec => []TitleClashIs409
<1>1. Inv => TitleClashIs409
  BY LocalAt DEF TitleClashIs409, Tells
<1>. QED  BY <1>1, InvHolds, PTL

\* What a client was told stays true of its write, under lost
\* acknowledgements, full pools, deadlocks and timeouts.
THEOREM AnswersStayTrue == Spec => []AnswersTrue
<1>1. ASSUME Inv, NEW h \in Handler
      PROVE  /\ answer[h] \in {201, 204} => h \in committed
             /\ answer[h] = 200 /\ Req(h).kind = "update" =>
                    h \in committed \/ Req(h).title = loaded[h]
             /\ answer[h] \in 400..499 => h \notin committed /\ plan[h] = << >>
  BY <1>1, LocalAt DEF Tells
<1>2. Inv => AnswersTrue
  BY <1>1 DEF AnswersTrue
<1>. QED  BY <1>2, InvHolds, PTL

\* A create that is sent again is made a second time only if a task it made
\* was renamed or deleted in between, whichever of its attempts commits and
\* however late.
THEOREM OnlyReleasesRepeat == Spec => []RepeatsNeedRelease
<1>1. ASSUME Inv, NEW c \in Client, req[c].kind = "create",
             NEW m \in 1..Attempts[c], NEW n \in 1..Attempts[c],
             m # n, {<<c, m>>, <<c, n>>} \subseteq committed
      PROVE  \E f \in committed : Releases(f, <<c, m>>) \/ Releases(f, <<c, n>>)
  <2>. DEFINE g == <<c, m>>
              h == <<c, n>>
  <2>1. g \in Handler /\ h \in Handler /\ g # h
    BY <1>1 DEF Handler
  <2>2. Req(g) = req[c] /\ Req(h) = req[c]
    BY DEF Req
  <2>3. req[c].title \in Title
    BY <1>1, <2>1, <2>2, LocalAt, RequestShape
  <2>. SUFFICES ASSUME ~ \E f \in committed : Releases(f, g) \/ Releases(f, h)
                PROVE  FALSE
    OBVIOUS
  <2>4. row[g] = req[c].title /\ row[h] = req[c].title
    BY <1>1, <2>1, <2>2 DEF Inv, Tables, Births
  <2>5. g \in Id /\ h \in Id /\ row[g] # NoRow
    BY <2>1, <2>3, <2>4, KeysApart
  <2>6. g = h
    BY <1>1, <2>4, <2>5 DEF Inv, Tables, UniqueRows
  <2>. QED  BY <2>1, <2>6
<1>2. Inv => RepeatsNeedRelease
  BY <1>1 DEF RepeatsNeedRelease
<1>. QED  BY <1>2, InvHolds, PTL

-----------------------------------------------------------------------------
\* The handlers implement the registry of unique titles

LEMMA RegistryInit == Init => Registry!Init
<1>. SUFFICES ASSUME Init PROVE Registry!Init
  OBVIOUS
<1>1. Inv
  BY InitInv
<1>2. row \in [Id -> Title \cup {NoRow}] /\ UniqueRows
  BY <1>1 DEF Inv, TypeOK, Tables
<1>3. Task \cup (committed \cap Creates) = {i \in Id : row[i] # NoRow}
  <2>1. committed = {} /\ row = [i \in Id |-> IF i \in Task THEN TitleOf[i] ELSE NoRow]
    BY DEF Init
  <2>2. \A i \in Task : i \in Id /\ TitleOf[i] # NoRow
    BY KeysApart, RequestAssumption
  <2>. QED  BY <2>1, <2>2
<1>4. tags = {}
  BY DEF Init
<1>. QED  BY <1>2, <1>3, <1>4 DEF Registry!Init, UniqueRows

\* Only a commit touches the tables.
LEMMA OnlyCommits ==
    ASSUME Inv, [Next]_vars, \A h \in Handler : ~Commit(h)
    PROVE  req' = req /\ row' = row /\ tags' = tags /\ committed' = committed
<1>1. CASE UNCHANGED vars
  BY <1>1 DEF vars
<1>2. ASSUME NEW h \in Handler, Send(h[1], h[2])
      PROVE  req' = req /\ row' = row /\ tags' = tags /\ committed' = committed
  BY <1>2 DEF Send, db
<1>3. ASSUME NEW h \in Handler, NEW s, NEW k, Raise(h, s, k)
      PROVE  req' = req /\ row' = row /\ tags' = tags /\ committed' = committed
  BY <1>3 DEF Raise, db
<1>4. ASSUME NEW h \in Handler, Proceed(h) \/ Fail(h) \/ RequestTimeout(h)
      PROVE  req' = req /\ row' = row /\ tags' = tags /\ committed' = committed
  <2>1. CASE Begin(h)
    BY <2>1, <1>3 DEF Begin, db
  <2>2. CASE Flush(h)
    BY <2>2, <1>3 DEF Flush, db
  <2>3. CASE Flushed(h) \/ ResolveTags(h) \/ Mutate(h)
    BY <2>3 DEF Flushed, ResolveTags, Mutate, db
  <2>4. CASE Read(h) \/ Close(h) \/ RequestTimeout(h)
    BY <2>4 DEF Read, Close, RequestTimeout, db
  <2>5. CASE PoolTimeout(h) \/ Victim(h) \/ Fail(h)
    BY <2>5, <1>3 DEF PoolTimeout, Victim, Fail
  <2>. QED  BY <1>4, <2>1, <2>2, <2>3, <2>4, <2>5 DEF Proceed
<1>. QED  BY <1>1, <1>2, <1>4 DEF Next

LEMMA RegistryStep == Inv /\ [Next]_vars => [Registry!Next]_(Registry!vars)
<1>. SUFFICES ASSUME Inv, [Next]_vars PROVE [Registry!Next]_(Registry!vars)
  OBVIOUS
<1>. DEFINE used == Task \cup (committed \cap Creates)
<1>1. ASSUME req' = req, row' = row, tags' = tags, committed' = committed
      PROVE  [Registry!Next]_(Registry!vars)
  <2>1. used' = used
    BY <1>1 DEF Creates, Req
  <2>. QED  BY <1>1, <2>1 DEF Registry!vars
<1>2. ASSUME NEW h \in Handler, Commit(h)
      PROVE  [Registry!Next]_(Registry!vars)
  <2>. DEFINE t == Req(h).title
              i == Target(h)
              minted == held[h] \cap Tag
  <2>1. Step(h) = "persist" /\ pending[h] = << >>
    BY <1>2 DEF Commit
  <2>2. CASE Raise(h, StatusOf.driver, NoKey)
    BY <1>1, <2>2 DEF Raise, db
  <2>3. ASSUME ~Unmatched(h), row' = Written(h), tags' = tags \cup minted,
               committed' = committed \cup {h}, req' = req
        PROVE  [Registry!Next]_(Registry!vars)
    <3>1. minted \in SUBSET Tag /\ minted \cap tags = {}
      BY DEF Inv, Tables, HeldTags
    <3>2. Registry!Mint(minted)
      BY <2>3, <3>1 DEF Registry!Mint
    <3>3. Creates' = Creates
      BY <2>3 DEF Creates, Req
    <3>4. Req(h).kind \in {"create", "update", "delete"} /\ i \in Id /\ h \notin committed
      BY <2>1, WrittenRow
    <3>5. CASE Req(h).kind = "create"
      <4>1. /\ i = h /\ t \in Title /\ t \in held[h]
            /\ row' = [row EXCEPT ![i] = t] /\ \A j \in Id \ {i} : row[j] # t
        BY <2>1, <2>3, <3>5, WrittenRow
      <4>2. i \notin used /\ used' = used \cup {i}
        BY <2>3, <3>3, <3>4, <3>5, <4>1, KeysApart DEF Creates
      <4>3. Registry!Create(i, t, minted)
        BY <3>2, <4>1, <4>2 DEF Registry!Create, Registry!Free
      <4>. QED  BY <3>1, <3>4, <4>1, <4>3 DEF Registry!Next
    <3>6. CASE Req(h).kind # "create"
      <4>1. used' = used
        BY <2>3, <3>3, <3>6 DEF Creates
      <4>2. CASE Req(h).kind = "delete"
        <5>1. row' = [row EXCEPT ![i] = NoRow] /\ minted = {}
          BY <2>1, <2>3, <4>2, WrittenRow
        <5>2. Registry!Remove(i)
          BY <2>3, <4>1, <5>1 DEF Registry!Remove
        <5>. QED  BY <3>4, <5>2 DEF Registry!Next
      <4>3. CASE Req(h).kind = "update"
        <5>1. row[i] # NoRow
          BY <2>3, <4>3 DEF Unmatched
        <5>2. row[i] \in Title
          BY <3>4, <5>1 DEF Inv, TypeOK
        <5>3. CASE row' = row
          <6>1. row' = [row EXCEPT ![i] = row[i]]
            BY <3>4, <5>3 DEF Inv, TypeOK
          <6>2. \A j \in Id \ {i} : row[j] # row[i]
            BY <3>4, <5>1 DEF Inv, Tables, UniqueRows
          <6>3. Registry!Update(i, row[i], minted)
            BY <3>2, <4>1, <5>1, <6>1, <6>2 DEF Registry!Update, Registry!Free
          <6>. QED  BY <3>1, <3>4, <5>2, <6>3 DEF Registry!Next
        <5>4. CASE row' # row
          <6>1. /\ t \in Title /\ row' = [row EXCEPT ![i] = t]
                /\ \A j \in Id \ {i} : row[j] # t
            BY <2>1, <2>3, <4>3, <5>4, WrittenRow
          <6>2. Registry!Update(i, t, minted)
            BY <3>2, <4>1, <5>1, <6>1 DEF Registry!Update, Registry!Free
          <6>. QED  BY <3>1, <3>4, <6>1, <6>2 DEF Registry!Next
        <5>. QED  BY <5>3, <5>4
      <4>. QED  BY <3>4, <3>6, <4>2, <4>3
    <3>. QED  BY <3>5, <3>6
  <2>. QED  BY <1>2, <2>2, <2>3 DEF Commit
<1>. QED  BY <1>1, <1>2, OnlyCommits

\* Autoflush, waiting, lost acknowledgements, retries and all: to anyone who
\* reads the tables, writes happen one at a time and as a whole, titles stay
\* unique, and no write brings a deleted task back.
THEOREM ImplementsRegistry == Spec => AtomicWrites
<1>. QED  BY RegistryInit, RegistryStep, InvHolds, PTL DEF Spec, AtomicWrites, Registry!Spec
=============================================================================
