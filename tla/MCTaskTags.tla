----------------------------- MODULE MCTaskTags -----------------------------
(***************************************************************************)
(* Instances of TaskTags for TLC: two names that share a key and one that  *)
(* does not, and the requests that make them meet.                         *)
(***************************************************************************)
EXTENDS TaskTags

MCKey  == ("Urgent" :> "urgent") @@ ("urgent" :> "urgent") @@ ("ops" :> "ops")
MCName == DOMAIN MCKey

\* Every kind of request: sets that grow, shrink, respell and collapse.
TagRequests ==
    [kind : {"create"}, task : Task, names : {<<"Urgent", "urgent">>, <<"ops">>}]
      \cup [kind : {"update"}, task : Task,
            names : {Omitted, << >>, <<"Urgent">>, <<"urgent", "ops">>, <<Blank>>}]
      \cup [kind : {"delete"}, task : Task]
      \cup [kind : {"delete_tag"}, tag : TagId]
      \cup [kind : {"list"}]

TagSymmetry == Permutations(Session) \cup Permutations(Task) \cup Permutations(TagId)
=============================================================================
