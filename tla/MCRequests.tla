----------------------------- MODULE MCRequests -----------------------------
(***************************************************************************)
(* Requests for TLC: two clients, a pool of two, three titles, two tags,   *)
(* one task there is from the start.  With a third handler (c1 again) the  *)
(* pool can be full.                                                       *)
(***************************************************************************)
EXTENDS Requests

CONSTANTS c1, c2, a, b, d, x, y, t

Make(title, names)  == [kind |-> "create", title |-> title, tags |-> names]
Change(id, title, names) == [kind |-> "update", task |-> id, title |-> title, tags |-> names]
Write(title, names) == Change(t, title, names)

Writes ==
    {Make(a, <<x, y>>), Make(b, <<y, x>>),
     Write(a, <<x>>), Write(a, Omitted), Write(b, <<y, x>>),
     [kind |-> "delete", task |-> t]}
Resent == {Make(a, << >>), Make(a, <<x, y>>), Write(a, <<x>>), [kind |-> "delete", task |-> t]}
Others ==
    {[kind |-> "get", task |-> t], [kind |-> "ready"], [kind |-> "diagnose"],
     [kind |-> "oversized"], [kind |-> "invalid"]}

\* Writes and reads of the row that the first attempt of c1 creates.
Made     == <<c1, 1>>
Retagged == {Change(Made, a, <<x>>), Change(Made, d, <<y>>)}
OfMade   ==
    {Change(Made, d, Omitted), Change(Made, b, << >>), Change(Made, a, <<x>>),
     [kind |-> "delete", task |-> Made], [kind |-> "get", task |-> Made]}

\* c1 may send its request twice.
MCAttempts == c1 :> 2 @@ c2 :> 1
MCScenario ==
    {c1 :> r1 @@ c2 :> r2 : r1 \in Resent, r2 \in Writes}
      \cup {c1 :> Make(a, <<x, y>>) @@ c2 :> r2 : r2 \in Others \cup Retagged}
      \cup {c1 :> Make(a, << >>) @@ c2 :> r2 : r2 \in OfMade}
MCVerdicts == {"wip_limit_exceeded"}
MCTitleOf == t :> b
=============================================================================
