------------------------ MODULE MCWorkflowDocument ------------------------
(***************************************************************************)
(* Documents for TLC: short lists that mix sound and faulty entries of     *)
(* every kind, and every transition graph over three sound states with     *)
(* one or two entry states.                                                *)
(***************************************************************************)
EXTENDS WorkflowDocument

Col(kind, name, initial, completes, limit) ==
    [kind |-> kind, name |-> name, initial |-> initial, completes |-> completes,
     wip_limit |-> limit]
Plain(name) == Col("string", name, FALSE, FALSE, NoLimit)

Move(from, to, roles) ==
    [kind |-> "object", named |-> TRUE, from |-> from, to |-> to, roles |-> roles]

Body(columns, moves) ==
    [object |-> TRUE, nul |-> FALSE, states |-> columns, transitions |-> moves]

Columns ==
    {Plain("a"), Plain("b"), Plain(Blank), Col("object", "a", TRUE, FALSE, NoLimit),
     Col("object", "b", FALSE, TRUE, 2), Col("object", "b", FALSE, FALSE, Bad),
     Col("object", "b", Bad, FALSE, NoLimit), Col("malformed", "a", FALSE, FALSE, NoLimit)}

Moves ==
    {Move("a", "b", {}), Move("a", "b", {"manager"}), Move("b", "a", Bad), Move("c", Blank, {}),
     [Move("b", "a", {}) EXCEPT !.named = FALSE], [Move("a", "b", {}) EXCEPT !.kind = "malformed"]}

UpTo(S, n) == UNION {[1..k -> S] : k \in 0..n}

MixedDocuments == {Body(columns, moves) : columns \in UpTo(Columns, 3), moves \in UpTo(Moves, 2)}

GraphStates ==
    {<<Plain("a"), Plain("b"), Plain("c")>>,
     <<Plain("a"), Col("object", "b", TRUE, FALSE, 0), Plain("c")>>,
     <<Col("object", "a", TRUE, FALSE, NoLimit), Plain("b"), Col("object", "c", TRUE, TRUE, 1)>>}

GraphDocuments ==
    {Body(columns, [i \in DOMAIN pairs |-> Move(pairs[i][1], pairs[i][2], {})]) :
        columns \in GraphStates,
        pairs \in {Listed(moves) : moves \in SUBSET ({"a", "b", "c"} \X {"a", "b", "c"})}}

BrokenDocuments ==
    {[Body(<<Plain("a")>>, << >>) EXCEPT !.object = FALSE],
     [Body(<<Plain("a"), Plain(Blank)>>, << >>) EXCEPT !.nul = TRUE]}

MCDocuments == MixedDocuments \cup GraphDocuments \cup BrokenDocuments
=============================================================================
