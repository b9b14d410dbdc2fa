--------------------------- MODULE MCTaskListing ---------------------------
(***************************************************************************)
(* TaskListing for TLC: three tasks of four looks, which tie on priority   *)
(* and on creation time, two spellings of one tag, pages of one and two.   *)
(***************************************************************************)
EXTENDS TaskListing

CONSTANTS x, y, x1, x2, y1, unknown

Look(priority, created, status, worn) ==
    [priority |-> priority, created_at |-> created, status |-> status, tags |-> worn]
MCRow == {Look(1, 1, "open", {x}), Look(1, 2, "done", {x, y}),
          Look(2, 1, "open", {x, y}), Look(1, 2, "open", {})}

MCKeyOf == [n \in Name |-> CASE n \in {x1, x2} -> x [] n = y1 -> y [] OTHER -> NoTag]

Ask(statuses, asked, op, dir, limit) ==
    [statuses |-> statuses, tags |-> asked, op |-> op, order_dir |-> dir, limit |-> limit]
MCQueries ==
    {Ask({}, << >>, "and", "desc", 1), Ask({}, << >>, "and", "asc", 2),
     Ask({"open"}, << >>, "and", "desc", 1),
     Ask({}, <<x1, x2>>, "and", "desc", 1), Ask({}, <<x2, y1>>, "and", "asc", 1),
     Ask({"open"}, <<x1, y1>>, "or", "asc", 2), Ask({}, <<unknown>>, "or", "desc", 1)}
=============================================================================
