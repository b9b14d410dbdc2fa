--------------------------- MODULE TitleRegistry ---------------------------
(***************************************************************************)
(* What the request path promises about the tasks and tags tables: every   *)
(* write is one step that happens as a whole, no two tasks carry the same  *)
(* title, and the vocabulary only gains tags together with a write that    *)
(* names them.  An id names at most one row, ever: no write brings a       *)
(* deleted task back.                                                      *)
(***************************************************************************)
CONSTANTS Id, Title, Tag,
          NoRow        \* an id without a row

VARIABLES row,         \* the title of each task, or NoRow
          tags,        \* the tags there are
          used         \* the ids that have had a row
vars == <<row, tags, used>>

Free(i, t) == \A j \in Id \ {i} : row[j] # t

\* Tags minted beside a write are new ones.
Mint(minted) ==
    /\ minted \cap tags = {}
    /\ tags' = tags \cup minted

Init ==
    /\ row \in [Id -> Title \cup {NoRow}]
    /\ \A i, j \in Id : row[i] = row[j] /\ row[i] # NoRow => i = j
    /\ used = {i \in Id : row[i] # NoRow}
    /\ tags = {}

Create(i, t, minted) ==
    /\ i \notin used
    /\ Free(i, t)
    /\ row'  = [row EXCEPT ![i] = t]
    /\ used' = used \cup {i}
    /\ Mint(minted)

Update(i, t, minted) ==
    /\ row[i] # NoRow
    /\ Free(i, t)
    /\ row' = [row EXCEPT ![i] = t]
    /\ UNCHANGED used
    /\ Mint(minted)

Remove(i) ==
    /\ row' = [row EXCEPT ![i] = NoRow]
    /\ UNCHANGED <<tags, used>>

Next ==
    \/ \E i \in Id, t \in Title, minted \in SUBSET Tag :
          Create(i, t, minted) \/ Update(i, t, minted)
    \/ \E i \in Id : Remove(i)

Spec == Init /\ [][Next]_vars
=============================================================================
