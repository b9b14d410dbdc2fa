--------------------------- MODULE MCTaskWorkflow ---------------------------
(***************************************************************************)
(* Instances of TaskWorkflow for TLC. "default" is the seed's definition;  *)
(* "triage" adds no state, lets completed items nowhere and guards the     *)
(* shortcut with a role; "short" drops the completed state and makes       *)
(* in_progress the only entry, limited to one item.                        *)
(***************************************************************************)
EXTENDS TaskWorkflow

CONSTANTS s1, s2, t1, t2, t3

Col(name, initial, completes, limit) ==
    [name |-> name, initial |-> initial, completes |-> completes, wip_limit |-> limit]

MCStateName == {"new", "in_progress", "completed"}

MCDefinition ==
    [default |->
       [states |-> <<Col("new", TRUE, FALSE, NoLimit), Col("in_progress", TRUE, FALSE, NoLimit),
                     Col("completed", TRUE, TRUE, NoLimit)>>,
        transitions |-> [m \in {p \in MCStateName \X MCStateName : p[1] # p[2]} |-> {}]],
     triage |->
       [states |-> <<Col("new", FALSE, FALSE, NoLimit), Col("in_progress", FALSE, FALSE, NoLimit),
                     Col("completed", FALSE, TRUE, NoLimit)>>,
        transitions |-> (<<"new", "in_progress">> :> {})
                          @@ (<<"new", "completed">> :> {"manager"})
                          @@ (<<"in_progress", "completed">> :> {})],
     short |->
       [states |-> <<Col("in_progress", TRUE, FALSE, 1), Col("new", FALSE, FALSE, NoLimit)>>,
        transitions |-> (<<"new", "in_progress">> :> {}) @@ (<<"in_progress", "new">> :> {})]]

\* Every kind of request; the manager patches, others replace. Entries into
\* the limited state come by create and by patch, and a PUT lowers its limit
\* under the occupancy.
CoreRequests ==
    [kind : {"create"}, status : {"completed", "in_progress", Omitted}]
      \cup [kind : {"patch"}, task : Task, status : {"completed", "in_progress"},
            roles : {{"manager"}}]
      \cup [kind : {"patch"}, task : Task, status : {Omitted}, roles : {{}}]
      \cup [kind : {"replace"}, task : Task, status : {"completed", Omitted}, roles : {{}}]
      \cup [kind : {"delete", "moves"}, task : Task]
      \cup [kind : {"put"}, document : {"triage", "short"}]
      \cup [kind : {"seed"}]

SessionSymmetry == Permutations(Session) \cup Permutations(Task)
=============================================================================
