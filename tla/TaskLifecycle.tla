---------------------------- MODULE TaskLifecycle ---------------------------
(***************************************************************************)
(* What the tasks and workflows services promise together, with no         *)
(* sessions, locks or events: every task has a status of the active        *)
(* definition, it starts in an entry state and moves along the definition's *)
(* transitions, and a definition is only activated when it strands nothing. *)
(***************************************************************************)
EXTENDS Workflow

CONSTANTS Task, Document, Definition, Unborn, Deleted, NoDocument

VARIABLES status,      \* each task's status, Unborn or Deleted
          definition   \* the active document, or NoDocument before the seed

Current == Definition[definition]

Exists(t) == status[t] \in StateName

Init ==
    /\ status = [t \in Task |-> Unborn]
    /\ definition = NoDocument

Create(t) ==
    /\ definition # NoDocument
    /\ status[t] = Unborn
    /\ \E entry \in EntryStates(Current) : status' = [status EXCEPT ![t] = entry]
    /\ UNCHANGED definition

\* A move the active definition names for the task's status.
Move(t) ==
    /\ Exists(t)
    /\ \E to \in MovesFrom(Current, status[t]) : status' = [status EXCEPT ![t] = to]
    /\ UNCHANGED definition

\* A move the active definition names for some status, which the task need
\* not have any more.
Overwrite(t) ==
    /\ Exists(t)
    /\ \E from \in StateNames(Current) : \E to \in MovesFrom(Current, from) :
          status' = [status EXCEPT ![t] = to]
    /\ UNCHANGED definition

Remove(t) ==
    /\ Exists(t)
    /\ status' = [status EXCEPT ![t] = Deleted]
    /\ UNCHANGED definition

Activate(d) ==
    /\ \A t \in Task : Exists(t) => status[t] \in StateNames(Definition[d])
    /\ definition' = d
    /\ UNCHANGED status

Common ==
    \/ \E t \in Task : Create(t) \/ Remove(t)
    \/ \E d \in Document : Activate(d)

Next      == Common \/ \E t \in Task : Move(t)
LooseNext == Common \/ \E t \in Task : Overwrite(t)

Spec      == Init /\ [][Next]_<<status, definition>>
LooseSpec == Init /\ [][LooseNext]_<<status, definition>>
=============================================================================
