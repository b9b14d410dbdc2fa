------------------------------ MODULE Workflow ------------------------------
(***************************************************************************)
(* The workflow definition and the engine that enforces it: the pure       *)
(* domain of services/workflows (domain/definition.py, domain/engine.py).  *)
(*                                                                         *)
(* A definition is a record with                                           *)
(*   states       the columns in order, each with its name, its initial    *)
(*                flag and the two state metas the engine reads;           *)
(*   transitions  a function from (from, to) pairs to the set of roles     *)
(*                guarding the move, {} when the transition declares none. *)
(* Transition names and uninterpreted meta decide nothing here and are     *)
(* left out.                                                               *)
(***************************************************************************)
EXTENDS Naturals, Sequences

CONSTANTS StateName,  \* names a state may have
          Role,       \* roles an actor may hold
          NoLimit,    \* a state without a wip_limit
          Omitted     \* None: the caller names no status

ASSUME NoLimitAssumption == NoLimit \notin Nat
ASSUME OmittedAssumption == Omitted \notin StateName

-----------------------------------------------------------------------------
\* Definitions

State == [name : StateName, initial : BOOLEAN, completes : BOOLEAN,
          wip_limit : Nat \cup {NoLimit}]

StateNames(w) == {w.states[i].name : i \in DOMAIN w.states}

\* What the constructor of Workflow accepts.
IsWorkflow(w) ==
    /\ w.states \in Seq(State)
    /\ w.states # << >>
    /\ \A i, j \in DOMAIN w.states : w.states[i].name = w.states[j].name => i = j
    /\ DOMAIN w.transitions \subseteq StateNames(w) \X StateNames(w)
    /\ \A move \in DOMAIN w.transitions : w.transitions[move] \subseteq Role

\* The states marked initial or, when none is, the first one.
EntryPositions(w) ==
    LET marked == {i \in DOMAIN w.states : w.states[i].initial}
    IN  IF marked = {} THEN {1} ELSE marked

EntryStates(w) == {w.states[i].name : i \in EntryPositions(w)}

DefaultEntry(w) ==
    w.states[CHOOSE i \in EntryPositions(w) : \A j \in EntryPositions(w) : i <= j].name

StateOf(w, name) ==
    w.states[CHOOSE i \in DOMAIN w.states : w.states[i].name = name]

Allows(w, from, to) == <<from, to>> \in DOMAIN w.transitions

MovesFrom(w, from) == {to \in StateNames(w) : Allows(w, from, to)}

-----------------------------------------------------------------------------
\* The engine. An occupancy is a function from state names to counts; the
\* empty mapping the service passes when it skips the count is all zeros.

NoOccupancy == [name \in StateName |-> 0]

\* Where a write that names `status` wants to put the item.
TargetOf(w, status) == IF status = Omitted THEN DefaultEntry(w) ELSE status

\* Only a write that enters a limited state needs the count. A create has
\* no `from`: it passes Omitted, which no state is called.
NeedsOccupancy(w, from, status) ==
    LET to == TargetOf(w, status)
    IN  /\ to # from
        /\ to \in StateNames(w)
        /\ StateOf(w, to).wip_limit # NoLimit

\* mutant: refuses only when the limit is already exceeded
FullBeyond(w, to, occupancy) ==
    LET limit == StateOf(w, to).wip_limit
    IN  limit # NoLimit /\ occupancy[to] > limit

Full(w, to, occupancy) ==
    LET limit == StateOf(w, to).wip_limit
    IN  limit # NoLimit /\ occupancy[to] >= limit

Forbidden(w, from, to, roles) ==
    LET required == w.transitions[<<from, to>>]
    IN  required # {} /\ roles \cap required = {}

\* The outcome of resolve_entry: "ok" or the error it raises.
CheckEntry(w, status, occupancy) ==
    LET to == TargetOf(w, status)
    IN  IF to \notin StateNames(w)         THEN "unknown_status"
        ELSE IF to \notin EntryStates(w)   THEN "invalid_transition"
        ELSE IF Full(w, to, occupancy)     THEN "wip_limit_exceeded"
        ELSE "ok"

\* mutant: a move no transition names is let through
CheckMoveUnnamed(w, from, to, roles, occupancy) ==
    IF to \notin StateNames(w)               THEN "unknown_status"
    ELSE IF to = from                        THEN "ok"
    ELSE IF from \notin StateNames(w)        THEN "internal_error"
    ELSE IF Allows(w, from, to) /\ Forbidden(w, from, to, roles) THEN "transition_forbidden"
    ELSE IF Full(w, to, occupancy)           THEN "wip_limit_exceeded"
    ELSE "ok"

\* The outcome of check_move, in the order the code decides it. A `from`
\* that the definition does not know makes transition_between raise a
\* ValueError, which no handler translates.
CheckMove(w, from, to, roles, occupancy) ==
    IF to \notin StateNames(w)               THEN "unknown_status"
    ELSE IF to = from                        THEN "ok"
    ELSE IF from \notin StateNames(w)        THEN "internal_error"
    ELSE IF ~Allows(w, from, to)             THEN "invalid_transition"
    ELSE IF Forbidden(w, from, to, roles)    THEN "transition_forbidden"
    ELSE IF Full(w, to, occupancy)           THEN "wip_limit_exceeded"
    ELSE "ok"

Completes(w, name) == StateOf(w, name).completes
=============================================================================
