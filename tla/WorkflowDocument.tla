-------------------------- MODULE WorkflowDocument --------------------------
(***************************************************************************)
(* The document boundary of workflow definitions (serialization.py): a     *)
(* PUT body is parsed entry by entry, every problem is collected, the      *)
(* definition is built and searched for unreachable states                 *)
(* (Workflow.unreachable_states), and what was accepted is stored as its   *)
(* canonical document, which every later get_active parses again.          *)
(*                                                                         *)
(* Entries are abstracted to what the rules tell apart: `kind` is the JSON *)
(* shape, Blank a name of white space, Bad a value of the wrong type or    *)
(* out of range.  Names of transitions and free meta are dropped.          *)
(***************************************************************************)
EXTENDS Workflow, FiniteSets

CONSTANTS Blank, Bad,
          Documents     \* the PUT bodies to parse

StateEntry ==
    [kind : {"string", "object", "malformed"}, name : StateName \cup {Blank},
     initial : BOOLEAN \cup {Bad}, completes : BOOLEAN, wip_limit : Nat \cup {NoLimit, Bad}]

\* `named` says whether the name is visible; no roles is {}.
TransitionEntry ==
    [kind : {"object", "malformed"}, named : BOOLEAN,
     from : StateName \cup {Blank}, to : StateName \cup {Blank},
     roles : {Bad} \cup SUBSET Role]

\* `object` says that the body is an object with the two lists and no other
\* key, `nul` that some string in it holds a NUL.
DocumentType ==
    [object : BOOLEAN, nul : BOOLEAN,
     states : Seq(StateEntry), transitions : Seq(TransitionEntry)]

ASSUME ParseAssumption ==
    /\ Documents \subseteq DocumentType
    /\ Blank \notin StateName
    /\ {"new", "in_progress", "completed"} \subseteq StateName
    /\ Bad \notin BOOLEAN \cup Nat \cup {NoLimit} /\ \A roles \in SUBSET Role : roles # Bad

VARIABLES
    doc,        \* the document being parsed
    stage,      \* the function that runs
    next,       \* the entry it looks at
    states,     \* the states parsed so far
    table,      \* the transition table parsed so far
    errors,     \* the problems found so far
    reachable, frontier,    \* the search
    stored      \* the definition that was stored, none while PUT runs

vars == <<doc, stage, next, states, table, errors, reachable, frontier, stored>>

Built      == [states |-> states, transitions |-> table]
NoTable    == [m \in {} |-> {}]
Entered(t, move, roles) == [m \in DOMAIN t \cup {move} |-> IF m = move THEN roles ELSE t[m]]
Error(where, i, rule) == [where |-> where, index |-> i, rule |-> rule]
Found(where, i, rules) == {Error(where, i, rule) : rule \in rules}

-----------------------------------------------------------------------------
\* The canonical document

\* mutant: the shorthand forgets that the state is an entry
EntryWithoutInitial(state) ==
    IF ~state.completes /\ state.wip_limit = NoLimit
    THEN [kind |-> "string", name |-> state.name, initial |-> FALSE,
          completes |-> FALSE, wip_limit |-> NoLimit]
    ELSE [kind |-> "object", name |-> state.name, initial |-> state.initial,
          completes |-> state.completes, wip_limit |-> state.wip_limit]

\* workflow_to_document: a state with no property is written as its name.
EntryOf(state) ==
    IF ~state.initial /\ ~state.completes /\ state.wip_limit = NoLimit
    THEN [kind |-> "string", name |-> state.name, initial |-> FALSE,
          completes |-> FALSE, wip_limit |-> NoLimit]
    ELSE [kind |-> "object", name |-> state.name, initial |-> state.initial,
          completes |-> state.completes, wip_limit |-> state.wip_limit]

\* The elements of a set in some order; the code sorts the pairs.
Listed(S) ==
    LET list[T \in SUBSET S] ==
          IF T = {} THEN << >>
          ELSE LET x == CHOOSE x \in T : TRUE IN Append(list[T \ {x}], x)
    IN  list[S]

DocumentOf(w) ==
    LET pairs == Listed(DOMAIN w.transitions)
    IN  [object |-> TRUE, nul |-> FALSE,
         states |-> [i \in DOMAIN w.states |-> EntryOf(w.states[i])],
         transitions |-> [i \in DOMAIN pairs |->
            [kind |-> "object", named |-> TRUE, from |-> pairs[i][1], to |-> pairs[i][2],
             roles |-> w.transitions[pairs[i]]]]]

-----------------------------------------------------------------------------
\* The definition of the first boot, which no parser has seen

\* The definitions with a named move added: none where a ValueError is raised.
AllowTransition(W, from, to) ==
    {[w EXCEPT !.transitions = Entered(@, <<from, to>>, {})] :
        w \in {v \in W : {from, to} \subseteq StateNames(v) /\ ~Allows(v, from, to)}}

SeedState(name) ==
    [name |-> name, initial |-> TRUE, completes |-> name = "completed", wip_limit |-> NoLimit]

\* The definition of default_workflow, unless one of its calls raises.
DefaultWorkflow ==
    LET W0 == {[states |-> <<SeedState("new"), SeedState("in_progress"), SeedState("completed")>>,
                transitions |-> NoTable]}
        W1 == AllowTransition(W0, "new", "in_progress")
        W2 == AllowTransition(W1, "new", "completed")
        W3 == AllowTransition(W2, "in_progress", "completed")
        W4 == AllowTransition(W3, "in_progress", "new")
        W5 == AllowTransition(W4, "completed", "new")
    IN  AllowTransition(W5, "completed", "in_progress")

-----------------------------------------------------------------------------
\* A PUT parses a body; the seed stores its definition, which the first
\* request then parses.
Init ==
    /\ \/ doc \in Documents /\ stored = {}
       \/ \E w \in DefaultWorkflow : doc = DocumentOf(w) /\ stored = {w}
    /\ stage = "document" /\ next = 1
    /\ states = << >> /\ table = NoTable /\ errors = {}
    /\ reachable = {} /\ frontier = {}

\* The structural layer aborts; NULs are only reported.
ParseDocument ==
    /\ stage = "document"
    /\ IF ~doc.object
       THEN stage' = "rejected" /\ errors' = Found("document", 0, {"shape"})
       ELSE /\ stage'  = "states"
            /\ errors' = Found("document", 0, IF doc.nul THEN {"nul"} ELSE {})
                         \cup Found("states", 0, IF doc.states = << >> THEN {"empty"} ELSE {})
    /\ UNCHANGED <<doc, next, states, table, reachable, frontier, stored>>

\* The rules of a state entry in the order they are tried: the first that
\* fails is reported, and the entry is dropped.
StateProblem(e) ==
    IF e.kind = "malformed"      THEN {"shape"}
    ELSE IF e.initial = Bad      THEN {"initial"}
    ELSE IF e.wip_limit = Bad    THEN {"wip_limit"}
    ELSE IF e.name = Blank       THEN {"blank"}
    ELSE {}

StateFrom(e) ==
    [name |-> e.name, initial |-> e.initial, completes |-> e.completes, wip_limit |-> e.wip_limit]

\* mutant: duplicates of a state pass
ParseStateTwice ==
    /\ stage = "states" /\ next <= Len(doc.states)
    /\ LET e       == doc.states[next]
           problem == StateProblem(e)
       IN  /\ errors' = errors \cup Found("states", next, problem)
           /\ states' = IF problem = {} THEN Append(states, StateFrom(e)) ELSE states
    /\ next' = next + 1
    /\ UNCHANGED <<doc, stage, table, reachable, frontier, stored>>

ParseState ==
    /\ stage = "states" /\ next <= Len(doc.states)
    /\ LET e       == doc.states[next]
           seen    == {states[i].name : i \in DOMAIN states}
           problem == IF StateProblem(e) # {} THEN StateProblem(e)
                      ELSE IF e.name \in seen THEN {"duplicate"} ELSE {}
       IN  /\ errors' = errors \cup Found("states", next, problem)
           /\ states' = IF problem = {} THEN Append(states, StateFrom(e)) ELSE states
    /\ next' = next + 1
    /\ UNCHANGED <<doc, stage, table, reachable, frontier, stored>>

StatesParsed ==
    /\ stage = "states" /\ next > Len(doc.states)
    /\ stage' = "transitions" /\ next' = 1
    /\ UNCHANGED <<doc, states, table, errors, reachable, frontier, stored>>

\* mutant: one problem per transition
FirstTransitionProblem(e, known) ==
    IF e.kind = "malformed"    THEN {"shape"}
    ELSE IF ~e.named           THEN {"blank"}
    ELSE IF e.from \notin known THEN {"from"}
    ELSE IF e.to \notin known  THEN {"to"}
    ELSE IF e.roles = Bad      THEN {"roles"}
    ELSE {}

\* All the rules a transition entry breaks by itself, given the states.
TransitionProblems(e, known) ==
    IF e.kind = "malformed"
    THEN {"shape"}
    ELSE {rule \in {"blank", "from", "to", "roles"} :
            \/ rule = "blank" /\ ~e.named
            \/ rule = "from"  /\ e.from \notin known
            \/ rule = "to"    /\ e.to \notin known
            \/ rule = "roles" /\ e.roles = Bad}

ParseTransition ==
    /\ stage = "transitions" /\ next <= Len(doc.transitions)
    /\ LET e         == doc.transitions[next]
           known     == StateNames(Built)
           duplicate == IF e.kind = "object" /\ <<e.from, e.to>> \in DOMAIN table
                        THEN {"duplicate"} ELSE {}
           problems  == TransitionProblems(e, known) \cup duplicate
       IN  /\ errors' = errors \cup Found("transitions", next, problems)
           /\ table'  = IF problems = {} THEN Entered(table, <<e.from, e.to>>, e.roles) ELSE table
    /\ next' = next + 1
    /\ UNCHANGED <<doc, stage, states, reachable, frontier, stored>>

\* Reject with everything found, or construct the Workflow and start the
\* search at its entry states.
Build ==
    /\ stage = "transitions" /\ next > Len(doc.transitions)
    /\ IF errors # {}
       THEN stage' = "rejected" /\ UNCHANGED <<reachable, frontier>>
       ELSE /\ stage'     = "search"
            /\ reachable' = EntryStates(Built)
            /\ frontier'  = EntryStates(Built)
    /\ UNCHANGED <<doc, next, states, table, errors, stored>>

\* mutant: states seen before go back to the frontier
VisitAgain ==
    /\ stage = "search"
    /\ \E name \in frontier :
         /\ reachable' = reachable \cup MovesFrom(Built, name)
         /\ frontier'  = (frontier \ {name}) \cup MovesFrom(Built, name)
    /\ UNCHANGED <<doc, stage, next, states, table, errors, stored>>

\* mutant: a dead end is not itself reached
VisitSources ==
    /\ stage = "search"
    /\ \E name \in frontier :
         LET new == {to \in MovesFrom(Built, name) \ reachable : MovesFrom(Built, to) # {}}
         IN  /\ reachable' = reachable \cup new
             /\ frontier'  = (frontier \ {name}) \cup new
    /\ UNCHANGED <<doc, stage, next, states, table, errors, stored>>

\* One turn of the loop. The frontier's order is that of a set's iteration,
\* so any element may be popped.
Visit ==
    /\ stage = "search"
    /\ \E name \in frontier :
         LET new == MovesFrom(Built, name) \ reachable
         IN  /\ reachable' = reachable \cup new
             /\ frontier'  = (frontier \ {name}) \cup new
    /\ UNCHANGED <<doc, stage, next, states, table, errors, stored>>

Decide ==
    /\ stage = "search" /\ frontier = {}
    /\ LET unreachable == StateNames(Built) \ reachable
       IN  /\ stage'  = IF unreachable = {} THEN "accepted" ELSE "rejected"
           /\ errors' = UNION {Found("states", 0, {<<"unreachable", n>>}) : n \in unreachable}
    /\ UNCHANGED <<doc, next, states, table, reachable, frontier, stored>>

\* replace_active stores the canonical document; get_active parses it.
StoreAndReload ==
    /\ stage = "accepted" /\ stored = {}
    /\ stored' = {Built}
    /\ doc' = DocumentOf(Built)
    /\ stage' = "document" /\ next' = 1
    /\ states' = << >> /\ table' = NoTable /\ errors' = {}
    /\ reachable' = {} /\ frontier' = {}

Next ==
    \/ ParseDocument \/ ParseState \/ StatesParsed \/ ParseTransition
    \/ Build \/ Visit \/ Decide \/ StoreAndReload

Spec     == Init /\ [][Next]_vars
FairSpec == Spec /\ WF_vars(Next)

-----------------------------------------------------------------------------
\* What a document is, said without parsing it

\* The entries that are sound by themselves, and those of them that count:
\* the first of each name or pair.
SoundStates(d) == {i \in DOMAIN d.states : StateProblem(d.states[i]) = {}}
KeptStates(d)  ==
    {i \in SoundStates(d) :
        \A j \in SoundStates(d) : d.states[j].name = d.states[i].name => i <= j}
Declared(d)    == {d.states[i].name : i \in SoundStates(d)}

PairAt(d, i)   == <<d.transitions[i].from, d.transitions[i].to>>
Faults(d, i)   ==
    {rule \in {"blank", "from", "to", "roles"} :
        CASE rule = "blank" -> ~d.transitions[i].named
          [] rule = "from"  -> PairAt(d, i)[1] \notin Declared(d)
          [] rule = "to"    -> PairAt(d, i)[2] \notin Declared(d)
          [] rule = "roles" -> d.transitions[i].roles = Bad}
Shaped(d)      == {i \in DOMAIN d.transitions : d.transitions[i].kind = "object"}
Repeats(d, i)  ==
    \E j \in Shaped(d) : j < i /\ Faults(d, j) = {} /\ PairAt(d, j) = PairAt(d, i)

\* Every <<list, position, rule>> a caller has to put right.
ProblemsOf(d) ==
    {<<"states", i>> : i \in DOMAIN d.states \ KeptStates(d)}
      \cup {<<"transitions", i, "shape">> : i \in DOMAIN d.transitions \ Shaped(d)}
      \cup (UNION {{<<"transitions", i, rule>> : rule \in Faults(d, i)} : i \in Shaped(d)})
      \cup {<<"transitions", i, "duplicate">> : i \in {j \in Shaped(d) : Repeats(d, j)}}

Reported ==
    {IF e.where = "states" THEN <<"states", e.index>> ELSE <<e.where, e.index, e.rule>> :
        e \in {f \in errors : f.index # 0}}

\* Entry states of the document and what can be reached from them: the
\* names in every set that holds the entries and is closed under the moves.
Entries(d) ==
    LET marked == {i \in KeptStates(d) : d.states[i].initial}
    IN  {d.states[i].name : i \in IF marked = {} THEN {1} ELSE marked}

Covered(d) ==
    \A S \in SUBSET Declared(d) :
        Entries(d) \subseteq S
        /\ (\A i \in Shaped(d) : PairAt(d, i)[1] \in S => PairAt(d, i)[2] \in S)
        => S = Declared(d)

WellFormed(d) ==
    /\ d.object /\ ~d.nul /\ d.states # << >>
    /\ ProblemsOf(d) = {}
    /\ Covered(d)

-----------------------------------------------------------------------------
\* Properties

\* Every variable has its type; the constructor of Workflow never refuses
\* what the parser has let through.
TypeOK ==
    /\ doc \in DocumentType
    /\ stage \in {"document", "states", "transitions", "search", "accepted", "rejected"}
    /\ next \in Nat
    /\ states \in Seq(State)
    /\ reachable \subseteq StateName /\ frontier \subseteq reachable
    /\ stage \in {"search", "accepted"} => IsWorkflow(Built)

(***************************************************************************)
(* The parser accepts exactly the well-formed documents: every rule holds  *)
(* of every entry, and every state can be reached from an entry state.     *)
(***************************************************************************)
AcceptsWellFormed ==
    stage \in {"accepted", "rejected"} => (stage = "accepted" <=> WellFormed(doc))

(***************************************************************************)
(* A caller sees every problem of the entries in one answer, and no        *)
(* problem that is not there.                                              *)
(***************************************************************************)
ReportsAll ==
    stage = "rejected" /\ doc.object => Reported = ProblemsOf(doc)

(***************************************************************************)
(* What PUT stored can be read: the canonical document is accepted again   *)
(* and gives the same definition, or every task write would answer 500.    *)
(***************************************************************************)
StoredReadsBack ==
    \A w \in stored : stage # "rejected" /\ (stage = "accepted" => Built = w)

(***************************************************************************)
(* Parsing ends on every document, whatever cycles its moves form.         *)
(***************************************************************************)
ParseReturns == <>(stage \in {"accepted", "rejected"} /\ (stage = "accepted" => stored # {}))
=============================================================================
