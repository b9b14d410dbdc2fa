------------------------ MODULE WorkflowDocument_proofs ------------------------
(***************************************************************************)
(* Proofs about WorkflowDocument, for every document: the parser accepts   *)
(* exactly the well-formed ones, reports every problem of the others, and  *)
(* what was stored, the seed's definition included, reads back.            *)
(***************************************************************************)
EXTENDS WorkflowDocument, NaturalFacts, SequenceTheorems

-----------------------------------------------------------------------------
\* The inductive invariant

\* What a definition is, in sets.
Moves      == StateName \X StateName
Table      == UNION {[D -> SUBSET Role] : D \in SUBSET Moves}
Definition == [states : Seq(State), transitions : Table]

\* A set of states a search from the entries cannot leave.
Closed(w, S) ==
    /\ EntryStates(w) \subseteq S
    /\ \A m \in DOMAIN w.transitions : m[1] \in S => m[2] \in S

\* A definition that the boundary would accept.
Sound(w) ==
    /\ w \in Definition /\ IsWorkflow(w) /\ IsFiniteSet(DOMAIN w.transitions)
    /\ \A S \in SUBSET StateNames(w) : Closed(w, S) => S = StateNames(w)

\* How many entries of each list have been looked at.
StatesRead == IF stage = "document" THEN 0
              ELSE IF stage = "states" THEN next - 1 ELSE Len(doc.states)
MovesRead  == IF stage \in {"document", "states"} THEN 0
              ELSE IF stage = "transitions" THEN next - 1 ELSE Len(doc.transitions)

Reading == stage \in {"states", "transitions", "search", "accepted"}

Ranges ==
    /\ stage = "document" => next = 1 /\ states = << >> /\ table = NoTable /\ errors = {}
                             /\ reachable = {} /\ frontier = {}
    /\ stage = "states" => next \in 1 .. (Len(doc.states) + 1) /\ table = NoTable
    /\ stage = "transitions" => next \in 1 .. (Len(doc.transitions) + 1)
    /\ Reading => doc.object

\* The parsed states s are the kept ones of the first n entries.
StatesAt(d, s, n) ==
    /\ {s[k].name : k \in DOMAIN s} = {d.states[i].name : i \in SoundStates(d) \cap (1 .. n)}
    /\ \A k, l \in DOMAIN s : s[k].name = s[l].name => k = l
    /\ 1 .. n \subseteq KeptStates(d) => s = [i \in 1 .. n |-> StateFrom(d.states[i])]

\* The table t is made of the faultless ones of the first n entries.
Faultless(d, n) == {i \in Shaped(d) : i <= n /\ Faults(d, i) = {}}

MovesAt(d, t, n) ==
    /\ t \in Table /\ IsFiniteSet(DOMAIN t)
    /\ DOMAIN t = {PairAt(d, i) : i \in Faultless(d, n)}
    /\ \A i \in Faultless(d, n) : ~Repeats(d, i) => t[PairAt(d, i)] = d.transitions[i].roles

\* The problems of the first m states and the first n transitions.
LostStates(d, m) ==
    {<<"states", i>> : i \in {j \in DOMAIN d.states \ KeptStates(d) : j <= m}}

Misshapen(d, n) == {j \in DOMAIN d.transitions \ Shaped(d) : j <= n}
ShapedTo(d, n)  == {j \in Shaped(d) : j <= n}
Repeated(d, n)  == {j \in Shaped(d) : j <= n /\ Repeats(d, j)}
ShapesAt(J)     == {<<"transitions", i, "shape">> : i \in J}
FaultsIn(d, J)  == UNION {{<<"transitions", i, rule>> : rule \in Faults(d, i)} : i \in J}
DoublesAt(J)    == {<<"transitions", i, "duplicate">> : i \in J}

MoveProblems(d, n) ==
    ShapesAt(Misshapen(d, n)) \cup FaultsIn(d, ShapedTo(d, n)) \cup DoublesAt(Repeated(d, n))

ProblemsUpTo(d, m, n) == LostStates(d, m) \cup MoveProblems(d, n)

\* What of a set of errors has a position.
Said(E) ==
    {IF e.where = "states" THEN <<"states", e.index>> ELSE <<e.where, e.index, e.rule>> :
        e \in {f \in E : f.index # 0}}

ErrorsAt(d, E, m, n) ==
    /\ Said(E) = ProblemsUpTo(d, m, n)
    /\ (\E e \in E : e.index = 0) <=> (d.nul \/ d.states = << >>)

\* The search knows no more than it has to, and has looked at all it knows
\* but the frontier f.
Searched(w, r, f) ==
    /\ EntryStates(w) \subseteq r /\ r \subseteq StateNames(w)
    /\ \A n \in r \ f : MovesFrom(w, n) \subseteq r
    /\ \A S \in SUBSET StateNames(w) : Closed(w, S) => r \subseteq S

Searching ==
    /\ errors = {}
    /\ Searched(Built, reachable, frontier)
    /\ stage = "accepted" => frontier = {} /\ reachable = StateNames(Built)

StoredSound == \A w \in stored : Sound(w) /\ doc = DocumentOf(w)

Outcome ==
    /\ stage = "accepted" => WellFormed(doc)
    /\ stage = "rejected" => ~WellFormed(doc) /\ (doc.object => Said(errors) = ProblemsOf(doc))

Parsed ==
    /\ StatesAt(doc, states, StatesRead)
    /\ MovesAt(doc, table, MovesRead)
    /\ ErrorsAt(doc, errors, StatesRead, MovesRead)

Inv ==
    /\ TypeOK
    /\ Ranges
    /\ Reading => Parsed
    /\ stage \in {"search", "accepted"} => Searching
    /\ StoredSound
    /\ Outcome

-----------------------------------------------------------------------------
\* Lists of sets

\* A list names every element of its set, once.
Lists(list, S) ==
    /\ list \in Seq(S)
    /\ {list[i] : i \in DOMAIN list} = S
    /\ \A i, j \in DOMAIN list : list[i] = list[j] => i = j

LEMMA AppendLists ==
    ASSUME NEW T, NEW x \in T, NEW list, Lists(list, T \ {x})
    PROVE  Lists(Append(list, x), T)
<1>1. /\ list \in Seq(T) /\ Append(list, x) \in Seq(T)
      /\ DOMAIN Append(list, x) = 1 .. (Len(list) + 1) /\ DOMAIN list = 1 .. Len(list)
      /\ Len(list) \in Nat
  BY DEF Lists
<1>2. /\ \A i \in 1 .. Len(list) : Append(list, x)[i] = list[i] /\ list[i] \in T \ {x}
      /\ Append(list, x)[Len(list) + 1] = x
  BY <1>1 DEF Lists
<1>3. \A i \in 1 .. (Len(list) + 1) : i \in 1 .. Len(list) \/ i = Len(list) + 1
  BY <1>1
<1>4. \A i \in 1 .. Len(list) : i \in 1 .. (Len(list) + 1) /\ i # Len(list) + 1
  BY <1>1
<1>5. Len(list) + 1 \in 1 .. (Len(list) + 1)
  BY <1>1
<1>. DEFINE more == Append(list, x)
            n == Len(list)
<1>6. \A y \in T : \E i \in DOMAIN more : more[i] = y
  <2>1. SUFFICES ASSUME NEW y \in T
                 PROVE  \E i \in DOMAIN more : more[i] = y
    OBVIOUS
  <2>2. CASE y = x
    BY <1>1, <1>2, <1>5, <2>2
  <2>3. CASE y # x
    <3>1. PICK i \in DOMAIN list : list[i] = y
      BY <2>3 DEF Lists
    <3>. QED  BY <1>1, <1>2, <1>4, <3>1
  <2>. QED  BY <2>2, <2>3
<1>7. \A i, j \in DOMAIN more : more[i] = more[j] => i = j
  <2>1. SUFFICES ASSUME NEW i \in 1 .. (n + 1), NEW j \in 1 .. (n + 1), more[i] = more[j]
                 PROVE  i = j
    BY <1>1
  <2>2. CASE i \in 1 .. n /\ j \in 1 .. n
    BY <1>1, <1>2, <2>1, <2>2 DEF Lists
  <2>3. CASE i = n + 1 \/ j = n + 1
    BY <1>2, <1>3, <2>1, <2>3
  <2>. QED  BY <1>3, <2>2, <2>3
<1>8. \A i \in DOMAIN more : more[i] \in T
  BY <1>1, <1>2, <1>3
<1>. QED  BY <1>1, <1>6, <1>7, <1>8 DEF Lists

\* The recursion of Listed has a solution, and its solution lists the set.
LEMMA ListedLists ==
    ASSUME NEW S, IsFiniteSet(S)
    PROVE  Lists(Listed(S), S)
<1>. DEFINE N == Cardinality(S)
            First(T) == CHOOSE x \in T : TRUE
            Small(n) == {T \in SUBSET S : Cardinality(T) <= n}
            Longer(f, T) == IF T = {} THEN << >> ELSE Append(f[T \ {First(T)}], First(T))
            Solves(f, D) == f = [T \in D |-> Longer(f, T)]
            Solved == {n \in 0 .. N : \E f : Solves(f, Small(n))}
<1>1. N \in Nat
  BY FS_CardinalityType
<1>2. \A T \in SUBSET S : IsFiniteSet(T) /\ Cardinality(T) \in 0 .. N
  <2>. TAKE T \in SUBSET S
  <2>1. IsFiniteSet(T) /\ Cardinality(T) <= N
    BY FS_Subset
  <2>2. Cardinality(T) \in Nat
    BY <2>1, FS_CardinalityType
  <2>. QED  BY <1>1, <2>1, <2>2
<1>3. \A T \in SUBSET S : T # {} =>
         /\ First(T) \in T /\ T \ {First(T)} \in SUBSET S
         /\ Cardinality(T \ {First(T)}) = Cardinality(T) - 1
  BY <1>2, FS_RemoveElement
<1>4. \A T \in SUBSET S : Cardinality(T) = 0 <=> T = {}
  BY <1>2, FS_EmptySet
<1>. HIDE DEF First
<1>5. 0 \in Solved
  <2>. DEFINE f == [T \in Small(0) |-> << >>]
  <2>1. \A T \in Small(0) : T = {}
    BY <1>2, <1>4
  <2>2. f = [T \in Small(0) |-> Longer(f, T)]
    <3>. HIDE DEF Small
    <3>1. \A T \in Small(0) : Longer(f, T) = << >>
      BY <2>1
    <3>. QED  BY <3>1
  <2>3. Solves(f, Small(0))
    BY <2>2
  <2>. HIDE DEF f, Solves
  <2>. QED  BY <1>1, <2>3
<1>6. ASSUME NEW n \in Nat, n < N, n \in Solved
      PROVE  n + 1 \in Solved
  <2>1. PICK f : Solves(f, Small(n))
    BY <1>6
  <2>. DEFINE g == [T \in Small(n + 1) |-> IF T \in Small(n) THEN f[T] ELSE Longer(f, T)]
  <2>2. ASSUME NEW T \in Small(n + 1), T # {}
        PROVE  T \ {First(T)} \in Small(n) /\ T \ {First(T)} \in Small(n + 1)
    BY <1>2, <1>3, <2>2
  <2>3. \A T \in Small(n) : f[T] = Longer(f, T)
    BY <2>1
  <2>4. ASSUME NEW T \in Small(n + 1)
        PROVE  g[T] = Longer(g, T)
    <3>. HIDE DEF Small
    <3>1. g[T] = Longer(f, T)
      BY <2>3
    <3>2. T # {} => g[T \ {First(T)}] = f[T \ {First(T)}]
      BY <2>2
    <3>. HIDE DEF g
    <3>. QED  BY <3>1, <3>2
  <2>5. g = [T \in Small(n + 1) |-> Longer(g, T)]
    <3>1. g = [T \in Small(n + 1) |-> g[T]]
      OBVIOUS
    <3>. HIDE DEF g, Small, Longer
    <3>. QED  BY <2>4, <3>1
  <2>6. Solves(g, Small(n + 1))
    BY <2>5
  <2>. HIDE DEF g, Solves, Small, N
  <2>. QED  BY <1>1, <1>6, <2>6
<1>7. \E f : Solves(f, SUBSET S)
  <2>1. N \in Solved
    <3>. HIDE DEF Solved, N
    <3>1. 0 .. N \subseteq Solved
      BY <1>1, <1>5, <1>6, IntervalInduction
    <3>. QED  BY <1>1, <3>1
  <2>2. Small(N) = SUBSET S
    BY <1>1, <1>2
  <2>. HIDE DEF Solves, Small
  <2>. QED  BY <2>1, <2>2
<1>. DEFINE list == CHOOSE f : Solves(f, SUBSET S)
<1>8. Solves(list, SUBSET S)
  <2>. HIDE DEF Solves
  <2>. QED  BY <1>7
<1>9. Listed(S) = list[S]
  BY DEF Listed, First
<1>10. \A T \in SUBSET S : list[T] = Longer(list, T)
  <2>1. list = [T \in SUBSET S |-> Longer(list, T)]
    BY <1>8
  <2>. HIDE DEF list, Longer
  <2>. QED  BY <2>1
<1>. HIDE DEF list
<1>. DEFINE Done == {n \in 0 .. N : \A T \in Small(n) : Lists(list[T], T)}
<1>11. 0 \in Done
  <2>1. ASSUME NEW T \in Small(0)
        PROVE  Lists(list[T], T)
    <3>1. T = {} /\ T \in SUBSET S
      BY <1>2, <1>4, <2>1
    <3>2. list[T] = << >>
      BY <1>10, <3>1
    <3>. QED  BY <3>1, <3>2 DEF Lists
  <2>. QED  BY <1>1, <2>1
<1>12. ASSUME NEW n \in Nat, n < N, n \in Done
       PROVE  n + 1 \in Done
  <2>1. ASSUME NEW T \in Small(n + 1)
        PROVE  Lists(list[T], T)
    <3>1. CASE T = {}
      <4>1. T \in Small(0) /\ 0 \in Done
        BY <1>4, <1>11, <3>1
      <4>. QED  BY <4>1
    <3>2. CASE T # {}
      <4>1. T \in SUBSET S /\ T \ {First(T)} \in Small(n) /\ First(T) \in T
        BY <1>2, <1>3, <2>1, <3>2
      <4>2. Lists(list[T \ {First(T)}], T \ {First(T)})
        BY <1>12, <4>1
      <4>3. list[T] = Append(list[T \ {First(T)}], First(T))
        BY <1>10, <3>2, <4>1
      <4>. QED  BY <4>1, <4>2, <4>3, AppendLists
    <3>. QED  BY <3>1, <3>2
  <2>. QED  BY <1>1, <1>12, <2>1
<1>13. N \in Done
  <2>. HIDE DEF Done, N
  <2>1. 0 .. N \subseteq Done
    BY <1>1, <1>11, <1>12, IntervalInduction
  <2>. QED  BY <1>1, <2>1
<1>14. S \in Small(N)
  BY <1>1
<1>. QED  BY <1>9, <1>13, <1>14

-----------------------------------------------------------------------------
\* Definitions and documents

LEMMA TableShape ==
    ASSUME NEW t \in Table
    PROVE  /\ t = [m \in DOMAIN t |-> t[m]]
           /\ DOMAIN t \subseteq Moves
           /\ \A m \in DOMAIN t : t[m] \in SUBSET Role
BY DEF Table

LEMMA EnteredTable ==
    ASSUME NEW t \in Table, NEW m \in Moves, NEW roles \in SUBSET Role
    PROVE  /\ Entered(t, m, roles) \in Table
           /\ DOMAIN Entered(t, m, roles) = DOMAIN t \cup {m}
           /\ Entered(t, m, roles)[m] = roles
           /\ \A k \in DOMAIN t : k # m => Entered(t, m, roles)[k] = t[k]
           /\ IsFiniteSet(DOMAIN t) => IsFiniteSet(DOMAIN Entered(t, m, roles))
<1>. DEFINE D == DOMAIN t \cup {m}
            u == Entered(t, m, roles)
<1>1. u = [k \in D |-> IF k = m THEN roles ELSE t[k]]
  BY DEF Entered
<1>2. D \in SUBSET Moves /\ \A k \in D : k # m => t[k] \in SUBSET Role
  BY TableShape
<1>. HIDE DEF u, D
<1>3. u \in [D -> SUBSET Role] /\ DOMAIN u = D
  BY <1>1, <1>2
<1>4. u \in Table
  BY <1>2, <1>3 DEF Table
<1>5. u[m] = roles /\ \A k \in DOMAIN t : k # m => u[k] = t[k]
  BY <1>1 DEF D
<1>6. IsFiniteSet(DOMAIN t) => IsFiniteSet(D)
  BY FS_AddElement DEF D
<1>. QED  BY <1>3, <1>4, <1>5, <1>6 DEF u, D

LEMMA NoTableIsEmpty ==
    NoTable \in Table /\ DOMAIN NoTable = {} /\ IsFiniteSet(DOMAIN NoTable)
<1>1. DOMAIN NoTable = {} /\ NoTable \in [{} -> SUBSET Role]
  BY DEF NoTable
<1>2. {} \in SUBSET Moves
  OBVIOUS
<1>. QED  BY <1>1, <1>2, FS_EmptySet DEF Table

LEMMA EntryOfState ==
    ASSUME NEW state \in State
    PROVE  /\ EntryOf(state) \in StateEntry
           /\ StateFrom(EntryOf(state)) = state
           /\ StateProblem(EntryOf(state)) = {}
           /\ EntryOf(state).name = state.name /\ EntryOf(state).initial = state.initial
<1>1. /\ state = [name |-> state.name, initial |-> state.initial,
                  completes |-> state.completes, wip_limit |-> state.wip_limit]
      /\ state.name \in StateName /\ state.initial \in BOOLEAN /\ state.completes \in BOOLEAN
      /\ state.wip_limit \in Nat \cup {NoLimit}
  BY DEF State
<1>2. state.name # Blank /\ state.initial # Bad /\ state.wip_limit # Bad /\ FALSE # Bad
  BY <1>1, ParseAssumption
<1>3. CASE ~state.initial /\ ~state.completes /\ state.wip_limit = NoLimit
  <2>1. EntryOf(state) = [kind |-> "string", name |-> state.name, initial |-> FALSE,
                          completes |-> FALSE, wip_limit |-> NoLimit]
    BY <1>3 DEF EntryOf
  <2>2. EntryOf(state) \in StateEntry
    BY <1>1, <2>1 DEF StateEntry
  <2>3. state.initial = FALSE /\ state.completes = FALSE
    BY <1>1, <1>3
  <2>4. StateFrom(EntryOf(state)) = state
    BY <1>1, <1>3, <2>1, <2>3 DEF StateFrom
  <2>5. StateProblem(EntryOf(state)) = {}
    BY <1>2, <1>3, <2>1 DEF StateProblem
  <2>6. EntryOf(state).name = state.name /\ EntryOf(state).initial = FALSE
    BY <2>1
  <2>. QED  BY <2>2, <2>3, <2>4, <2>5, <2>6
<1>4. CASE ~(~state.initial /\ ~state.completes /\ state.wip_limit = NoLimit)
  <2>1. EntryOf(state) = [kind |-> "object", name |-> state.name, initial |-> state.initial,
                          completes |-> state.completes, wip_limit |-> state.wip_limit]
    BY <1>4 DEF EntryOf
  <2>2. EntryOf(state) \in StateEntry
    BY <1>1, <2>1 DEF StateEntry
  <2>3. StateFrom(EntryOf(state)) = state
    BY <1>1, <2>1 DEF StateFrom
  <2>4. StateProblem(EntryOf(state)) = {}
    BY <1>2, <2>1 DEF StateProblem
  <2>. QED  BY <2>1, <2>2, <2>3, <2>4
<1>. QED  BY <1>3, <1>4

\* The states of a definition's document are the definition's.
LEMMA DocumentStates ==
    ASSUME NEW w, Sound(w)
    PROVE  LET d == DocumentOf(w) IN
           /\ d.object = TRUE /\ d.nul = FALSE /\ d.states \in Seq(StateEntry)
           /\ DOMAIN d.states = DOMAIN w.states /\ Len(d.states) = Len(w.states)
           /\ d.states # << >>
           /\ \A i \in DOMAIN d.states :
                /\ StateFrom(d.states[i]) = w.states[i]
                /\ d.states[i].name = w.states[i].name
                /\ d.states[i].initial = w.states[i].initial
           /\ SoundStates(d) = DOMAIN d.states /\ KeptStates(d) = DOMAIN d.states
           /\ Declared(d) = StateNames(w) /\ Entries(d) = EntryStates(w)
<1>. DEFINE d == DocumentOf(w)
            n == Len(w.states)
<1>1. /\ w.states \in Seq(State) /\ w.states # << >>
      /\ \A i, j \in DOMAIN w.states : w.states[i].name = w.states[j].name => i = j
  BY DEF Sound, Definition, IsWorkflow
<1>2. n \in Nat /\ DOMAIN w.states = 1 .. n /\ \A i \in 1 .. n : w.states[i] \in State
  BY <1>1
<1>3. /\ d.object = TRUE /\ d.nul = FALSE
      /\ d.states = [i \in DOMAIN w.states |-> EntryOf(w.states[i])]
  BY DEF DocumentOf
<1>. HIDE DEF d
<1>4. d.states = [i \in 1 .. n |-> EntryOf(w.states[i])]
  BY <1>2, <1>3
<1>5. \A i \in 1 .. n : /\ d.states[i] \in StateEntry /\ StateProblem(d.states[i]) = {}
                        /\ StateFrom(d.states[i]) = w.states[i]
                        /\ d.states[i].name = w.states[i].name
                        /\ d.states[i].initial = w.states[i].initial
  BY <1>2, <1>4, EntryOfState
<1>6. DOMAIN d.states = 1 .. n /\ d.states \in Seq(StateEntry) /\ Len(d.states) = n
  <2>1. d.states \in [1 .. n -> StateEntry]
    BY <1>4, <1>5
  <2>. HIDE DEF n
  <2>. QED  BY <1>2, <2>1
<1>7. d.states # << >>
  BY <1>1, <1>2, <1>6
<1>8. SoundStates(d) = 1 .. n
  BY <1>5, <1>6 DEF SoundStates
<1>9. KeptStates(d) = 1 .. n
  <2>1. ASSUME NEW i \in 1 .. n, NEW j \in 1 .. n, d.states[j].name = d.states[i].name
        PROVE  i <= j
    <3>1. i = j
      BY <1>1, <1>2, <1>5, <2>1
    <3>. QED  BY <1>2, <3>1
  <2>. QED  BY <1>8, <2>1 DEF KeptStates
<1>10. Declared(d) = StateNames(w)
  BY <1>2, <1>5, <1>8 DEF Declared, StateNames
<1>11. Entries(d) = EntryStates(w)
  <2>1. {i \in KeptStates(d) : d.states[i].initial} = {i \in DOMAIN w.states : w.states[i].initial}
    BY <1>2, <1>5, <1>9
  <2>2. 1 \in 1 .. n
    BY <1>1, <1>2
  <2>3. EntryPositions(w) \subseteq 1 .. n
    BY <1>2, <2>2 DEF EntryPositions
  <2>4. Entries(d) = {d.states[i].name : i \in EntryPositions(w)}
    BY <2>1 DEF Entries, EntryPositions
  <2>. QED  BY <1>5, <2>3, <2>4 DEF EntryStates
<1>. QED  BY <1>2, <1>3, <1>5, <1>6, <1>7, <1>8, <1>9, <1>10, <1>11 DEF d

\* A transition entry that names two states and breaks no rule of its own.
LEMMA FaultsOf ==
    ASSUME NEW d, NEW i
    PROVE  /\ Faults(d, i) \subseteq {"blank", "from", "to", "roles"}
           /\ "blank" \in Faults(d, i) <=> ~d.transitions[i].named
           /\ "from" \in Faults(d, i) <=> d.transitions[i].from \notin Declared(d)
           /\ "to" \in Faults(d, i) <=> d.transitions[i].to \notin Declared(d)
           /\ "roles" \in Faults(d, i) <=> d.transitions[i].roles = Bad
<1>1. PairAt(d, i)[1] = d.transitions[i].from /\ PairAt(d, i)[2] = d.transitions[i].to
  BY DEF PairAt
<1>. QED  BY <1>1 DEF Faults

LEMMA FaultlessIs ==
    ASSUME NEW d, NEW i
    PROVE  Faults(d, i) = {} <=>
             /\ d.transitions[i].named /\ d.transitions[i].roles # Bad
             /\ {d.transitions[i].from, d.transitions[i].to} \subseteq Declared(d)
<1>1. Faults(d, i) = {} <=> \A rule \in {"blank", "from", "to", "roles"} : rule \notin Faults(d, i)
  BY FaultsOf
<1>. QED  BY <1>1, FaultsOf

\* The parser's rules of a transition entry are the faults it has.
LEMMA ProblemsAreFaults ==
    ASSUME NEW d, NEW i \in Shaped(d)
    PROVE  TransitionProblems(d.transitions[i], Declared(d)) = Faults(d, i)
<1>. DEFINE e == d.transitions[i]
            P == TransitionProblems(e, Declared(d))
<1>1. e.kind = "object"
  BY DEF Shaped
<1>2. P = {rule \in {"blank", "from", "to", "roles"} :
             \/ rule = "blank" /\ ~e.named
             \/ rule = "from"  /\ e.from \notin Declared(d)
             \/ rule = "to"    /\ e.to \notin Declared(d)
             \/ rule = "roles" /\ e.roles = Bad}
  BY <1>1 DEF TransitionProblems
<1>. HIDE DEF P
<1>3. /\ P \subseteq {"blank", "from", "to", "roles"}
      /\ "blank" \in P <=> ~e.named
      /\ "from" \in P <=> e.from \notin Declared(d)
      /\ "to" \in P <=> e.to \notin Declared(d)
      /\ "roles" \in P <=> e.roles = Bad
  BY <1>2
<1>4. \A rule \in {"blank", "from", "to", "roles"} : rule \in P <=> rule \in Faults(d, i)
  BY <1>3, FaultsOf
<1>5. Faults(d, i) \subseteq {"blank", "from", "to", "roles"}
  BY FaultsOf
<1>6. P = Faults(d, i)
  <2>. DEFINE R == {"blank", "from", "to", "roles"}
  <2>1. P \subseteq R /\ Faults(d, i) \subseteq R /\ \A rule \in R : rule \in P <=> rule \in Faults(d, i)
    BY <1>3, <1>4, <1>5
  <2>. HIDE DEF R
  <2>. QED  BY <2>1
<1>. QED  BY <1>6 DEF P

LEMMA DocumentMoves ==
    ASSUME NEW w, Sound(w)
    PROVE  LET d == DocumentOf(w) IN
           /\ d.transitions \in Seq(TransitionEntry)
           /\ Shaped(d) = DOMAIN d.transitions
           /\ \A i \in DOMAIN d.transitions :
                /\ Faults(d, i) = {} /\ ~Repeats(d, i)
                /\ PairAt(d, i) \in DOMAIN w.transitions
                /\ d.transitions[i].roles = w.transitions[PairAt(d, i)]
           /\ {PairAt(d, i) : i \in DOMAIN d.transitions} = DOMAIN w.transitions
<1>. DEFINE d == DocumentOf(w)
            pairs == Listed(DOMAIN w.transitions)
            n == Len(pairs)
<1>1. /\ w.transitions \in Table /\ IsFiniteSet(DOMAIN w.transitions)
      /\ DOMAIN w.transitions \subseteq StateNames(w) \X StateNames(w)
  BY DEF Sound, Definition, IsWorkflow
<1>2. Lists(pairs, DOMAIN w.transitions)
  BY <1>1, ListedLists
<1>3. n \in Nat /\ DOMAIN pairs = 1 .. n /\ \A i \in 1 .. n : pairs[i] \in DOMAIN w.transitions
  BY <1>2 DEF Lists
<1>4. d.transitions = [i \in DOMAIN pairs |->
            [kind |-> "object", named |-> TRUE, from |-> pairs[i][1], to |-> pairs[i][2],
             roles |-> w.transitions[pairs[i]]]]
  BY DEF DocumentOf
<1>5. Declared(d) = StateNames(w)
  BY DocumentStates
<1>. HIDE DEF d, pairs
<1>6. DOMAIN d.transitions = 1 .. n
  BY <1>3, <1>4
<1>7. ASSUME NEW i \in 1 .. n
      PROVE  /\ d.transitions[i] \in TransitionEntry
             /\ d.transitions[i].kind = "object" /\ d.transitions[i].named
             /\ PairAt(d, i) = pairs[i] /\ {pairs[i][1], pairs[i][2]} \subseteq StateNames(w)
             /\ d.transitions[i].from = pairs[i][1] /\ d.transitions[i].to = pairs[i][2]
             /\ d.transitions[i].roles = w.transitions[pairs[i]]
             /\ d.transitions[i].roles # Bad
  <2>1. d.transitions[i] = [kind |-> "object", named |-> TRUE, from |-> pairs[i][1],
                            to |-> pairs[i][2], roles |-> w.transitions[pairs[i]]]
    BY <1>3, <1>4
  <2>2. pairs[i] \in DOMAIN w.transitions /\ pairs[i] \in StateNames(w) \X StateNames(w)
    BY <1>1, <1>3
  <2>3. pairs[i] \in Moves /\ w.transitions[pairs[i]] \in SUBSET Role
    BY <1>1, <2>2, TableShape
  <2>4. pairs[i][1] \in StateName /\ pairs[i][2] \in StateName
        /\ pairs[i] = <<pairs[i][1], pairs[i][2]>>
        /\ {pairs[i][1], pairs[i][2]} \subseteq StateNames(w)
    BY <2>2, <2>3 DEF Moves
  <2>5. d.transitions[i] \in TransitionEntry
    BY <2>1, <2>3, <2>4 DEF TransitionEntry
  <2>6. w.transitions[pairs[i]] # Bad
    BY <2>3, ParseAssumption
  <2>7. PairAt(d, i) = pairs[i]
    BY <2>1, <2>4 DEF PairAt
  <2>. QED  BY <2>1, <2>4, <2>5, <2>6, <2>7
<1>8. d.transitions \in Seq(TransitionEntry)
  <2>1. d.transitions \in [1 .. n -> TransitionEntry]
    BY <1>3, <1>4, <1>7
  <2>. HIDE DEF n
  <2>. QED  BY <1>3, <2>1
<1>9. Shaped(d) = 1 .. n
  BY <1>6, <1>7 DEF Shaped
<1>10. ASSUME NEW i \in 1 .. n
       PROVE  Faults(d, i) = {} /\ ~Repeats(d, i)
  <2>1. Faults(d, i) = {}
    BY <1>5, <1>7, FaultlessIs
  <2>2. ASSUME NEW j \in Shaped(d), j < i, PairAt(d, j) = PairAt(d, i)
        PROVE  FALSE
    <3>1. j \in 1 .. n /\ pairs[j] = pairs[i]
      BY <1>7, <1>9, <2>2
    <3>2. j = i
      BY <1>2, <1>3, <3>1 DEF Lists
    <3>. QED  BY <1>3, <2>2, <3>2
  <2>. QED  BY <2>1, <2>2 DEF Repeats
<1>11. {PairAt(d, i) : i \in 1 .. n} = DOMAIN w.transitions
  BY <1>2, <1>3, <1>7 DEF Lists
<1>12. \A i \in DOMAIN d.transitions :
         /\ Faults(d, i) = {} /\ ~Repeats(d, i)
         /\ PairAt(d, i) \in DOMAIN w.transitions
         /\ d.transitions[i].roles = w.transitions[PairAt(d, i)]
  BY <1>3, <1>6, <1>7, <1>10
<1>13. Shaped(d) = DOMAIN d.transitions
  BY <1>6, <1>9
<1>14. {PairAt(d, i) : i \in DOMAIN d.transitions} = DOMAIN w.transitions
  BY <1>6, <1>11
<1>. QED  BY ONLY <1>8, <1>12, <1>13, <1>14 DEF d

\* The canonical document of a sound definition is well formed.
LEMMA DocumentWellFormed ==
    ASSUME NEW w, Sound(w)
    PROVE  DocumentOf(w) \in DocumentType /\ WellFormed(DocumentOf(w))
<1>. DEFINE d == DocumentOf(w)
<1>1. d = [object |-> d.object, nul |-> d.nul, states |-> d.states, transitions |-> d.transitions]
  BY DEF DocumentOf
<1>2. /\ d.object = TRUE /\ d.nul = FALSE /\ d.states \in Seq(StateEntry) /\ d.states # << >>
      /\ KeptStates(d) = DOMAIN d.states /\ Declared(d) = StateNames(w)
      /\ Entries(d) = EntryStates(w)
  BY DocumentStates
<1>3. /\ d.transitions \in Seq(TransitionEntry) /\ Shaped(d) = DOMAIN d.transitions
      /\ \A i \in DOMAIN d.transitions : Faults(d, i) = {} /\ ~Repeats(d, i)
      /\ {PairAt(d, i) : i \in DOMAIN d.transitions} = DOMAIN w.transitions
  BY DocumentMoves
<1>. HIDE DEF d
<1>4. d \in DocumentType
  BY <1>1, <1>2, <1>3 DEF DocumentType
<1>5. ProblemsOf(d) = {}
  BY <1>2, <1>3 DEF ProblemsOf
<1>6. Covered(d)
  <2>1. SUFFICES ASSUME NEW S \in SUBSET StateNames(w), EntryStates(w) \subseteq S,
                        \A i \in Shaped(d) : PairAt(d, i)[1] \in S => PairAt(d, i)[2] \in S
                 PROVE  S = StateNames(w)
    BY <1>2 DEF Covered
  <2>2. \A m \in DOMAIN w.transitions : m[1] \in S => m[2] \in S
    BY <1>3, <2>1
  <2>. QED  BY <2>1, <2>2 DEF Sound, Closed
<1>. QED  BY <1>2, <1>4, <1>5, <1>6 DEF WellFormed, d

-----------------------------------------------------------------------------
\* The seed's definition

SeedStates == <<SeedState("new"), SeedState("in_progress"), SeedState("completed")>>
SeedNames  == {"new", "in_progress", "completed"}

LEMMA SeedStatesType ==
    /\ SeedStates \in Seq(State) /\ SeedStates # << >> /\ DOMAIN SeedStates = 1 .. 3
    /\ \A i \in 1 .. 3 : SeedStates[i].initial
    /\ {SeedStates[i].name : i \in 1 .. 3} = SeedNames
    /\ \A i, j \in 1 .. 3 : SeedStates[i].name = SeedStates[j].name => i = j
<1>1. ASSUME NEW name \in SeedNames
      PROVE  /\ SeedState(name) \in State
             /\ SeedState(name).name = name /\ SeedState(name).initial
  <2>1. name \in StateName
    BY ParseAssumption DEF SeedNames
  <2>2. (name = "completed") \in BOOLEAN
    OBVIOUS
  <2>. QED  BY <2>1, <2>2 DEF SeedState, State
<1>2. {"new", "in_progress", "completed"} \subseteq SeedNames
  BY DEF SeedNames
<1>. DEFINE a == SeedState("new")
            b == SeedState("in_progress")
            c == SeedState("completed")
<1>3. /\ a \in State /\ b \in State /\ c \in State
      /\ a.initial /\ b.initial /\ c.initial
      /\ a.name = "new" /\ b.name = "in_progress" /\ c.name = "completed"
  BY <1>1, <1>2
<1>4. SeedStates = <<a, b, c>>
  BY DEF SeedStates
<1>. HIDE DEF a, b, c
<1>5. /\ SeedStates \in Seq(State) /\ SeedStates # << >> /\ DOMAIN SeedStates = 1 .. 3
      /\ SeedStates[1] = a /\ SeedStates[2] = b /\ SeedStates[3] = c
  BY <1>3, <1>4
<1>6. 1 .. 3 = {1, 2, 3}
  OBVIOUS
<1>7. \A i \in 1 .. 3 : SeedStates[i].initial
  BY <1>3, <1>5, <1>6
<1>8. {SeedStates[i].name : i \in 1 .. 3} = SeedNames
  <2>1. {SeedStates[i].name : i \in 1 .. 3} = {SeedStates[1].name, SeedStates[2].name, SeedStates[3].name}
    BY <1>6
  <2>. QED  BY <1>3, <1>5, <2>1 DEF SeedNames
<1>9. \A i, j \in 1 .. 3 : SeedStates[i].name = SeedStates[j].name => i = j
  <2>1. SeedStates[1].name = "new" /\ SeedStates[2].name = "in_progress" /\ SeedStates[3].name = "completed"
    BY <1>3, <1>5
  <2>. QED  BY <1>6, <2>1
<1>. QED  BY <1>5, <1>7, <1>8, <1>9

\* A definition under construction: the three states, and these moves.
Seeded(w, D) ==
    /\ w \in Definition /\ w.states = SeedStates
    /\ DOMAIN w.transitions = D /\ IsFiniteSet(D)

LEMMA AllowSeeds ==
    ASSUME NEW W, NEW D, W # {}, \A w \in W : Seeded(w, D),
           NEW a \in SeedNames, NEW b \in SeedNames, <<a, b>> \notin D
    PROVE  /\ AllowTransition(W, a, b) # {}
           /\ \A w \in AllowTransition(W, a, b) : Seeded(w, D \cup {<<a, b>>})
<1>1. ASSUME NEW w \in W
      PROVE  {a, b} \subseteq StateNames(w) /\ ~Allows(w, a, b)
  <2>1. StateNames(w) = SeedNames
    BY SeedStatesType DEF Seeded, StateNames
  <2>. QED  BY <2>1 DEF Seeded, Allows
<1>2. ASSUME NEW w \in W
      PROVE  Seeded([w EXCEPT !.transitions = Entered(@, <<a, b>>, {})], D \cup {<<a, b>>})
  <2>. DEFINE t == Entered(w.transitions, <<a, b>>, {})
              v == [w EXCEPT !.transitions = t]
  <2>1. w \in Definition /\ w.transitions \in Table /\ w.states = SeedStates
        /\ DOMAIN w.transitions = D /\ IsFiniteSet(D)
    BY DEF Seeded, Definition
  <2>2. <<a, b>> \in Moves /\ {} \in SUBSET Role
    BY ParseAssumption DEF SeedNames, Moves
  <2>3. t \in Table /\ DOMAIN t = D \cup {<<a, b>>}
    BY <2>1, <2>2, EnteredTable
  <2>4. IsFiniteSet(D \cup {<<a, b>>})
    BY <2>1, FS_AddElement
  <2>. HIDE DEF t
  <2>5. v \in Definition /\ v.states = SeedStates /\ v.transitions = t
    BY <2>1, <2>3 DEF Definition
  <2>. HIDE DEF v
  <2>6. Seeded(v, D \cup {<<a, b>>})
    BY <2>3, <2>4, <2>5 DEF Seeded
  <2>. QED  BY <2>6 DEF v, t
<1>. QED  BY <1>1, <1>2 DEF AllowTransition

\* No call of default_workflow raises, and what it builds is sound.
LEMMA SeedSound ==
    DefaultWorkflow # {} /\ \A w \in DefaultWorkflow : Sound(w)
<1>. DEFINE W0 == {[states |-> SeedStates, transitions |-> NoTable]}
            W1 == AllowTransition(W0, "new", "in_progress")
            W2 == AllowTransition(W1, "new", "completed")
            W3 == AllowTransition(W2, "in_progress", "completed")
            W4 == AllowTransition(W3, "in_progress", "new")
            W5 == AllowTransition(W4, "completed", "new")
            W6 == AllowTransition(W5, "completed", "in_progress")
            D1 == {} \cup {<<"new", "in_progress">>}
            D2 == D1 \cup {<<"new", "completed">>}
            D3 == D2 \cup {<<"in_progress", "completed">>}
            D4 == D3 \cup {<<"in_progress", "new">>}
            D5 == D4 \cup {<<"completed", "new">>}
            D6 == D5 \cup {<<"completed", "in_progress">>}
<1>1. DefaultWorkflow = W6
  BY DEF DefaultWorkflow, SeedStates
<1>2. /\ <<"new", "in_progress">> \notin {} /\ <<"new", "completed">> \notin D1
      /\ <<"in_progress", "completed">> \notin D2 /\ <<"in_progress", "new">> \notin D3
      /\ <<"completed", "new">> \notin D4 /\ <<"completed", "in_progress">> \notin D5
  OBVIOUS
<1>3. "new" \in SeedNames /\ "in_progress" \in SeedNames /\ "completed" \in SeedNames
  BY DEF SeedNames
<1>4. W0 # {} /\ \A w \in W0 : Seeded(w, {})
  <2>1. [states |-> SeedStates, transitions |-> NoTable] \in Definition
    BY SeedStatesType, NoTableIsEmpty DEF Definition
  <2>. QED  BY <2>1, NoTableIsEmpty DEF Seeded
<1>. HIDE DEF W0
<1>5. W1 # {} /\ \A w \in W1 : Seeded(w, D1)
  BY <1>2, <1>3, <1>4, AllowSeeds
<1>. HIDE DEF W1, D1
<1>6. W2 # {} /\ \A w \in W2 : Seeded(w, D2)
  BY <1>2, <1>3, <1>5, AllowSeeds
<1>. HIDE DEF W2, D2
<1>7. W3 # {} /\ \A w \in W3 : Seeded(w, D3)
  BY <1>2, <1>3, <1>6, AllowSeeds
<1>. HIDE DEF W3, D3
<1>8. W4 # {} /\ \A w \in W4 : Seeded(w, D4)
  BY <1>2, <1>3, <1>7, AllowSeeds
<1>. HIDE DEF W4, D4
<1>9. W5 # {} /\ \A w \in W5 : Seeded(w, D5)
  BY <1>2, <1>3, <1>8, AllowSeeds
<1>. HIDE DEF W5, D5
<1>10. W6 # {} /\ \A w \in W6 : Seeded(w, D6)
  BY <1>2, <1>3, <1>9, AllowSeeds
<1>. HIDE DEF W6
<1>11. D6 \subseteq SeedNames \X SeedNames
  BY <1>3 DEF D5, D4, D3, D2, D1
<1>. HIDE DEF D6
<1>12. ASSUME NEW w, Seeded(w, D6)
       PROVE  Sound(w)
  <2>1. /\ w \in Definition /\ w.states = SeedStates /\ DOMAIN w.transitions = D6
        /\ IsFiniteSet(D6) /\ w.transitions \in Table
    BY <1>12 DEF Seeded, Definition
  <2>2. StateNames(w) = SeedNames
    BY <2>1, SeedStatesType DEF StateNames
  <2>3. EntryStates(w) = SeedNames
    <3>1. {i \in DOMAIN w.states : w.states[i].initial} = 1 .. 3 /\ 1 .. 3 # {}
      BY <2>1, SeedStatesType
    <3>2. EntryPositions(w) = 1 .. 3
      BY <3>1 DEF EntryPositions
    <3>. QED  BY <2>1, <3>2, SeedStatesType DEF EntryStates
  <2>4. IsWorkflow(w)
    <3>1. \A m \in DOMAIN w.transitions : w.transitions[m] \subseteq Role
      BY <2>1, TableShape
    <3>. QED  BY <1>11, <2>1, <2>2, <3>1, SeedStatesType DEF IsWorkflow
  <2>. QED  BY <2>1, <2>2, <2>3, <2>4 DEF Sound, Closed
<1>. QED  BY <1>1, <1>10, <1>12

-----------------------------------------------------------------------------
\* Problems

LEMMA SaidUnion ==
    ASSUME NEW E, NEW F
    PROVE  Said(E \cup F) = Said(E) \cup Said(F)
BY DEF Said

LEMMA SaidNothing ==
    ASSUME NEW E, \A e \in E : e.index = 0
    PROVE  Said(E) = {}
BY DEF Said

LEMMA FoundIs ==
    ASSUME NEW where, NEW n, NEW rules
    PROVE  /\ \A e \in Found(where, n, rules) : e.index = n /\ e.where = where /\ e.rule \in rules
           /\ \A rule \in rules : \E e \in Found(where, n, rules) : e.rule = rule
           /\ Found(where, n, rules) = {} <=> rules = {}
<1>1. \A rule : /\ Error(where, n, rule).index = n /\ Error(where, n, rule).where = where
                /\ Error(where, n, rule).rule = rule
  BY DEF Error
<1>. QED  BY <1>1 DEF Found

LEMMA SaidFound ==
    ASSUME NEW n \in Nat, n # 0, NEW rules
    PROVE  /\ Said(Found("states", n, rules)) = IF rules = {} THEN {} ELSE {<<"states", n>>}
           /\ Said(Found("transitions", n, rules)) = {<<"transitions", n, rule>> : rule \in rules}
<1>1. Said(Found("states", n, rules)) = IF rules = {} THEN {} ELSE {<<"states", n>>}
  <2>. DEFINE E == Found("states", n, rules)
  <2>1. \A e \in E : e.index = n /\ e.where = "states"
    BY FoundIs
  <2>2. E = {} <=> rules = {}
    BY FoundIs
  <2>. HIDE DEF E
  <2>3. Said(E) = {<<"states", e.index>> : e \in E}
    BY <2>1 DEF Said
  <2>. QED  BY <2>1, <2>2, <2>3 DEF E
<1>2. Said(Found("transitions", n, rules)) = {<<"transitions", n, rule>> : rule \in rules}
  <2>. DEFINE E == Found("transitions", n, rules)
  <2>1. /\ \A e \in E : e.index = n /\ e.where = "transitions" /\ e.rule \in rules
        /\ \A rule \in rules : \E e \in E : e.rule = rule
    BY FoundIs
  <2>. HIDE DEF E
  <2>2. Said(E) = {<<e.where, e.index, e.rule>> : e \in E}
    BY <2>1 DEF Said
  <2>3. Said(E) = {<<"transitions", n, e.rule>> : e \in E}
    BY <2>1, <2>2
  <2>4. {<<"transitions", n, e.rule>> : e \in E} = {<<"transitions", n, rule>> : rule \in rules}
    BY <2>1
  <2>. QED  BY <2>3, <2>4 DEF E
<1>. QED  BY <1>1, <1>2

\* The shape of a document.
LEMMA DocumentShape ==
    ASSUME NEW d \in DocumentType
    PROVE  /\ d.object \in BOOLEAN /\ d.nul \in BOOLEAN
           /\ d.states \in Seq(StateEntry) /\ Len(d.states) \in Nat
           /\ DOMAIN d.states = 1 .. Len(d.states)
           /\ \A i \in 1 .. Len(d.states) : d.states[i] \in StateEntry
           /\ d.transitions \in Seq(TransitionEntry) /\ Len(d.transitions) \in Nat
           /\ DOMAIN d.transitions = 1 .. Len(d.transitions)
           /\ \A i \in 1 .. Len(d.transitions) : d.transitions[i] \in TransitionEntry
           /\ SoundStates(d) \subseteq 1 .. Len(d.states)
           /\ KeptStates(d) \subseteq SoundStates(d)
           /\ Shaped(d) \subseteq 1 .. Len(d.transitions)
BY DEF DocumentType, SoundStates, KeptStates, Shaped

LEMMA NoProblemsYet ==
    ASSUME NEW d \in DocumentType
    PROVE  ProblemsUpTo(d, 0, 0) = {}
<1>1. \A i \in 1 .. Len(d.states) : ~(i <= 0)
  BY DocumentShape
<1>2. \A i \in 1 .. Len(d.transitions) : ~(i <= 0)
  BY DocumentShape
<1>. QED  BY <1>1, <1>2, DocumentShape DEF ProblemsUpTo, LostStates, MoveProblems, Misshapen, ShapedTo,
       Repeated, ShapesAt, FaultsIn, DoublesAt

LEMMA AllProblems ==
    ASSUME NEW d \in DocumentType
    PROVE  ProblemsUpTo(d, Len(d.states), Len(d.transitions)) = ProblemsOf(d)
<1>1. \A i \in DOMAIN d.states : i <= Len(d.states)
  BY DocumentShape
<1>2. \A i \in DOMAIN d.transitions : i <= Len(d.transitions)
  BY DocumentShape
<1>3. /\ {j \in DOMAIN d.states \ KeptStates(d) : j <= Len(d.states)} = DOMAIN d.states \ KeptStates(d)
      /\ Misshapen(d, Len(d.transitions)) = DOMAIN d.transitions \ Shaped(d)
      /\ ShapedTo(d, Len(d.transitions)) = Shaped(d)
      /\ Repeated(d, Len(d.transitions)) = {j \in Shaped(d) : Repeats(d, j)}
  BY <1>1, <1>2 DEF Shaped, Misshapen, ShapedTo, Repeated
<1>4. ProblemsUpTo(d, Len(d.states), Len(d.transitions)) =
        {<<"states", i>> : i \in DOMAIN d.states \ KeptStates(d)}
          \cup (ShapesAt(DOMAIN d.transitions \ Shaped(d)) \cup FaultsIn(d, Shaped(d))
                   \cup DoublesAt({j \in Shaped(d) : Repeats(d, j)}))
  BY ONLY <1>3 DEF ProblemsUpTo, LostStates, MoveProblems
<1>5. ProblemsOf(d) =
        {<<"states", i>> : i \in DOMAIN d.states \ KeptStates(d)}
          \cup ShapesAt(DOMAIN d.transitions \ Shaped(d)) \cup FaultsIn(d, Shaped(d))
          \cup DoublesAt({j \in Shaped(d) : Repeats(d, j)})
  BY ONLY DEF ProblemsOf, ShapesAt, FaultsIn, DoublesAt
<1>. QED  BY ONLY <1>4, <1>5

\* One more state entry, one more transition entry.
LEMMA OneMoreState ==
    ASSUME NEW d \in DocumentType, NEW n \in 1 .. Len(d.states)
    PROVE  LostStates(d, n) =
             LostStates(d, n - 1) \cup IF n \in KeptStates(d) THEN {} ELSE {<<"states", n>>}
<1>. DEFINE Lost(m) == {j \in DOMAIN d.states \ KeptStates(d) : j <= m}
            More == IF n \in KeptStates(d) THEN {} ELSE {n}
<1>1. Lost(n) = Lost(n - 1) \cup More
  BY DocumentShape
<1>. HIDE DEF Lost
<1>2. {<<"states", i>> : i \in Lost(n)} =
        {<<"states", i>> : i \in Lost(n - 1)} \cup IF n \in KeptStates(d) THEN {} ELSE {<<"states", n>>}
  BY <1>1
<1>. QED  BY <1>2 DEF LostStates, Lost

LEMMA OneMoreMove ==
    ASSUME NEW d \in DocumentType, NEW n \in 1 .. Len(d.transitions)
    PROVE  LET rules == IF n \notin Shaped(d) THEN {"shape"}
                        ELSE Faults(d, n) \cup (IF Repeats(d, n) THEN {"duplicate"} ELSE {})
           IN  MoveProblems(d, n) =
                 MoveProblems(d, n - 1) \cup {<<"transitions", n, rule>> : rule \in rules}
<1>1. \A j \in 1 .. Len(d.transitions) : j <= n <=> (j <= n - 1 \/ j = n)
  BY DocumentShape
<1>2. n \in DOMAIN d.transitions /\ Shaped(d) \subseteq 1 .. Len(d.transitions)
      /\ DOMAIN d.transitions = 1 .. Len(d.transitions)
  BY DocumentShape
<1>. DEFINE At(R) == {<<"transitions", n, rule>> : rule \in R}
            Shapes(m)  == ShapesAt(Misshapen(d, m))
            FaultsTo(m)  == FaultsIn(d, ShapedTo(d, m))
            Doubles(m) == DoublesAt(Repeated(d, m))
<1>0. \A m : MoveProblems(d, m) = Shapes(m) \cup FaultsTo(m) \cup Doubles(m)
  BY DEF MoveProblems
<1>3. CASE n \notin Shaped(d)
  <2>1. /\ Misshapen(d, n) = Misshapen(d, n - 1) \cup {n}
        /\ ShapedTo(d, n) = ShapedTo(d, n - 1) /\ Repeated(d, n) = Repeated(d, n - 1)
    BY <1>1, <1>2, <1>3 DEF Misshapen, ShapedTo, Repeated
  <2>2. /\ Shapes(n) = Shapes(n - 1) \cup At({"shape"})
        /\ FaultsTo(n) = FaultsTo(n - 1) /\ Doubles(n) = Doubles(n - 1)
    BY <2>1 DEF ShapesAt
  <2>. HIDE DEF At, Shapes, FaultsTo, Doubles
  <2>3. MoveProblems(d, n) = MoveProblems(d, n - 1) \cup At({"shape"})
    BY <1>0, <2>2
  <2>. QED  BY <1>3, <2>3 DEF At
<1>4. CASE n \in Shaped(d)
  <2>. DEFINE twice == IF Repeats(d, n) THEN {n} ELSE {}
              dup == IF Repeats(d, n) THEN {"duplicate"} ELSE {}
  <2>1. /\ Misshapen(d, n) = Misshapen(d, n - 1) /\ ShapedTo(d, n) = ShapedTo(d, n - 1) \cup {n}
        /\ Repeated(d, n) = Repeated(d, n - 1) \cup twice
    BY <1>1, <1>2, <1>4 DEF Misshapen, ShapedTo, Repeated
  <2>2. FaultsIn(d, ShapedTo(d, n - 1) \cup {n}) = FaultsIn(d, ShapedTo(d, n - 1)) \cup At(Faults(d, n))
    BY DEF FaultsIn
  <2>3. DoublesAt(Repeated(d, n - 1) \cup twice) = DoublesAt(Repeated(d, n - 1)) \cup At(dup)
    BY DEF DoublesAt
  <2>4. At(Faults(d, n) \cup dup) = At(Faults(d, n)) \cup At(dup)
    OBVIOUS
  <2>5. /\ Shapes(n) = Shapes(n - 1) /\ FaultsTo(n) = FaultsTo(n - 1) \cup At(Faults(d, n))
        /\ Doubles(n) = Doubles(n - 1) \cup At(dup)
    BY <2>1, <2>2, <2>3
  <2>. HIDE DEF At, Shapes, FaultsTo, Doubles, dup, twice
  <2>6. MoveProblems(d, n) = MoveProblems(d, n - 1) \cup At(Faults(d, n) \cup dup)
    BY <1>0, <2>4, <2>5
  <2>. QED  BY <1>4, <2>6 DEF At, dup
<1>. QED  BY <1>3, <1>4

-----------------------------------------------------------------------------
\* The parser's steps

\* Before the first entry.
LEMMA NothingRead ==
    ASSUME NEW d \in DocumentType
    PROVE  StatesAt(d, << >>, 0) /\ MovesAt(d, NoTable, 0)
<1>1. SoundStates(d) \cap (1 .. 0) = {} /\ 1 .. 0 = {} /\ DOMAIN << >> = {}
  OBVIOUS
<1>2. << >> = [i \in 1 .. 0 |-> StateFrom(d.states[i])]
  BY <1>1
<1>3. StatesAt(d, << >>, 0)
  <2>1. {<< >>[k].name : k \in DOMAIN << >>} = {}
    BY <1>1
  <2>2. {d.states[i].name : i \in SoundStates(d) \cap (1 .. 0)} = {}
    BY <1>1
  <2>. QED  BY <1>1, <1>2, <2>1, <2>2 DEF StatesAt
<1>4. Faultless(d, 0) = {}
  <2>1. \A i \in 1 .. Len(d.transitions) : ~(i <= 0)
    BY DocumentShape
  <2>. QED  BY <2>1, DocumentShape DEF Faultless
<1>. QED  BY <1>3, <1>4, NoTableIsEmpty DEF MovesAt

LEMMA ErrorsAtFirst ==
    ASSUME NEW d \in DocumentType, NEW E,
           E = Found("document", 0, IF d.nul THEN {"nul"} ELSE {})
               \cup Found("states", 0, IF d.states = << >> THEN {"empty"} ELSE {})
    PROVE  ErrorsAt(d, E, 0, 0)
<1>. DEFINE A == Found("document", 0, IF d.nul THEN {"nul"} ELSE {})
            B == Found("states", 0, IF d.states = << >> THEN {"empty"} ELSE {})
<1>1. \A e \in A \cup B : e.index = 0
  BY FoundIs
<1>2. (A = {} <=> ~d.nul) /\ (B = {} <=> d.states # << >>)
  BY FoundIs
<1>3. E = A \cup B
  OBVIOUS
<1>. HIDE DEF A, B
<1>4. Said(E) = {}
  BY <1>1, <1>3, SaidNothing
<1>. QED  BY <1>1, <1>2, <1>3, <1>4, NoProblemsYet DEF ErrorsAt

\* A sound state entry is a state.
LEMMA SoundEntry ==
    ASSUME NEW e \in StateEntry, StateProblem(e) = {}
    PROVE  StateFrom(e) \in State /\ StateFrom(e).name = e.name /\ StateFrom(e).initial = e.initial
<1>1. e.initial # Bad /\ e.wip_limit # Bad /\ e.name # Blank
  BY DEF StateProblem
<1>. QED  BY <1>1 DEF StateEntry, StateFrom, State

\* What ParseState finds in a state entry, and the states it leaves.
StateProblemAt(d, s, n) ==
    IF StateProblem(d.states[n]) # {} THEN StateProblem(d.states[n])
    ELSE IF d.states[n].name \in {s[i].name : i \in DOMAIN s} THEN {"duplicate"} ELSE {}

StatesWith(d, s, n) ==
    IF StateProblemAt(d, s, n) = {} THEN Append(s, StateFrom(d.states[n])) ELSE s

LEMMA NextState ==
    ASSUME NEW d \in DocumentType, NEW n \in 1 .. Len(d.states), NEW s \in Seq(State),
           StatesAt(d, s, n - 1)
    PROVE  /\ StateProblemAt(d, s, n) = {} <=> n \in KeptStates(d)
           /\ StatesWith(d, s, n) \in Seq(State)
           /\ StatesAt(d, StatesWith(d, s, n), n)
<1>. DEFINE problem == StateProblemAt(d, s, n)
            e == d.states[n]
            Names == {s[k].name : k \in DOMAIN s}
            Sounds(m) == SoundStates(d) \cap (1 .. m)
<1>1. /\ n \in Nat /\ n - 1 \in Nat /\ 1 .. n = 1 .. (n - 1) \cup {n} /\ n \notin 1 .. (n - 1)
      /\ e \in StateEntry /\ DOMAIN d.states = 1 .. Len(d.states)
      /\ \A i \in 1 .. Len(d.states) : d.states[i] \in StateEntry
  BY DocumentShape
<1>2. n \in SoundStates(d) <=> StateProblem(e) = {}
  BY <1>1 DEF SoundStates
<1>3. Names = {d.states[i].name : i \in Sounds(n - 1)}
  BY DEF StatesAt
<1>4. n \in KeptStates(d) <=> n \in SoundStates(d) /\ e.name \notin Names
  <2>1. n \in KeptStates(d) <=>
          n \in SoundStates(d) /\ \A j \in SoundStates(d) : d.states[j].name = e.name => n <= j
    BY DEF KeptStates
  <2>2. \A j \in SoundStates(d) : (n <= j) <=> j \notin Sounds(n - 1)
    BY <1>1, DocumentShape
  <2>. HIDE DEF Names, Sounds
  <2>3. e.name \notin Names <=> \A j \in Sounds(n - 1) : d.states[j].name # e.name
    BY <1>3
  <2>4. Sounds(n - 1) \subseteq SoundStates(d)
    BY DEF Sounds
  <2>. QED  BY <2>1, <2>2, <2>3, <2>4
<1>5. problem = {} <=> n \in KeptStates(d)
  BY <1>2, <1>4 DEF StateProblemAt
<1>6. CASE problem = {}
  <2>. DEFINE more == Append(s, StateFrom(e))
              k1 == Len(s) + 1
  <2>1. n \in SoundStates(d) /\ e.name \notin Names /\ n \in KeptStates(d)
    BY <1>4, <1>5, <1>6
  <2>2. StateFrom(e) \in State /\ StateFrom(e).name = e.name
    BY <1>1, <1>2, <2>1, SoundEntry
  <2>3. /\ more \in Seq(State) /\ Len(s) \in Nat /\ DOMAIN s = 1 .. Len(s)
        /\ DOMAIN more = DOMAIN s \cup {k1} /\ k1 \notin DOMAIN s
        /\ \A k \in DOMAIN s : more[k] = s[k]
        /\ more[k1] = StateFrom(e)
    BY <2>2
  <2>4. {more[k].name : k \in DOMAIN more} = Names \cup {e.name}
    <3>. HIDE DEF more, k1
    <3>. QED  BY <2>2, <2>3
  <2>5. {d.states[i].name : i \in Sounds(n)} = {d.states[i].name : i \in Sounds(n - 1)} \cup {e.name}
    BY <1>1, <2>1
  <2>6. \A k, l \in DOMAIN more : more[k].name = more[l].name => k = l
    <3>1. \A k, l \in DOMAIN s : s[k].name = s[l].name => k = l
      BY DEF StatesAt
    <3>2. \A k \in DOMAIN s : s[k].name # e.name
      BY <2>1
    <3>. HIDE DEF more, k1
    <3>. QED  BY <2>2, <2>3, <3>1, <3>2
  <2>7. ASSUME 1 .. n \subseteq KeptStates(d)
        PROVE  more = [i \in 1 .. n |-> StateFrom(d.states[i])]
    <3>1. s = [i \in 1 .. (n - 1) |-> StateFrom(d.states[i])]
      BY <1>1, <2>7 DEF StatesAt
    <3>2. Len(s) = n - 1
      BY <1>1, <2>3, <3>1
    <3>3. k1 = n /\ DOMAIN more = 1 .. n
      BY <1>1, <2>3, <3>2
    <3>4. more = [i \in DOMAIN more |-> more[i]]
      OBVIOUS
    <3>5. \A i \in 1 .. n : more[i] = StateFrom(d.states[i])
      <4>. HIDE DEF more, k1
      <4>. QED  BY <1>1, <2>3, <3>1, <3>3
    <3>. HIDE DEF more, k1
    <3>. QED  BY <3>3, <3>4, <3>5
  <2>8. StatesAt(d, more, n)
    <3>. HIDE DEF more, Names, Sounds
    <3>1. {more[k].name : k \in DOMAIN more} = {d.states[i].name : i \in Sounds(n)}
      BY <1>3, <2>4, <2>5
    <3>. QED  BY <2>6, <2>7, <3>1 DEF StatesAt, Sounds
  <2>9. StatesWith(d, s, n) = more
    BY <1>6 DEF StatesWith
  <2>. QED  BY <1>5, <2>3, <2>8, <2>9
<1>7. CASE problem # {}
  <2>1. n \notin KeptStates(d)
    BY <1>5, <1>7
  <2>2. {d.states[i].name : i \in Sounds(n)} = Names
    <3>1. CASE n \in SoundStates(d)
      <4>1. e.name \in Names
        BY <1>4, <2>1, <3>1
      <4>2. Sounds(n) = Sounds(n - 1) \cup {n}
        BY <1>1, <3>1
      <4>. HIDE DEF Names, Sounds
      <4>. QED  BY <1>3, <4>1, <4>2
    <3>2. CASE n \notin SoundStates(d)
      <4>1. Sounds(n) = Sounds(n - 1)
        BY <1>1, <3>2
      <4>. HIDE DEF Names, Sounds
      <4>. QED  BY <1>3, <4>1
    <3>. QED  BY <3>1, <3>2
  <2>3. ~(1 .. n \subseteq KeptStates(d))
    BY <1>1, <2>1
  <2>4. StatesAt(d, s, n)
    BY <2>2, <2>3 DEF StatesAt
  <2>5. StatesWith(d, s, n) = s
    BY <1>7 DEF StatesWith
  <2>. QED  BY <1>5, <2>4, <2>5
<1>. QED  BY <1>6, <1>7

\* What ParseTransition finds in a transition entry, and the table it leaves.
MoveProblemsAt(d, t, n) ==
    TransitionProblems(d.transitions[n], Declared(d))
      \cup IF d.transitions[n].kind = "object" /\ PairAt(d, n) \in DOMAIN t THEN {"duplicate"} ELSE {}

TableWith(d, t, n) ==
    IF MoveProblemsAt(d, t, n) = {} THEN Entered(t, PairAt(d, n), d.transitions[n].roles) ELSE t

LEMMA NextMove ==
    ASSUME NEW d \in DocumentType, NEW n \in 1 .. Len(d.transitions), NEW t, MovesAt(d, t, n - 1)
    PROVE  /\ MoveProblemsAt(d, t, n) =
                IF n \notin Shaped(d) THEN {"shape"}
                ELSE Faults(d, n) \cup (IF Repeats(d, n) THEN {"duplicate"} ELSE {})
           /\ MovesAt(d, TableWith(d, t, n), n)
<1>. DEFINE problems == MoveProblemsAt(d, t, n)
            e == d.transitions[n]
            p == PairAt(d, n)
<1>1. /\ n \in Nat /\ n - 1 \in Nat /\ e \in TransitionEntry
      /\ n \in DOMAIN d.transitions /\ Shaped(d) \subseteq 1 .. Len(d.transitions)
      /\ \A j \in 1 .. Len(d.transitions) : /\ j <= n <=> (j <= n - 1 \/ j = n)
                                            /\ j <= n - 1 <=> j < n
      /\ ~(n <= n - 1)
  BY DocumentShape
<1>2. /\ t \in Table /\ IsFiniteSet(DOMAIN t)
      /\ DOMAIN t = {PairAt(d, i) : i \in Faultless(d, n - 1)}
      /\ \A i \in Faultless(d, n - 1) : ~Repeats(d, i) => t[PairAt(d, i)] = d.transitions[i].roles
  BY DEF MovesAt
<1>3. n \in Shaped(d) <=> e.kind = "object"
  BY <1>1 DEF Shaped
<1>4. Faultless(d, n) =
        Faultless(d, n - 1) \cup IF n \in Shaped(d) /\ Faults(d, n) = {} THEN {n} ELSE {}
  BY <1>1 DEF Faultless
<1>5. p \in DOMAIN t <=> Repeats(d, n)
  <2>1. p \in DOMAIN t <=> \E i \in Faultless(d, n - 1) : PairAt(d, i) = p
    BY <1>2
  <2>2. \A i : i \in Faultless(d, n - 1) <=> i \in Shaped(d) /\ i < n /\ Faults(d, i) = {}
    BY <1>1 DEF Faultless
  <2>. QED  BY <2>1, <2>2 DEF Repeats
<1>6. CASE n \notin Shaped(d)
  <2>1. e.kind = "malformed"
    BY <1>1, <1>3, <1>6 DEF TransitionEntry
  <2>2. problems = {"shape"}
    BY <2>1 DEF TransitionProblems, MoveProblemsAt
  <2>3. Faultless(d, n) = Faultless(d, n - 1)
    BY <1>4, <1>6
  <2>4. MovesAt(d, t, n)
    BY <1>2, <2>3 DEF MovesAt
  <2>5. TableWith(d, t, n) = t
    BY <2>2 DEF TableWith
  <2>. QED  BY <1>6, <2>2, <2>4, <2>5
<1>7. CASE n \in Shaped(d)
  <2>1. problems = Faults(d, n) \cup (IF Repeats(d, n) THEN {"duplicate"} ELSE {})
    BY <1>3, <1>5, <1>7, ProblemsAreFaults DEF MoveProblemsAt
  <2>2. problems = {} <=> Faults(d, n) = {} /\ ~Repeats(d, n)
    BY <2>1
  <2>3. CASE Faults(d, n) # {}
    <3>1. Faultless(d, n) = Faultless(d, n - 1)
      BY <1>4, <2>3
    <3>2. MovesAt(d, t, n)
      BY <1>2, <3>1 DEF MovesAt
    <3>3. TableWith(d, t, n) = t
      BY <2>2, <2>3 DEF TableWith
    <3>. QED  BY <1>7, <2>1, <3>2, <3>3
  <2>4. CASE Faults(d, n) = {} /\ Repeats(d, n)
    <3>1. Faultless(d, n) = Faultless(d, n - 1) \cup {n} /\ p \in DOMAIN t
      BY <1>4, <1>5, <1>7, <2>4
    <3>2. MovesAt(d, t, n)
      BY <1>2, <2>4, <3>1 DEF MovesAt
    <3>3. TableWith(d, t, n) = t
      BY <2>2, <2>4 DEF TableWith
    <3>. QED  BY <1>7, <2>1, <3>2, <3>3
  <2>5. CASE Faults(d, n) = {} /\ ~Repeats(d, n)
    <3>. DEFINE roles == e.roles
                more == Entered(t, p, roles)
    <3>1. Faultless(d, n) = Faultless(d, n - 1) \cup {n} /\ p \notin DOMAIN t
      BY <1>4, <1>5, <1>7, <2>5
    <3>2. p \in Moves /\ e.roles \in SUBSET Role
      <4>1. e.roles # Bad /\ e.from \in Declared(d) /\ e.to \in Declared(d)
        BY <2>5, FaultlessIs
      <4>2. Declared(d) \subseteq StateName
        <5>1. ASSUME NEW i \in SoundStates(d)
              PROVE  d.states[i].name \in StateName
          <6>1. d.states[i] \in StateEntry /\ StateProblem(d.states[i]) = {}
            BY DocumentShape DEF SoundStates
          <6>2. StateFrom(d.states[i]) \in State /\ StateFrom(d.states[i]).name = d.states[i].name
            BY <6>1, SoundEntry
          <6>. QED  BY <6>2 DEF State
        <5>. QED  BY <5>1 DEF Declared
      <4>. QED  BY <1>1, <4>1, <4>2 DEF TransitionEntry, PairAt, Moves
    <3>3. /\ more \in Table /\ IsFiniteSet(DOMAIN more)
          /\ DOMAIN more = DOMAIN t \cup {p} /\ more[p] = e.roles
          /\ \A k \in DOMAIN t : more[k] = t[k]
      <4>1. t \in Table /\ p \in Moves /\ roles \in SUBSET Role
        BY <1>2, <3>2
      <4>. HIDE DEF p, roles
      <4>2. /\ more \in Table /\ DOMAIN more = DOMAIN t \cup {p} /\ more[p] = roles
            /\ \A k \in DOMAIN t : k # p => more[k] = t[k]
            /\ IsFiniteSet(DOMAIN t) => IsFiniteSet(DOMAIN more)
        BY ONLY <4>1, EnteredTable
      <4>. QED  BY <1>2, <3>1, <4>2 DEF roles
    <3>. HIDE DEF more
    <3>4. DOMAIN more = {PairAt(d, i) : i \in Faultless(d, n)}
      BY <1>2, <3>1, <3>3
    <3>5. ASSUME NEW i \in Faultless(d, n), ~Repeats(d, i)
          PROVE  more[PairAt(d, i)] = d.transitions[i].roles
      <4>1. CASE i = n
        BY <3>3, <4>1
      <4>2. CASE i \in Faultless(d, n - 1)
        BY <1>2, <3>3, <3>5, <4>2
      <4>. QED  BY <3>1, <4>1, <4>2
    <3>6. MovesAt(d, more, n)
      BY <3>3, <3>4, <3>5 DEF MovesAt
    <3>7. TableWith(d, t, n) = more
      BY <2>2, <2>5 DEF TableWith, more, roles
    <3>. QED  BY <1>7, <2>1, <3>6, <3>7
  <2>. QED  BY <2>3, <2>4, <2>5
<1>. QED  BY <1>6, <1>7

\* Once all states are read, the parser knows the declared ones.
LEMMA AllNames ==
    ASSUME NEW d \in DocumentType, NEW s, NEW t, StatesAt(d, s, Len(d.states))
    PROVE  StateNames([states |-> s, transitions |-> t]) = Declared(d)
<1>1. SoundStates(d) \cap (1 .. Len(d.states)) = SoundStates(d)
  BY DocumentShape
<1>2. {s[k].name : k \in DOMAIN s} = Declared(d)
  BY <1>1 DEF StatesAt, Declared
<1>3. [states |-> s, transitions |-> t].states = s
  OBVIOUS
<1>. QED  BY <1>2, <1>3 DEF StateNames

\* What is built from a document without problems is what the document says.
LEMMA Faithful ==
    ASSUME NEW d \in DocumentType, NEW s \in Seq(State), NEW t,
           StatesAt(d, s, Len(d.states)), MovesAt(d, t, Len(d.transitions)),
           ProblemsOf(d) = {}, d.states # << >>,
           NEW w, w = [states |-> s, transitions |-> t]
    PROVE  /\ w \in Definition /\ IsWorkflow(w) /\ IsFiniteSet(DOMAIN t)
           /\ EntryStates(w) \subseteq StateNames(w) /\ StateNames(w) \subseteq StateName
           /\ Covered(d) <=> \A S \in SUBSET StateNames(w) : Closed(w, S) => S = StateNames(w)
           /\ s = [i \in DOMAIN d.states |-> StateFrom(d.states[i])]
           /\ DOMAIN t = {PairAt(d, i) : i \in DOMAIN d.transitions}
           /\ \A i \in DOMAIN d.transitions : t[PairAt(d, i)] = d.transitions[i].roles
<1>. DEFINE n == Len(d.states)
            m == Len(d.transitions)
<1>1. /\ KeptStates(d) = DOMAIN d.states /\ Shaped(d) = DOMAIN d.transitions
      /\ \A i \in Shaped(d) : Faults(d, i) = {} /\ ~Repeats(d, i)
  <2>1. KeptStates(d) \subseteq DOMAIN d.states /\ Shaped(d) \subseteq DOMAIN d.transitions
    BY DocumentShape
  <2>2. /\ {<<"states", i>> : i \in DOMAIN d.states \ KeptStates(d)} = {}
        /\ {<<"transitions", i, "shape">> : i \in DOMAIN d.transitions \ Shaped(d)} = {}
        /\ (UNION {{<<"transitions", i, rule>> : rule \in Faults(d, i)} : i \in Shaped(d)}) = {}
        /\ {<<"transitions", i, "duplicate">> : i \in {j \in Shaped(d) : Repeats(d, j)}} = {}
    BY DEF ProblemsOf
  <2>3. \A i \in Shaped(d) : {<<"transitions", i, rule>> : rule \in Faults(d, i)} = {}
    BY <2>2
  <2>4. \A i \in Shaped(d) : Faults(d, i) = {}
    BY <2>3
  <2>5. ASSUME NEW i \in Shaped(d), Repeats(d, i)
        PROVE  FALSE
    <3>1. <<"transitions", i, "duplicate">> \in
            {<<"transitions", k, "duplicate">> : k \in {j \in Shaped(d) : Repeats(d, j)}}
      BY <2>5
    <3>. QED  BY <2>2, <3>1
  <2>6. DOMAIN d.states \ KeptStates(d) = {} /\ DOMAIN d.transitions \ Shaped(d) = {}
    <3>1. \A i \in DOMAIN d.states \ KeptStates(d) :
             <<"states", i>> \in {<<"states", k>> : k \in DOMAIN d.states \ KeptStates(d)}
      OBVIOUS
    <3>2. \A i \in DOMAIN d.transitions \ Shaped(d) :
             <<"transitions", i, "shape">> \in
               {<<"transitions", k, "shape">> : k \in DOMAIN d.transitions \ Shaped(d)}
      OBVIOUS
    <3>. QED  BY <2>2, <3>1, <3>2
  <2>. QED  BY <2>1, <2>4, <2>5, <2>6
<1>2. /\ n \in Nat /\ DOMAIN d.states = 1 .. n /\ m \in Nat /\ DOMAIN d.transitions = 1 .. m
      /\ 1 \in 1 .. n /\ SoundStates(d) = 1 .. n
  <2>1. /\ d.states \in Seq(StateEntry) /\ n \in Nat /\ DOMAIN d.states = 1 .. n
        /\ m \in Nat /\ DOMAIN d.transitions = 1 .. m
        /\ SoundStates(d) \subseteq 1 .. n /\ KeptStates(d) \subseteq SoundStates(d)
    BY DocumentShape
  <2>2. n # 0
    BY <2>1
  <2>3. SoundStates(d) = 1 .. n
    BY <1>1, <2>1
  <2>. HIDE DEF n, m
  <2>. QED  BY <2>1, <2>2, <2>3
<1>3. s = [i \in 1 .. n |-> StateFrom(d.states[i])]
  BY <1>1, <1>2 DEF StatesAt
<1>4. \A i \in 1 .. n : /\ s[i] = StateFrom(d.states[i]) /\ s[i] \in State
                        /\ s[i].name = d.states[i].name /\ s[i].initial = d.states[i].initial
  <2>. TAKE i \in 1 .. n
  <2>1. d.states[i] \in StateEntry /\ StateProblem(d.states[i]) = {}
    BY <1>2, DocumentShape DEF SoundStates
  <2>. QED  BY <1>3, <2>1, SoundEntry
<1>5. DOMAIN s = 1 .. n /\ s # << >>
  <2>1. DOMAIN s = 1 .. n
    BY <1>3
  <2>2. DOMAIN << >> = {} /\ 1 \in 1 .. n
    BY <1>2
  <2>. HIDE DEF n
  <2>. QED  BY ONLY <2>1, <2>2
<1>6. Faultless(d, m) = 1 .. m
  BY <1>1, <1>2 DEF Faultless
<1>7. /\ t \in Table /\ IsFiniteSet(DOMAIN t)
      /\ DOMAIN t = {PairAt(d, i) : i \in 1 .. m}
      /\ \A i \in 1 .. m : t[PairAt(d, i)] = d.transitions[i].roles
  BY <1>1, <1>2, <1>6 DEF MovesAt
<1>8. w.states = s /\ w.transitions = t /\ w \in Definition
  BY <1>7 DEF Definition
<1>9. StateNames(w) = Declared(d)
  BY AllNames
<1>10. StateNames(w) \subseteq StateName
  BY <1>4, <1>5, <1>8 DEF StateNames, State
<1>11. EntryStates(w) = Entries(d)
  <2>1. {i \in DOMAIN w.states : w.states[i].initial} = {i \in KeptStates(d) : d.states[i].initial}
    BY <1>1, <1>2, <1>4, <1>5, <1>8
  <2>2. EntryPositions(w) \subseteq 1 .. n
    BY <1>2, <1>5, <1>8 DEF EntryPositions
  <2>3. Entries(d) = {d.states[i].name : i \in EntryPositions(w)}
    BY <2>1 DEF Entries, EntryPositions
  <2>4. \A i \in EntryPositions(w) : w.states[i].name = d.states[i].name
    BY <1>4, <1>8, <2>2
  <2>. QED  BY ONLY <2>3, <2>4 DEF EntryStates
<1>12. EntryStates(w) \subseteq StateNames(w)
  <2>1. EntryPositions(w) \subseteq DOMAIN w.states
    BY <1>2, <1>5, <1>8 DEF EntryPositions
  <2>. QED  BY <2>1 DEF EntryStates, StateNames
<1>13. IsWorkflow(w)
  <2>1. \A i, j \in DOMAIN w.states : w.states[i].name = w.states[j].name => i = j
    BY <1>8 DEF StatesAt
  <2>2. DOMAIN t \subseteq StateNames(w) \X StateNames(w)
    <3>1. ASSUME NEW i \in 1 .. m
          PROVE  PairAt(d, i) \in Declared(d) \X Declared(d)
      <4>1. {d.transitions[i].from, d.transitions[i].to} \subseteq Declared(d)
        BY <1>1, <1>2, FaultlessIs
      <4>. QED  BY <4>1 DEF PairAt
    <3>. QED  BY <1>7, <1>9, <3>1
  <2>3. \A move \in DOMAIN t : t[move] \subseteq Role
    BY <1>7, TableShape
  <2>. QED  BY <1>5, <1>8, <2>1, <2>2, <2>3 DEF IsWorkflow
<1>14. ASSUME NEW S
       PROVE  Closed(w, S) <=>
                /\ Entries(d) \subseteq S
                /\ \A i \in Shaped(d) : PairAt(d, i)[1] \in S => PairAt(d, i)[2] \in S
  BY <1>1, <1>2, <1>7, <1>8, <1>11 DEF Closed
<1>15. Covered(d) <=> \A S \in SUBSET StateNames(w) : Closed(w, S) => S = StateNames(w)
  BY <1>9, <1>14 DEF Covered
<1>. QED  BY <1>2, <1>3, <1>7, <1>8, <1>10, <1>12, <1>13, <1>15

-----------------------------------------------------------------------------
\* The invariant

LEMMA InitInv == Init => Inv
<1>. SUFFICES ASSUME Init
              PROVE  Inv
  OBVIOUS
<1>1. /\ stage = "document" /\ next = 1 /\ states = << >> /\ table = NoTable /\ errors = {}
      /\ reachable = {} /\ frontier = {}
  BY DEF Init
<1>2. doc \in DocumentType /\ StoredSound
  <2>1. CASE doc \in Documents /\ stored = {}
    BY <2>1, ParseAssumption DEF StoredSound
  <2>2. CASE \E w \in DefaultWorkflow : doc = DocumentOf(w) /\ stored = {w}
    <3>1. PICK w \in DefaultWorkflow : doc = DocumentOf(w) /\ stored = {w}
      BY <2>2
    <3>2. Sound(w)
      BY SeedSound
    <3>. QED  BY <3>1, <3>2, DocumentWellFormed DEF StoredSound
  <2>. QED  BY <2>1, <2>2 DEF Init
<1>3. TypeOK
  BY <1>1, <1>2 DEF TypeOK
<1>. QED  BY <1>1, <1>2, <1>3 DEF Inv, Ranges, Reading, Outcome

LEMMA ParseDocumentInv == Inv /\ ParseDocument => Inv'
<1>. SUFFICES ASSUME Inv, ParseDocument
              PROVE  Inv'
  OBVIOUS
<1>1. /\ stage = "document" /\ doc \in DocumentType /\ next = 1 /\ states = << >>
      /\ table = NoTable /\ errors = {} /\ reachable = {} /\ frontier = {} /\ StoredSound
  BY DEF Inv, TypeOK, Ranges, ParseDocument
<1>2. /\ doc' = doc /\ next' = 1 /\ states' = << >> /\ table' = NoTable
      /\ reachable' = {} /\ frontier' = {} /\ stored' = stored
  BY <1>1 DEF ParseDocument
<1>3. StoredSound'
  BY <1>1, <1>2 DEF StoredSound
<1>4. CASE ~doc.object
  <2>1. stage' = "rejected"
    BY <1>4 DEF ParseDocument
  <2>2. TypeOK'
    BY <1>1, <1>2, <2>1 DEF TypeOK
  <2>3. ~WellFormed(doc)
    BY <1>4 DEF WellFormed
  <2>. QED  BY <1>2, <1>3, <1>4, <2>1, <2>2, <2>3 DEF Inv, Ranges, Reading, Outcome
<1>5. CASE doc.object
  <2>1. stage' = "states"
        /\ errors' = Found("document", 0, IF doc.nul THEN {"nul"} ELSE {})
                     \cup Found("states", 0, IF doc.states = << >> THEN {"empty"} ELSE {})
    BY <1>5 DEF ParseDocument
  <2>2. TypeOK'
    BY <1>1, <1>2, <2>1 DEF TypeOK
  <2>3. Ranges'
    <3>1. Len(doc.states) \in Nat
      BY <1>1, DocumentShape
    <3>2. 1 \in 1 .. (Len(doc.states) + 1)
      BY <3>1
    <3>. QED  BY <1>2, <1>5, <2>1, <3>2 DEF Ranges
  <2>4. StatesRead' = 0 /\ MovesRead' = 0
    BY <1>2, <2>1 DEF StatesRead, MovesRead
  <2>5. ErrorsAt(doc, errors', 0, 0)
    BY <1>1, <2>1, ErrorsAtFirst
  <2>6. Parsed'
    BY <1>1, <1>2, <2>4, <2>5, NothingRead DEF Parsed
  <2>. QED  BY <1>3, <2>1, <2>2, <2>3, <2>6 DEF Inv, Outcome
<1>. QED  BY <1>4, <1>5

\* An entry's errors are its problems.
LEMMA MoreErrors ==
    ASSUME NEW d, NEW E, NEW F, NEW m, NEW n, NEW k, NEW l,
           ErrorsAt(d, E, m, n), \A e \in F : e.index # 0,
           ProblemsUpTo(d, k, l) = ProblemsUpTo(d, m, n) \cup Said(F)
    PROVE  ErrorsAt(d, E \cup F, k, l)
<1>1. Said(E \cup F) = ProblemsUpTo(d, k, l)
  BY SaidUnion DEF ErrorsAt
<1>2. (\E e \in E \cup F : e.index = 0) <=> \E e \in E : e.index = 0
  OBVIOUS
<1>. QED  BY <1>1, <1>2 DEF ErrorsAt

LEMMA ParseStateInv == Inv /\ ParseState => Inv'
<1>. SUFFICES ASSUME Inv, ParseState
              PROVE  Inv'
  OBVIOUS
<1>. DEFINE problem == StateProblemAt(doc, states, next)
            more == StatesWith(doc, states, next)
<1>1. /\ stage = "states" /\ doc \in DocumentType /\ doc.object /\ next \in 1 .. Len(doc.states)
      /\ states \in Seq(State) /\ table = NoTable /\ reachable \subseteq StateName
      /\ frontier \subseteq reachable /\ StoredSound
      /\ StatesAt(doc, states, next - 1) /\ MovesAt(doc, table, 0)
      /\ ErrorsAt(doc, errors, next - 1, 0)
  <2>1. /\ stage = "states" /\ doc \in DocumentType /\ next <= Len(doc.states)
        /\ next \in 1 .. (Len(doc.states) + 1) /\ Parsed
    BY DEF Inv, TypeOK, Ranges, Reading, ParseState
  <2>2. StatesRead = next - 1 /\ MovesRead = 0
    BY <2>1 DEF StatesRead, MovesRead
  <2>3. next \in 1 .. Len(doc.states)
    BY <2>1, DocumentShape
  <2>. QED  BY <2>1, <2>2, <2>3 DEF Inv, TypeOK, Ranges, Reading, Parsed
<1>2. /\ doc' = doc /\ stage' = "states" /\ table' = table /\ stored' = stored
      /\ reachable' = reachable /\ frontier' = frontier /\ next' = next + 1
      /\ states' = more /\ errors' = errors \cup Found("states", next, problem)
  BY <1>1 DEF ParseState, StateProblemAt, StatesWith
<1>3. /\ problem = {} <=> next \in KeptStates(doc)
      /\ more \in Seq(State) /\ StatesAt(doc, more, next)
  BY <1>1, NextState
<1>. HIDE DEF problem, more
<1>4. /\ next \in Nat /\ next # 0 /\ next' \in Nat /\ next' - 1 = next
      /\ next' \in 1 .. (Len(doc.states) + 1)
  BY <1>1, <1>2, DocumentShape
<1>5. ErrorsAt(doc, errors', next, 0)
  <2>1. Said(Found("states", next, problem)) = IF next \in KeptStates(doc) THEN {} ELSE {<<"states", next>>}
    BY <1>3, <1>4, SaidFound
  <2>2. LostStates(doc, next) = LostStates(doc, next - 1) \cup Said(Found("states", next, problem))
    BY <1>1, <2>1, OneMoreState
  <2>3. ProblemsUpTo(doc, next, 0) = ProblemsUpTo(doc, next - 1, 0) \cup Said(Found("states", next, problem))
    BY <2>2 DEF ProblemsUpTo
  <2>4. \A x \in Found("states", next, problem) : x.index # 0
    BY <1>4, FoundIs
  <2>. QED  BY <1>1, <1>2, <2>3, <2>4, MoreErrors
<1>6. Parsed'
  <2>1. StatesRead' = next /\ MovesRead' = 0
    BY <1>2, <1>4 DEF StatesRead, MovesRead
  <2>. QED  BY <1>1, <1>2, <1>3, <1>5, <2>1 DEF Parsed
<1>7. TypeOK'
  BY <1>1, <1>2, <1>3, <1>4 DEF TypeOK
<1>8. Ranges'
  BY <1>1, <1>2, <1>4 DEF Ranges
<1>9. StoredSound'
  BY <1>1, <1>2 DEF StoredSound
<1>. QED  BY <1>2, <1>6, <1>7, <1>8, <1>9 DEF Inv, Outcome

LEMMA StatesParsedInv == Inv /\ StatesParsed => Inv'
<1>. SUFFICES ASSUME Inv, StatesParsed
              PROVE  Inv'
  OBVIOUS
<1>1. /\ stage = "states" /\ doc \in DocumentType /\ doc.object /\ Parsed /\ TypeOK /\ StoredSound
      /\ next \in 1 .. (Len(doc.states) + 1) /\ next > Len(doc.states)
  BY DEF Inv, TypeOK, Ranges, Reading, StatesParsed
<1>2. /\ stage' = "transitions" /\ next' = 1 /\ doc' = doc /\ states' = states /\ table' = table
      /\ errors' = errors /\ reachable' = reachable /\ frontier' = frontier /\ stored' = stored
  BY DEF StatesParsed
<1>3. StatesRead = Len(doc.states) /\ MovesRead = 0
  <2>1. next - 1 = Len(doc.states)
    BY <1>1, DocumentShape
  <2>. QED  BY <1>1, <2>1 DEF StatesRead, MovesRead
<1>4. StatesRead' = Len(doc.states) /\ MovesRead' = 0
  BY <1>2 DEF StatesRead, MovesRead
<1>5. Parsed'
  BY <1>1, <1>2, <1>3, <1>4 DEF Parsed
<1>6. TypeOK'
  BY <1>1, <1>2 DEF TypeOK
<1>7. Ranges'
  <2>1. Len(doc.transitions) \in Nat
    BY <1>1, DocumentShape
  <2>2. 1 \in 1 .. (Len(doc.transitions) + 1)
    BY <2>1
  <2>. QED  BY <1>1, <1>2, <2>2 DEF Ranges
<1>8. StoredSound'
  BY <1>1, <1>2 DEF StoredSound
<1>. QED  BY <1>2, <1>5, <1>6, <1>7, <1>8 DEF Inv, Outcome

LEMMA ParseTransitionInv == Inv /\ ParseTransition => Inv'
<1>. SUFFICES ASSUME Inv, ParseTransition
              PROVE  Inv'
  OBVIOUS
<1>. DEFINE m == Len(doc.states)
            problems == MoveProblemsAt(doc, table, next)
            more == TableWith(doc, table, next)
<1>1. /\ stage = "transitions" /\ doc \in DocumentType /\ doc.object
      /\ next \in 1 .. Len(doc.transitions) /\ TypeOK /\ StoredSound
      /\ StatesAt(doc, states, m) /\ MovesAt(doc, table, next - 1)
      /\ ErrorsAt(doc, errors, m, next - 1)
  <2>1. /\ stage = "transitions" /\ doc \in DocumentType /\ next <= Len(doc.transitions)
        /\ next \in 1 .. (Len(doc.transitions) + 1) /\ Parsed
    BY DEF Inv, TypeOK, Ranges, Reading, ParseTransition
  <2>2. StatesRead = m /\ MovesRead = next - 1
    BY <2>1 DEF StatesRead, MovesRead
  <2>3. next \in 1 .. Len(doc.transitions)
    BY <2>1, DocumentShape
  <2>. QED  BY <2>1, <2>2, <2>3 DEF Inv, Ranges, Reading, Parsed
<1>2. StateNames(Built) = Declared(doc)
  <2>1. StateNames([states |-> states, transitions |-> table]) = Declared(doc)
    BY <1>1, AllNames
  <2>. QED  BY <2>1 DEF Built
<1>3. /\ doc' = doc /\ stage' = "transitions" /\ states' = states /\ stored' = stored
      /\ reachable' = reachable /\ frontier' = frontier /\ next' = next + 1
      /\ table' = more /\ errors' = errors \cup Found("transitions", next, problems)
  BY <1>1, <1>2 DEF ParseTransition, PairAt, MoveProblemsAt, TableWith
<1>4. /\ problems = IF next \notin Shaped(doc) THEN {"shape"}
                    ELSE Faults(doc, next) \cup (IF Repeats(doc, next) THEN {"duplicate"} ELSE {})
      /\ MovesAt(doc, more, next)
  BY <1>1, NextMove
<1>. HIDE DEF m, problems, more
<1>5. /\ next \in Nat /\ next # 0 /\ next' \in Nat /\ next' - 1 = next
      /\ next' \in 1 .. (Len(doc.transitions) + 1)
  BY <1>1, <1>3, DocumentShape
<1>6. ErrorsAt(doc, errors', m, next)
  <2>1. Said(Found("transitions", next, problems)) = {<<"transitions", next, rule>> : rule \in problems}
    BY <1>5, SaidFound
  <2>2. MoveProblems(doc, next) = MoveProblems(doc, next - 1) \cup Said(Found("transitions", next, problems))
    BY <1>1, <1>4, <2>1, OneMoreMove
  <2>3. ProblemsUpTo(doc, m, next) = ProblemsUpTo(doc, m, next - 1) \cup Said(Found("transitions", next, problems))
    BY <2>2 DEF ProblemsUpTo
  <2>4. \A x \in Found("transitions", next, problems) : x.index # 0
    BY <1>5, FoundIs
  <2>. QED  BY <1>1, <1>3, <2>3, <2>4, MoreErrors
<1>7. Parsed'
  <2>1. StatesRead' = m /\ MovesRead' = next
    BY <1>3, <1>5 DEF StatesRead, MovesRead, m
  <2>. QED  BY <1>1, <1>3, <1>4, <1>6, <2>1 DEF Parsed
<1>8. TypeOK'
  BY <1>1, <1>3, <1>5 DEF TypeOK
<1>9. Ranges'
  BY <1>1, <1>3, <1>5 DEF Ranges
<1>10. StoredSound'
  BY <1>1, <1>3 DEF StoredSound
<1>. QED  BY <1>3, <1>7, <1>8, <1>9, <1>10 DEF Inv, Outcome

\* What is known once both lists are read.
LEMMA AllRead ==
    ASSUME Inv, StatesRead = Len(doc.states), MovesRead = Len(doc.transitions), Reading
    PROVE  /\ doc \in DocumentType /\ doc.object
           /\ StatesAt(doc, states, Len(doc.states)) /\ MovesAt(doc, table, Len(doc.transitions))
           /\ Said(errors) = ProblemsOf(doc)
           /\ errors = {} => ~doc.nul /\ doc.states # << >> /\ ProblemsOf(doc) = {}
           /\ errors # {} => doc.nul \/ doc.states = << >> \/ ProblemsOf(doc) # {}
<1>1. doc \in DocumentType /\ doc.object /\ Parsed
  BY DEF Inv, TypeOK, Ranges
<1>2. /\ Said(errors) = ProblemsOf(doc)
      /\ (\E e \in errors : e.index = 0) <=> (doc.nul \/ doc.states = << >>)
  BY <1>1, AllProblems DEF Parsed, ErrorsAt
<1>3. errors = {} => Said(errors) = {}
  BY SaidNothing
<1>4. ASSUME NEW e \in errors, e.index # 0
      PROVE  Said(errors) # {}
  BY <1>4 DEF Said
<1>. QED  BY <1>1, <1>2, <1>3, <1>4 DEF Parsed

LEMMA BuildInv == Inv /\ Build => Inv'
<1>. SUFFICES ASSUME Inv, Build
              PROVE  Inv'
  OBVIOUS
<1>1. /\ stage = "transitions" /\ next > Len(doc.transitions) /\ Parsed /\ TypeOK /\ StoredSound
      /\ next \in 1 .. (Len(doc.transitions) + 1) /\ Reading
  BY DEF Inv, Ranges, Reading, Build
<1>2. StatesRead = Len(doc.states) /\ MovesRead = Len(doc.transitions)
  <2>1. doc \in DocumentType
    BY <1>1 DEF TypeOK
  <2>2. next - 1 = Len(doc.transitions)
    BY <1>1, <2>1, DocumentShape
  <2>. QED  BY <1>1, <2>2 DEF StatesRead, MovesRead
<1>3. /\ doc \in DocumentType /\ doc.object
      /\ StatesAt(doc, states, Len(doc.states)) /\ MovesAt(doc, table, Len(doc.transitions))
      /\ Said(errors) = ProblemsOf(doc)
      /\ errors = {} => ~doc.nul /\ doc.states # << >> /\ ProblemsOf(doc) = {}
      /\ errors # {} => doc.nul \/ doc.states = << >> \/ ProblemsOf(doc) # {}
  BY <1>1, <1>2, AllRead
<1>4. /\ doc' = doc /\ next' = next /\ states' = states /\ table' = table /\ errors' = errors
      /\ stored' = stored /\ Built' = Built
  BY DEF Build, Built
<1>5. StoredSound'
  BY <1>1, <1>4 DEF StoredSound
<1>6. CASE errors # {}
  <2>1. stage' = "rejected" /\ reachable' = reachable /\ frontier' = frontier
    BY <1>6 DEF Build
  <2>2. TypeOK'
    BY <1>1, <1>4, <2>1 DEF TypeOK
  <2>3. ~WellFormed(doc)
    BY <1>3, <1>6 DEF WellFormed
  <2>. QED  BY <1>3, <1>4, <1>5, <2>1, <2>2, <2>3 DEF Inv, Ranges, Reading, Outcome
<1>7. CASE errors = {}
  <2>1. stage' = "search" /\ reachable' = EntryStates(Built) /\ frontier' = EntryStates(Built)
    BY <1>7 DEF Build
  <2>2. states \in Seq(State) /\ ProblemsOf(doc) = {} /\ doc.states # << >>
    BY <1>1, <1>3, <1>7 DEF TypeOK
  <2>3. /\ IsWorkflow(Built) /\ EntryStates(Built) \subseteq StateNames(Built)
        /\ StateNames(Built) \subseteq StateName
    BY <1>3, <2>2, Faithful DEF Built
  <2>4. TypeOK'
    BY <1>1, <1>4, <2>1, <2>3 DEF TypeOK
  <2>5. Searched(Built, EntryStates(Built), EntryStates(Built))
    BY <2>3 DEF Searched, Closed
  <2>6. Searching'
    BY <1>4, <1>7, <2>1, <2>5 DEF Searching
  <2>7. Parsed'
    <3>1. StatesRead' = Len(doc.states) /\ MovesRead' = Len(doc.transitions)
      BY <1>4, <2>1 DEF StatesRead, MovesRead
    <3>. QED  BY <1>1, <1>2, <1>4, <3>1 DEF Parsed
  <2>8. Ranges'
    BY <1>3, <1>4, <2>1 DEF Ranges
  <2>. QED  BY <1>5, <2>1, <2>4, <2>6, <2>7, <2>8 DEF Inv, Outcome
<1>. QED  BY <1>6, <1>7

\* One turn of the loop leaves the search sound.
LEMMA SearchOn ==
    ASSUME NEW w, NEW r, NEW f, NEW name \in f, Searched(w, r, f), f \subseteq r,
           NEW new, new = MovesFrom(w, name) \ r,
           NEW g, g = (f \ {name}) \cup new
    PROVE  Searched(w, r \cup new, g) /\ g \subseteq r \cup new
<1>1. /\ EntryStates(w) \subseteq r /\ r \subseteq StateNames(w)
      /\ \A n \in r \ f : MovesFrom(w, n) \subseteq r
      /\ \A S \in SUBSET StateNames(w) : Closed(w, S) => r \subseteq S
  BY DEF Searched
<1>2. /\ MovesFrom(w, name) \subseteq StateNames(w)
      /\ \A to \in MovesFrom(w, name) : <<name, to>> \in DOMAIN w.transitions
  BY DEF MovesFrom, Allows
<1>3. ASSUME NEW n \in (r \cup new) \ g
      PROVE  MovesFrom(w, n) \subseteq r \cup new
  <2>1. CASE n = name
    BY <2>1
  <2>2. CASE n # name
    BY <1>1, <2>2
  <2>. QED  BY <2>1, <2>2
<1>4. ASSUME NEW S \in SUBSET StateNames(w), Closed(w, S)
      PROVE  r \cup new \subseteq S
  <2>1. r \subseteq S /\ name \in S
    BY <1>1, <1>4
  <2>2. ASSUME NEW to \in MovesFrom(w, name)
        PROVE  to \in S
    <3>1. <<name, to>> \in DOMAIN w.transitions /\ <<name, to>>[1] = name /\ <<name, to>>[2] = to
      BY <1>2
    <3>. QED  BY <1>4, <2>1, <3>1 DEF Closed
  <2>. QED  BY <2>1, <2>2
<1>. QED  BY <1>1, <1>2, <1>3, <1>4 DEF Searched

LEMMA WorkflowNames ==
    ASSUME NEW w, IsWorkflow(w)
    PROVE  StateNames(w) \subseteq StateName
<1>1. \A i \in DOMAIN w.states : w.states[i] \in State
  BY DEF IsWorkflow
<1>. QED  BY <1>1 DEF StateNames, State

LEMMA VisitInv == Inv /\ Visit => Inv'
<1>. SUFFICES ASSUME Inv, Visit
              PROVE  Inv'
  OBVIOUS
<1>1. PICK name \in frontier :
        /\ reachable' = reachable \cup (MovesFrom(Built, name) \ reachable)
        /\ frontier'  = (frontier \ {name}) \cup (MovesFrom(Built, name) \ reachable)
  BY DEF Visit
<1>2. /\ stage = "search" /\ stage' = stage /\ doc' = doc /\ next' = next /\ states' = states
      /\ table' = table /\ errors' = errors /\ stored' = stored /\ Built' = Built
  BY DEF Visit, Built
<1>3. /\ TypeOK /\ Ranges /\ Parsed /\ Searching /\ StoredSound
  BY <1>2 DEF Inv, Reading
<1>4. Searched(Built, reachable', frontier') /\ frontier' \subseteq reachable'
  <2>1. Searched(Built, reachable, frontier) /\ frontier \subseteq reachable /\ name \in frontier
    BY <1>1, <1>3 DEF Searching, TypeOK
  <2>. DEFINE new == MovesFrom(Built, name) \ reachable
              left == (frontier \ {name}) \cup new
  <2>2. Searched(Built, reachable \cup new, left) /\ left \subseteq reachable \cup new
    <3>. HIDE DEF left
    <3>1. left = (frontier \ {name}) \cup new
      BY DEF left
    <3>. HIDE DEF new
    <3>2. new = MovesFrom(Built, name) \ reachable
      BY DEF new
    <3>. QED  BY ONLY <2>1, <3>1, <3>2, SearchOn
  <2>. QED  BY <1>1, <2>2
<1>5. reachable' \subseteq StateName
  <2>1. reachable' \subseteq StateNames(Built)
    BY <1>4 DEF Searched
  <2>2. IsWorkflow(Built)
    BY <1>2, <1>3 DEF TypeOK
  <2>. QED  BY <2>1, <2>2, WorkflowNames
<1>6. TypeOK'
  BY <1>2, <1>3, <1>4, <1>5 DEF TypeOK
<1>7. Searching'
  BY <1>2, <1>3, <1>4 DEF Searching
<1>8. Parsed'
  BY <1>2, <1>3 DEF Parsed, StatesRead, MovesRead
<1>9. Ranges' /\ StoredSound'
  BY <1>2, <1>3 DEF Ranges, Reading, StoredSound
<1>10. Outcome'
  BY <1>2 DEF Outcome
<1>. QED  BY <1>6, <1>7, <1>8, <1>9, <1>10 DEF Inv

\* A search that has nothing left to look at has found a closed set.
LEMMA SearchOver ==
    ASSUME NEW w, IsWorkflow(w), NEW r, Searched(w, r, {})
    PROVE  /\ Closed(w, r) /\ r \in SUBSET StateNames(w)
           /\ (\A S \in SUBSET StateNames(w) : Closed(w, S) => S = StateNames(w)) <=> r = StateNames(w)
<1>1. /\ EntryStates(w) \subseteq r /\ r \subseteq StateNames(w)
      /\ \A n \in r : MovesFrom(w, n) \subseteq r
      /\ \A S \in SUBSET StateNames(w) : Closed(w, S) => r \subseteq S
  BY DEF Searched
<1>2. ASSUME NEW m \in DOMAIN w.transitions, m[1] \in r
      PROVE  m[2] \in r
  <2>1. m \in StateNames(w) \X StateNames(w)
    BY DEF IsWorkflow
  <2>2. m = <<m[1], m[2]>> /\ m[2] \in StateNames(w)
    BY <2>1
  <2>3. m[2] \in MovesFrom(w, m[1])
    BY <2>2 DEF MovesFrom, Allows
  <2>. QED  BY <1>1, <1>2, <2>3
<1>3. Closed(w, r)
  BY <1>1, <1>2 DEF Closed
<1>. QED  BY <1>1, <1>3

LEMMA DecideInv == Inv /\ Decide => Inv'
<1>. SUFFICES ASSUME Inv, Decide
              PROVE  Inv'
  OBVIOUS
<1>. DEFINE lost == StateNames(Built) \ reachable
<1>1. /\ stage = "search" /\ frontier = {} /\ doc' = doc /\ next' = next /\ states' = states
      /\ table' = table /\ reachable' = reachable /\ frontier' = frontier /\ stored' = stored
      /\ Built' = Built
      /\ stage' = (IF lost = {} THEN "accepted" ELSE "rejected")
      /\ errors' = UNION {Found("states", 0, {<<"unreachable", n>>}) : n \in lost}
  BY DEF Decide, Built
<1>2. TypeOK /\ Ranges /\ Parsed /\ Searching /\ StoredSound /\ Reading
  BY <1>1 DEF Inv, Reading
<1>3. StatesRead = Len(doc.states) /\ MovesRead = Len(doc.transitions)
  BY <1>1 DEF StatesRead, MovesRead
<1>4. /\ errors = {} /\ Searched(Built, reachable, {}) /\ IsWorkflow(Built)
      /\ reachable \subseteq StateNames(Built)
  BY <1>1, <1>2 DEF Searching, TypeOK, Searched
<1>5. /\ doc \in DocumentType /\ doc.object /\ ~doc.nul /\ doc.states # << >> /\ ProblemsOf(doc) = {}
      /\ StatesAt(doc, states, Len(doc.states)) /\ MovesAt(doc, table, Len(doc.transitions))
  BY <1>2, <1>3, <1>4, AllRead
<1>6. Covered(doc) <=> lost = {}
  <2>1. states \in Seq(State)
    BY <1>2 DEF TypeOK
  <2>2. Covered(doc) <=> \A S \in SUBSET StateNames(Built) : Closed(Built, S) => S = StateNames(Built)
    BY <1>5, <2>1, Faithful DEF Built
  <2>3. Covered(doc) <=> reachable = StateNames(Built)
    BY <1>4, <2>2, SearchOver
  <2>. QED  BY <1>4, <2>3
<1>7. Said(errors') = {}
  <2>1. \A n \in lost : \A e \in Found("states", 0, {<<"unreachable", n>>}) : e.index = 0
    BY FoundIs
  <2>2. \A e \in errors' : e.index = 0
    BY <1>1, <2>1
  <2>. QED  BY <2>2, SaidNothing
<1>. HIDE DEF lost
<1>8. StoredSound'
  BY <1>1, <1>2 DEF StoredSound
<1>9. TypeOK'
  BY <1>1, <1>2, <1>4 DEF TypeOK
<1>10. CASE lost = {}
  <2>1. stage' = "accepted" /\ errors' = {} /\ reachable = StateNames(Built)
    BY <1>1, <1>4, <1>10 DEF lost
  <2>2. WellFormed(doc)
    BY <1>5, <1>6, <1>10 DEF WellFormed
  <2>3. Searching'
    BY <1>1, <1>4, <2>1 DEF Searching
  <2>4. Parsed'
    <3>1. StatesRead' = Len(doc.states) /\ MovesRead' = Len(doc.transitions)
      BY <1>1, <2>1 DEF StatesRead, MovesRead
    <3>. QED  BY <1>1, <1>2, <1>3, <1>4, <2>1, <3>1 DEF Parsed
  <2>5. Ranges'
    BY <1>1, <1>5, <2>1 DEF Ranges
  <2>. QED  BY <1>1, <1>8, <1>9, <2>1, <2>2, <2>3, <2>4, <2>5 DEF Inv, Outcome
<1>11. CASE lost # {}
  <2>1. stage' = "rejected"
    BY <1>1, <1>11
  <2>2. ~WellFormed(doc)
    BY <1>6, <1>11 DEF WellFormed
  <2>. QED  BY <1>1, <1>5, <1>7, <1>8, <1>9, <2>1, <2>2 DEF Inv, Ranges, Reading, Outcome
<1>. QED  BY <1>10, <1>11

LEMMA StoreAndReloadInv == Inv /\ StoreAndReload => Inv'
<1>. SUFFICES ASSUME Inv, StoreAndReload
              PROVE  Inv'
  OBVIOUS
<1>1. /\ stage = "accepted" /\ stored' = {Built} /\ doc' = DocumentOf(Built)
      /\ stage' = "document" /\ next' = 1 /\ states' = << >> /\ table' = NoTable
      /\ errors' = {} /\ reachable' = {} /\ frontier' = {}
  BY DEF StoreAndReload
<1>2. TypeOK /\ Parsed /\ Searching /\ Reading
  BY <1>1 DEF Inv, Reading
<1>3. StatesRead = Len(doc.states) /\ MovesRead = Len(doc.transitions)
  BY <1>1 DEF StatesRead, MovesRead
<1>4. /\ errors = {} /\ Searched(Built, reachable, {}) /\ reachable = StateNames(Built)
      /\ IsWorkflow(Built) /\ states \in Seq(State)
  BY <1>1, <1>2 DEF Searching, TypeOK
<1>5. /\ doc \in DocumentType /\ doc.states # << >> /\ ProblemsOf(doc) = {}
      /\ StatesAt(doc, states, Len(doc.states)) /\ MovesAt(doc, table, Len(doc.transitions))
  BY <1>2, <1>3, <1>4, AllRead
<1>6. Built \in Definition /\ IsFiniteSet(DOMAIN table)
  BY <1>4, <1>5, Faithful DEF Built
<1>7. \A S \in SUBSET StateNames(Built) : Closed(Built, S) => S = StateNames(Built)
  BY <1>4, SearchOver
<1>8. Sound(Built)
  <2>1. Built.transitions = table
    BY DEF Built
  <2>. QED  BY <1>4, <1>6, <1>7, <2>1 DEF Sound
<1>9. DocumentOf(Built) \in DocumentType
  BY <1>8, DocumentWellFormed
<1>10. StoredSound'
  <2>. DEFINE b == Built
  <2>1. stored' = {b} /\ doc' = DocumentOf(b) /\ Sound(b)
    BY <1>1, <1>8
  <2>. HIDE DEF b
  <2>2. \A w \in stored' : Sound(w) /\ doc' = DocumentOf(w)
    BY <2>1
  <2>. QED  BY <2>2 DEF StoredSound
<1>11. TypeOK'
  BY <1>1, <1>9 DEF TypeOK
<1>. QED  BY <1>1, <1>10, <1>11 DEF Inv, Ranges, Reading, Outcome

LEMMA StutterInv == Inv /\ UNCHANGED vars => Inv'
<1>. SUFFICES ASSUME Inv, UNCHANGED vars
              PROVE  Inv'
  OBVIOUS
<1>1. /\ doc' = doc /\ stage' = stage /\ next' = next /\ states' = states /\ table' = table
      /\ errors' = errors /\ reachable' = reachable /\ frontier' = frontier /\ stored' = stored
  BY DEF vars
<1>2. Built' = Built
  BY <1>1 DEF Built
<1>3. TypeOK' /\ Ranges' /\ StoredSound' /\ Outcome'
  BY <1>1, <1>2 DEF Inv, TypeOK, Ranges, Reading, StoredSound, Outcome
<1>4. (Reading => Parsed)'
  BY <1>1 DEF Inv, Reading, Parsed, StatesRead, MovesRead
<1>5. (stage \in {"search", "accepted"} => Searching)'
  BY <1>1, <1>2 DEF Inv, Searching
<1>. QED  BY <1>3, <1>4, <1>5 DEF Inv

\* What is stored is what the document that reads it back builds.
LEMMA ReadsBack ==
    ASSUME Inv, NEW w \in stored
    PROVE  stage # "rejected" /\ (stage = "accepted" => Built = w)
<1>1. Sound(w) /\ doc = DocumentOf(w) /\ Outcome /\ TypeOK
  BY DEF Inv, StoredSound
<1>2. stage # "rejected"
  BY <1>1, DocumentWellFormed DEF Outcome
<1>3. ASSUME stage = "accepted"
      PROVE  Built = w
  <2>1. Reading /\ StatesRead = Len(doc.states) /\ MovesRead = Len(doc.transitions)
    BY <1>3 DEF Reading, StatesRead, MovesRead
  <2>2. errors = {} /\ states \in Seq(State)
    BY <1>3 DEF Inv, Searching, TypeOK
  <2>3. /\ doc \in DocumentType /\ doc.states # << >> /\ ProblemsOf(doc) = {}
        /\ StatesAt(doc, states, Len(doc.states)) /\ MovesAt(doc, table, Len(doc.transitions))
    BY <2>1, <2>2, AllRead
  <2>4. /\ states = [i \in DOMAIN doc.states |-> StateFrom(doc.states[i])]
        /\ DOMAIN table = {PairAt(doc, i) : i \in DOMAIN doc.transitions}
        /\ \A i \in DOMAIN doc.transitions : table[PairAt(doc, i)] = doc.transitions[i].roles
        /\ Built \in Definition
    BY <2>2, <2>3, Faithful DEF Built
  <2>5. /\ DOMAIN doc.states = DOMAIN w.states
        /\ \A i \in DOMAIN doc.states : StateFrom(doc.states[i]) = w.states[i]
    BY <1>1, DocumentStates
  <2>6. /\ {PairAt(doc, i) : i \in DOMAIN doc.transitions} = DOMAIN w.transitions
        /\ \A i \in DOMAIN doc.transitions : doc.transitions[i].roles = w.transitions[PairAt(doc, i)]
    BY <1>1, DocumentMoves
  <2>7. w \in Definition /\ w.states \in Seq(State) /\ w.transitions \in Table /\ table \in Table
    BY <1>1, <2>3 DEF Sound, Definition, MovesAt
  <2>8. states = w.states
    <3>1. w.states = [i \in DOMAIN w.states |-> w.states[i]]
      BY <2>7
    <3>. QED  BY <2>4, <2>5, <3>1
  <2>9. table = w.transitions
    <3>1. DOMAIN table = DOMAIN w.transitions /\ \A m \in DOMAIN table : table[m] = w.transitions[m]
      BY <2>4, <2>6
    <3>2. table = [m \in DOMAIN table |-> table[m]] /\ w.transitions = [m \in DOMAIN w.transitions |-> w.transitions[m]]
      BY <2>7, TableShape
    <3>. QED  BY <3>1, <3>2
  <2>10. w = [states |-> w.states, transitions |-> w.transitions]
    BY <2>7 DEF Definition
  <2>. QED  BY <2>8, <2>9, <2>10 DEF Built
<1>. QED  BY <1>2, <1>3

-----------------------------------------------------------------------------
\* The theorems

\* The invariant holds of every run, on every set of documents.
THEOREM InvHolds == Spec => []Inv
<1>1. Init => Inv
  BY InitInv
<1>2. Inv /\ [Next]_vars => Inv'
  BY ParseDocumentInv, ParseStateInv, StatesParsedInv, ParseTransitionInv, BuildInv, VisitInv,
     DecideInv, StoreAndReloadInv, StutterInv DEF Next
<1>. QED  BY <1>1, <1>2, PTL DEF Spec

(***************************************************************************)
(* Every variable keeps its type, and the constructor of Workflow accepts  *)
(* whatever _parse_states and _parse_transitions let through (Definition:  *)
(* unique names, moves between declared states).                           *)
(***************************************************************************)
THEOREM TypeCorrect == Spec => []TypeOK
<1>1. Inv => TypeOK
  BY DEF Inv
<1>. QED  BY <1>1, InvHolds, PTL

(***************************************************************************)
(* document_to_workflow accepts a document exactly when every rule holds   *)
(* of every entry and every state can be reached from an entry state.      *)
(***************************************************************************)
THEOREM AcceptsExactly == Spec => []AcceptsWellFormed
<1>1. Inv => AcceptsWellFormed
  BY DEF Inv, Outcome, AcceptsWellFormed
<1>. QED  BY <1>1, InvHolds, PTL

(***************************************************************************)
(* A rejected document is answered with every problem of its entries, and  *)
(* with no problem it does not have: parsing does not stop at the first.   *)
(***************************************************************************)
THEOREM EveryProblemReported == Spec => []ReportsAll
<1>1. Inv => ReportsAll
  BY DEF Inv, Outcome, ReportsAll, Reported, Said
<1>. QED  BY <1>1, InvHolds, PTL

(***************************************************************************)
(* What replace_active and the seed stored is accepted by every later      *)
(* get_active, which gives the definition that was stored.                 *)
(***************************************************************************)
THEOREM StoredIsReadable == Spec => []StoredReadsBack
<1>1. Inv => StoredReadsBack
  BY ReadsBack DEF StoredReadsBack
<1>. QED  BY <1>1, InvHolds, PTL
=============================================================================
