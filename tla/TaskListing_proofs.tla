------------------------- MODULE TaskListing_proofs -------------------------
(***************************************************************************)
(* Proofs about TaskListing, whatever the tasks, the filters and the page  *)
(* size: a response built while nobody wrote is the documented one, and a  *)
(* walk misses and repeats no more tasks than the writes account for.      *)
(*                                                                         *)
(* Each statement of a request leaves behind what it read of the tasks     *)
(* nobody wrote since: which ids carry the tags, what the page shows, how  *)
(* many match.  That a page is the right stretch of the order rests on the *)
(* last tiebreak, which makes the order total: the m-th row of a selection *)
(* has exactly m - 1 before it.                                            *)
(*                                                                         *)
(* A walk is accounted for in places.  What it has missed lies before the  *)
(* place it has come to, what it will repeat at that place or behind, and  *)
(* a write moves others by one place at most.  A page is cut out of a      *)
(* selection that need not be what matches, so its two differences from    *)
(* the matches nobody wrote since are paid for as well.                    *)
(***************************************************************************)
EXTENDS TaskListing, SequenceTheorems, FiniteSetTheorems, TLAPS

-----------------------------------------------------------------------------
\* The inductive invariant

\* The keys a query asks for.
Wanted(q) == {KeyOf[n] : n \in ToSet(q.tags)}

\* Of a task nobody wrote since, the resolved ids tell whether it carries the tags.
Resolved ==
    pc \in {"items", "count", "names", "answered"} =>
        /\ query.tags = << >> <=> ids = AnyTask
        /\ ids # AnyTask => \A i \in Id \ touched : i \in ids <=> Carries(query, table[i])

\* The place of a task in the order, counted from zero.
Earlier(i)  == {j \in Matching : Before(j, i)}
OnPage(i)   == Cardinality(Earlier(i)) \in offset..(offset + query.limit - 1)
PageIds     == {items[n].id : n \in DOMAIN items}

InOrder     == \A m, n \in DOMAIN items : m < n => Before(items[m].id, items[n].id)

\* The page shows the rows it was selected for, and is the stretch asked for.
Listed ==
    pc \in {"count", "names", "answered"} =>
        /\ \A n \in DOMAIN items : items[n].id \notin touched =>
             items[n].row = table[items[n].id] /\ Matches(query, items[n].row)
        /\ touched = {} => \A i \in Matching : i \in PageIds <=> OnPage(i)
        /\ touched = {} => InOrder

Counted == pc \in {"names", "answered"} /\ touched = {} => total = Cardinality(Matching)

\* The tags are read last, and those of the response are those of its rows.
Named ==
    /\ pc # "answered" => names = << >>
    /\ pc = "answered" =>
         /\ Len(names) = Len(items)
         /\ \A n \in DOMAIN items : items[n].id \notin touched => names[n] = items[n].row.tags

Inv == TypeOK /\ Resolved /\ Listed /\ Counted /\ Named

\* The order of the listing as a set of pairs, and the place of a task among
\* others: how many of them come before it.
Sooner(t, q) ==
    {p \in Id \X Id :
       \/ IF q.order_dir = "desc" THEN t[p[1]].priority > t[p[2]].priority
          ELSE t[p[1]].priority < t[p[2]].priority
       \/ /\ t[p[1]].priority = t[p[2]].priority
          /\ \/ t[p[1]].created_at < t[p[2]].created_at
             \/ t[p[1]].created_at = t[p[2]].created_at /\ p[1] < p[2]}
Place(lt, S, u)     == Cardinality({j \in S : <<j, u>> \in lt})
Ahead(lt, S, V, k)  == {u \in V : Place(lt, S, u) < k}
Behind(lt, S, V, k) == {u \in V : Place(lt, S, u) >= k}
Order == Sooner(table, query)

\* What the walk has listed once the page it is at is shown, in how many lines,
\* and up to which place it has come.
Paged == pc \in {"count", "names"}
Shown == ToSet(seen) \cup (IF Paged THEN PageIds ELSE {})
Lines == Len(seen) + (IF Paged THEN Len(items) ELSE 0)
Reach == IF pc \in {"count", "names", "answered"} THEN offset + query.limit ELSE offset

\* Nobody wrote a steady task, so it matches still.
Steady == start \ changed

\* Only these are selected by an id resolved before that has lost its tags.
StaleWithin(L) ==
    ids # AnyTask => \A i \in ids \ L : table[i] = Gone \/ Carries(query, table[i])

\* Every steady task the walk has passed without listing it is paid for.  While
\* a page is selected by ids resolved before, B are the matches nobody wrote
\* since, and each of L has lost its tags since.
SkipsPaid ==
    /\ Steady \subseteq Matching
    /\ pc \notin {"items", "done"} =>
         Cardinality(Ahead(Order, Matching, Steady \ Shown, Reach)) <= departures + losses
    /\ pc = "items" => \E B, L \in SUBSET Id :
         /\ B \subseteq Matching \cap Selected /\ Steady \subseteq B /\ StaleWithin(L)
         /\ Cardinality(Ahead(Order, B, Steady \ Shown, offset)) + Cardinality(L)
              <= departures + losses
    /\ pc = "done" \/ (pc \in {"count", "names", "answered"} /\ Len(items) < query.limit) =>
         Cardinality(Steady \ Shown) <= departures + losses

\* Every line that repeats a task is paid for, and so is every listed task that
\* has a page before it again.  W came to match or lost its tags since the ids
\* were resolved.
RepeatsPaid ==
    /\ pc \notin {"items", "done"} =>
         Lines + Cardinality(Behind(Order, Matching, Shown \cap Matching, Reach))
           <= Cardinality(Shown) + arrivals + losses
    /\ pc = "items" => \E B, W \in SUBSET Id :
         /\ B \subseteq Matching \cap Selected
         /\ (Matching \cup Selected) \ B \subseteq W /\ StaleWithin(W)
         /\ Lines + Cardinality(Behind(Order, B, Shown \cap B, offset)) + Cardinality(W)
              <= Cardinality(Shown) + arrivals + losses
    /\ pc = "done" => Lines <= Cardinality(Shown) + arrivals + losses

-----------------------------------------------------------------------------
\* The filters

\* What the assumptions say of a query and of a row.
LEMMA QueryFacts ==
    ASSUME NEW q \in Queries
    PROVE  /\ q.tags \in Seq(Name)
           /\ q.limit \in Nat /\ q.limit # 0
           /\ IsFiniteSet(Wanted(q)) /\ Wanted(q) \subseteq Tag \cup {NoTag}
           /\ q.tags # << >> => Wanted(q) # {}
<1>1. q.tags \in Seq(Name) /\ q.limit \in Nat /\ q.limit # 0
  BY QueryAssumption DEF Query
<1>. DEFINE n == Len(q.tags)
            f == [k \in 1 .. n |-> KeyOf[q.tags[k]]]
<1>2. n \in Nat /\ DOMAIN q.tags = 1 .. n /\ \A k \in 1 .. n : q.tags[k] \in Name
  BY <1>1
<1>3. Wanted(q) = {f[k] : k \in 1 .. n}
  BY <1>2 DEF Wanted, ToSet
<1>4. f \in Surjection(1 .. n, Wanted(q))
  BY <1>3 DEF Surjection
<1>5. IsFiniteSet(1 .. n)
  BY <1>2, FS_Interval
<1>6. IsFiniteSet(Wanted(q))
  <2>. HIDE DEF f, n
  <2>. QED  BY <1>4, <1>5, FS_Surjection
<1>7. Wanted(q) \subseteq Tag \cup {NoTag}
  BY <1>2, <1>3, RowAssumption
<1>8. ASSUME q.tags # << >>
      PROVE  Wanted(q) # {}
  <2>1. n # 0
    BY <1>1, <1>8
  <2>2. 1 \in 1 .. n
    BY <1>2, <2>1
  <2>. QED  BY <1>3, <2>2
<1>. QED  BY <1>1, <1>6, <1>7, <1>8

\* The join resolves the tags to the tasks that carry them: with AND, a task is
\* matched by as many tags as there are keys exactly when it carries them all.
LEMMA JoinResolves ==
    ASSUME TypeOK, query.tags # << >>, NEW i \in Id
    PROVE  i \in TaskIdsMatching(NameKeys(query), query.op = "and") <=> Carries(query, table[i])
<1>. DEFINE keys == Wanted(query)
            worn == table[i].tags
<1>1. query \in Queries
  BY DEF TypeOK
<1>2. ToSet(NameKeys(query)) = keys
  BY DEF ToSet, NameKeys, Wanted
<1>3. IsFiniteSet(keys) /\ keys # {}
  BY <1>1, QueryFacts
<1>4. worn \cap keys \in SUBSET keys
  OBVIOUS
<1>5. Cardinality(worn \cap keys) = Cardinality(keys) <=> keys \subseteq worn
  <2>1. Cardinality(worn \cap keys) = Cardinality(keys) => keys = worn \cap keys
    <3>. HIDE DEF keys, worn
    <3>. QED  BY <1>3, <1>4, FS_Subset
  <2>2. keys \subseteq worn => keys = worn \cap keys
    OBVIOUS
  <2>3. keys = worn \cap keys => keys \subseteq worn
    OBVIOUS
  <2>. QED  BY <2>1, <2>2, <2>3
<1>6. i \in TaskIdsMatching(NameKeys(query), query.op = "and") <=>
        /\ table[i] \in Row
        /\ worn \cap keys # {}
        /\ query.op = "and" => Cardinality(worn \cap keys) = Cardinality(keys)
  BY <1>2 DEF TaskIdsMatching, Tasks
<1>7. Carries(query, table[i]) <=>
        /\ table[i] \in Row
        /\ IF query.op = "and" THEN keys \subseteq worn ELSE keys \cap worn # {}
  BY DEF Carries, Wanted
<1>. HIDE DEF keys, worn
<1>. QED  BY <1>3, <1>5, <1>6, <1>7

-----------------------------------------------------------------------------
\* The order

\* The last tiebreak leaves no two tasks untold apart.
LEMMA OrderIsTotal ==
    ASSUME TypeOK, NEW i \in Tasks, NEW j \in Tasks
    PROVE  /\ ~Before(i, i)
           /\ i # j => Before(i, j) \/ Before(j, i)
<1>1. /\ i \in Nat /\ j \in Nat
      /\ table[i].priority \in Nat /\ table[j].priority \in Nat
      /\ table[i].created_at \in Nat /\ table[j].created_at \in Nat
  BY IdAssumption, RowAssumption DEF Tasks
<1>. QED  BY <1>1 DEF Before, Precedes

\* What an order the database may return is: every task once, and as many
\* before the m-th as its place says.
LEMMA OrderedLists ==
    ASSUME TypeOK, NEW S \in SUBSET Tasks, NEW s \in Ordered(S)
    PROVE  /\ IsFiniteSet(S)
           /\ s \in Seq(S) /\ Len(s) = Cardinality(S)
           /\ \A i \in S : \E m \in 1 .. Len(s) : s[m] = i
           /\ \A m, n \in 1 .. Len(s) : m # n => s[m] # s[n]
           /\ \A m, n \in 1 .. Len(s) : Before(s[m], s[n]) <=> m < n
<1>. DEFINE N == Cardinality(S)
<1>1. IsFiniteSet(S) /\ N \in Nat
  <2>1. S \in SUBSET Id
    BY DEF Tasks
  <2>. QED  BY <2>1, IdAssumption, FS_Subset, FS_CardinalityType
<1>2. /\ s \in [1 .. N -> S]
      /\ \A m, n \in 1 .. N : m # n => s[m] # s[n]
      /\ \A m, n \in 1 .. N : m < n => ~Before(s[n], s[m])
  <2>1. s \in SetToSeqs(S) /\ \A m, n \in DOMAIN s : m < n => ~Before(s[n], s[m])
    BY DEF Ordered
  <2>2. s \in [1 .. N -> S] /\ \A m, n \in 1 .. N : m # n => s[m] # s[n]
    BY <2>1 DEF SetToSeqs
  <2>3. DOMAIN s = 1 .. N
    BY <2>2
  <2>. HIDE DEF N
  <2>. QED  BY <2>1, <2>2, <2>3
<1>3. s \in Seq(S) /\ Len(s) = N /\ N \in Nat
  <2>. HIDE DEF N
  <2>. QED  BY <1>1, <1>2
<1>4. \A i \in S : \E m \in 1 .. N : s[m] = i
  <2>1. s \in Injection(1 .. N, S)
    <3>. HIDE DEF N
    <3>. QED  BY <1>2 DEF Injection, IsInjective
  <2>2. Cardinality(1 .. N) = N
    <3>. HIDE DEF N
    <3>. QED  BY <1>1, FS_Interval
  <2>3. s \in Surjection(1 .. N, S)
    BY <1>1, <2>1, <2>2, FS_Injection
  <2>. QED  BY <2>3 DEF Surjection
<1>5. ASSUME NEW m \in 1 .. N, NEW n \in 1 .. N
      PROVE  Before(s[m], s[n]) <=> m < n
  <2>. HIDE DEF N
  <2>1. s[m] \in Tasks /\ s[n] \in Tasks
    BY <1>2
  <2>2. ASSUME m < n
        PROVE  Before(s[m], s[n])
    <3>1. s[m] # s[n] /\ ~Before(s[n], s[m])
      BY <1>2, <2>2, <1>1
    <3>. QED  BY <2>1, <3>1, OrderIsTotal
  <2>3. ASSUME ~(m < n)
        PROVE  ~Before(s[m], s[n])
    <3>1. CASE m = n
      BY <2>1, <3>1, OrderIsTotal
    <3>2. CASE n < m
      BY <1>2, <3>2
    <3>. QED  BY <2>3, <3>1, <3>2, <1>1
  <2>. QED  BY <2>2, <2>3
<1>. HIDE DEF N
<1>6. N = Cardinality(S)
  BY DEF N
<1>. QED  BY ONLY <1>1, <1>2, <1>3, <1>4, <1>5, <1>6

\* As many come before the m-th task as its place, counted from zero.
LEMMA PlaceIsRank ==
    ASSUME TypeOK, NEW S \in SUBSET Tasks, NEW s \in Ordered(S), NEW m \in 1 .. Len(s)
    PROVE  Cardinality({j \in S : Before(j, s[m])}) = m - 1
<1>. DEFINE E == {j \in S : Before(j, s[m])}
            f == [k \in 1 .. (m - 1) |-> s[k]]
<1>1. /\ s \in Seq(S) /\ Len(s) \in Nat
      /\ \A i \in S : \E k \in 1 .. Len(s) : s[k] = i
      /\ \A k, n \in 1 .. Len(s) : k # n => s[k] # s[n]
      /\ \A k, n \in 1 .. Len(s) : Before(s[k], s[n]) <=> k < n
  BY OrderedLists
<1>2. m - 1 \in Nat /\ 1 .. (m - 1) \subseteq 1 .. Len(s)
  BY <1>1
<1>3. \A k \in 1 .. (m - 1) : s[k] \in E
  <2>. TAKE k \in 1 .. (m - 1)
  <2>1. k \in 1 .. Len(s) /\ k < m
    BY <1>1
  <2>. QED  BY <1>1, <2>1
<1>4. \A j \in E : \E k \in 1 .. (m - 1) : s[k] = j
  <2>. TAKE j \in E
  <2>1. PICK k \in 1 .. Len(s) : s[k] = j
    BY <1>1
  <2>2. k < m
    BY <1>1, <2>1
  <2>3. k \in 1 .. (m - 1)
    BY <2>1, <2>2, <1>1
  <2>. QED  BY <2>1, <2>3
<1>5. f \in Bijection(1 .. (m - 1), E)
  <2>. HIDE DEF E
  <2>1. f \in [1 .. (m - 1) -> E]
    BY <1>3
  <2>2. \A a, b \in 1 .. (m - 1) : f[a] = f[b] => a = b
    BY <1>1, <1>2
  <2>3. \A j \in E : \E k \in 1 .. (m - 1) : f[k] = j
    BY <1>4
  <2>. HIDE DEF f
  <2>. QED  BY <2>1, <2>2, <2>3 DEF Bijection, Injection, Surjection, IsInjective
<1>. HIDE DEF E, f
<1>6. ExistsBijection(1 .. (m - 1), E)
  BY <1>5 DEF ExistsBijection
<1>7. Cardinality(E) = m - 1
  BY <1>2, <1>6, FS_CountingElements
<1>. QED  BY <1>7 DEF E

\* The page is a stretch of the order, as long as the limit allows.
LEMMA WindowOfOrder ==
    ASSUME TypeOK, NEW S \in SUBSET Tasks, NEW s \in Ordered(S)
    PROVE  /\ Window(s) \in Seq(S) /\ Len(Window(s)) <= query.limit
           /\ \A i \in S : (\E n \in DOMAIN Window(s) : Window(s)[n] = i) <=>
                 Cardinality({j \in S : Before(j, i)}) \in offset..(offset + query.limit - 1)
           /\ \A m, n \in DOMAIN Window(s) : m # n => Window(s)[m] # Window(s)[n]
           /\ \A m, n \in DOMAIN Window(s) : m < n => Before(Window(s)[m], Window(s)[n])
           /\ Len(Window(s)) < query.limit => Len(s) < offset + query.limit
<1>1. query.limit \in Nat /\ query.limit # 0 /\ offset \in Nat
  BY QueryFacts DEF TypeOK
<1>2. /\ s \in Seq(S) /\ Len(s) \in Nat
      /\ \A i \in S : \E k \in 1 .. Len(s) : s[k] = i
      /\ \A k, n \in 1 .. Len(s) : k # n => s[k] # s[n]
      /\ \A k, n \in 1 .. Len(s) : Before(s[k], s[n]) <=> k < n
  BY OrderedLists
<1>. DEFINE last == IF Len(s) < offset + query.limit THEN Len(s) ELSE offset + query.limit
            size == IF offset < last THEN last - offset ELSE 0
            w    == Window(s)
<1>3. last \in Nat /\ last <= Len(s) /\ last <= offset + query.limit
  BY <1>1, <1>2
<1>4. size \in Nat /\ size <= query.limit
  BY <1>1, <1>3
<1>5. w = SubSeq(s, offset + 1, last)
  BY DEF Window
<1>6. /\ w \in Seq(S) /\ Len(w) = size
      /\ \A n \in 1 .. size : w[n] = s[n + offset]
  <2>1. offset + 1 \in Int /\ last \in Int
    BY <1>1, <1>3
  <2>2. \A k \in (offset + 1) .. last : s[k] \in S
    <3>. HIDE DEF last
    <3>. QED  BY <1>1, <1>2, <1>3
  <2>3. /\ size = IF offset + 1 <= last THEN last - (offset + 1) + 1 ELSE 0
        /\ 1 .. size = 1 .. (last - (offset + 1) + 1)
        /\ \A n \in 1 .. size : (offset + 1) + n - 1 = n + offset
    <3>. HIDE DEF last
    <3>. QED  BY <1>1, <1>3
  <2>. HIDE DEF last, w, size
  <2>4. /\ w \in Seq(S)
        /\ Len(w) = IF offset + 1 <= last THEN last - (offset + 1) + 1 ELSE 0
        /\ \A n \in 1 .. (last - (offset + 1) + 1) : w[n] = s[(offset + 1) + n - 1]
    BY <1>5, <2>1, <2>2, SubSeqProperties
  <2>. QED  BY <2>3, <2>4
<1>7. ASSUME NEW i \in S
      PROVE  (\E n \in DOMAIN w : w[n] = i) <=>
               Cardinality({j \in S : Before(j, i)}) \in offset..(offset + query.limit - 1)
  <2>1. PICK m \in 1 .. Len(s) : s[m] = i
    BY <1>2
  <2>2. Cardinality({j \in S : Before(j, i)}) = m - 1
    BY <2>1, PlaceIsRank
  <2>3. DOMAIN w = 1 .. size
    <3>. HIDE DEF size, w
    <3>. QED  BY <1>4, <1>6
  <2>4. (\E n \in 1 .. size : w[n] = i) <=> m - offset \in 1 .. size
    <3>. HIDE DEF w
    <3>1. ASSUME NEW n \in 1 .. size, w[n] = i
          PROVE  m - offset \in 1 .. size
      <4>1. s[n + offset] = s[m] /\ n + offset \in 1 .. Len(s)
        <5>1. n \in Nat /\ n + offset <= last /\ 1 <= n + offset
          <6>. HIDE DEF last
          <6>. QED  BY <1>1, <1>3
        <5>2. n + offset \in 1 .. Len(s)
          <6>. HIDE DEF last
          <6>. QED  BY <1>1, <1>2, <1>3, <5>1
        <5>. QED  BY <1>6, <2>1, <3>1, <5>2
      <4>2. n + offset = m
        BY <1>2, <4>1
      <4>. QED  BY <1>1, <4>2
    <3>2. ASSUME m - offset \in 1 .. size
          PROVE  w[m - offset] = i
      <4>1. (m - offset) + offset = m
        BY <1>1, <1>2
      <4>. QED  BY <1>6, <2>1, <3>2, <4>1
    <3>. QED  BY <3>1, <3>2
  <2>5. m - offset \in 1 .. size <=> m - 1 \in offset..(offset + query.limit - 1)
    <3>1. m \in Nat /\ m >= 1 /\ m <= Len(s)
      BY <1>2
    <3>2. m <= last <=> m <= offset + query.limit
      <4>1. CASE Len(s) < offset + query.limit
        <5>1. last = Len(s)
          BY <4>1
        <5>. HIDE DEF last, size, w
        <5>. QED  BY <1>1, <1>2, <3>1, <4>1, <5>1
      <4>2. CASE ~(Len(s) < offset + query.limit)
        <5>1. last = offset + query.limit
          BY <4>2
        <5>. HIDE DEF last, size, w
        <5>. QED  BY <1>1, <1>2, <3>1, <4>2, <5>1
      <4>. QED  BY <4>1, <4>2
    <3>3. m - offset <= size <=> m <= last \/ m <= offset
      <4>. HIDE DEF last
      <4>. QED  BY <1>1, <1>3, <3>1
    <3>. HIDE DEF last, size
    <3>. QED  BY <1>1, <1>4, <3>1, <3>2, <3>3
  <2>. QED  BY <2>2, <2>3, <2>4, <2>5
<1>8. ASSUME Len(w) < query.limit
      PROVE  Len(s) < offset + query.limit
  <2>1. CASE Len(s) < offset + query.limit
    BY <2>1
  <2>2. CASE ~(Len(s) < offset + query.limit)
    <3>1. last = offset + query.limit
      BY <2>2
    <3>2. size = query.limit
      <4>. HIDE DEF last
      <4>. QED  BY <1>1, <3>1
    <3>. QED  BY <1>1, <1>6, <1>8, <3>2
  <2>. QED  BY <2>1, <2>2
<1>9. ASSUME NEW m \in DOMAIN w, NEW n \in DOMAIN w, m # n
      PROVE  w[m] # w[n] /\ (m < n => Before(w[m], w[n]))
  <2>1. m \in 1 .. size /\ n \in 1 .. size
    <3>. HIDE DEF size, w
    <3>. QED  BY <1>4, <1>6
  <2>2. \A k \in 1 .. size : k \in Nat /\ k + offset \in 1 .. Len(s)
    <3>1. \A k \in 1 .. size : k \in Nat /\ 1 <= k + offset /\ k + offset <= last
      <4>. HIDE DEF last
      <4>. QED  BY <1>1, <1>3
    <3>. HIDE DEF last, size
    <3>. QED  BY <1>1, <1>2, <1>3, <3>1
  <2>. HIDE DEF last, size, w
  <2>3. m \in Nat /\ n \in Nat /\ m + offset # n + offset
    BY <1>1, <1>9, <2>1, <2>2
  <2>4. s[m + offset] # s[n + offset]
    BY <1>2, <2>1, <2>2, <2>3
  <2>5. w[m] = s[m + offset] /\ w[n] = s[n + offset]
    BY <1>6, <2>1
  <2>6. m < n => Before(s[m + offset], s[n + offset])
    <3>1. /\ m \in Nat /\ m + offset \in 1 .. Len(s)
          /\ n \in Nat /\ n + offset \in 1 .. Len(s)
      BY <2>1, <2>2
    <3>2. Before(s[m + offset], s[n + offset]) <=> m + offset < n + offset
      BY <1>2, <3>1
    <3>. QED  BY <1>1, <3>1, <3>2
  <2>. QED  BY <2>4, <2>5, <2>6
<1>10. ASSUME NEW m \in DOMAIN w, NEW n \in DOMAIN w, m < n
       PROVE  Before(w[m], w[n])
  <2>1. m # n
    <3>1. m \in 1 .. size /\ n \in 1 .. size /\ size \in Nat
      <4>. HIDE DEF size, w
      <4>. QED  BY <1>4, <1>6
    <3>. HIDE DEF size, w
    <3>. QED  BY <1>10, <3>1
  <2>. HIDE DEF w
  <2>. QED  BY <1>9, <1>10, <2>1
<1>. HIDE DEF last, size
<1>. QED  BY <1>4, <1>6, <1>7, <1>8, <1>9, <1>10

-----------------------------------------------------------------------------
\* Places in an order

TotalOrder(lt, S) ==
    /\ \A i \in S : <<i, i>> \notin lt
    /\ \A i, j \in S : i # j => <<i, j>> \in lt \/ <<j, i>> \in lt
    /\ \A i, j, k \in S : <<i, j>> \in lt /\ <<j, k>> \in lt => <<i, k>> \in lt

\* Whatever the tasks look like, the listing orders them totally.
LEMMA SoonerIsTotal ==
    ASSUME NEW q, NEW t \in [Id -> Row \cup {Unborn, Gone}],
           NEW S \in SUBSET {i \in Id : t[i] \in Row}
    PROVE  TotalOrder(Sooner(t, q), S)
<1>. DEFINE pr(i) == t[i].priority
            cr(i) == t[i].created_at
            First(i, j) ==
              \/ IF q.order_dir = "desc" THEN pr(i) > pr(j) ELSE pr(i) < pr(j)
              \/ /\ pr(i) = pr(j)
                 /\ cr(i) < cr(j) \/ (cr(i) = cr(j) /\ i < j)
            lt == Sooner(t, q)
<1>1. \A i \in S : i \in Id /\ i \in Nat /\ pr(i) \in Nat /\ cr(i) \in Nat
  BY IdAssumption, RowAssumption
<1>2. \A i, j \in S : <<i, j>> \in lt <=> First(i, j)
  BY <1>1 DEF Sooner
<1>3. \A i \in S : ~First(i, i)
  <2>. HIDE DEF pr, cr
  <2>. QED  BY <1>1
<1>4. \A i, j \in S : i # j => First(i, j) \/ First(j, i)
  <2>. HIDE DEF pr, cr
  <2>. QED  BY <1>1
<1>5. \A i, j, k \in S : First(i, j) /\ First(j, k) => First(i, k)
  <2>. HIDE DEF pr, cr
  <2>. QED  BY <1>1
<1>. HIDE DEF lt, First
<1>6. TotalOrder(lt, S)
  BY <1>2, <1>3, <1>4, <1>5 DEF TotalOrder
<1>. QED  BY <1>6 DEF lt

\* A place is a number, and smaller among fewer.
LEMMA PlaceOfPart ==
    ASSUME NEW lt, NEW S, IsFiniteSet(S), NEW T \in SUBSET S, NEW u
    PROVE  /\ IsFiniteSet(T) /\ Cardinality(S \ T) \in Nat
           /\ Place(lt, S, u) \in Nat /\ Place(lt, T, u) \in Nat
           /\ Place(lt, S, u) <= Cardinality(S)
           /\ Place(lt, T, u) <= Place(lt, S, u)
           /\ Place(lt, S, u) <= Place(lt, T, u) + Cardinality(S \ T)
<1>. DEFINE P == {j \in S : <<j, u>> \in lt}
            Q == {j \in T : <<j, u>> \in lt}
<1>1. P \in SUBSET S /\ Q \in SUBSET P /\ Q \in SUBSET T
  OBVIOUS
<1>2. P \ Q \in SUBSET (S \ T) /\ P \cap Q = Q
  OBVIOUS
<1>3. Place(lt, S, u) = Cardinality(P) /\ Place(lt, T, u) = Cardinality(Q)
  BY DEF Place
<1>. HIDE DEF P, Q
<1>4. IsFiniteSet(T) /\ IsFiniteSet(S \ T) /\ IsFiniteSet(P) /\ IsFiniteSet(Q)
  <2>1. S \ T \in SUBSET S
    OBVIOUS
  <2>. QED  BY <1>1, <2>1, FS_Subset
<1>5. /\ Cardinality(P) <= Cardinality(S) /\ Cardinality(Q) <= Cardinality(P)
      /\ Cardinality(P \ Q) <= Cardinality(S \ T)
  BY <1>1, <1>2, <1>4, FS_Subset
<1>6. Cardinality(P \ Q) = Cardinality(P) - Cardinality(Q)
  BY <1>2, <1>4, FS_Difference
<1>7. Cardinality(P) \in Nat /\ Cardinality(Q) \in Nat /\ Cardinality(S \ T) \in Nat
  BY <1>4, FS_CardinalityType
<1>8. Cardinality(S) \in Nat
  BY FS_CardinalityType
<1>. QED  BY <1>3, <1>4, <1>5, <1>6, <1>7, <1>8

\* No two tasks share a place, and each place is below the number of tasks.
LEMMA PlacesDiffer ==
    ASSUME NEW lt, NEW S, IsFiniteSet(S), TotalOrder(lt, S)
    PROVE  /\ \A u \in S : Place(lt, S, u) < Cardinality(S)
           /\ \A u, v \in S : u # v => Place(lt, S, u) # Place(lt, S, v)
<1>. DEFINE P(u) == {j \in S : <<j, u>> \in lt}
<1>1. \A u \in S : P(u) \in SUBSET S /\ u \notin P(u)
  BY DEF TotalOrder
<1>2. \A u \in S : Place(lt, S, u) = Cardinality(P(u))
  BY DEF Place
<1>3. \A u, v \in S : <<u, v>> \in lt => P(u) \subseteq P(v) /\ u \in P(v)
  BY DEF TotalOrder
<1>. HIDE DEF P
<1>4. \A u \in S : IsFiniteSet(P(u)) /\ Cardinality(P(u)) \in Nat
  BY <1>1, FS_Subset, FS_CardinalityType
<1>5. ASSUME NEW u \in S
      PROVE  Place(lt, S, u) < Cardinality(S)
  <2>1. Cardinality(P(u)) <= Cardinality(S) /\ Cardinality(P(u)) # Cardinality(S)
    BY <1>1, FS_Subset
  <2>2. Cardinality(S) \in Nat
    BY FS_CardinalityType
  <2>. QED  BY <1>2, <1>4, <2>1, <2>2
<1>6. ASSUME NEW u \in S, NEW v \in S, <<u, v>> \in lt
      PROVE  Place(lt, S, u) < Place(lt, S, v)
  <2>1. P(u) \in SUBSET P(v) /\ P(u) # P(v)
    BY <1>1, <1>3, <1>6
  <2>2. Cardinality(P(u)) <= Cardinality(P(v)) /\ Cardinality(P(u)) # Cardinality(P(v))
    BY <1>4, <2>1, FS_Subset
  <2>. QED  BY <1>2, <1>4, <2>2
<1>7. ASSUME NEW u \in S, NEW v \in S, u # v
      PROVE  Place(lt, S, u) # Place(lt, S, v)
  <2>1. Place(lt, S, u) \in Nat /\ Place(lt, S, v) \in Nat
    BY <1>2, <1>4
  <2>2. Place(lt, S, u) < Place(lt, S, v) \/ Place(lt, S, v) < Place(lt, S, u)
    BY <1>6, <1>7 DEF TotalOrder
  <2>. QED  BY <2>1, <2>2
<1>. QED  BY <1>5, <1>7

\* Between two places there are no more tasks than places.
LEMMA Crowd ==
    ASSUME NEW lt, NEW S, IsFiniteSet(S), TotalOrder(lt, S), NEW V \in SUBSET S,
           NEW a \in Nat, NEW b \in Nat, a <= b,
           \A u \in V : a <= Place(lt, S, u) /\ Place(lt, S, u) < b
    PROVE  IsFiniteSet(V) /\ Cardinality(V) \in Nat /\ Cardinality(V) <= b - a
<1>. DEFINE I == a .. (b - 1)
            f == [u \in V |-> Place(lt, S, u)]
<1>1. IsFiniteSet(I) /\ Cardinality(I) = b - a
  <2>1. a \in Int /\ b - 1 \in Int
    OBVIOUS
  <2>2. IsFiniteSet(I) /\ Cardinality(I) = IF a > b - 1 THEN 0 ELSE (b - 1) - a + 1
    BY <2>1, FS_Interval
  <2>. QED  BY <2>2
<1>2. \A u \in V : Place(lt, S, u) \in I
  <2>1. \A u \in V : Place(lt, S, u) \in Nat
    BY PlaceOfPart
  <2>. QED  BY <2>1
<1>. HIDE DEF I
<1>3. f \in Injection(V, I)
  <2>1. f \in [V -> I]
    BY <1>2
  <2>2. \A u, v \in V : f[u] = f[v] => u = v
    BY PlacesDiffer
  <2>. QED  BY <2>1, <2>2 DEF Injection, IsInjective
<1>. HIDE DEF f
<1>4. IsFiniteSet(V) /\ Cardinality(V) <= Cardinality(I)
  BY <1>1, <1>3, FS_Injection
<1>. QED  BY <1>1, <1>4, FS_CardinalityType

\* Each task taken away lets at most one other come before a given place.
LEMMA AheadOfPart ==
    ASSUME NEW lt, NEW S, IsFiniteSet(S), TotalOrder(lt, S), NEW T \in SUBSET S,
           NEW V \in SUBSET S, NEW k \in Nat
    PROVE  Cardinality(Ahead(lt, T, V, k)) <= Cardinality(Ahead(lt, S, V, k)) + Cardinality(S \ T)
<1>. DEFINE A == Ahead(lt, T, V, k)
            B == Ahead(lt, S, V, k)
            n == Cardinality(S \ T)
<1>1. /\ n \in Nat
      /\ \A u \in V : /\ Place(lt, S, u) \in Nat /\ Place(lt, T, u) \in Nat
                      /\ Place(lt, S, u) <= Place(lt, T, u) + n
  BY PlaceOfPart
<1>2. A \in SUBSET S /\ B \in SUBSET S /\ A \ B \in SUBSET S
  BY DEF Ahead
<1>. HIDE DEF n
<1>3. \A u \in A \ B : k <= Place(lt, S, u) /\ Place(lt, S, u) < k + n
  BY <1>1 DEF Ahead
<1>. HIDE DEF A, B
<1>4. Cardinality(A \ B) <= n
  <2>1. k + n \in Nat /\ k <= k + n /\ (k + n) - k = n
    BY <1>1
  <2>. QED  BY <1>2, <1>3, <2>1, Crowd
<1>5. IsFiniteSet(A) /\ IsFiniteSet(B)
  BY <1>2, FS_Subset
<1>6. Cardinality(A \ B) = Cardinality(A) - Cardinality(A \cap B)
  BY <1>5, FS_Difference
<1>7. Cardinality(A \cap B) <= Cardinality(B)
  <2>1. A \cap B \in SUBSET B
    OBVIOUS
  <2>. QED  BY <1>5, <2>1, FS_Subset
<1>8. Cardinality(A) \in Nat /\ Cardinality(B) \in Nat /\ Cardinality(A \cap B) \in Nat
  <2>1. IsFiniteSet(A \cap B)
    <3>1. A \cap B \in SUBSET B
      OBVIOUS
    <3>. QED  BY <1>5, <3>1, FS_Subset
  <2>. QED  BY <1>5, <2>1, FS_CardinalityType
<1>9. Cardinality(A) <= Cardinality(B) + n
  BY <1>1, <1>4, <1>6, <1>7, <1>8
<1>. QED  BY <1>9 DEF A, B, n

\* Sets that share nothing are counted apart.
LEMMA CountApart ==
    ASSUME NEW S, NEW T, IsFiniteSet(S), IsFiniteSet(T), S \cap T = {}
    PROVE  /\ IsFiniteSet(S \cup T)
           /\ Cardinality(S) \in Nat /\ Cardinality(T) \in Nat
           /\ Cardinality(S \cup T) = Cardinality(S) + Cardinality(T)
<1>1. /\ IsFiniteSet(S \cup T)
      /\ Cardinality(S \cup T) = Cardinality(S) + Cardinality(T) - Cardinality(S \cap T)
  BY FS_Union
<1>2. Cardinality(S \cap T) = 0
  BY FS_EmptySet
<1>3. Cardinality(S) \in Nat /\ Cardinality(T) \in Nat
  BY FS_CardinalityType
<1>. QED  BY <1>1, <1>2, <1>3

\* Each task added moves at most one other from before a given place to it or
\* behind, unless it is behind itself.
LEMMA BehindOfPart ==
    ASSUME NEW lt, NEW S, IsFiniteSet(S), TotalOrder(lt, S), NEW T \in SUBSET S,
           NEW V \in SUBSET S, NEW k \in Nat
    PROVE  Cardinality(Behind(lt, S, V, k))
             <= Cardinality(Behind(lt, T, V \cap T, k)) + Cardinality(S \ T)
<1>. DEFINE A   == Behind(lt, S, V, k)
            B   == Behind(lt, T, V \cap T, k)
            E   == S \ T
            Q   == (A \ B) \cap T
            Low == Ahead(lt, S, T, k)
            Hi  == Behind(lt, S, E, k)
            Lo  == Ahead(lt, S, E, k)
<1>1. /\ Cardinality(E) \in Nat /\ Cardinality(S) \in Nat /\ IsFiniteSet(T) /\ IsFiniteSet(E)
      /\ \A u \in S : /\ Place(lt, S, u) \in Nat /\ Place(lt, T, u) \in Nat
                      /\ Place(lt, T, u) <= Place(lt, S, u)
  <2>1. E \in SUBSET S
    OBVIOUS
  <2>. QED  BY <2>1, PlaceOfPart, FS_Subset, FS_CardinalityType
<1>2. /\ A \in SUBSET S /\ B \in SUBSET S /\ Q \in SUBSET T /\ Low \in SUBSET T
      /\ Hi \in SUBSET E /\ Lo \in SUBSET E /\ E \in SUBSET S
  BY DEF Ahead, Behind
<1>3. Hi \cap Lo = {} /\ Hi \cup Lo = E /\ A \ B \subseteq Hi \cup Q
  <2>1. \A u \in E : u \in Hi <=> ~(u \in Lo)
    BY <1>1, <1>2 DEF Ahead, Behind
  <2>2. \A u \in A : u \in E => u \in Hi
    BY DEF Behind
  <2>. QED  BY <1>2, <2>1, <2>2
<1>4. Q \cap Low = {} /\ \A u \in Q \cup Low : 0 <= Place(lt, T, u) /\ Place(lt, T, u) < k
  <2>1. \A u \in Q : Place(lt, S, u) >= k /\ ~(Place(lt, T, u) >= k)
    BY DEF Behind
  <2>2. \A u \in Low : Place(lt, S, u) < k
    BY DEF Ahead
  <2>. HIDE DEF Q, Low
  <2>. QED  BY <1>1, <1>2, <2>1, <2>2
<1>5. ASSUME NEW u \in Q
      PROVE  Cardinality(Low) + Cardinality(Lo) >= k
  <2>. DEFINE Back  == Behind(lt, S, S, k)
              Fore  == Ahead(lt, S, S, k)
              N     == Cardinality(S)
  <2>1. k <= Place(lt, S, u) /\ u \in S
    BY DEF Behind
  <2>2. k < N
    BY <1>1, <2>1, PlacesDiffer
  <2>3. Back \in SUBSET S /\ \A v \in Back : k <= Place(lt, S, v) /\ Place(lt, S, v) < N
    BY PlacesDiffer DEF Behind
  <2>4. Fore = S \ Back /\ S \cap Back = Back /\ Fore = Low \cup Lo /\ Low \cap Lo = {}
    BY <1>1 DEF Ahead, Behind
  <2>. HIDE DEF Back, Fore, N, Low, Lo, E, Q, A, B, Hi
  <2>5. N \in Nat /\ k <= N /\ N = Cardinality(S)
    BY <1>1, <2>2 DEF N
  <2>6. IsFiniteSet(Back) /\ Cardinality(Back) \in Nat /\ Cardinality(Back) <= N - k
    BY <2>3, <2>5, Crowd
  <2>7. Cardinality(Fore) = N - Cardinality(Back)
    BY <2>4, <2>5, FS_Difference
  <2>8. IsFiniteSet(Low) /\ IsFiniteSet(Lo)
    BY <1>1, <1>2, FS_Subset
  <2>9. /\ Cardinality(Low \cup Lo) = Cardinality(Low) + Cardinality(Lo)
        /\ Cardinality(Low) \in Nat /\ Cardinality(Lo) \in Nat
    BY <2>4, <2>8, CountApart
  <2>10. Cardinality(Low) + Cardinality(Lo) = N - Cardinality(Back)
    BY <2>4, <2>7, <2>9
  <2>. QED  BY <2>5, <2>6, <2>9, <2>10
<1>. HIDE DEF A, B, E, Q, Low, Hi, Lo
<1>6. /\ IsFiniteSet(A) /\ IsFiniteSet(B) /\ IsFiniteSet(Q) /\ IsFiniteSet(Low)
      /\ IsFiniteSet(Hi) /\ IsFiniteSet(Lo)
  BY <1>1, <1>2, FS_Subset
<1>7. /\ Cardinality(A) \in Nat /\ Cardinality(B) \in Nat /\ Cardinality(Q) \in Nat
      /\ Cardinality(Low) \in Nat /\ Cardinality(Hi) \in Nat /\ Cardinality(Lo) \in Nat
  BY <1>6, FS_CardinalityType
<1>8. Cardinality(Hi) + Cardinality(Lo) = Cardinality(E)
  BY <1>3, <1>6, CountApart
<1>9. Cardinality(Q) <= Cardinality(Lo)
  <2>1. CASE Q = {}
    BY <1>7, <2>1, FS_EmptySet
  <2>2. CASE Q # {}
    <3>1. Cardinality(Q \cup Low) <= k
      <4>1. TotalOrder(lt, T)
        BY DEF TotalOrder
      <4>2. Q \cup Low \in SUBSET T /\ 0 <= k /\ k - 0 = k
        BY <1>2
      <4>3. 0 \in Nat /\ \A u \in Q \cup Low : 0 <= Place(lt, T, u) /\ Place(lt, T, u) < k
        BY <1>4
      <4>4. Cardinality(Q \cup Low) <= k - 0
        BY ONLY <1>1, <4>1, <4>2, <4>3, k \in Nat, Crowd
      <4>. QED  BY <4>2, <4>4
    <3>2. Cardinality(Q \cup Low) = Cardinality(Q) + Cardinality(Low)
      BY <1>4, <1>6, CountApart
    <3>3. Cardinality(Low) + Cardinality(Lo) >= k
      BY <1>5, <2>2
    <3>. QED  BY <1>7, <3>1, <3>2, <3>3
  <2>. QED  BY <2>1, <2>2
<1>10. Cardinality(A \ B) <= Cardinality(Hi) + Cardinality(Q)
  <2>1. /\ IsFiniteSet(Hi \cup Q)
        /\ Cardinality(Hi \cup Q) = Cardinality(Hi) + Cardinality(Q) - Cardinality(Hi \cap Q)
    BY <1>6, FS_Union
  <2>2. A \ B \in SUBSET (Hi \cup Q)
    BY <1>3
  <2>3. Cardinality(A \ B) <= Cardinality(Hi \cup Q)
    BY <2>1, <2>2, FS_Subset
  <2>4. IsFiniteSet(Hi \cap Q) /\ IsFiniteSet(A \ B)
    <3>1. Hi \cap Q \in SUBSET Q
      OBVIOUS
    <3>. QED  BY <1>6, <2>1, <2>2, <3>1, FS_Subset
  <2>5. Cardinality(Hi \cap Q) \in Nat /\ Cardinality(A \ B) \in Nat
    BY <2>4, FS_CardinalityType
  <2>. QED  BY <1>7, <2>1, <2>3, <2>5
<1>11. Cardinality(A) <= Cardinality(A \ B) + Cardinality(B)
  <2>1. Cardinality(A \ B) = Cardinality(A) - Cardinality(A \cap B)
    BY <1>6, FS_Difference
  <2>2. A \cap B \in SUBSET B /\ A \ B \in SUBSET A
    OBVIOUS
  <2>3. Cardinality(A \cap B) <= Cardinality(B) /\ IsFiniteSet(A \cap B) /\ IsFiniteSet(A \ B)
    BY <1>6, <2>2, FS_Subset
  <2>4. Cardinality(A \cap B) \in Nat /\ Cardinality(A \ B) \in Nat
    BY <2>3, FS_CardinalityType
  <2>. QED  BY <1>7, <2>1, <2>3, <2>4
<1>12. Cardinality(A) <= Cardinality(B) + Cardinality(E)
  <2>1. Cardinality(A \ B) \in Nat
    <3>1. A \ B \in SUBSET A
      OBVIOUS
    <3>. QED  BY <1>6, <3>1, FS_Subset, FS_CardinalityType
  <2>2. Cardinality(E) \in Nat
    BY <1>1
  <2>. QED  BY <1>7, <1>8, <1>9, <1>10, <1>11, <2>1, <2>2
<1>. QED  BY <1>12 DEF A, B, E

\* What is known of ids can be counted.
LEMMA IdSets ==
    \A S \in SUBSET Id : /\ IsFiniteSet(S) /\ Cardinality(S) \in Nat
                         /\ \A T \in SUBSET S : Cardinality(T) <= Cardinality(S)
<1>. SUFFICES ASSUME NEW S \in SUBSET Id
              PROVE  /\ IsFiniteSet(S) /\ Cardinality(S) \in Nat
                     /\ \A T \in SUBSET S : Cardinality(T) <= Cardinality(S)
  OBVIOUS
<1>1. IsFiniteSet(S)
  BY IdAssumption, FS_Subset
<1>. QED  BY <1>1, FS_Subset, FS_CardinalityType

\* A page from place o to place k, cut out of the selection S: of the tasks V
\* it had to show, V1 is left.  Those it passed were passed already, or came
\* up for a stale one of L.
LEMMA SkippedByPage ==
    ASSUME NEW lt, NEW S \in SUBSET Id, NEW M \in SUBSET Id, NEW B \in SUBSET (S \cap M),
           NEW L \in SUBSET Id, S \ M \subseteq L, TotalOrder(lt, S),
           NEW V \in SUBSET B, NEW V1 \in SUBSET V, NEW o \in Nat, NEW k \in Nat,
           \A u \in V1 : ~(o <= Place(lt, S, u) /\ Place(lt, S, u) < k)
    PROVE  /\ Cardinality(Ahead(lt, S, V1, k)) <= Cardinality(Ahead(lt, B, V, o))
           /\ Cardinality(Ahead(lt, M, V1, k))
                <= Cardinality(Ahead(lt, B, V, o)) + Cardinality(L)
<1>. DEFINE C == S \cap M
<1>1. /\ C \in SUBSET S /\ C \in SUBSET M /\ B \in SUBSET S /\ V \in SUBSET S /\ V1 \in SUBSET S
      /\ S \ C \in SUBSET L
      /\ IsFiniteSet(S) /\ IsFiniteSet(M)
  BY IdSets
<1>2. \A u \in V1 : /\ Place(lt, S, u) \in Nat /\ Place(lt, B, u) \in Nat
                    /\ Place(lt, C, u) \in Nat /\ Place(lt, M, u) \in Nat
                    /\ Place(lt, B, u) <= Place(lt, S, u)
                    /\ Place(lt, C, u) <= Place(lt, M, u)
  <2>. HIDE DEF C
  <2>. QED  BY <1>1, PlaceOfPart
<1>3. Ahead(lt, S, V1, k) \in SUBSET Ahead(lt, B, V, o)
  <2>1. ASSUME NEW u \in V1, Place(lt, S, u) < k
        PROVE  Place(lt, B, u) < o
    BY <1>2, <2>1
  <2>. QED  BY <2>1 DEF Ahead
<1>4. Ahead(lt, M, V1, k) \in SUBSET Ahead(lt, C, V1, k)
  <2>1. ASSUME NEW u \in V1, Place(lt, M, u) < k
        PROVE  Place(lt, C, u) < k
    BY <1>2, <2>1
  <2>. QED  BY <2>1 DEF Ahead
<1>5. /\ Ahead(lt, B, V, o) \in SUBSET Id /\ Ahead(lt, C, V1, k) \in SUBSET Id
      /\ Ahead(lt, S, V1, k) \in SUBSET Id /\ Ahead(lt, M, V1, k) \in SUBSET Id
      /\ S \ C \in SUBSET Id
  BY <1>1 DEF Ahead
<1>. HIDE DEF C
<1>6. Cardinality(Ahead(lt, C, V1, k)) <= Cardinality(Ahead(lt, S, V1, k)) + Cardinality(S \ C)
  BY <1>1, AheadOfPart
<1>7. /\ Cardinality(Ahead(lt, S, V1, k)) <= Cardinality(Ahead(lt, B, V, o))
      /\ Cardinality(Ahead(lt, M, V1, k)) <= Cardinality(Ahead(lt, C, V1, k))
      /\ Cardinality(S \ C) <= Cardinality(L)
  BY <1>1, <1>3, <1>4, <1>5, IdSets
<1>8. /\ Cardinality(Ahead(lt, S, V1, k)) \in Nat /\ Cardinality(Ahead(lt, B, V, o)) \in Nat
      /\ Cardinality(Ahead(lt, M, V1, k)) \in Nat /\ Cardinality(Ahead(lt, C, V1, k)) \in Nat
      /\ Cardinality(S \ C) \in Nat /\ Cardinality(L) \in Nat
  BY <1>5, IdSets
<1>. QED  BY <1>6, <1>7, <1>8

\* What such a page lists again, H having been listed before it, had a place at
\* it or behind, or came there for one of W.
LEMMA RepeatedByPage ==
    ASSUME NEW lt, NEW S \in SUBSET Id, NEW M \in SUBSET Id, NEW B \in SUBSET (S \cap M),
           NEW W \in SUBSET Id, (S \cup M) \ B \subseteq W,
           TotalOrder(lt, S), TotalOrder(lt, M),
           NEW H \in SUBSET Id, NEW o \in Nat, NEW k \in Nat, o <= k, NEW P,
           P = {u \in S : o <= Place(lt, S, u) /\ Place(lt, S, u) < k}
    PROVE  Cardinality(P) + Cardinality(H) + Cardinality(Behind(lt, M, (H \cup P) \cap M, k))
             <= Cardinality(H \cup P) + Cardinality(Behind(lt, B, H \cap B, o)) + Cardinality(W)
<1>. DEFINE C   == S \cap M
            New == Behind(lt, M, (H \cup P) \cap M, k)
            Mid == Behind(lt, C, ((H \cup P) \cap M) \cap C, k)
            Far == Behind(lt, S, H \cap S, k)
            All == Behind(lt, S, H \cap S, o)
            Old == Behind(lt, B, (H \cap S) \cap B, o)
            R   == H \cap P
<1>1. /\ C \in SUBSET S /\ C \in SUBSET M /\ B \in SUBSET S /\ S \in SUBSET S
      /\ IsFiniteSet(S) /\ IsFiniteSet(M)
      /\ (H \cup P) \cap M \in SUBSET M /\ H \cap S \in SUBSET S
  BY IdSets
<1>2. \A u \in S : /\ Place(lt, S, u) \in Nat /\ Place(lt, C, u) \in Nat
                   /\ Place(lt, C, u) <= Place(lt, S, u)
  <2>. HIDE DEF C
  <2>. QED  BY <1>1, PlaceOfPart
<1>3. Cardinality(New) <= Cardinality(Mid) + Cardinality(M \ C)
  <2>. HIDE DEF C
  <2>. QED  BY <1>1, BehindOfPart
<1>4. Cardinality(All) <= Cardinality(Old) + Cardinality(S \ B)
  BY <1>1, BehindOfPart
<1>5. Mid \in SUBSET Far
  <2>1. ASSUME NEW u \in Mid
        PROVE  u \in H \cap S /\ Place(lt, S, u) >= k
    <3>1. u \in H \cup P /\ u \in S /\ Place(lt, C, u) >= k
      BY DEF Behind
    <3>2. Place(lt, S, u) >= k
      BY <1>2, <3>1
    <3>3. u \notin P
      BY <1>2, <3>1, <3>2
    <3>. QED  BY <3>1, <3>2, <3>3
  <2>. QED  BY <2>1 DEF Behind
<1>6. Far \cap R = {} /\ Far \cup R \in SUBSET All
  <2>1. \A u \in S : Place(lt, S, u) >= k => Place(lt, S, u) >= o /\ ~(Place(lt, S, u) < k)
    BY <1>2
  <2>2. \A u \in S : o <= Place(lt, S, u) => Place(lt, S, u) >= o
    BY <1>2
  <2>. QED  BY <2>1, <2>2 DEF Behind
<1>7. /\ (M \ C) \cap (S \ B) = {} /\ (M \ C) \cup (S \ B) \in SUBSET W
      /\ Old = Behind(lt, B, H \cap B, o)
  <2>1. (H \cap S) \cap B = H \cap B
    OBVIOUS
  <2>. QED  BY <2>1
<1>8. /\ New \in SUBSET Id /\ Mid \in SUBSET Id /\ Far \in SUBSET Id /\ All \in SUBSET Id
      /\ Old \in SUBSET Id /\ R \in SUBSET Id /\ P \in SUBSET Id /\ H \cup P \in SUBSET Id
      /\ M \ C \in SUBSET Id /\ S \ B \in SUBSET Id
      /\ Far \cup R \in SUBSET Id /\ (M \ C) \cup (S \ B) \in SUBSET Id
  BY DEF Behind
<1>9. Cardinality(H \cup P) = Cardinality(H) + Cardinality(P) - Cardinality(R)
  <2>1. IsFiniteSet(H) /\ IsFiniteSet(P)
    BY <1>8, IdSets
  <2>. QED  BY <2>1, FS_Union
<1>. HIDE DEF C, New, Mid, Far, All, Old, R
<1>10. /\ Cardinality(Far \cup R) = Cardinality(Far) + Cardinality(R)
       /\ Cardinality((M \ C) \cup (S \ B)) = Cardinality(M \ C) + Cardinality(S \ B)
  BY <1>6, <1>7, <1>8, IdSets, CountApart
<1>11. /\ Cardinality(Mid) <= Cardinality(Far)
       /\ Cardinality(Far \cup R) <= Cardinality(All)
       /\ Cardinality((M \ C) \cup (S \ B)) <= Cardinality(W)
  BY <1>5, <1>6, <1>7, <1>8, IdSets
<1>12. /\ Cardinality(New) \in Nat /\ Cardinality(Mid) \in Nat /\ Cardinality(Far) \in Nat
       /\ Cardinality(All) \in Nat /\ Cardinality(Old) \in Nat /\ Cardinality(R) \in Nat
       /\ Cardinality(P) \in Nat /\ Cardinality(H) \in Nat /\ Cardinality(W) \in Nat
       /\ Cardinality(M \ C) \in Nat /\ Cardinality(S \ B) \in Nat
  BY <1>8, IdSets
<1>13. Cardinality(P) + Cardinality(H) + Cardinality(New)
         <= Cardinality(H \cup P) + Cardinality(Old) + Cardinality(W)
  BY <1>3, <1>4, <1>9, <1>10, <1>11, <1>12
<1>. QED  BY <1>7, <1>13 DEF New

\* The places of the order the page is cut out of.
LEMMA PageOfOrder ==
    ASSUME TypeOK, NEW S \in SUBSET Tasks, NEW s \in Ordered(S), NEW w, w = Window(s),
           NEW P, P = {w[n] : n \in DOMAIN w}
    PROVE  /\ P = {u \in S : offset <= Place(Order, S, u) /\ Place(Order, S, u) < offset + query.limit}
           /\ Cardinality(P) = Len(w)
           /\ Len(w) < query.limit => \A u \in S : Place(Order, S, u) < offset + query.limit
<1>1. query.limit \in Nat /\ query.limit # 0 /\ offset \in Nat
  BY QueryFacts DEF TypeOK
<1>2. /\ w \in Seq(S) /\ Len(w) \in Nat /\ DOMAIN w = 1 .. Len(w)
      /\ \A i \in S : (\E n \in DOMAIN w : w[n] = i) <=>
            Cardinality({j \in S : Before(j, i)}) \in offset..(offset + query.limit - 1)
      /\ \A m, n \in DOMAIN w : m # n => w[m] # w[n]
      /\ Len(w) < query.limit => Len(s) < offset + query.limit
  <2>1. w \in Seq(S)
    BY WindowOfOrder
  <2>2. Len(w) \in Nat /\ DOMAIN w = 1 .. Len(w)
    BY <2>1
  <2>. QED  BY <2>1, <2>2, WindowOfOrder
<1>3. S \in SUBSET Id /\ IsFiniteSet(S)
  <2>1. S \in SUBSET Id
    BY DEF Tasks
  <2>. QED  BY <2>1, IdSets
<1>4. \A u \in S : Place(Order, S, u) = Cardinality({j \in S : Before(j, u)})
  <2>1. \A u, j \in Id : Before(j, u) <=> <<j, u>> \in Order
    BY DEF Before, Precedes, Order, Sooner
  <2>2. ASSUME NEW u \in S
        PROVE  {j \in S : Before(j, u)} = {j \in S : <<j, u>> \in Order}
    BY <1>3, <2>1
  <2>. QED  BY <2>2 DEF Place
<1>5. \A u \in S : Place(Order, S, u) \in Nat
  BY <1>3, PlaceOfPart
<1>6. \A u \in S : u \in P <=> Place(Order, S, u) \in offset..(offset + query.limit - 1)
  <2>1. \A u \in S : u \in P <=> \E n \in DOMAIN w : w[n] = u
    OBVIOUS
  <2>. QED  BY ONLY <1>2, <1>4, <2>1
<1>7. P \subseteq S
  <2>1. \A n \in DOMAIN w : w[n] \in S
    BY <1>2
  <2>. QED  BY <2>1
<1>8. P = {u \in S : offset <= Place(Order, S, u) /\ Place(Order, S, u) < offset + query.limit}
  <2>1. \A u \in S : u \in P <=> offset <= Place(Order, S, u) /\ Place(Order, S, u) < offset + query.limit
    BY <1>1, <1>5, <1>6
  <2>. QED  BY <1>7, <2>1
<1>9. Cardinality(P) = Len(w)
  <2>1. w \in [1 .. Len(w) -> P]
    BY <1>2
  <2>2. w \in Bijection(1 .. Len(w), P)
    BY <1>2, <2>1 DEF Bijection, Injection, Surjection, IsInjective
  <2>3. ExistsBijection(1 .. Len(w), P)
    BY <2>2 DEF ExistsBijection
  <2>. QED  BY <1>2, <2>3, FS_CountingElements
<1>10. ASSUME Len(w) < query.limit, NEW u \in S
       PROVE  Place(Order, S, u) < offset + query.limit
  <2>1. Len(s) = Cardinality(S) /\ Cardinality(S) \in Nat
    BY <1>3, OrderedLists, FS_CardinalityType
  <2>2. Place(Order, S, u) <= Cardinality(S)
    BY <1>3, PlaceOfPart
  <2>. QED  BY <1>1, <1>2, <1>5, <1>10, <2>1, <2>2
<1>. QED  BY <1>8, <1>9, <1>10

-----------------------------------------------------------------------------
\* The steps

\* What matches is finite, and a selection over ids resolved since nobody wrote
\* is what matches.
LEMMA SelectedMatches ==
    ASSUME TypeOK, Resolved, pc \in {"items", "count"}
    PROVE  /\ Selected \subseteq Tasks /\ Matching \subseteq Tasks
           /\ \A i \in Selected : i \notin touched => i \in Matching
           /\ touched = {} => Selected = Matching
<1>2. \A i \in Id : i \in Matching <=>
        /\ i \in Tasks
        /\ query.statuses # {} => table[i].status \in query.statuses
        /\ Carries(query, table[i])
  BY DEF Matching, Matches, Carries, Tasks
<1>3. \A i \in Tasks : i \notin touched =>
        ((ids # AnyTask => i \in ids) <=> Carries(query, table[i]))
  BY DEF Resolved, Carries, Tasks
<1>4. Selected \subseteq Tasks /\ Matching \subseteq Tasks /\ Tasks \subseteq Id
  BY <1>2 DEF Selected, Matching, Tasks
<1>5. \A i \in Id : i \notin touched => (i \in Selected <=> i \in Matching)
  BY <1>2, <1>3 DEF Selected
<1>6. \A i \in Id : touched = {} => (i \in Selected <=> i \in Matching)
  BY <1>5
<1>. QED  BY <1>4, <1>5, <1>6

\* The rows of the page are those of tasks.
LEMMA PageRows ==
    ASSUME TypeOK
    PROVE  \A n \in DOMAIN items : items[n].id \in Id /\ items[n].row \in Row
<1>. DEFINE Line == [id : Id, row : Row]
<1>1. items \in Seq(Line)
  BY DEF TypeOK
<1>2. \A n \in DOMAIN items : items[n] \in Line
  <2>. HIDE DEF Line
  <2>. QED  BY <1>1
<1>3. \A e \in [id : Id, row : Row] : e.id \in Id /\ e.row \in Row
  OBVIOUS
<1>. QED  BY <1>2, <1>3

LEMMA InitInv == Init => Inv
<1>. SUFFICES ASSUME Init PROVE Inv
  OBVIOUS
<1>1. TypeOK
  <2>1. Len(<< >>) = 0 /\ ToSet(<< >>) = {}
    BY DEF ToSet
  <2>2. query.limit \in Nat
    BY QueryFacts DEF Init
  <2>3. start \subseteq Id
    BY DEF Init, Matching
  <2>. QED  BY <2>1, <2>2, <2>3 DEF Init, TypeOK
<1>2. Resolved /\ Listed /\ Counted /\ Named
  BY DEF Init, Resolved, Listed, Counted, Named
<1>. QED  BY <1>1, <1>2 DEF Inv

LEMMA ResolveInv == Inv /\ Resolve => Inv'
<1>. SUFFICES ASSUME Inv, Resolve PROVE Inv'
  OBVIOUS
<1>. USE DEF Resolve
<1>1. TypeOK'
  <2>1. ids' = AnyTask \/ ids' \subseteq Id
    BY DEF TaskIdsMatching, Tasks
  <2>. QED  BY <2>1 DEF Inv, TypeOK
<1>2. Resolved'
  <2>1. CASE query.tags = << >>
    BY <2>1 DEF Resolved
  <2>2. CASE query.tags # << >>
    <3>1. ids' = TaskIdsMatching(NameKeys(query), query.op = "and")
      BY <2>2
    <3>2. ids' \in SUBSET Id
      BY <3>1 DEF TaskIdsMatching, Tasks
    <3>3. ids' # AnyTask
      BY <3>2, RowAssumption
    <3>4. \A i \in Id : i \in ids' <=> Carries(query, table[i])
      BY <2>2, <3>1, JoinResolves DEF Inv
    <3>. QED  BY <2>2, <3>3, <3>4 DEF Resolved
  <2>. QED  BY <2>1, <2>2
<1>3. Listed' /\ Counted' /\ Named'
  BY DEF Inv, Listed, Counted, Named
<1>. QED  BY <1>1, <1>2, <1>3 DEF Inv

LEMMA SelectInv == Inv /\ Select => Inv'
<1>. SUFFICES ASSUME Inv, Select PROVE Inv'
  OBVIOUS
<1>. USE DEF Select
<1>1. PICK s \in Ordered(Selected) :
        items' = [n \in DOMAIN Window(s) |-> [id |-> Window(s)[n], row |-> table[Window(s)[n]]]]
  OBVIOUS
<1>. DEFINE w == Window(s)
<1>2. /\ Selected \in SUBSET Tasks /\ Matching \subseteq Tasks
      /\ \A i \in Selected : i \notin touched => i \in Matching
      /\ touched = {} => Selected = Matching
  BY SelectedMatches DEF Inv
<1>3. /\ w \in Seq(Selected) /\ Len(w) <= query.limit
      /\ \A i \in Selected : (\E n \in DOMAIN w : w[n] = i) <=>
            Cardinality({j \in Selected : Before(j, i)}) \in offset..(offset + query.limit - 1)
      /\ \A m, n \in DOMAIN w : m < n => Before(w[m], w[n])
  BY <1>2, WindowOfOrder DEF Inv
<1>. HIDE DEF w
<1>4. \A n \in DOMAIN w : w[n] \in Selected
  BY <1>3
<1>5. /\ DOMAIN items' = DOMAIN w
      /\ \A n \in DOMAIN w : items'[n].id = w[n] /\ items'[n].row = table[w[n]]
  BY <1>1 DEF w
<1>6. TypeOK'
  <2>1. \A n \in DOMAIN w : w[n] \in Id /\ table[w[n]] \in Row
    BY <1>2, <1>4 DEF Tasks
  <2>2. items' = [n \in 1 .. Len(w) |-> [id |-> w[n], row |-> table[w[n]]]] /\ Len(w) \in Nat
    BY <1>1, <1>3 DEF w
  <2>3. items' \in Seq([id : Id, row : Row]) /\ Len(items') = Len(w)
    BY <1>3, <2>1, <2>2
  <2>4. names = << >> /\ Len(names) = 0
    BY DEF Inv, Named
  <2>5. UNCHANGED <<table, query, offset, ids, total, names, seen, start, changed, touched,
                    arrivals, departures, losses>> /\ pc' = "count"
    OBVIOUS
  <2>6. TypeOK /\ Len(w) <= query.limit /\ pc = "items"
    BY <1>3 DEF Inv
  <2>. QED  BY ONLY <2>3, <2>4, <2>5, <2>6 DEF TypeOK
<1>7. Resolved'
  BY DEF Inv, Resolved
<1>8. Listed'
  <2>1. ASSUME NEW n \in DOMAIN items', items'[n].id \notin touched
        PROVE  items'[n].row = table[items'[n].id] /\ Matches(query, items'[n].row)
    <3>1. w[n] \in Matching /\ items'[n].id = w[n] /\ items'[n].row = table[w[n]]
      BY <1>2, <1>4, <1>5, <2>1
    <3>. QED  BY <3>1 DEF Matching
  <2>2. ASSUME touched = {}, NEW i \in Matching
        PROVE  i \in {items'[n].id : n \in DOMAIN items'} <=> OnPage(i)
    <3>1. Selected = Matching
      BY <1>2, <2>2
    <3>2. i \in {items'[n].id : n \in DOMAIN items'} <=> \E n \in DOMAIN w : w[n] = i
      BY <1>5
    <3>. QED  BY <1>3, <3>1, <3>2 DEF OnPage, Earlier
  <2>3. \A m, n \in DOMAIN items' : m < n => Before(items'[m].id, items'[n].id)
    BY <1>3, <1>5
  <2>4. /\ \A n \in DOMAIN items' : items'[n].id \notin touched =>
             items'[n].row = table[items'[n].id] /\ Matches(query, items'[n].row)
        /\ touched = {} => \A i \in Matching :
             i \in {items'[n].id : n \in DOMAIN items'} <=> OnPage(i)
    BY <2>1, <2>2
  <2>5. InOrder'
    BY <2>3 DEF InOrder, Before, Precedes
  <2>. QED  BY <2>4, <2>5 DEF Listed, Matching, OnPage, Earlier, PageIds, Before, Precedes
<1>9. Counted' /\ Named'
  BY DEF Inv, Counted, Named
<1>. QED  BY <1>6, <1>7, <1>8, <1>9 DEF Inv

LEMMA CountInv == Inv /\ Count => Inv'
<1>. SUFFICES ASSUME Inv, Count PROVE Inv'
  OBVIOUS
<1>. USE DEF Count
<1>1. Selected \subseteq Tasks /\ (touched = {} => Selected = Matching)
  BY SelectedMatches DEF Inv
<1>2. TypeOK'
  <2>1. Selected \in SUBSET Id
    BY <1>1 DEF Tasks
  <2>2. total' \in Nat
    BY <2>1, IdAssumption, FS_Subset, FS_CardinalityType
  <2>. QED  BY <2>2 DEF Inv, TypeOK
<1>3. Resolved' /\ Listed'
  BY DEF Inv, Resolved, Listed, InOrder, Matching, OnPage, Earlier, PageIds, Before, Precedes
<1>4. Counted'
  BY <1>1 DEF Counted, Matching
<1>5. Named'
  BY DEF Inv, Named
<1>. QED  BY <1>2, <1>3, <1>4, <1>5 DEF Inv

LEMMA ReadNamesInv == Inv /\ ReadNames => Inv'
<1>. SUFFICES ASSUME Inv, ReadNames PROVE Inv'
  OBVIOUS
<1>. USE DEF ReadNames
<1>1. items \in Seq([id : Id, row : Row]) /\ Len(items) \in Nat /\ DOMAIN items = 1 .. Len(items)
  BY DEF Inv, TypeOK
<1>2. \A n \in DOMAIN items : items[n].id \in Id /\ items[n].row \in Row
  BY PageRows DEF Inv
<1>3. /\ DOMAIN names' = 1 .. Len(items) /\ Len(names') = Len(items)
      /\ \A n \in DOMAIN items : names'[n] =
           IF items[n].id \in Tasks THEN table[items[n].id].tags ELSE {}
  BY <1>1
<1>4. TypeOK'
  <2>1. \A n \in DOMAIN items : names'[n] \in SUBSET Tag
    BY <1>3, RowAssumption DEF Tasks
  <2>2. ToSet(names') \subseteq SUBSET Tag
    BY <1>1, <1>3, <2>1 DEF ToSet
  <2>3. [n \in DOMAIN items |-> items[n].id] \in Seq(Id)
    BY <1>1, <1>2
  <2>4. seen' \in Seq(Id)
    BY <2>3 DEF Inv, TypeOK
  <2>. QED  BY <1>3, <2>2, <2>4 DEF Inv, TypeOK
<1>5. Resolved' /\ Listed' /\ Counted'
  <2>1. Resolved'
    BY DEF Inv, Resolved
  <2>2. Listed'
    <3>1. UNCHANGED <<table, query, offset, items, touched>> /\ pc = "names" /\ Listed
      BY DEF Inv
    <3>. QED  BY ONLY <3>1 DEF Listed, InOrder, Matching, OnPage, Earlier, PageIds, Before, Precedes
  <2>3. Counted'
    BY DEF Inv, Counted, Matching
  <2>. QED  BY <2>1, <2>2, <2>3
<1>6. Named'
  <2>1. ASSUME NEW n \in DOMAIN items, items[n].id \notin touched
        PROVE  names'[n] = items[n].row.tags
    <3>1. items[n].row = table[items[n].id]
      BY <2>1 DEF Inv, Listed
    <3>2. items[n].id \in Tasks
      BY <1>2, <3>1 DEF Tasks
    <3>. QED  BY <1>3, <3>1, <3>2
  <2>. QED  BY <1>3, <2>1 DEF Named
<1>. QED  BY <1>4, <1>5, <1>6 DEF Inv

LEMMA NextPageInv == Inv /\ NextPage => Inv'
<1>. SUFFICES ASSUME Inv, NextPage PROVE Inv'
  OBVIOUS
<1>. USE DEF NextPage
<1>1. TypeOK'
  <2>1. query.limit \in Nat /\ query' = query
    BY QueryFacts DEF Inv, TypeOK
  <2>2. Len(<< >>) = 0 /\ ToSet(<< >>) = {}
    BY DEF ToSet
  <2>3. offset' \in Nat /\ pc' \in {"resolve", "done"}
    BY <2>1 DEF Inv, TypeOK
  <2>4. Len(items') <= query.limit /\ Len(names') = 0
    BY <2>1, <2>2
  <2>. QED  BY <2>1, <2>2, <2>3, <2>4 DEF Inv, TypeOK
<1>2. Resolved' /\ Listed' /\ Counted' /\ Named'
  <2>1. pc' \in {"resolve", "done"}
    OBVIOUS
  <2>. QED  BY <2>1 DEF Resolved, Listed, Counted, Named
<1>. QED  BY <1>1, <1>2 DEF Inv

\* A write changes one task, and that one is touched from then on.
LEMMA WriteInv == ASSUME NEW i \in Id, NEW r \in Row \cup {Gone}
                  PROVE  Inv /\ Write(i, r) => Inv'
<1>. SUFFICES ASSUME Inv, Write(i, r) PROVE Inv'
  OBVIOUS
<1>. USE DEF Write, walk
<1>1. /\ \A j \in Id : j # i => table'[j] = table[j]
      /\ touched' = touched \cup {i} /\ touched' # {}
  BY DEF Inv, TypeOK
<1>2. TypeOK'
  BY DEF Inv, TypeOK
<1>3. Resolved'
  BY <1>1 DEF Inv, Resolved, Carries
<1>4. \A n \in DOMAIN items : items[n].id \in Id
  BY PageRows DEF Inv
<1>5. Listed'
  <2>1. ASSUME pc \in {"count", "names", "answered"}, NEW n \in DOMAIN items,
               items[n].id \notin touched'
        PROVE  items[n].row = table'[items[n].id] /\ Matches(query, items[n].row)
    BY <1>1, <1>4, <2>1 DEF Inv, Listed
  <2>. QED  BY <1>1, <2>1 DEF Listed, Matches, Carries
<1>6. Counted' /\ Named'
  BY <1>1 DEF Inv, Counted, Named
<1>. QED  BY <1>2, <1>3, <1>5, <1>6 DEF Inv

LEMMA StutterInv == Inv /\ UNCHANGED vars => Inv'
<1>. SUFFICES ASSUME Inv, UNCHANGED vars PROVE Inv'
  OBVIOUS
<1>. USE DEF vars
<1>1. TypeOK'
  BY DEF Inv, TypeOK
<1>2. Resolved'
  BY DEF Inv, Resolved
<1>3. Listed'
  BY DEF Inv, Listed, InOrder, Matching, OnPage, Earlier, PageIds, Before, Precedes
<1>4. Counted' /\ Named'
  BY DEF Inv, Counted, Named, Matching
<1>. QED  BY <1>1, <1>2, <1>3, <1>4 DEF Inv

-----------------------------------------------------------------------------
\* What a walk pays for

\* The sets and numbers of the two paging invariants.
LEMMA WalkFacts ==
    ASSUME Inv
    PROVE  /\ Tasks \in SUBSET Id /\ Matching \in SUBSET Tasks /\ Selected \in SUBSET Tasks
           /\ Matching \in SUBSET Id /\ Selected \in SUBSET Id
           /\ Steady \in SUBSET Id /\ PageIds \in SUBSET Id /\ Shown \in SUBSET Id
           /\ offset \in Nat /\ query.limit \in Nat /\ query.limit # 0 /\ Reach \in Nat
           /\ Len(seen) \in Nat /\ Len(items) \in Nat /\ Lines \in Nat
           /\ arrivals \in Nat /\ departures \in Nat /\ losses \in Nat
           /\ \A S \in SUBSET Tasks : TotalOrder(Order, S)
<1>1. Tasks \in SUBSET Id /\ Matching \in SUBSET Tasks /\ Selected \in SUBSET Tasks
  BY DEF Tasks, Matching, Matches, Carries, Selected
<1>2. PageIds \in SUBSET Id
  BY PageRows DEF Inv, PageIds
<1>3. Steady \in SUBSET Id
  BY DEF Inv, TypeOK, Steady
<1>4. seen \in Seq(Id) /\ \A n \in DOMAIN seen : seen[n] \in Id
  BY DEF Inv, TypeOK
<1>5. ToSet(seen) \in SUBSET Id /\ Len(seen) \in Nat
  BY <1>4 DEF ToSet
<1>6. Shown \in SUBSET Id
  BY <1>2, <1>5 DEF Shown
<1>7. offset \in Nat /\ query.limit \in Nat /\ query.limit # 0
  BY QueryFacts DEF Inv, TypeOK
<1>8. Len(items) \in Nat /\ arrivals \in Nat /\ departures \in Nat /\ losses \in Nat
  BY DEF Inv, TypeOK
<1>9. Reach \in Nat /\ Lines \in Nat
  BY <1>5, <1>7, <1>8 DEF Reach, Lines
<1>10. \A S \in SUBSET Tasks : TotalOrder(Order, S)
  BY SoonerIsTotal DEF Inv, TypeOK, Order, Tasks
<1>. QED  BY <1>1, <1>2, <1>3, <1>5, <1>6, <1>7, <1>8, <1>9, <1>10

\* What is selected without matching carries no tag asked for any more.
LEMMA StaleSelected ==
    ASSUME Inv, pc = "items", NEW L \in SUBSET Id, StaleWithin(L)
    PROVE  Selected \ Matching \subseteq L
<1>. SUFFICES ASSUME NEW i \in Selected, i \notin Matching
              PROVE  i \in L
  OBVIOUS
<1>1. i \in Id /\ table[i] \in Row /\ (query.statuses # {} => table[i].status \in query.statuses)
  BY DEF Selected, Tasks
<1>2. ~Carries(query, table[i])
  BY <1>1 DEF Matching, Matches
<1>3. CASE ids = AnyTask
  <2>1. query.tags = << >>
    BY <1>3 DEF Inv, Resolved
  <2>. QED  BY <1>1, <1>2, <2>1 DEF Carries
<1>4. CASE ids # AnyTask
  <2>1. i \in ids
    BY <1>4 DEF Selected
  <2>2. table[i] # Gone
    BY <1>1, RowAssumption
  <2>. QED  BY <1>2, <1>4, <2>1, <2>2 DEF StaleWithin
<1>. QED  BY <1>3, <1>4

\* Just resolved, the ids select what matches.
LEMMA ResolveSelects ==
    ASSUME Inv, Resolve
    PROVE  Selected' = Matching /\ StaleWithin({})'
<1>. USE DEF Resolve
<1>1. CASE query.tags = << >>
  <2>1. ids' = AnyTask
    BY <1>1
  <2>2. \A i \in Tasks : Carries(query, table[i])
    BY <1>1 DEF Carries, Tasks
  <2>. QED  BY <2>1, <2>2 DEF Selected, Matching, Matches, Carries, Tasks, StaleWithin
<1>2. CASE query.tags # << >>
  <2>1. ids' = TaskIdsMatching(NameKeys(query), query.op = "and")
    BY <1>2
  <2>2. ids' \in SUBSET Id
    BY <2>1 DEF TaskIdsMatching, Tasks
  <2>3. ids' # AnyTask
    BY <2>2, RowAssumption
  <2>4. \A i \in Id : i \in ids' <=> Carries(query, table[i])
    BY <1>2, <2>1, JoinResolves DEF Inv
  <2>5. StaleWithin({})'
    BY <2>2, <2>4 DEF StaleWithin
  <2>6. \A i \in Id : i \in Selected' <=> i \in Matching
    BY <2>3, <2>4 DEF Selected, Matching, Matches, Carries, Tasks
  <2>7. Selected' \subseteq Id /\ Matching \subseteq Id
    BY DEF Selected, Matching, Tasks
  <2>. QED  BY <2>5, <2>6, <2>7
<1>. QED  BY <1>1, <1>2

LEMMA InitPaid == Init => SkipsPaid /\ RepeatsPaid
<1>. SUFFICES ASSUME Init PROVE SkipsPaid /\ RepeatsPaid
  OBVIOUS
<1>1. Inv
  BY InitInv
<1>2. /\ pc = "resolve" /\ seen = << >> /\ offset = 0 /\ Len(seen) = 0
      /\ arrivals = 0 /\ departures = 0 /\ losses = 0 /\ Steady = Matching
  BY DEF Init, Steady
<1>3. Reach = 0 /\ Lines = 0 /\ Shown = {}
  BY <1>2 DEF Reach, Lines, Shown, Paged, ToSet
<1>4. Ahead(Order, Matching, Steady \ Shown, Reach) = {}
  <2>1. \A u \in Matching : Place(Order, Matching, u) \in Nat
    BY <1>1, WalkFacts, IdSets, PlaceOfPart
  <2>. QED  BY <1>2, <1>3, <2>1 DEF Ahead
<1>5. Behind(Order, Matching, Shown \cap Matching, Reach) = {}
  BY <1>3 DEF Behind
<1>6. Cardinality({}) = 0
  BY FS_EmptySet
<1>7. SkipsPaid
  <2>1. Cardinality(Ahead(Order, Matching, Steady \ Shown, Reach)) <= departures + losses
    <3>1. Cardinality(Ahead(Order, Matching, Steady \ Shown, Reach)) = 0
      BY ONLY <1>4, <1>6
    <3>. QED  BY ONLY <1>2, <3>1
  <2>. QED  BY ONLY <1>2, <2>1 DEF SkipsPaid
<1>8. RepeatsPaid
  <2>1. Lines + Cardinality(Behind(Order, Matching, Shown \cap Matching, Reach))
          <= Cardinality(Shown) + arrivals + losses
    <3>1. Cardinality(Behind(Order, Matching, Shown \cap Matching, Reach)) = 0
      BY ONLY <1>5, <1>6
    <3>2. Cardinality(Shown) = 0
      BY ONLY <1>3, <1>6
    <3>. QED  BY ONLY <1>2, <1>3, <3>1, <3>2
  <2>. QED  BY ONLY <1>2, <2>1 DEF RepeatsPaid
<1>. QED  BY <1>7, <1>8

LEMMA ResolvePaid == Inv /\ SkipsPaid /\ RepeatsPaid /\ Resolve => SkipsPaid' /\ RepeatsPaid'
<1>. SUFFICES ASSUME Inv, SkipsPaid, RepeatsPaid, Resolve PROVE SkipsPaid' /\ RepeatsPaid'
  OBVIOUS
<1>1. Selected' = Matching /\ StaleWithin({})'
  BY ResolveSelects
<1>2. /\ pc = "resolve" /\ pc' = "items"
      /\ Matching' = Matching /\ Order' = Order /\ Steady' = Steady
      /\ Shown' = Shown /\ Lines' = Lines /\ offset' = offset
      /\ arrivals' = arrivals /\ departures' = departures /\ losses' = losses
  BY DEF Resolve, Matching, Order, Steady, Shown, Lines, Paged
<1>3. Reach = offset
  BY <1>2 DEF Reach
<1>4. Matching \in SUBSET Id /\ {} \in SUBSET Id /\ Cardinality({}) = 0
  BY WalkFacts, FS_EmptySet
<1>. DEFINE ahead  == Cardinality(Ahead(Order, Matching, Steady \ Shown, offset))
            behind == Cardinality(Behind(Order, Matching, Shown \cap Matching, offset))
<1>5. ahead \in Nat /\ behind \in Nat /\ Lines \in Nat
  <2>1. /\ Ahead(Order, Matching, Steady \ Shown, offset) \in SUBSET Id
        /\ Behind(Order, Matching, Shown \cap Matching, offset) \in SUBSET Id
    BY WalkFacts DEF Ahead, Behind
  <2>. QED  BY <2>1, WalkFacts, IdSets
<1>6. Steady \subseteq Matching /\ ahead <= departures + losses
  BY <1>2, <1>3 DEF SkipsPaid
<1>7. Lines + behind <= Cardinality(Shown) + arrivals + losses
  BY <1>2, <1>3 DEF RepeatsPaid
<1>8. SkipsPaid'
  <2>1. ahead + Cardinality({}) <= departures + losses
    BY <1>4, <1>5, <1>6
  <2>. QED  BY <1>1, <1>2, <1>4, <1>6, <2>1 DEF SkipsPaid
<1>9. RepeatsPaid'
  <2>1. Lines + behind + Cardinality({}) <= Cardinality(Shown) + arrivals + losses
    BY <1>4, <1>5, <1>7
  <2>2. (Matching \cup Matching) \ Matching \subseteq {}
    OBVIOUS
  <2>. QED  BY <1>1, <1>2, <1>4, <2>1, <2>2 DEF RepeatsPaid
<1>. QED  BY <1>8, <1>9

\* Selecting a page pays for what it passes and for what it repeats.
LEMMA SelectPaid == Inv /\ SkipsPaid /\ RepeatsPaid /\ Select => SkipsPaid' /\ RepeatsPaid'
<1>. SUFFICES ASSUME Inv, SkipsPaid, RepeatsPaid, Select PROVE SkipsPaid' /\ RepeatsPaid'
  OBVIOUS
<1>1. PICK s \in Ordered(Selected) :
        items' = [n \in DOMAIN Window(s) |-> [id |-> Window(s)[n], row |-> table[Window(s)[n]]]]
  BY DEF Select
<1>. DEFINE w == Window(s)
            P == {w[n] : n \in DOMAIN w}
            K == offset + query.limit
<1>2. /\ pc = "items" /\ pc' = "count"
      /\ Matching' = Matching /\ Order' = Order /\ Steady' = Steady
      /\ seen' = seen /\ query' = query /\ offset' = offset
      /\ arrivals' = arrivals /\ departures' = departures /\ losses' = losses
  BY DEF Select, Matching, Order, Steady
<1>3. /\ offset \in Nat /\ K \in Nat /\ offset <= K /\ Lines \in Nat /\ Len(seen) \in Nat
      /\ arrivals \in Nat /\ departures \in Nat /\ losses \in Nat
      /\ Selected \in SUBSET Tasks /\ Selected \in SUBSET Id /\ Matching \in SUBSET Id
      /\ Shown \in SUBSET Id /\ Steady \in SUBSET Id
      /\ TotalOrder(Order, Selected) /\ TotalOrder(Order, Matching)
  BY WalkFacts
<1>4. /\ P = {u \in Selected : offset <= Place(Order, Selected, u) /\ Place(Order, Selected, u) < K}
      /\ Cardinality(P) = Len(w) /\ w \in Seq(Selected) /\ Len(w) \in Nat
      /\ Len(w) < query.limit => \A u \in Selected : Place(Order, Selected, u) < K
  <2>1. TypeOK
    BY DEF Inv
  <2>2. w \in Seq(Selected)
    BY <1>3, <2>1, WindowOfOrder
  <2>3. Len(w) \in Nat
    BY <2>2
  <2>. QED  BY <1>3, <2>1, <2>2, <2>3, PageOfOrder
<1>5. /\ Len(items') = Len(w) /\ DOMAIN items' = DOMAIN w
      /\ \A n \in DOMAIN w : items'[n].id = w[n]
  <2>1. DOMAIN w = 1 .. Len(w)
    BY <1>4
  <2>. HIDE DEF w
  <2>. DEFINE line(n) == [id |-> w[n], row |-> table[w[n]]]
  <2>2. items' = [n \in 1 .. Len(w) |-> line(n)]
    BY <1>1, <2>1 DEF w
  <2>3. \A n \in 1 .. Len(w) : line(n).id = w[n]
    OBVIOUS
  <2>. HIDE DEF line
  <2>4. DOMAIN items' = 1 .. Len(w) /\ \A n \in 1 .. Len(w) : items'[n].id = w[n]
    BY <2>2, <2>3
  <2>5. Len(items') = Len(w)
    BY <1>4, <2>2
  <2>. QED  BY <2>1, <2>4, <2>5
<1>. HIDE DEF w, K
<1>6. PageIds' = P
  <2>1. PageIds' = {items'[n].id : n \in DOMAIN items'}
    BY DEF PageIds
  <2>. QED  BY <1>5, <2>1
<1>. HIDE DEF P
<1>7. /\ Shown = ToSet(seen) /\ Shown' = Shown \cup P
      /\ Lines = Len(seen) /\ Lines' = Lines + Len(w) /\ Reach' = K
  BY <1>2, <1>3, <1>4, <1>5, <1>6 DEF Shown, Lines, Paged, Reach, K
<1>8. SkipsPaid'
  <2>1. PICK B \in SUBSET Id, L \in SUBSET Id :
          /\ B \subseteq Matching \cap Selected /\ Steady \subseteq B /\ StaleWithin(L)
          /\ Cardinality(Ahead(Order, B, Steady \ Shown, offset)) + Cardinality(L)
               <= departures + losses
    BY <1>2 DEF SkipsPaid
  <2>. DEFINE V  == Steady \ Shown
              V1 == Steady \ (Shown \cup P)
              aheadB == Cardinality(Ahead(Order, B, V, offset))
              aheadS == Cardinality(Ahead(Order, Selected, V1, K))
              aheadM == Cardinality(Ahead(Order, Matching, V1, K))
  <2>2. /\ B \in SUBSET (Selected \cap Matching) /\ V \in SUBSET B /\ V1 \in SUBSET V
        /\ Selected \ Matching \subseteq L
        /\ \A u \in V1 : ~(offset <= Place(Order, Selected, u) /\ Place(Order, Selected, u) < K)
    <3>1. Selected \ Matching \subseteq L
      BY <1>2, <2>1, StaleSelected
    <3>. QED  BY <1>4, <2>1, <3>1
  <2>3. aheadS <= aheadB /\ aheadM <= aheadB + Cardinality(L)
    <3>. HIDE DEF V, V1
    <3>. QED  BY <1>3, <2>2, SkippedByPage
  <2>4. aheadB \in Nat /\ aheadS \in Nat /\ aheadM \in Nat /\ Cardinality(L) \in Nat
    <3>1. /\ Ahead(Order, B, V, offset) \in SUBSET Id /\ Ahead(Order, Selected, V1, K) \in SUBSET Id
          /\ Ahead(Order, Matching, V1, K) \in SUBSET Id
      BY <1>3 DEF Ahead
    <3>. QED  BY <3>1, IdSets
  <2>5. aheadB + Cardinality(L) <= departures + losses
    BY <2>1
  <2>6. aheadM <= departures + losses /\ aheadS <= departures + losses
    <3>. HIDE DEF aheadB, aheadS, aheadM
    <3>. QED  BY <1>3, <2>3, <2>4, <2>5
  <2>7. ASSUME Len(items') < query.limit
        PROVE  Cardinality(V1) <= departures + losses
    <3>1. \A u \in V1 : u \in Selected /\ Place(Order, Selected, u) < K
      BY <1>4, <1>5, <2>1, <2>7
    <3>2. V1 = Ahead(Order, Selected, V1, K)
      BY <3>1 DEF Ahead
    <3>. HIDE DEF V1
    <3>. QED  BY <2>6, <3>2
  <2>. HIDE DEF aheadM
  <2>8. /\ Steady' \ Shown' = V1 /\ Steady' \subseteq Matching'
        /\ Cardinality(Ahead(Order', Matching', V1, Reach')) = aheadM
    BY <1>2, <1>7, <2>1 DEF aheadM
  <2>. HIDE DEF V1
  <2>. QED  BY <1>2, <2>6, <2>7, <2>8 DEF SkipsPaid
<1>9. RepeatsPaid'
  <2>1. PICK B \in SUBSET Id, W \in SUBSET Id :
          /\ B \subseteq Matching \cap Selected
          /\ (Matching \cup Selected) \ B \subseteq W /\ StaleWithin(W)
          /\ Lines + Cardinality(Behind(Order, B, Shown \cap B, offset)) + Cardinality(W)
               <= Cardinality(Shown) + arrivals + losses
    BY <1>2 DEF RepeatsPaid
  <2>. DEFINE H == Shown
              behindB == Cardinality(Behind(Order, B, H \cap B, offset))
              behindM == Cardinality(Behind(Order, Matching, (H \cup P) \cap Matching, K))
  <2>2. Cardinality(P) + Cardinality(H) + behindM
          <= Cardinality(H \cup P) + behindB + Cardinality(W)
    <3>1. B \in SUBSET (Selected \cap Matching) /\ (Selected \cup Matching) \ B \subseteq W
      BY <2>1
    <3>. QED  BY <1>3, <1>4, <2>1, <3>1, RepeatedByPage
  <2>3. /\ behindB \in Nat /\ behindM \in Nat /\ Cardinality(W) \in Nat /\ Cardinality(H) \in Nat
        /\ Cardinality(P) \in Nat /\ Cardinality(H \cup P) \in Nat
    <3>1. P \in SUBSET Id
      BY <1>3, <1>4
    <3>2. /\ Behind(Order, B, H \cap B, offset) \in SUBSET Id /\ H \cup P \in SUBSET Id
          /\ Behind(Order, Matching, (H \cup P) \cap Matching, K) \in SUBSET Id
      BY <1>3, <3>1 DEF Behind
    <3>. QED  BY <1>3, <2>1, <3>1, <3>2, IdSets
  <2>4. Lines + behindB + Cardinality(W) <= Cardinality(H) + arrivals + losses
    BY <2>1
  <2>5. Lines + Cardinality(P) + behindM <= Cardinality(H \cup P) + arrivals + losses
    <3>. HIDE DEF H, behindB, behindM
    <3>1. Lines \in Nat /\ arrivals \in Nat /\ losses \in Nat
      BY <1>3
    <3>. QED  BY ONLY <2>2, <2>3, <2>4, <3>1
  <2>6. /\ Shown' = H \cup P /\ Lines' = Lines + Cardinality(P)
        /\ Cardinality(Behind(Order', Matching', Shown' \cap Matching', Reach')) = behindM
    BY <1>2, <1>4, <1>7
  <2>. HIDE DEF H, behindM
  <2>. QED  BY <1>2, <2>5, <2>6 DEF RepeatsPaid
<1>. QED  BY <1>8, <1>9

\* The page is counted and read, and the next one begins where it ended.
LEMMA CountPaid == Inv /\ SkipsPaid /\ RepeatsPaid /\ Count => SkipsPaid' /\ RepeatsPaid'
<1>. SUFFICES ASSUME Inv, SkipsPaid, RepeatsPaid, Count PROVE SkipsPaid' /\ RepeatsPaid'
  OBVIOUS
<1>1. /\ pc = "count" /\ pc' = "names" /\ items' = items /\ query' = query
      /\ Matching' = Matching /\ Order' = Order /\ Steady' = Steady
      /\ Shown' = Shown /\ Lines' = Lines /\ Reach' = Reach
      /\ arrivals' = arrivals /\ departures' = departures /\ losses' = losses
  BY DEF Count, Matching, Order, Steady, Shown, Lines, Reach, Paged, PageIds
<1>. QED  BY <1>1 DEF SkipsPaid, RepeatsPaid

LEMMA ReadNamesPaid == Inv /\ SkipsPaid /\ RepeatsPaid /\ ReadNames => SkipsPaid' /\ RepeatsPaid'
<1>. SUFFICES ASSUME Inv, SkipsPaid, RepeatsPaid, ReadNames PROVE SkipsPaid' /\ RepeatsPaid'
  OBVIOUS
<1>. DEFINE page == [n \in DOMAIN items |-> items[n].id]
<1>1. page \in Seq(Id) /\ Len(page) = Len(items) /\ seen \in Seq(Id) /\ ToSet(page) = PageIds
  <2>1. items \in Seq([id : Id, row : Row])
    BY DEF Inv, TypeOK
  <2>2. DOMAIN items = 1 .. Len(items) /\ Len(items) \in Nat
    BY <2>1
  <2>3. \A n \in 1 .. Len(items) : items[n].id \in Id
    BY <2>2, PageRows DEF Inv
  <2>4. page \in Seq(Id) /\ Len(page) = Len(items)
    BY <2>2, <2>3
  <2>5. ToSet(page) = PageIds
    BY DEF ToSet, PageIds
  <2>. QED  BY <2>4, <2>5 DEF Inv, TypeOK
<1>2. seen' = seen \o page
  BY DEF ReadNames
<1>. HIDE DEF page
<1>3. Len(seen') = Len(seen) + Len(items) /\ ToSet(seen') = ToSet(seen) \cup PageIds
  <2>. DEFINE j == seen \o page
              a == Len(seen)
              b == Len(page)
  <2>1. a \in Nat /\ b \in Nat /\ DOMAIN seen = 1 .. a /\ DOMAIN page = 1 .. b
    BY <1>1
  <2>2. /\ Len(j) = a + b /\ DOMAIN j = 1 .. (a + b)
        /\ \A n \in 1 .. (a + b) : j[n] = IF n <= a THEN seen[n] ELSE page[n - a]
    <3>1. /\ j \in Seq(Id) /\ Len(j) = Len(seen) + Len(page)
          /\ \A n \in 1 .. (Len(seen) + Len(page)) :
               j[n] = IF n <= Len(seen) THEN seen[n] ELSE page[n - Len(seen)]
      BY <1>1, ConcatProperties
    <3>. HIDE DEF j
    <3>2. DOMAIN j = 1 .. Len(j)
      BY <3>1
    <3>. QED  BY <3>1, <3>2
  <2>. HIDE DEF j, a, b
  <2>3. \A n \in 1 .. (a + b) : j[n] \in ToSet(seen) \cup ToSet(page)
    <3>. TAKE n \in 1 .. (a + b)
    <3>1. CASE n <= a
      <4>1. n \in 1 .. a /\ j[n] = seen[n]
        BY <2>1, <2>2, <3>1
      <4>. QED  BY <2>1, <4>1 DEF ToSet
    <3>2. CASE ~(n <= a)
      <4>1. n - a \in 1 .. b /\ j[n] = page[n - a]
        BY <2>1, <2>2, <3>2
      <4>. QED  BY <2>1, <4>1 DEF ToSet
    <3>. QED  BY <3>1, <3>2
  <2>4. \A n \in 1 .. a : n \in 1 .. (a + b) /\ j[n] = seen[n]
    BY <2>1, <2>2
  <2>5. \A n \in 1 .. b : a + n \in 1 .. (a + b) /\ j[a + n] = page[n]
    <3>. TAKE n \in 1 .. b
    <3>1. a + n \in 1 .. (a + b) /\ ~(a + n <= a) /\ (a + n) - a = n
      BY <2>1
    <3>. QED  BY <2>2, <3>1
  <2>6. ToSet(j) = ToSet(seen) \cup ToSet(page)
    <3>1. ToSet(j) \subseteq ToSet(seen) \cup ToSet(page)
      <4>1. ToSet(j) = {j[n] : n \in 1 .. (a + b)}
        BY <2>2 DEF ToSet
      <4>. QED  BY <2>3, <4>1
    <3>2. ToSet(seen) \subseteq ToSet(j)
      <4>1. \A n \in 1 .. a : seen[n] \in {j[m] : m \in 1 .. (a + b)}
        BY <2>4
      <4>. QED  BY <2>1, <2>2, <4>1 DEF ToSet
    <3>3. ToSet(page) \subseteq ToSet(j)
      <4>1. \A n \in 1 .. b : page[n] \in {j[m] : m \in 1 .. (a + b)}
        BY <2>5
      <4>. QED  BY <2>1, <2>2, <4>1 DEF ToSet
    <3>. QED  BY <3>1, <3>2, <3>3
  <2>7. seen' = j
    BY <1>2 DEF j
  <2>. QED  BY <1>1, <2>2, <2>6, <2>7 DEF a, b
<1>4. /\ pc = "names" /\ pc' = "answered" /\ items' = items /\ query' = query
      /\ Matching' = Matching /\ Order' = Order /\ Steady' = Steady /\ Reach' = Reach
      /\ arrivals' = arrivals /\ departures' = departures /\ losses' = losses
  BY DEF ReadNames, Matching, Order, Steady, Reach
<1>5. Shown' = Shown /\ Lines' = Lines
  <2>1. Len(seen') + 0 = Len(seen')
    BY <1>1, <1>3, WalkFacts
  <2>. QED  BY <1>3, <1>4, <2>1 DEF Shown, Lines, Paged
<1>. QED  BY <1>4, <1>5 DEF SkipsPaid, RepeatsPaid

LEMMA NextPagePaid == Inv /\ SkipsPaid /\ RepeatsPaid /\ NextPage => SkipsPaid' /\ RepeatsPaid'
<1>. SUFFICES ASSUME Inv, SkipsPaid, RepeatsPaid, NextPage PROVE SkipsPaid' /\ RepeatsPaid'
  OBVIOUS
<1>1. /\ pc = "answered" /\ query' = query
      /\ Matching' = Matching /\ Order' = Order /\ Steady' = Steady
      /\ Shown' = Shown /\ Lines' = Lines
      /\ arrivals' = arrivals /\ departures' = departures /\ losses' = losses
      /\ \/ pc' = "done" /\ Len(items) < query.limit
         \/ pc' = "resolve" /\ offset' = offset + query.limit
  BY DEF NextPage, Matching, Order, Steady, Shown, Lines, Paged
<1>2. /\ Steady \subseteq Matching
      /\ Cardinality(Ahead(Order, Matching, Steady \ Shown, Reach)) <= departures + losses
      /\ Len(items) < query.limit => Cardinality(Steady \ Shown) <= departures + losses
  BY <1>1 DEF SkipsPaid
<1>. DEFINE behind == Cardinality(Behind(Order, Matching, Shown \cap Matching, Reach))
<1>3. Lines + behind <= Cardinality(Shown) + arrivals + losses
  BY <1>1 DEF RepeatsPaid
<1>4. CASE pc' = "done" /\ Len(items) < query.limit
  <2>1. behind \in Nat /\ Cardinality(Shown) \in Nat
    <3>1. Behind(Order, Matching, Shown \cap Matching, Reach) \in SUBSET Id
      BY WalkFacts DEF Behind
    <3>. QED  BY <3>1, WalkFacts, IdSets
  <2>2. Lines <= Cardinality(Shown) + arrivals + losses
    <3>. HIDE DEF behind
    <3>. QED  BY <1>3, <2>1, WalkFacts
  <2>. QED  BY <1>1, <1>2, <1>4, <2>2 DEF SkipsPaid, RepeatsPaid
<1>5. CASE pc' = "resolve" /\ offset' = offset + query.limit
  <2>1. Reach' = Reach
    BY <1>1, <1>5 DEF Reach
  <2>. QED  BY <1>1, <1>2, <1>3, <1>5, <2>1 DEF SkipsPaid, RepeatsPaid
<1>. QED  BY <1>1, <1>4, <1>5

\* A write leaves the places of the others among the others alone, and who of
\* them matches or is selected.
LEMMA WriteElsewhere ==
    ASSUME Inv, NEW i \in Id, NEW r \in Row \cup {Gone}, Write(i, r)
    PROVE  /\ UNCHANGED <<query, offset, pc, ids, items, seen, Shown, Lines, Reach>>
           /\ Matching' \ {i} = Matching \ {i} /\ Selected' \ {i} = Selected \ {i}
           /\ Steady' = Steady \ {i}
           /\ Matching' \in SUBSET Id /\ Selected' \in SUBSET Id
           /\ i \in Matching <=> Matches(query, table[i])
           /\ i \in Matching' <=> Matches(query, r)
           /\ \A S \in SUBSET Id, u \in Id :
                i \notin S /\ u # i => Place(Order', S, u) = Place(Order, S, u)
           /\ TotalOrder(Order', Matching')
<1>1. /\ query' = query /\ offset' = offset /\ pc' = pc /\ ids' = ids /\ items' = items
      /\ seen' = seen /\ start' = start /\ changed' = changed \cup {i}
  BY DEF Write, walk
<1>2. /\ \A j \in Id : j # i => table'[j] = table[j]
      /\ table'[i] = r
  BY DEF Write, Inv, TypeOK
<1>3. Shown' = Shown /\ Lines' = Lines /\ Reach' = Reach
  BY <1>1 DEF Shown, Lines, Reach, Paged, PageIds
<1>4. Matching' \in SUBSET Id /\ Selected' \in SUBSET Id
  BY DEF Matching, Selected, Tasks
<1>5. Steady' = Steady \ {i}
  BY <1>1 DEF Steady
<1>6. /\ i \in Matching <=> Matches(query, table[i])
      /\ i \in Matching' <=> Matches(query, r)
      /\ Matching' \ {i} = Matching \ {i}
  <2>1. Matching' = {j \in Id : Matches(query, table'[j])}
    BY <1>1 DEF Matching, Matches, Carries
  <2>. QED  BY <1>2, <2>1 DEF Matching
<1>7. Selected' \ {i} = Selected \ {i}
  BY <1>1, <1>2 DEF Selected, Tasks
<1>8. ASSUME NEW S \in SUBSET Id, NEW u \in Id, i \notin S, u # i
      PROVE  Place(Order', S, u) = Place(Order, S, u)
  <2>1. ASSUME NEW j \in S
        PROVE  <<j, u>> \in Order' <=> <<j, u>> \in Order
    <3>1. j \in Id /\ table'[j] = table[j] /\ table'[u] = table[u]
      BY <1>2, <1>8
    <3>. QED  BY <1>1, <3>1 DEF Order, Sooner
  <2>2. {j \in S : <<j, u>> \in Order'} = {j \in S : <<j, u>> \in Order}
    BY <2>1
  <2>. QED  BY <2>2 DEF Place
<1>9. TotalOrder(Order', Matching')
  <2>1. table' \in [Id -> Row \cup {Unborn, Gone}]
    BY WriteInv DEF Inv, TypeOK
  <2>2. Matching' \in SUBSET {j \in Id : table'[j] \in Row}
    BY DEF Matching, Matches, Carries
  <2>3. Order' = Sooner(table', query')
    BY DEF Order
  <2>. QED  BY <2>1, <2>2, <2>3, SoonerIsTotal
<1>. QED  BY <1>1, <1>3, <1>4, <1>5, <1>6, <1>7, <1>8, <1>9

\* One task at most is taken from a set or put into it.
LEMMA CountOne ==
    ASSUME NEW S \in SUBSET Id, NEW i \in Id
    PROVE  /\ Cardinality(S \ (S \ {i})) = IF i \in S THEN 1 ELSE 0
           /\ Cardinality(S \cup {i}) \in Nat
           /\ Cardinality(S \cup {i}) <= Cardinality(S) + 1
<1>1. IsFiniteSet(S) /\ Cardinality(S) \in Nat
  BY IdSets
<1>2. Cardinality(S \cup {i}) = IF i \in S THEN Cardinality(S) ELSE Cardinality(S) + 1
  BY <1>1, FS_AddElement
<1>3. CASE i \in S
  <2>1. S \ (S \ {i}) = {i}
    BY <1>3
  <2>2. Cardinality({i}) = 1
    BY FS_Singleton
  <2>3. Cardinality(S \ (S \ {i})) = 1
    BY ONLY <2>1, <2>2
  <2>4. Cardinality(S \cup {i}) = Cardinality(S)
    BY ONLY <1>2, <1>3
  <2>. QED  BY ONLY <1>1, <1>3, <2>3, <2>4
<1>4. CASE i \notin S
  <2>1. S \ (S \ {i}) = {}
    BY <1>4
  <2>2. Cardinality({}) = 0
    BY FS_EmptySet
  <2>3. Cardinality(S \ (S \ {i})) = 0
    BY ONLY <2>1, <2>2
  <2>4. Cardinality(S \cup {i}) = Cardinality(S) + 1
    BY ONLY <1>2, <1>4
  <2>. QED  BY ONLY <1>1, <1>4, <2>3, <2>4
<1>. QED  BY <1>3, <1>4

\* Whoever was not known to be stale is not, or lost the tags just now.
LEMMA WriteStale ==
    ASSUME Inv, NEW i \in Id, NEW r \in Row \cup {Gone}, Write(i, r),
           NEW L \in SUBSET Id, StaleWithin(L), NEW L1 \in SUBSET Id, L \subseteq L1,
           Carries(query, table[i]) /\ r \in Row /\ ~Carries(query, r) => i \in L1
    PROVE  StaleWithin(L1)'
<1>1. /\ \A j \in Id : j # i => table'[j] = table[j]
      /\ table'[i] = r /\ query' = query /\ ids' = ids /\ table[i] # Gone
  BY DEF Write, walk, Inv, TypeOK
<1>2. SUFFICES ASSUME ids # AnyTask, NEW j \in ids \ L1
               PROVE  table'[j] = Gone \/ Carries(query, table'[j])
  BY <1>1 DEF StaleWithin, Carries
<1>3. j \in Id /\ (table[j] = Gone \/ Carries(query, table[j]))
  BY <1>2 DEF StaleWithin, Inv, TypeOK
<1>4. CASE j # i
  BY <1>1, <1>3, <1>4
<1>5. CASE j = i
  <2>1. Carries(query, table[i]) /\ i \notin L1
    BY <1>1, <1>2, <1>3, <1>5
  <2>2. r = Gone \/ Carries(query, r)
    BY <2>1
  <2>. QED  BY <1>1, <1>5, <2>2
<1>. QED  BY <1>4, <1>5

\* A departure brings one more task before the place the walk has come to.
LEMMA WriteSkips ==
    ASSUME Inv, SkipsPaid, NEW i \in Id, NEW r \in Row \cup {Gone}, Write(i, r)
    PROVE  SkipsPaid'
<1>. DEFINE V  == Steady \ Shown
            V1 == V \ {i}
            gone == IF Matches(query, table[i]) THEN 1 ELSE 0
            lost == IF Carries(query, table[i]) /\ r \in Row /\ ~Carries(query, r) THEN 1 ELSE 0
<1>1. /\ pc # "done" /\ departures' = departures + gone /\ losses' = losses + lost
  BY DEF Write
<1>2. /\ UNCHANGED <<query, offset, pc, ids, items, seen, Shown, Lines, Reach>>
      /\ Matching' \ {i} = Matching \ {i} /\ Selected' \ {i} = Selected \ {i}
      /\ Steady' = Steady \ {i}
      /\ Matching' \in SUBSET Id /\ Selected' \in SUBSET Id
      /\ i \in Matching <=> Matches(query, table[i])
      /\ \A S \in SUBSET Id, u \in Id :
           i \notin S /\ u # i => Place(Order', S, u) = Place(Order, S, u)
  BY WriteElsewhere
<1>3. /\ departures \in Nat /\ losses \in Nat /\ offset \in Nat /\ Reach \in Nat
      /\ Matching \in SUBSET Tasks /\ Matching \in SUBSET Id /\ Selected \in SUBSET Id
      /\ Steady \in SUBSET Id /\ gone \in {0, 1} /\ lost \in {0, 1}
  BY WalkFacts
<1>4. Steady \subseteq Matching /\ V \in SUBSET Matching /\ V1 \in SUBSET V /\ V \in SUBSET Id
  BY <1>3 DEF SkipsPaid
<1>5. Steady' \ Shown' = V1
  BY <1>2
<1>. HIDE DEF V, V1, gone, lost
\* Among B without i, no more of V1 are before a place than of V among B, and one.
<1>6. ASSUME NEW B \in SUBSET Matching, V \in SUBSET B, NEW k \in Nat
      PROVE  /\ Cardinality(Ahead(Order, B, V, k)) \in Nat
             /\ Cardinality(Ahead(Order', B \ {i}, V1, k)) \in Nat
             /\ Cardinality(Ahead(Order', B \ {i}, V1, k)) <= Cardinality(Ahead(Order, B, V, k)) + gone
  <2>. DEFINE C == B \ {i}
  <2>1. /\ B \in SUBSET Tasks /\ B \in SUBSET Id /\ C \in SUBSET B /\ C \in SUBSET Id
        /\ i \notin C /\ IsFiniteSet(B) /\ TotalOrder(Order, B) /\ V1 \in SUBSET B
    BY <1>3, <1>4, <1>6, WalkFacts, IdSets
  <2>2. Cardinality(B \ C) = IF i \in B THEN 1 ELSE 0
    BY <2>1, CountOne
  <2>3. Cardinality(B \ C) \in Nat /\ Cardinality(B \ C) <= gone
    <3>1. i \in B => gone = 1
      BY <1>2, <1>6 DEF gone
    <3>. QED  BY <1>3, <2>2, <3>1
  <2>. HIDE DEF C
  <2>4. \A u \in V1 : u \in Id /\ u # i
    BY <1>4 DEF V1
  <2>5. Ahead(Order', C, V1, k) = Ahead(Order, C, V1, k)
    BY <1>2, <2>1, <2>4 DEF Ahead
  <2>6. Cardinality(Ahead(Order, C, V1, k)) <= Cardinality(Ahead(Order, B, V1, k)) + Cardinality(B \ C)
    BY <2>1, AheadOfPart
  <2>7. /\ Ahead(Order, B, V, k) \in SUBSET Id /\ Ahead(Order, C, V1, k) \in SUBSET Id
        /\ Ahead(Order, B, V1, k) \in SUBSET Ahead(Order, B, V, k)
        /\ Ahead(Order, B, V1, k) \in SUBSET Id
    BY <1>4 DEF Ahead
  <2>8. /\ Cardinality(Ahead(Order, B, V, k)) \in Nat
        /\ Cardinality(Ahead(Order, C, V1, k)) \in Nat
        /\ Cardinality(Ahead(Order, B, V1, k)) \in Nat
        /\ Cardinality(Ahead(Order, B, V1, k)) <= Cardinality(Ahead(Order, B, V, k))
    BY <2>7, IdSets
  <2>9. /\ Cardinality(Ahead(Order', C, V1, k)) \in Nat
        /\ Cardinality(Ahead(Order', C, V1, k)) <= Cardinality(Ahead(Order, B, V, k)) + gone
    BY <1>3, <2>3, <2>5, <2>6, <2>8
  <2>. QED  BY <2>8, <2>9 DEF C
<1>7. Steady' \subseteq Matching'
  BY <1>2, <1>4
<1>8. CASE pc # "items"
  <2>. DEFINE old == Cardinality(Ahead(Order, Matching, V, Reach))
              mid == Cardinality(Ahead(Order', Matching \ {i}, V1, Reach))
              new == Cardinality(Ahead(Order', Matching', V1, Reach))
  <2>1. old \in Nat /\ mid \in Nat /\ mid <= old + gone
    BY <1>3, <1>4, <1>6
  <2>2. new \in Nat /\ new <= mid
    <3>1. Matching \ {i} \in SUBSET Matching' /\ IsFiniteSet(Matching')
      BY <1>2, IdSets
    <3>2. \A u \in V1 : /\ Place(Order', Matching', u) \in Nat
                        /\ Place(Order', Matching \ {i}, u) \in Nat
                        /\ Place(Order', Matching \ {i}, u) <= Place(Order', Matching', u)
      BY <3>1, PlaceOfPart
    <3>3. Ahead(Order', Matching', V1, Reach) \in SUBSET Ahead(Order', Matching \ {i}, V1, Reach)
      <4>1. ASSUME NEW u \in V1, Place(Order', Matching', u) < Reach
            PROVE  Place(Order', Matching \ {i}, u) < Reach
        BY <1>3, <3>2, <4>1
      <4>. QED  BY <4>1 DEF Ahead
    <3>4. /\ Ahead(Order', Matching', V1, Reach) \in SUBSET Id
          /\ Ahead(Order', Matching \ {i}, V1, Reach) \in SUBSET Id
      BY <1>4 DEF Ahead
    <3>. QED  BY <3>3, <3>4, IdSets
  <2>3. old <= departures + losses
    BY <1>1, <1>8 DEF SkipsPaid, V
  <2>4. new <= departures' + losses'
    <3>. HIDE DEF old, mid, new
    <3>. QED  BY <1>1, <1>3, <2>1, <2>2, <2>3
  <2>5. ASSUME pc \in {"count", "names", "answered"}, Len(items) < query.limit
        PROVE  Cardinality(V1) <= departures' + losses'
    <3>1. Cardinality(V) <= departures + losses
      BY <2>5 DEF SkipsPaid, V
    <3>2. Cardinality(V1) <= Cardinality(V) /\ Cardinality(V) \in Nat /\ Cardinality(V1) \in Nat
      <4>1. V1 \in SUBSET Id
        BY <1>4
      <4>. QED  BY <1>4, <4>1, IdSets
    <3>. QED  BY <1>1, <1>3, <3>1, <3>2
  <2>. QED  BY <1>1, <1>2, <1>5, <1>7, <1>8, <2>4, <2>5 DEF SkipsPaid
<1>9. CASE pc = "items"
  <2>1. PICK B \in SUBSET Id, L \in SUBSET Id :
          /\ B \subseteq Matching \cap Selected /\ Steady \subseteq B /\ StaleWithin(L)
          /\ Cardinality(Ahead(Order, B, V, offset)) + Cardinality(L) <= departures + losses
    BY <1>9 DEF SkipsPaid, V
  <2>. DEFINE B1 == B \ {i}
  <2>0. PICK L1 \in SUBSET Id : L1 = IF lost = 1 THEN L \cup {i} ELSE L
    OBVIOUS
  <2>2. B1 \in SUBSET Id /\ L1 \in SUBSET Id /\ L \subseteq L1
    BY <2>0
  <2>3. StaleWithin(L1)'
    <3>1. Carries(query, table[i]) /\ r \in Row /\ ~Carries(query, r) => i \in L1
      BY <2>0 DEF lost
    <3>. QED  BY <2>1, <2>2, <3>1, WriteStale
  <2>4. Cardinality(L) \in Nat /\ Cardinality(L1) \in Nat /\ Cardinality(L1) <= Cardinality(L) + lost
    <3>1. Cardinality(L) \in Nat
      BY IdSets
    <3>2. CASE lost = 1
      BY <2>0, <3>1, <3>2, CountOne
    <3>3. CASE lost = 0
      BY <2>0, <3>1, <3>3
    <3>. QED  BY <1>3, <3>2, <3>3
  <2>5. B1 \subseteq Matching' \cap Selected' /\ Steady' \subseteq B1
    BY <1>2, <2>1
  <2>6. /\ Cardinality(Ahead(Order, B, V, offset)) \in Nat
        /\ Cardinality(Ahead(Order', B1, V1, offset)) \in Nat
        /\ Cardinality(Ahead(Order', B1, V1, offset)) <= Cardinality(Ahead(Order, B, V, offset)) + gone
    <3>1. B \in SUBSET Matching /\ V \in SUBSET B
      BY <2>1 DEF V
    <3>. QED  BY <1>3, <1>6, <3>1
  <2>. HIDE DEF B1
  <2>7. Cardinality(Ahead(Order', B1, V1, offset)) + Cardinality(L1) <= departures' + losses'
    BY <1>1, <1>3, <2>1, <2>4, <2>6
  <2>. QED  BY <1>2, <1>5, <1>7, <1>9, <2>2, <2>3, <2>5, <2>7 DEF SkipsPaid
<1>. QED  BY <1>8, <1>9

\* An arrival brings one listed task behind that place.
LEMMA WriteRepeats ==
    ASSUME Inv, RepeatsPaid, NEW i \in Id, NEW r \in Row \cup {Gone}, Write(i, r)
    PROVE  RepeatsPaid'
<1>. DEFINE come == IF Matches(query, r) THEN 1 ELSE 0
            lost == IF Carries(query, table[i]) /\ r \in Row /\ ~Carries(query, r) THEN 1 ELSE 0
<1>1. /\ pc # "done" /\ arrivals' = arrivals + come /\ losses' = losses + lost
  BY DEF Write
<1>2. /\ UNCHANGED <<query, offset, pc, ids, items, seen, Shown, Lines, Reach>>
      /\ Matching' \ {i} = Matching \ {i} /\ Selected' \ {i} = Selected \ {i}
      /\ Matching' \in SUBSET Id /\ Selected' \in SUBSET Id
      /\ i \in Matching' <=> Matches(query, r)
      /\ \A S \in SUBSET Id, u \in Id :
           i \notin S /\ u # i => Place(Order', S, u) = Place(Order, S, u)
      /\ TotalOrder(Order', Matching')
  BY WriteElsewhere
<1>3. /\ arrivals \in Nat /\ losses \in Nat /\ offset \in Nat /\ Reach \in Nat /\ Lines \in Nat
      /\ Shown \in SUBSET Id /\ Cardinality(Shown) \in Nat
      /\ Matching \in SUBSET Id /\ come \in {0, 1} /\ lost \in {0, 1}
  BY WalkFacts, IdSets
<1>. HIDE DEF come, lost
\* Among B without i, no more of the listed are behind a place than among B.
<1>4. ASSUME NEW B \in SUBSET Id, NEW k \in Nat
      PROVE  /\ Cardinality(Behind(Order, B, Shown \cap B, k)) \in Nat
             /\ Cardinality(Behind(Order', B \ {i}, Shown \cap (B \ {i}), k)) \in Nat
             /\ Cardinality(Behind(Order', B \ {i}, Shown \cap (B \ {i}), k))
                  <= Cardinality(Behind(Order, B, Shown \cap B, k))
  <2>. DEFINE C == B \ {i}
  <2>1. C \in SUBSET B /\ C \in SUBSET Id /\ i \notin C /\ IsFiniteSet(B)
    BY IdSets
  <2>. HIDE DEF C
  <2>2. \A u \in C : /\ Place(Order', C, u) = Place(Order, C, u)
                     /\ Place(Order, C, u) \in Nat /\ Place(Order, B, u) \in Nat
                     /\ Place(Order, C, u) <= Place(Order, B, u)
    <3>1. \A u \in C : u \in Id /\ u # i
      BY <2>1
    <3>. QED  BY <1>2, <2>1, <3>1, PlaceOfPart
  <2>3. Behind(Order', C, Shown \cap C, k) \in SUBSET Behind(Order, B, Shown \cap B, k)
    <3>1. ASSUME NEW u \in C, Place(Order', C, u) >= k
          PROVE  u \in B /\ Place(Order, B, u) >= k
      BY <2>1, <2>2, <3>1
    <3>. QED  BY <3>1 DEF Behind
  <2>4. /\ Behind(Order', C, Shown \cap C, k) \in SUBSET Id
        /\ Behind(Order, B, Shown \cap B, k) \in SUBSET Id
    BY <1>3 DEF Behind
  <2>5. /\ Cardinality(Behind(Order, B, Shown \cap B, k)) \in Nat
        /\ Cardinality(Behind(Order', C, Shown \cap C, k)) \in Nat
        /\ Cardinality(Behind(Order', C, Shown \cap C, k))
             <= Cardinality(Behind(Order, B, Shown \cap B, k))
    BY <2>3, <2>4, IdSets
  <2>. QED  BY <2>5 DEF C
<1>5. CASE pc # "items"
  <2>. DEFINE C   == Matching' \ {i}
              old == Cardinality(Behind(Order, Matching, Shown \cap Matching, Reach))
              mid == Cardinality(Behind(Order', C, Shown \cap C, Reach))
              new == Cardinality(Behind(Order', Matching', Shown \cap Matching', Reach))
  <2>1. old \in Nat /\ mid \in Nat /\ mid <= old
    BY <1>2, <1>3, <1>4
  <2>2. new \in Nat /\ new <= mid + come
    <3>1. /\ C \in SUBSET Matching' /\ Shown \cap Matching' \in SUBSET Matching'
          /\ IsFiniteSet(Matching') /\ (Shown \cap Matching') \cap C = Shown \cap C
      BY <1>2, IdSets
    <3>2. Cardinality(Matching' \ C) = IF i \in Matching' THEN 1 ELSE 0
      BY <1>2, CountOne
    <3>3. Cardinality(Matching' \ C) = come
      BY <1>2, <3>2 DEF come
    <3>. HIDE DEF C
    <3>4. new <= Cardinality(Behind(Order', C, (Shown \cap Matching') \cap C, Reach))
                   + Cardinality(Matching' \ C)
      BY <1>2, <1>3, <3>1, BehindOfPart
    <3>5. new \in Nat
      <4>1. Behind(Order', Matching', Shown \cap Matching', Reach) \in SUBSET Id
        BY <1>3 DEF Behind
      <4>. QED  BY <4>1, IdSets
    <3>. QED  BY <3>1, <3>3, <3>4, <3>5
  <2>3. Lines + old <= Cardinality(Shown) + arrivals + losses
    BY <1>1, <1>5 DEF RepeatsPaid
  <2>4. Lines + new <= Cardinality(Shown) + arrivals' + losses'
    <3>. HIDE DEF old, mid, new
    <3>. QED  BY <1>1, <1>3, <2>1, <2>2, <2>3
  <2>. HIDE DEF C
  <2>. QED  BY <1>1, <1>2, <1>5, <2>4 DEF RepeatsPaid
<1>6. CASE pc = "items"
  <2>1. PICK B \in SUBSET Id, W \in SUBSET Id :
          /\ B \subseteq Matching \cap Selected
          /\ (Matching \cup Selected) \ B \subseteq W /\ StaleWithin(W)
          /\ Lines + Cardinality(Behind(Order, B, Shown \cap B, offset)) + Cardinality(W)
               <= Cardinality(Shown) + arrivals + losses
    BY <1>6 DEF RepeatsPaid
  <2>. DEFINE B1 == B \ {i}
  <2>0. PICK W1 \in SUBSET Id : W1 = IF come = 1 \/ lost = 1 THEN W \cup {i} ELSE W
    OBVIOUS
  <2>2. B1 \in SUBSET Id /\ W1 \in SUBSET Id /\ W \subseteq W1
    BY <2>0
  <2>3. StaleWithin(W1)'
    <3>1. Carries(query, table[i]) /\ r \in Row /\ ~Carries(query, r) => i \in W1
      BY <2>0 DEF lost
    <3>. QED  BY <2>1, <2>2, <3>1, WriteStale
  <2>4. /\ Cardinality(W) \in Nat /\ Cardinality(W1) \in Nat
        /\ Cardinality(W1) <= Cardinality(W) + come + lost
    <3>1. Cardinality(W) \in Nat
      BY IdSets
    <3>2. CASE come = 1 \/ lost = 1
      <4>1. W1 = W \cup {i}
        BY <2>0, <3>2
      <4>2. Cardinality(W1) \in Nat /\ Cardinality(W1) <= Cardinality(W) + 1
        BY <4>1, CountOne
      <4>3. come \in Nat /\ lost \in Nat /\ 1 <= come + lost
        BY <1>3, <3>2
      <4>. QED  BY ONLY <3>1, <4>2, <4>3
    <3>3. CASE ~(come = 1 \/ lost = 1)
      <4>1. W1 = W /\ come = 0 /\ lost = 0
        BY <1>3, <2>0, <3>3
      <4>. QED  BY ONLY <3>1, <4>1
    <3>. QED  BY <3>2, <3>3
  <2>5. B1 \subseteq Matching' \cap Selected'
    BY <1>2, <2>1
  <2>6. (Matching' \cup Selected') \ B1 \subseteq W1
    <3>1. ASSUME NEW j \in (Matching' \cup Selected') \ B1, j # i
          PROVE  j \in W1
      <4>1. j \in (Matching' \ {i}) \cup (Selected' \ {i}) /\ j \notin B
        BY <3>1
      <4>2. j \in (Matching \cup Selected) \ B
        BY <1>2, <4>1
      <4>. QED  BY <2>1, <2>2, <4>2
    <3>2. ASSUME i \in Matching' \cup Selected'
          PROVE  i \in W1
      <4>1. CASE i \in Matching'
        BY <1>2, <2>0, <4>1 DEF come
      <4>2. CASE i \notin Matching'
        <5>1. table'[i] = r /\ query' = query /\ ids' = ids
          BY DEF Write, walk, Inv, TypeOK
        <5>2. r \in Row /\ ~Carries(query, r) /\ (ids # AnyTask => i \in ids)
          BY <1>2, <3>2, <4>2, <5>1 DEF Selected, Tasks, Matches
        <5>3. ids # AnyTask
          BY <1>6, <5>2 DEF Inv, Resolved, Carries
        <5>4. r # Gone
          BY <5>2, RowAssumption
        <5>. QED  BY <2>3, <5>1, <5>2, <5>3, <5>4 DEF StaleWithin
      <4>. QED  BY <4>1, <4>2
    <3>. QED  BY <3>1, <3>2
  <2>7. /\ Cardinality(Behind(Order, B, Shown \cap B, offset)) \in Nat
        /\ Cardinality(Behind(Order', B1, Shown \cap B1, offset)) \in Nat
        /\ Cardinality(Behind(Order', B1, Shown \cap B1, offset))
             <= Cardinality(Behind(Order, B, Shown \cap B, offset))
    BY <1>3, <1>4
  <2>. HIDE DEF B1
  <2>8. Lines + Cardinality(Behind(Order', B1, Shown \cap B1, offset)) + Cardinality(W1)
          <= Cardinality(Shown) + arrivals' + losses'
    BY <1>1, <1>3, <2>1, <2>4, <2>7
  <2>. QED  BY <1>2, <1>6, <2>2, <2>3, <2>5, <2>6, <2>8 DEF RepeatsPaid
<1>. QED  BY <1>5, <1>6

LEMMA StutterPaid == SkipsPaid /\ RepeatsPaid /\ UNCHANGED vars => SkipsPaid' /\ RepeatsPaid'
<1>. SUFFICES ASSUME SkipsPaid, RepeatsPaid, UNCHANGED vars PROVE SkipsPaid' /\ RepeatsPaid'
  OBVIOUS
<1>1. /\ UNCHANGED <<query, offset, pc, ids, items, table, arrivals, departures, losses>>
      /\ Matching' = Matching /\ Selected' = Selected /\ Order' = Order /\ Steady' = Steady
      /\ Shown' = Shown /\ Lines' = Lines /\ Reach' = Reach
  BY DEF vars, Matching, Selected, Tasks, Order, Steady, Shown, Lines, Reach, Paged, PageIds
<1>2. \A L \in SUBSET Id : StaleWithin(L) => StaleWithin(L)'
  BY <1>1 DEF StaleWithin
<1>3. SkipsPaid'
  BY <1>1, <1>2 DEF SkipsPaid
<1>4. RepeatsPaid'
  BY <1>1, <1>2 DEF RepeatsPaid
<1>. QED  BY <1>3, <1>4

-----------------------------------------------------------------------------
\* The results

\* The inductive invariant holds.
THEOREM InvHolds == Spec => []Inv
<1>1. Inv /\ [Next]_vars => Inv'
  <2>. SUFFICES ASSUME Inv, [Next]_vars PROVE Inv'
    OBVIOUS
  <2>. QED  BY ResolveInv, SelectInv, CountInv, ReadNamesInv, NextPageInv, WriteInv, StutterInv
            DEF Next
<1>. QED  BY InitInv, <1>1, PTL DEF Spec

\* What a walk misses and repeats is paid for.
LEMMA PaidHolds == Spec => [](SkipsPaid /\ RepeatsPaid)
<1>1. Inv /\ SkipsPaid /\ RepeatsPaid /\ [Next]_vars => SkipsPaid' /\ RepeatsPaid'
  <2>. SUFFICES ASSUME Inv, SkipsPaid, RepeatsPaid, [Next]_vars PROVE SkipsPaid' /\ RepeatsPaid'
    OBVIOUS
  <2>. QED  BY ResolvePaid, SelectPaid, CountPaid, ReadNamesPaid, NextPagePaid, WriteSkips,
               WriteRepeats, StutterPaid DEF Next
<1>. QED  BY InvHolds, InitPaid, <1>1, PTL DEF Spec

\* Type correctness: a page never holds more rows than the limit asked for,
\* and the response carries tags for each of them (the repository's list).
THEOREM TypeCorrect == Spec => []TypeOK
BY InvHolds, PTL DEF Inv

\* A response built while nobody wrote is the documented one, and a task nobody
\* wrote meanwhile is listed only if it matches (TaskService.list and the
\* repository's list, task_ids_matching and tag_names_for_many).
THEOREM ListingIsExact == Spec => []ListingExact
<1>1. Inv => ListingExact
  <2>. SUFFICES ASSUME Inv, pc = "answered" PROVE ListingExact
    BY DEF ListingExact
  <2>1. touched = {} => total = Cardinality(Matching)
    BY DEF Inv, Counted
  <2>2. touched = {} => InOrder /\ \A i \in Matching : i \in PageIds <=> OnPage(i)
    BY DEF Inv, Listed
  <2>3. \A n \in DOMAIN items : items[n].id \notin touched =>
          /\ items[n].row = table[items[n].id] /\ names[n] = items[n].row.tags
          /\ Matches(query, items[n].row)
    BY DEF Inv, Listed, Named
  <2>. QED  BY <2>1, <2>2, <2>3 DEF ListingExact, InOrder, PageIds, OnPage, Earlier
<1>. QED  BY InvHolds, <1>1, PTL

\* A walk misses no more of the tasks that matched all along than tasks left the
\* listing or lost the tags asked for (the ORDER BY of list, its window, and the
\* ids that TaskService.list passes on).
THEOREM SkipsAreBounded == Spec => []SkipsBounded
<1>1. SkipsPaid => SkipsBounded
  BY DEF SkipsPaid, SkipsBounded, Steady, Shown, Paged
<1>. QED  BY PaidHolds, <1>1, PTL

\* A walk repeats a task no more often than tasks entered the listing or lost
\* the tags asked for (the same code).
THEOREM RepeatsAreBounded == Spec => []RepeatsBounded
<1>1. Inv /\ RepeatsPaid => RepeatsBounded
  <2>. SUFFICES ASSUME Inv, RepeatsPaid, pc = "done" PROVE RepeatsBounded
    BY DEF RepeatsBounded
  <2>1. Lines = Len(seen) /\ Shown = ToSet(seen)
    BY WalkFacts DEF Lines, Shown, Paged
  <2>2. Lines <= Cardinality(Shown) + arrivals + losses
    BY DEF RepeatsPaid
  <2>3. Len(seen) \in Nat /\ Cardinality(Shown) \in Nat /\ arrivals \in Nat /\ losses \in Nat
    BY WalkFacts, IdSets
  <2>. QED  BY <2>1, <2>2, <2>3 DEF RepeatsBounded
<1>. QED  BY InvHolds, PaidHolds, <1>1, PTL
=============================================================================
