---------------------------- MODULE Outbox_proofs ---------------------------
(***************************************************************************)
(* Proofs about Outbox, for every finite set of relays, every subscription *)
(* list and every bound on events, batches, retries and faults.            *)
(***************************************************************************)
EXTENDS Outbox, NaturalFacts

-----------------------------------------------------------------------------
(***************************************************************************)
(* The inductive invariant: what the row locks exclude, what a tick has    *)
(* established about its rows, and how attempts and records are counted.   *)
(***************************************************************************)

\* Only a relay in its tick has one: the session is closed at the end of it.
TickClosed ==
    \A r \in Relay : pc[r] # "deliver" =>
        /\ batch[r] = {} /\ published[r] = {} /\ failed[r] = {}
        /\ called[r] = 0 /\ ~connected[r]

\* A tick marks rows it claimed, each one way.
MarksClaimed ==
    \A r \in Relay : Processed(r) \subseteq batch[r] /\ published[r] \cap failed[r] = {}

\* The claims of open transactions are disjoint, and their rows stay pending;
\* a relay that lost its connection still has rows that were claimed once.
LocksExclude ==
    /\ \A r, o \in Relay : connected[r] /\ connected[o] /\ r # o => batch[r] \cap batch[o] = {}
    /\ \A r \in Relay : connected[r] => batch[r] \subseteq Deliverable
    /\ \A r \in Relay, e \in Event : e \in batch[r] => row[e] # "unstaged"

\* The subscribers of the current row are called in order, and a row is
\* marked published after the last of them.
CalledReceived ==
    \A r \in Relay :
        /\ InRow(r) =>
             /\ called[r] <= Len(Subscribers[Current(r)])
             /\ \A i \in 1 .. called[r] : <<Subscribers[Current(r)][i], Current(r)>> \in received
        /\ ~InRow(r) => called[r] = 0
        /\ \A e \in published[r] : Delivery!ReceivedByAll(e)

\* The open transactions that are about to record an attempt of an event,
\* and the relays that will attempt it and cannot record it.
Recorders(e) == {r \in Relay : connected[r] /\ e \in Processed(r)}
Losers(e)    == {r \in Relay : ~connected[r] /\ e \in batch[r] \ Processed(r)}

Recorded(e) == retries[e] + Settled(e) + Cardinality(Recorders(e))

\* Every loser has used up a fault of its own.
Accounted ==
    \A e \in Event :
        /\ Recorded(e) <= attempts[e]
        /\ attempts[e] + Cardinality(Losers(e)) <= Recorded(e) + faults

DeadAtCeiling == \A e \in Event : row[e] = "dead" <=> retries[e] >= MaxRetries

Inv == /\ TypeOK /\ TickClosed /\ MarksClaimed /\ LocksExclude
       /\ CalledReceived /\ Accounted /\ DeadAtCeiling

-----------------------------------------------------------------------------
\* The current row, and facts about sets of relays.

LEMMA OldestChosen ==
    ASSUME NEW S \in SUBSET Event, S # {}
    PROVE  (CHOOSE e \in S : \A o \in S : e <= o) \in S
<1>1. S \in SUBSET Nat
  BY SizeAssumption DEF Event
<1>2. \E e \in S : \A o \in S : e <= o
  BY <1>1, LeastElement
<1>. QED  BY <1>2

LEMMA CurrentClaimed ==
    ASSUME TypeOK, MarksClaimed, NEW r \in Relay, InRow(r)
    PROVE  Current(r) \in batch[r] \ Processed(r) /\ Current(r) \in Event
<1>1. batch[r] \ Processed(r) \in SUBSET Event /\ batch[r] \ Processed(r) # {}
  BY DEF TypeOK, MarksClaimed, InRow
<1>. QED  BY <1>1, OldestChosen DEF Current

\* A relay whose claims and marks stay has the same current row.
LEMMA CurrentFrame ==
    ASSUME NEW o, batch'[o] = batch[o], published'[o] = published[o], failed'[o] = failed[o]
    PROVE  Processed(o)' = Processed(o) /\ Current(o)' = Current(o)
BY DEF Processed, Current

LEMMA RelayCount ==
    ASSUME NEW S \in SUBSET Relay
    PROVE  IsFiniteSet(S) /\ Cardinality(S) \in Nat
BY RelayAssumption, FS_Subset, FS_CardinalityType

LEMMA CountOneMore ==
    ASSUME NEW S \in SUBSET Relay, NEW r \in Relay, r \notin S
    PROVE  Cardinality(S \cup {r}) = Cardinality(S) + 1
BY RelayCount, FS_AddElement

LEMMA CountOneLess ==
    ASSUME NEW S \in SUBSET Relay, NEW r \in S
    PROVE  Cardinality(S \ {r}) = Cardinality(S) - 1
BY RelayCount, FS_RemoveElement

LEMMA CountNone == Cardinality({}) = 0
BY FS_EmptySet

-----------------------------------------------------------------------------
LEMMA InitInv == Init => Inv
<1>. SUFFICES ASSUME Init
              PROVE  Inv
  OBVIOUS
<1>. USE DEF Init
<1>1. TypeOK
  BY SizeAssumption DEF TypeOK
<1>2. TickClosed /\ MarksClaimed /\ LocksExclude
  BY DEF TickClosed, MarksClaimed, Processed, LocksExclude
<1>3. CalledReceived
  BY DEF CalledReceived, InRow
<1>4. Accounted
  <2>. SUFFICES ASSUME NEW e \in Event
                PROVE  /\ Recorded(e) <= attempts[e]
                       /\ attempts[e] + Cardinality(Losers(e)) <= Recorded(e) + faults
    BY DEF Accounted
  <2>1. Recorders(e) = {} /\ Losers(e) = {}
    BY DEF Recorders, Losers, Processed
  <2>2. Settled(e) = 0
    BY DEF Settled
  <2>. QED  BY <2>1, <2>2, CountNone DEF Recorded
<1>5. DeadAtCeiling
  BY SizeAssumption DEF DeadAtCeiling
<1>. QED  BY <1>1, <1>2, <1>3, <1>4, <1>5 DEF Inv

\* The types, action by action.
LEMMA TypeStep ==
    ASSUME Inv, [Next]_vars
    PROVE  TypeOK'
<1>. USE DEF TypeOK, Inv, table, tick, prune, world, Goto
<1>1. ASSUME NEW e \in Event, Stage(e)
      PROVE  TypeOK'
  BY <1>1 DEF Stage
<1>2. ASSUME NEW r \in Relay, Start(r) \/ Stop(r) \/ Leave(r) \/ Rest(r) \/ Wake(r)
      PROVE  TypeOK'
  BY <1>2 DEF Start, Stop, Leave, Rest, Wake, Down, NextRound
<1>3. ASSUME NEW r \in Relay, Claim(r)
      PROVE  TypeOK'
  BY <1>3 DEF Claim, Deliverable
<1>4. ASSUME NEW r \in Relay, Handle(r)
      PROVE  TypeOK'
  <2>1. Current(r) \in Event
    BY <1>4, CurrentClaimed DEF Handle
  <2>2. Subscribers[Current(r)] \in Seq(Handler) /\ called[r] + 1 \in 1 .. Len(Subscribers[Current(r)])
    BY <1>4, <2>1, SubscribersAssumption DEF Handle
  <2>3. Subscribers[Current(r)][called[r] + 1] \in Handler
    BY <2>2
  <2>. QED  BY <1>4, <2>1, <2>3 DEF Handle
<1>5. ASSUME NEW r \in Relay, Fail(r) \/ Delivered(r)
      PROVE  TypeOK'
  <2>1. Current(r) \in Event
    BY <1>5, CurrentClaimed DEF Fail, Delivered
  <2>2. Attempted(r)
    BY <1>5 DEF Fail, Delivered
  <2>3. attempts' \in [Event -> Nat] /\ called' \in [Relay -> Nat]
    BY <2>1, <2>2 DEF Attempted
  <2>4. \/ UNCHANGED failed /\ published' = [published EXCEPT ![r] = @ \cup {Current(r)}]
        \/ UNCHANGED published /\ failed' = [failed EXCEPT ![r] = @ \cup {Current(r)}]
    BY <1>5 DEF Fail, Delivered
  <2>5. published' \in [Relay -> SUBSET Event] /\ failed' \in [Relay -> SUBSET Event]
    BY <2>1, <2>4
  <2>. QED  BY <2>2, <2>3, <2>5 DEF Attempted
<1>6. ASSUME NEW r \in Relay, Commit(r)
      PROVE  TypeOK'
  <2>1. CASE connected[r]
    <3>1. \A e \in failed[r] : e \in Event /\ row[e] = "pending" /\ retries[e] < MaxRetries
      BY <2>1, SizeAssumption
         DEF LocksExclude, MarksClaimed, Processed, Deliverable, DeadAtCeiling
    <3>2. row' \in [Event -> {"unstaged", "pending", "published", "dead", "purged"}]
      BY <1>6, <2>1 DEF Commit, Outcome
    <3>3. retries' \in [Event -> 0 .. MaxRetries]
      BY <1>6, <2>1, <3>1, SizeAssumption DEF Commit, Outcome
    <3>. QED  BY <1>6, <3>2, <3>3 DEF Commit, EndTick
  <2>2. CASE ~connected[r]
    BY <1>6, <2>2 DEF Commit, EndTick
  <2>. QED  BY <2>1, <2>2
<1>7. ASSUME NEW r \in Relay, StartCleanup(r)
      PROVE  TypeOK'
  BY <1>7 DEF StartCleanup
<1>8. ASSUME NEW r \in Relay, PurgeBatch(r)
      PROVE  TypeOK'
  <2>1. PICK S \in SUBSET {e \in cutoff[r] : row[e] = "published"} :
          /\ row' = [e \in Event |-> IF e \in S THEN "purged" ELSE row[e]]
          /\ IF Cardinality(S) < PurgeBatchSize \/ passes[r] + 1 = PurgeMaxBatches
             THEN EndPrune(r) /\ NextRound(r)
             ELSE passes' = [passes EXCEPT ![r] = @ + 1] /\ UNCHANGED <<pc, full, cutoff>>
    BY <1>8 DEF PurgeBatch
  <2>2. row' \in [Event -> {"unstaged", "pending", "published", "dead", "purged"}]
    BY <2>1
  <2>3. CASE EndPrune(r) /\ NextRound(r)
    BY <1>8, <2>2, <2>3, SizeAssumption DEF PurgeBatch, EndPrune, NextRound
  <2>4. CASE /\ passes[r] + 1 # PurgeMaxBatches
             /\ passes' = [passes EXCEPT ![r] = @ + 1] /\ UNCHANGED <<pc, full, cutoff>>
    BY <1>8, <2>2, <2>4, SizeAssumption DEF PurgeBatch
  <2>. QED  BY <2>1, <2>3, <2>4
<1>9. ASSUME NEW r \in Relay, Crash(r) \/ Disconnect(r) \/ TickFails(r) \/ CleanupFails(r)
      PROVE  TypeOK'
  <2>1. faults' \in 0 .. MaxFaults
    BY <1>9, SizeAssumption DEF Crash, Disconnect, TickFails, CleanupFails, Fault
  <2>2. CASE Crash(r)
    BY <2>1, <2>2, SizeAssumption DEF Crash, Fault, Down, EndTick, EndPrune
  <2>3. CASE Disconnect(r) \/ TickFails(r)
    BY <2>1, <2>3 DEF Disconnect, TickFails, Fault
  <2>4. CASE CleanupFails(r)
    BY <2>1, <2>4, SizeAssumption DEF CleanupFails, Fault, EndPrune, NextRound
  <2>. QED  BY <1>9, <2>2, <2>3, <2>4
<1>10. CASE UNCHANGED vars
  BY <1>10 DEF vars
<1>. QED  BY <1>1, <1>2, <1>3, <1>4, <1>5, <1>6, <1>7, <1>8, <1>9, <1>10 DEF Next, Work

-----------------------------------------------------------------------------
\* A relay whose claims, marks and connection stay counts as it did.
LEMMA CountFrame ==
    ASSUME UNCHANGED <<batch, connected, published, failed>>, NEW e
    PROVE  Recorders(e)' = Recorders(e) /\ Losers(e)' = Losers(e)
BY DEF Recorders, Losers, Processed

LEMMA CountTypes ==
    ASSUME Inv, NEW e \in Event
    PROVE  /\ Cardinality(Recorders(e)) \in Nat /\ Cardinality(Losers(e)) \in Nat
           /\ Settled(e) \in {0, 1} /\ retries[e] \in Nat /\ attempts[e] \in Nat /\ faults \in Nat
<1>1. Recorders(e) \in SUBSET Relay /\ Losers(e) \in SUBSET Relay
  BY DEF Recorders, Losers
<1>2. Cardinality(Recorders(e)) \in Nat /\ Cardinality(Losers(e)) \in Nat
  BY <1>1, RelayCount
<1>. QED  BY <1>2, SizeAssumption DEF Inv, TypeOK, Settled

\* Outside its tick a relay changes neither the claims nor the records, and a
\* fault only makes room for a lost one.
LEMMA OutsideTickInv ==
    ASSUME Inv, TypeOK', UNCHANGED <<table, tick, received, attempts>>,
           faults' \in Nat, faults <= faults',
           \A r \in Relay : pc'[r] = "deliver" <=> pc[r] = "deliver"
    PROVE  Inv'
<1>. USE DEF Inv, table, tick
<1>1. TickClosed'
  BY DEF TickClosed
<1>2. MarksClaimed' /\ LocksExclude'
  BY DEF MarksClaimed, Processed, LocksExclude, Deliverable
<1>3. CalledReceived'
  <2>1. \A r \in Relay : (InRow(r)' <=> InRow(r)) /\ Current(r)' = Current(r)
    BY CurrentFrame DEF InRow, Processed
  <2>2. \A e : Delivery!ReceivedByAll(e)' <=> Delivery!ReceivedByAll(e)
    BY DEF Delivery!ReceivedByAll
  <2>. QED  BY <2>1, <2>2 DEF CalledReceived
<1>4. Accounted'
  <2>. SUFFICES ASSUME NEW e \in Event
                PROVE  /\ Recorded(e)' <= attempts'[e]
                       /\ attempts'[e] + Cardinality(Losers(e)') <= Recorded(e)' + faults'
    BY DEF Accounted
  <2>1. Recorded(e)' = Recorded(e) /\ Losers(e)' = Losers(e)
    BY CountFrame DEF Recorded, Settled
  <2>2. Recorded(e) \in Nat
    BY CountTypes DEF Recorded
  <2>. QED  BY <2>1, <2>2, CountTypes DEF Accounted
<1>5. DeadAtCeiling'
  BY DEF DeadAtCeiling
<1>. QED  BY <1>1, <1>2, <1>3, <1>4, <1>5

\* A change of rows that no open transaction has claimed, and of no retry.
LEMMA RowsInv ==
    ASSUME Inv, TypeOK', UNCHANGED <<retries, tick, received, attempts, faults>>,
           \A r \in Relay : pc'[r] = "deliver" <=> pc[r] = "deliver",
           \A e \in Event : \/ row'[e] = row[e]
                            \/ row[e] = "unstaged" /\ row'[e] = "pending"
                            \/ row[e] = "published" /\ row'[e] = "purged"
    PROVE  Inv'
<1>. USE DEF Inv, table, tick
<1>1. TickClosed'
  BY DEF TickClosed
<1>2. MarksClaimed' /\ LocksExclude'
  BY DEF MarksClaimed, Processed, LocksExclude, Deliverable
<1>3. CalledReceived'
  <2>1. \A r \in Relay : (InRow(r)' <=> InRow(r)) /\ Current(r)' = Current(r)
    BY CurrentFrame DEF InRow, Processed
  <2>2. \A e : Delivery!ReceivedByAll(e)' <=> Delivery!ReceivedByAll(e)
    BY DEF Delivery!ReceivedByAll
  <2>. QED  BY <2>1, <2>2 DEF CalledReceived
<1>4. Accounted'
  <2>1. ASSUME NEW e \in Event
        PROVE  Recorded(e)' = Recorded(e) /\ Losers(e)' = Losers(e)
    BY CountFrame DEF Recorded, Settled
  <2>. QED  BY <2>1 DEF Accounted
<1>5. DeadAtCeiling'
  BY DEF DeadAtCeiling
<1>. QED  BY <1>1, <1>2, <1>3, <1>4, <1>5

LEMMA ClaimInv ==
    ASSUME Inv, TypeOK', NEW r \in Relay, Claim(r)
    PROVE  Inv'
<1>. USE DEF Inv
<1>1. PICK S \in SUBSET (Deliverable \ Locked) : batch' = [batch EXCEPT ![r] = S]
  BY DEF Claim
<1>2. /\ connected' = [connected EXCEPT ![r] = TRUE] /\ pc' = [pc EXCEPT ![r] = "deliver"]
      /\ UNCHANGED <<row, retries, published, failed, called, world>>
  BY DEF Claim, Goto, table
<1>3. batch[r] = {} /\ published[r] = {} /\ failed[r] = {} /\ called[r] = 0 /\ ~connected[r]
  BY DEF Claim, TickClosed
<1>4. batch'[r] = S /\ connected'[r] /\ S \subseteq Event
  BY <1>1, <1>2 DEF TypeOK, Deliverable
<1>5. \A o \in Relay \ {r} : batch'[o] = batch[o] /\ connected'[o] = connected[o] /\ pc'[o] = pc[o]
  BY <1>1, <1>2 DEF TypeOK
<1>6. TickClosed'
  BY <1>2, <1>4, <1>5 DEF TickClosed, TypeOK
<1>7. MarksClaimed'
  BY <1>2, <1>3, <1>5 DEF MarksClaimed, Processed
<1>8. LocksExclude'
  <2>1. \A o \in Relay \ {r} : connected[o] => S \cap batch[o] = {}
    BY DEF Locked
  <2>2. S \subseteq Deliverable
    OBVIOUS
  <2>. QED  BY <1>2, <1>4, <1>5, <2>1, <2>2 DEF LocksExclude, Deliverable
<1>9. CalledReceived'
  <2>1. \A o \in Relay \ {r} : (InRow(o)' <=> InRow(o)) /\ Current(o)' = Current(o)
    BY <1>2, <1>5, CurrentFrame DEF InRow, Processed
  <2>2. \A e : Delivery!ReceivedByAll(e)' <=> Delivery!ReceivedByAll(e)
    BY <1>2 DEF Delivery!ReceivedByAll, world
  <2>3. InRow(r)' => 0 <= Len(Subscribers[Current(r)])'
    <3>. SUFFICES ASSUME InRow(r)'
                  PROVE  0 <= Len(Subscribers[Current(r)])'
      OBVIOUS
    <3>1. S \in SUBSET Event /\ S # {}
      BY <1>2, <1>3, <1>4 DEF InRow, Processed
    <3>2. Current(r)' = CHOOSE e \in S : \A o \in S : e <= o
      BY <1>2, <1>3, <1>4 DEF Current, Processed
    <3>. QED  BY <3>1, <3>2, OldestChosen, SubscribersAssumption
  <2>. QED  BY <1>2, <1>3, <2>1, <2>2, <2>3 DEF CalledReceived, world
<1>10. Accounted'
  <2>. SUFFICES ASSUME NEW e \in Event
                PROVE  Recorders(e)' = Recorders(e) /\ Losers(e)' = Losers(e)
    BY <1>2 DEF Accounted, Recorded, Settled, world
  <2>. QED  BY <1>2, <1>3, <1>4, <1>5 DEF Recorders, Losers, Processed
<1>11. DeadAtCeiling'
  BY <1>2 DEF DeadAtCeiling
<1>. QED  BY <1>6, <1>7, <1>8, <1>9, <1>10, <1>11

LEMMA HandleInv ==
    ASSUME Inv, TypeOK', NEW r \in Relay, Handle(r)
    PROVE  Inv'
<1>. USE DEF Inv
<1>1. /\ UNCHANGED <<row, retries, pc, batch, connected, published, failed, attempts, faults>>
      /\ called' = [called EXCEPT ![r] = @ + 1]
      /\ received' = received \cup {<<Subscribers[Current(r)][called[r] + 1], Current(r)>>}
      /\ InRow(r) /\ called[r] < Len(Subscribers[Current(r)])
  BY DEF Handle, table
<1>2. TickClosed'
  BY <1>1 DEF TickClosed, InRow, TypeOK
<1>3. MarksClaimed' /\ LocksExclude'
  BY <1>1 DEF MarksClaimed, Processed, LocksExclude, Deliverable
<1>4. CalledReceived'
  <2>1. \A o \in Relay : (InRow(o)' <=> InRow(o)) /\ Current(o)' = Current(o)
    BY <1>1, CurrentFrame DEF InRow, Processed
  <2>2. \A e : Delivery!ReceivedByAll(e) => Delivery!ReceivedByAll(e)'
    BY <1>1 DEF Delivery!ReceivedByAll
  <2>3. called[r] \in Nat /\ called'[r] = called[r] + 1
    BY <1>1 DEF TypeOK
  <2>4. \A i \in 1 .. called'[r] : <<Subscribers[Current(r)][i], Current(r)>> \in received'
    <3>1. \A i \in 1 .. called'[r] : i \in 1 .. called[r] \/ i = called[r] + 1
      BY <2>3
    <3>. QED  BY <1>1, <3>1 DEF CalledReceived
  <2>5. \A o \in Relay \ {r} : called'[o] = called[o]
    BY <1>1 DEF TypeOK
  <2>. QED  BY <1>1, <2>1, <2>2, <2>3, <2>4, <2>5 DEF CalledReceived
<1>5. Accounted'
  BY <1>1, CountFrame DEF Accounted, Recorded, Settled
<1>6. DeadAtCeiling'
  BY <1>1 DEF DeadAtCeiling
<1>. QED  BY <1>2, <1>3, <1>4, <1>5, <1>6

\* The row whose turn it is gets its mark, published only after its last
\* subscriber.
LEMMA AttemptInv ==
    ASSUME Inv, TypeOK', NEW r \in Relay, Fail(r) \/ Delivered(r)
    PROVE  Inv'
<1>. USE DEF Inv
<1>. DEFINE c == Current(r)
<1>1. /\ UNCHANGED <<row, retries, pc, batch, connected, received, faults>>
      /\ called' = [called EXCEPT ![r] = 0]
      /\ attempts' = [attempts EXCEPT ![c] = @ + 1]
      /\ InRow(r)
  BY DEF Fail, Delivered, Attempted, table
<1>2. c \in batch[r] \ Processed(r) /\ c \in Event
  BY <1>1, CurrentClaimed
<1>3. \/ /\ published' = [published EXCEPT ![r] = @ \cup {c}] /\ failed' = failed
         /\ called[r] = Len(Subscribers[c])
      \/ published' = published /\ failed' = [failed EXCEPT ![r] = @ \cup {c}]
  BY DEF Fail, Delivered
<1>4. \A o \in Relay \ {r} : /\ called'[o] = called[o] /\ published'[o] = published[o]
                             /\ failed'[o] = failed[o]
  BY <1>1, <1>3 DEF TypeOK
<1>5. Processed(r)' = Processed(r) \cup {c}
  BY <1>3 DEF Processed, TypeOK
<1>6. TickClosed'
  BY <1>1, <1>4 DEF TickClosed, InRow
<1>7. MarksClaimed'
  <2>1. Processed(r)' \subseteq batch'[r]
    BY <1>1, <1>2, <1>5 DEF MarksClaimed
  <2>2. published'[r] \cap failed'[r] = {}
    BY <1>2, <1>3 DEF MarksClaimed, Processed, TypeOK
  <2>. QED  BY <1>1, <1>4, <2>1, <2>2 DEF MarksClaimed, Processed
<1>8. LocksExclude'
  BY <1>1 DEF LocksExclude, Deliverable
<1>9. CalledReceived'
  <2>1. \A o \in Relay \ {r} : (InRow(o)' <=> InRow(o)) /\ Current(o)' = Current(o)
    BY <1>1, <1>4, CurrentFrame DEF InRow, Processed
  <2>2. \A e : Delivery!ReceivedByAll(e)' <=> Delivery!ReceivedByAll(e)
    BY <1>1 DEF Delivery!ReceivedByAll
  <2>3. \A e \in published'[r] : Delivery!ReceivedByAll(e)
    <3>1. called[r] = Len(Subscribers[c]) => Delivery!ReceivedByAll(c)
      <4>1. DOMAIN Subscribers[c] = 1 .. Len(Subscribers[c])
        BY <1>2, SubscribersAssumption
      <4>. QED  BY <1>1, <4>1 DEF CalledReceived, Delivery!ReceivedByAll
    <3>. QED  BY <1>3, <3>1 DEF CalledReceived, TypeOK
  <2>4. called'[r] = 0 /\ (InRow(r)' => 0 <= Len(Subscribers[Current(r)])')
    <3>. SUFFICES ASSUME InRow(r)'
                  PROVE  0 <= Len(Subscribers[Current(r)])'
      BY <1>1 DEF TypeOK
    <3>. DEFINE S == batch[r] \ (Processed(r) \cup {c})
    <3>1. S \in SUBSET Event /\ S # {}
      BY <1>1, <1>2, <1>5 DEF InRow, MarksClaimed, TypeOK
    <3>2. Current(r)' = CHOOSE e \in S : \A o \in S : e <= o
      BY <1>1, <1>5 DEF Current
    <3>. QED  BY <3>1, <3>2, OldestChosen, SubscribersAssumption
  <2>. QED  BY <1>4, <2>1, <2>2, <2>3, <2>4, <1>1 DEF CalledReceived
<1>10. Accounted'
  <2>. SUFFICES ASSUME NEW e \in Event
                PROVE  /\ Recorded(e)' <= attempts'[e]
                       /\ attempts'[e] + Cardinality(Losers(e)') <= Recorded(e)' + faults'
    BY DEF Accounted
  <2>1. /\ Recorded(e) <= attempts[e]
        /\ attempts[e] + Cardinality(Losers(e)) <= Recorded(e) + faults
    BY DEF Accounted
  <2>2. Settled(e)' = Settled(e)
    BY <1>1 DEF Settled
  <2>3. CASE e # c
    <3>1. Recorders(e)' = Recorders(e) /\ Losers(e)' = Losers(e)
      BY <1>1, <1>4, <1>5, <2>3 DEF Recorders, Losers, Processed
    <3>2. attempts'[e] = attempts[e]
      BY <1>1, <2>3 DEF TypeOK
    <3>. QED  BY <1>1, <2>1, <2>2, <3>1, <3>2 DEF Recorded
  <2>4. CASE e = c /\ connected[r]
    <3>1. Recorders(e)' = Recorders(e) \cup {r} /\ r \notin Recorders(e)
      BY <1>1, <1>2, <1>4, <1>5, <2>4 DEF Recorders, Processed
    <3>2. Losers(e)' = Losers(e)
      BY <1>1, <1>4, <2>4 DEF Losers, Processed
    <3>3. attempts'[e] = attempts[e] + 1
      BY <1>1, <1>2, <2>4 DEF TypeOK
    <3>4. Cardinality(Recorders(e)') = Cardinality(Recorders(e)) + 1
      BY <3>1, CountOneMore DEF Recorders
    <3>. QED  BY <1>1, <2>1, <2>2, <3>2, <3>3, <3>4, CountTypes DEF Recorded
  <2>5. CASE e = c /\ ~connected[r]
    <3>1. Recorders(e)' = Recorders(e)
      BY <1>1, <1>4, <2>5 DEF Recorders, Processed
    <3>2. Losers(e)' = Losers(e) \ {r} /\ r \in Losers(e)
      BY <1>1, <1>2, <1>4, <1>5, <2>5 DEF Losers, Processed
    <3>3. attempts'[e] = attempts[e] + 1
      BY <1>1, <1>2, <2>5 DEF TypeOK
    <3>4. Cardinality(Losers(e)') = Cardinality(Losers(e)) - 1
      BY <3>2, CountOneLess DEF Losers
    <3>. QED  BY <1>1, <2>1, <2>2, <3>1, <3>3, <3>4, CountTypes DEF Recorded
  <2>. QED  BY <2>3, <2>4, <2>5
<1>11. DeadAtCeiling'
  BY <1>1 DEF DeadAtCeiling
<1>. QED  BY <1>6, <1>7, <1>8, <1>9, <1>10, <1>11

\* Closing a tick leaves the other relays' claims and marks alone.
LEMMA ClosedTick ==
    ASSUME Inv, NEW r \in Relay, EndTick(r), pc'[r] # "deliver",
           \A o \in Relay \ {r} : pc'[o] = pc[o]
    PROVE  /\ TickClosed' /\ MarksClaimed'
           /\ \A o \in Relay \ {r} : /\ batch'[o] = batch[o] /\ connected'[o] = connected[o]
                                     /\ published'[o] = published[o] /\ failed'[o] = failed[o]
                                     /\ called'[o] = called[o]
           /\ batch'[r] = {} /\ published'[r] = {} /\ failed'[r] = {} /\ called'[r] = 0
           /\ ~connected'[r]
           /\ \A e : /\ Recorders(e)' = Recorders(e) \ {r}
                     /\ Losers(e)' = Losers(e) \ {r}
<1>. USE DEF Inv, TypeOK, EndTick
<1>1. /\ \A o \in Relay \ {r} : /\ batch'[o] = batch[o] /\ connected'[o] = connected[o]
                                /\ published'[o] = published[o] /\ failed'[o] = failed[o]
                                /\ called'[o] = called[o]
      /\ batch'[r] = {} /\ published'[r] = {} /\ failed'[r] = {} /\ called'[r] = 0
      /\ ~connected'[r]
  OBVIOUS
<1>2. TickClosed' /\ MarksClaimed'
  BY <1>1 DEF TickClosed, MarksClaimed, Processed
<1>3. ASSUME NEW e
      PROVE  Recorders(e)' = Recorders(e) \ {r} /\ Losers(e)' = Losers(e) \ {r}
  BY <1>1 DEF Recorders, Losers, Processed
<1>. QED  BY <1>1, <1>2, <1>3

LEMMA ClosedCalled ==
    ASSUME Inv, NEW r \in Relay, EndTick(r), pc'[r] # "deliver", UNCHANGED received,
           \A o \in Relay \ {r} : pc'[o] = pc[o]
    PROVE  CalledReceived'
<1>1. \A o \in Relay \ {r} : (InRow(o)' <=> InRow(o)) /\ Current(o)' = Current(o)
  BY ClosedTick, CurrentFrame DEF InRow, Processed
<1>2. \A e : Delivery!ReceivedByAll(e)' <=> Delivery!ReceivedByAll(e)
  BY DEF Delivery!ReceivedByAll
<1>3. ~InRow(r)'
  BY DEF InRow
<1>. QED  BY <1>1, <1>2, <1>3, ClosedTick DEF Inv, CalledReceived

LEMMA CommitInv ==
    ASSUME Inv, TypeOK', NEW r \in Relay, Commit(r)
    PROVE  Inv'
<1>. USE DEF Inv
<1>1. /\ pc[r] = "deliver" /\ batch[r] = Processed(r)
      /\ EndTick(r) /\ pc' = [pc EXCEPT ![r] = "ticked"]
      /\ UNCHANGED <<received, attempts, faults>>
  BY DEF Commit, Goto, world
<1>2. pc'[r] # "deliver" /\ \A o \in Relay \ {r} : pc'[o] = pc[o]
  BY <1>1 DEF TypeOK
<1>3. TickClosed' /\ MarksClaimed' /\ CalledReceived'
  BY <1>1, <1>2, ClosedTick, ClosedCalled
<1>4. CASE ~connected[r]
  <2>1. UNCHANGED <<row, retries>>
    BY <1>4 DEF Commit, table
  <2>2. LocksExclude'
    BY <1>1, <1>2, <2>1, ClosedTick DEF LocksExclude, Deliverable
  <2>3. ASSUME NEW e \in Event
        PROVE  Recorders(e)' = Recorders(e) /\ Losers(e)' = Losers(e)
    <3>1. r \notin Recorders(e) /\ r \notin Losers(e)
      BY <1>1, <1>4 DEF Recorders, Losers
    <3>2. Recorders(e)' = Recorders(e) \ {r} /\ Losers(e)' = Losers(e) \ {r}
      BY <1>1, <1>2, ClosedTick
    <3>. QED  BY <3>1, <3>2, Zenon
  <2>4. Accounted'
    BY <1>1, <2>1, <2>3 DEF Accounted, Recorded, Settled
  <2>5. DeadAtCeiling'
    BY <2>1 DEF DeadAtCeiling
  <2>. QED  BY <1>3, <2>2, <2>4, <2>5
<1>5. CASE connected[r]
  <2>1. Outcome(r)
    BY <1>5 DEF Commit
  <2>2. \A e \in batch[r] : e \in Event /\ row[e] = "pending" /\ retries[e] < MaxRetries
    BY <1>5, SizeAssumption DEF LocksExclude, Deliverable, DeadAtCeiling, TypeOK
  <2>3. \A e \in Event : e \notin batch[r] => row'[e] = row[e] /\ retries'[e] = retries[e]
    BY <1>1, <2>1 DEF Outcome, Processed
  <2>4. \A e \in published[r] : row'[e] = "published" /\ retries'[e] = retries[e]
    BY <1>1, <2>1, <2>2 DEF Outcome, Processed, MarksClaimed
  <2>5. \A e \in failed[r] : /\ retries'[e] = retries[e] + 1
                             /\ row'[e] = IF retries[e] + 1 >= MaxRetries THEN "dead"
                                          ELSE "pending"
    BY <1>1, <2>1, <2>2 DEF Outcome, Processed, MarksClaimed
  <2>6. LocksExclude'
    <3>1. \A o, p \in Relay : connected'[o] /\ connected'[p] /\ o # p
                                => batch'[o] \cap batch'[p] = {}
      BY <1>1, <1>2, ClosedTick DEF LocksExclude
    <3>2. ASSUME NEW o \in Relay, connected'[o], NEW e \in batch'[o]
          PROVE  e \in Event /\ row'[e] = "pending"
      <4>1. o # r /\ connected[o] /\ e \in batch[o]
        BY <1>1, <1>2, <3>2, ClosedTick
      <4>. QED  BY <1>5, <2>3, <4>1 DEF LocksExclude, Deliverable
    <3>3. ASSUME NEW o \in Relay, NEW e \in Event, e \in batch'[o]
          PROVE  row'[e] # "unstaged"
      <4>1. row[e] # "unstaged"
        BY <1>1, <1>2, <3>3, ClosedTick DEF LocksExclude
      <4>. QED  BY <1>1, <2>3, <2>4, <2>5, <4>1 DEF Processed
    <3>. QED  BY <3>1, <3>2, <3>3 DEF LocksExclude, Deliverable
  <2>7. Accounted'
    <3>. SUFFICES ASSUME NEW e \in Event
                  PROVE  Recorded(e)' = Recorded(e) /\ Losers(e)' = Losers(e)
      BY <1>1 DEF Accounted
    <3>1. Losers(e)' = Losers(e)
      BY <1>1, <1>2, <1>5, ClosedTick DEF Losers
    <3>2. CASE e \notin batch[r]
      <4>1. Recorders(e)' = Recorders(e)
        BY <1>1, <1>2, <3>2, ClosedTick DEF Recorders
      <4>. QED  BY <2>3, <3>1, <3>2, <4>1 DEF Recorded, Settled
    <3>3. CASE e \in batch[r]
      <4>1. Recorders(e)' = Recorders(e) \ {r} /\ r \in Recorders(e)
        BY <1>1, <1>2, <1>5, <3>3, ClosedTick DEF Recorders
      <4>2. Cardinality(Recorders(e)') = Cardinality(Recorders(e)) - 1
        BY <4>1, CountOneLess DEF Recorders
      <4>3. Settled(e) = 0
        BY <2>2, <3>3 DEF Settled
      <4>4. CASE e \in published[r]
        <5>1. Settled(e)' = 1 /\ retries'[e] = retries[e]
          BY <2>4, <4>4 DEF Settled
        <5>. QED  BY <3>1, <4>2, <4>3, <5>1, CountTypes DEF Recorded
      <4>5. CASE e \in failed[r]
        <5>1. Settled(e)' = 0 /\ retries'[e] = retries[e] + 1
          BY <2>5, <4>5 DEF Settled
        <5>. QED  BY <3>1, <4>2, <4>3, <5>1, CountTypes DEF Recorded
      <4>. QED  BY <1>1, <3>3, <4>4, <4>5 DEF Processed
    <3>. QED  BY <3>2, <3>3
  <2>8. DeadAtCeiling'
    <3>. SUFFICES ASSUME NEW e \in Event
                  PROVE  row'[e] = "dead" <=> retries'[e] >= MaxRetries
      BY DEF DeadAtCeiling
    <3>1. CASE e \in failed[r]
      BY <2>5, <3>1
    <3>2. CASE e \in published[r]
      BY <1>1, <2>2, <2>4, <3>2, SizeAssumption DEF Processed, TypeOK
    <3>3. CASE e \notin batch[r]
      BY <2>3, <3>3 DEF DeadAtCeiling
    <3>. QED  BY <1>1, <3>1, <3>2, <3>3 DEF Processed
  <2>. QED  BY <1>3, <2>6, <2>7, <2>8
<1>. QED  BY <1>4, <1>5

LEMMA CrashInv ==
    ASSUME Inv, TypeOK', NEW r \in Relay, Crash(r)
    PROVE  Inv'
<1>. USE DEF Inv
<1>1. /\ EndTick(r) /\ pc' = [pc EXCEPT ![r] = "down"] /\ faults' = faults + 1
      /\ UNCHANGED <<row, retries, received, attempts>>
  BY DEF Crash, Down, Goto, Fault, table
<1>2. pc'[r] # "deliver" /\ \A o \in Relay \ {r} : pc'[o] = pc[o]
  BY <1>1 DEF TypeOK
<1>3. TickClosed' /\ MarksClaimed' /\ CalledReceived'
  BY <1>1, <1>2, ClosedTick, ClosedCalled
<1>4. LocksExclude'
  BY <1>1, <1>2, ClosedTick DEF LocksExclude, Deliverable
<1>5. Accounted'
  <2>. SUFFICES ASSUME NEW e \in Event
                PROVE  /\ Recorded(e)' <= attempts'[e]
                       /\ attempts'[e] + Cardinality(Losers(e)') <= Recorded(e)' + faults'
    BY DEF Accounted
  <2>1. Settled(e)' = Settled(e)
    BY <1>1 DEF Settled
  <2>2. /\ Cardinality(Recorders(e)') \in {Cardinality(Recorders(e)), Cardinality(Recorders(e)) - 1}
        /\ Cardinality(Losers(e)') \in {Cardinality(Losers(e)), Cardinality(Losers(e)) - 1}
    <3>1. Recorders(e) \in SUBSET Relay /\ Losers(e) \in SUBSET Relay
      BY DEF Recorders, Losers
    <3>2. ASSUME NEW S \in SUBSET Relay
          PROVE  Cardinality(S \ {r}) \in {Cardinality(S), Cardinality(S) - 1}
      <4>1. CASE r \in S
        BY <4>1, CountOneLess
      <4>2. CASE r \notin S
        <5>1. S \ {r} = S
          BY <4>2
        <5>. QED  BY <5>1
      <4>. QED  BY <4>1, <4>2
    <3>. QED  BY <1>1, <1>2, <3>1, <3>2, ClosedTick
  <2>. QED  BY <1>1, <2>1, <2>2, CountTypes DEF Accounted, Recorded
<1>6. DeadAtCeiling'
  BY <1>1 DEF DeadAtCeiling
<1>. QED  BY <1>3, <1>4, <1>5, <1>6

\* A lost connection turns the records a relay was about to commit, or the
\* attempts it is still to make, into lost ones: each event at most once.
LEMMA DisconnectInv ==
    ASSUME Inv, TypeOK', NEW r \in Relay, Disconnect(r)
    PROVE  Inv'
<1>. USE DEF Inv
<1>1. /\ connected' = [connected EXCEPT ![r] = FALSE] /\ connected[r] /\ faults' = faults + 1
      /\ UNCHANGED <<row, retries, pc, batch, published, failed, called, received, attempts>>
  BY DEF Disconnect, Fault, table
<1>2. ~connected'[r] /\ \A o \in Relay \ {r} : connected'[o] = connected[o]
  BY <1>1 DEF TypeOK
<1>3. TickClosed' /\ MarksClaimed'
  BY <1>1, <1>2 DEF TickClosed, MarksClaimed, Processed
<1>4. LocksExclude'
  BY <1>1, <1>2 DEF LocksExclude, Deliverable
<1>5. CalledReceived'
  <2>1. \A o \in Relay : (InRow(o)' <=> InRow(o)) /\ Current(o)' = Current(o)
    BY <1>1, CurrentFrame DEF InRow, Processed
  <2>2. \A e : Delivery!ReceivedByAll(e)' <=> Delivery!ReceivedByAll(e)
    BY <1>1 DEF Delivery!ReceivedByAll
  <2>. QED  BY <1>1, <2>1, <2>2 DEF CalledReceived
<1>6. Accounted'
  <2>. SUFFICES ASSUME NEW e \in Event
                PROVE  /\ Recorded(e)' <= attempts'[e]
                       /\ attempts'[e] + Cardinality(Losers(e)') <= Recorded(e)' + faults'
    BY DEF Accounted
  <2>1. Settled(e)' = Settled(e) /\ r \notin Losers(e)
    BY <1>1 DEF Settled, Losers
  <2>2. CASE e \in Processed(r)
    <3>1. Recorders(e)' = Recorders(e) \ {r} /\ r \in Recorders(e)
      BY <1>1, <1>2, <2>2 DEF Recorders, Processed
    <3>2. Losers(e)' = Losers(e)
      BY <1>1, <1>2, <2>2 DEF Losers, Processed
    <3>3. Cardinality(Recorders(e)') = Cardinality(Recorders(e)) - 1
      BY <3>1, CountOneLess DEF Recorders
    <3>. QED  BY <1>1, <2>1, <3>2, <3>3, CountTypes DEF Accounted, Recorded
  <2>3. CASE e \in batch[r] \ Processed(r)
    <3>1. Recorders(e)' = Recorders(e)
      BY <1>1, <1>2, <2>3 DEF Recorders, Processed
    <3>2. Losers(e)' = Losers(e) \cup {r}
      BY <1>1, <1>2, <2>3 DEF Losers, Processed
    <3>3. Cardinality(Losers(e)') = Cardinality(Losers(e)) + 1
      BY <2>1, <3>2, CountOneMore DEF Losers
    <3>. QED  BY <1>1, <2>1, <3>1, <3>3, CountTypes DEF Accounted, Recorded
  <2>4. CASE e \notin batch[r]
    <3>1. e \notin Processed(r)
      BY <2>4 DEF MarksClaimed
    <3>2. Recorders(e)' = Recorders(e) /\ Losers(e)' = Losers(e)
      BY <1>1, <1>2, <2>4, <3>1 DEF Recorders, Losers, Processed
    <3>. QED  BY <1>1, <2>1, <3>2, CountTypes DEF Accounted, Recorded
  <2>. QED  BY <2>2, <2>3, <2>4
<1>7. DeadAtCeiling'
  BY <1>1 DEF DeadAtCeiling
<1>. QED  BY <1>3, <1>4, <1>5, <1>6, <1>7

LEMMA StepInv == Inv /\ [Next]_vars => Inv'
<1>. SUFFICES ASSUME Inv, [Next]_vars
              PROVE  Inv'
  OBVIOUS
<1>1. TypeOK'
  BY TypeStep
<1>2. faults \in Nat /\ faults' \in Nat
  BY <1>1, SizeAssumption DEF Inv, TypeOK
<1>3. ASSUME NEW e \in Event, Stage(e)
      PROVE  Inv'
  <2>1. /\ UNCHANGED <<retries, pc, tick, received, attempts, faults>>
        /\ row[e] = "unstaged" /\ row' = [row EXCEPT ![e] = "pending"]
    BY <1>3 DEF Stage, world
  <2>2. \A o \in Event : row'[o] = row[o] \/ (row[o] = "unstaged" /\ row'[o] = "pending")
    <3>1. row \in [Event -> {"unstaged", "pending", "published", "dead", "purged"}]
      BY DEF Inv, TypeOK
    <3>. QED  BY <2>1, <3>1
  <2>. QED  BY <1>1, <2>1, <2>2, RowsInv
<1>4. ASSUME NEW r \in Relay,
             \/ Start(r) \/ Stop(r) \/ Leave(r) \/ Rest(r) \/ StartCleanup(r) \/ Wake(r)
             \/ TickFails(r) \/ CleanupFails(r)
      PROVE  Inv'
  <2>1. UNCHANGED <<table, tick, received, attempts>> /\ faults <= faults'
    BY <1>2, <1>4
       DEF Start, Stop, Leave, Rest, StartCleanup, Wake, TickFails, CleanupFails, Fault, world
  <2>2. \A o \in Relay : pc'[o] = "deliver" <=> pc[o] = "deliver"
    BY <1>4
       DEF Start, Stop, Leave, Rest, StartCleanup, Wake, TickFails, CleanupFails, Down,
           NextRound, Goto, Inv, TypeOK
  <2>. QED  BY <1>1, <1>2, <2>1, <2>2, OutsideTickInv
<1>5. ASSUME NEW r \in Relay, PurgeBatch(r)
      PROVE  Inv'
  <2>1. UNCHANGED <<retries, tick, received, attempts, faults>>
    BY <1>5 DEF PurgeBatch, world
  <2>2. \A o \in Relay : pc'[o] = "deliver" <=> pc[o] = "deliver"
    BY <1>5 DEF PurgeBatch, EndPrune, NextRound, Goto, Inv, TypeOK
  <2>3. \A e \in Event : row'[e] = row[e] \/ (row[e] = "published" /\ row'[e] = "purged")
    <3>1. PICK S \in SUBSET {e \in cutoff[r] : row[e] = "published"} :
            row' = [e \in Event |-> IF e \in S THEN "purged" ELSE row[e]]
      BY <1>5 DEF PurgeBatch
    <3>. QED  BY <3>1
  <2>. QED  BY <1>1, <2>1, <2>2, <2>3, RowsInv
<1>6. CASE UNCHANGED vars
  BY <1>1, <1>2, <1>6, OutsideTickInv DEF vars, world
<1>. QED  BY <1>1, <1>3, <1>4, <1>5, <1>6, ClaimInv, HandleInv, AttemptInv, CommitInv,
             CrashInv, DisconnectInv DEF Next, Work

-----------------------------------------------------------------------------
THEOREM InvHolds == Spec => []Inv
BY InitInv, StepInv, PTL DEF Spec

(***************************************************************************)
(* Every variable of the outbox has its type; in particular retry_count    *)
(* never passes the ceiling, and a prune pass never goes over its batches. *)
(***************************************************************************)
THEOREM TypeCorrect == Spec => []TypeOK
<1>1. Inv => TypeOK
  BY DEF Inv
<1>. QED  BY <1>1, InvHolds, PTL

(***************************************************************************)
(* However relays, crashes and lost connections interleave, an event's     *)
(* delivery attempts are those its row and the open transactions record,   *)
(* and at most one more per fault; and a row is dead exactly when its      *)
(* retries are used up.                                                    *)
(***************************************************************************)
THEOREM AttemptsRecorded == Spec => []AttemptsAccounted
<1>1. ASSUME Inv
      PROVE  AttemptsAccounted
  <2>. SUFFICES ASSUME NEW e \in Event
                PROVE  LET recorded == retries[e] + Settled(e) + Unrecorded(e)
                       IN  /\ recorded <= attempts[e] /\ attempts[e] <= recorded + faults
                           /\ row[e] = "dead" <=> retries[e] >= MaxRetries
    BY DEF AttemptsAccounted
  <2>1. retries[e] + Settled(e) + Unrecorded(e) = Recorded(e)
    BY DEF Recorded, Recorders, Unrecorded
  <2>2. Recorded(e) \in Nat
    BY <1>1, CountTypes DEF Recorded
  <2>. QED  BY <1>1, <2>1, <2>2, CountTypes DEF Inv, Accounted, DeadAtCeiling
<1>. QED  BY <1>1, InvHolds, PTL

-----------------------------------------------------------------------------
\* The refinement, one lemma for each step that the listeners can tell.

LEMMA StandingOf ==
    /\ Standing["unstaged"] = "unstaged" /\ Standing["pending"] = "owed"
    /\ Standing["published"] = "delivered" /\ Standing["dead"] = "parked"
    /\ Standing["purged"] = "forgotten"
BY DEF Standing

LEMMA LedgerOf ==
    ASSUME TypeOK, NEW e \in Event
    PROVE  /\ Ledger[e] = Standing[row[e]]
           /\ Ledger[e] = "unstaged"  <=> row[e] = "unstaged"
           /\ Ledger[e] = "owed"      <=> row[e] = "pending"
           /\ Ledger[e] = "delivered" <=> row[e] = "published"
<1>1. row[e] \in {"unstaged", "pending", "published", "dead", "purged"}
  BY DEF TypeOK
<1>. QED  BY <1>1, StandingOf DEF Ledger

LEMMA StageStages ==
    ASSUME NEW e \in Event, Stage(e), TypeOK
    PROVE  Delivery!Stage(e)
<1>1. /\ row[e] = "unstaged" /\ row' = [row EXCEPT ![e] = "pending"] /\ UNCHANGED received
  BY DEF Stage, world
<1>2. Ledger[e] = "unstaged"
  BY <1>1, LedgerOf
<1>3. row'[e] = "pending" /\ \A o \in Event \ {e} : row'[o] = row[o]
  BY <1>1 DEF TypeOK
<1>4. Ledger' = [o \in Event |-> IF o = e THEN "owed" ELSE Ledger[o]]
  BY <1>3, StandingOf DEF Ledger
<1>. QED  BY <1>1, <1>2, <1>4 DEF Delivery!Stage, Delivery!Put

LEMMA HandleReceives ==
    ASSUME Inv, NEW r \in Relay, Handle(r)
    PROVE  \E e \in Event : \E h \in Handler : Delivery!Receive(h, e)
<1>1. /\ UNCHANGED row /\ InRow(r) /\ called[r] < Len(Subscribers[Current(r)])
      /\ received' = received \cup {<<Subscribers[Current(r)][called[r] + 1], Current(r)>>}
  BY DEF Handle, table
<1>2. Current(r) \in Event /\ Current(r) \in batch[r]
  BY <1>1, CurrentClaimed DEF Inv
<1>3. Subscribers[Current(r)][called[r] + 1] \in Handler
  <2>1. Subscribers[Current(r)] \in Seq(Handler)
    BY <1>2, SubscribersAssumption
  <2>2. called[r] + 1 \in 1 .. Len(Subscribers[Current(r)])
    BY <1>1, <2>1 DEF Inv, TypeOK
  <2>. QED  BY <2>1, <2>2
<1>4. Ledger[Current(r)] # "unstaged"
  BY <1>2, LedgerOf DEF Inv, LocksExclude
<1>5. Ledger' = Ledger
  BY <1>1 DEF Ledger
<1>. QED  BY <1>1, <1>2, <1>3, <1>4, <1>5 DEF Delivery!Receive

LEMMA CommitRecords ==
    ASSUME Inv, NEW r \in Relay, Commit(r), connected[r]
    PROVE  \E delivered, parked \in SUBSET Delivery!Owed : Delivery!Record(delivered, parked)
<1>. DEFINE parked == {e \in failed[r] : retries[e] + 1 >= MaxRetries}
<1>1. batch[r] = Processed(r) /\ Outcome(r) /\ UNCHANGED received
  BY DEF Commit, world
<1>2. \A e \in batch[r] : e \in Event /\ row[e] = "pending"
  BY DEF Inv, LocksExclude, Deliverable
<1>3. published[r] \subseteq Delivery!Owed /\ parked \subseteq Delivery!Owed
  BY <1>1, <1>2, LedgerOf DEF Processed, Inv, Delivery!Owed
<1>4. published[r] \cap parked = {} /\ \A e \in published[r] : Delivery!ReceivedByAll(e)
  BY DEF Inv, MarksClaimed, CalledReceived
<1>5. \A e \in Event : row'[e] = IF e \in published[r] THEN "published"
                                 ELSE IF e \in parked THEN "dead" ELSE row[e]
  BY <1>1 DEF Outcome
<1>6. Ledger' = [e \in Event |-> IF e \in published[r] THEN "delivered"
                                 ELSE IF e \in parked THEN "parked" ELSE Ledger[e]]
  <2>. HIDE DEF parked
  <2>. QED  BY <1>5, StandingOf DEF Ledger
<1>. QED  BY <1>1, <1>3, <1>4, <1>6 DEF Delivery!Record

LEMMA PurgeForgets ==
    ASSUME Inv, NEW r \in Relay, PurgeBatch(r)
    PROVE  \E S \in SUBSET Event : Delivery!Forget(S)
<1>1. PICK S \in SUBSET {e \in cutoff[r] : row[e] = "published"} :
        row' = [e \in Event |-> IF e \in S THEN "purged" ELSE row[e]]
  BY DEF PurgeBatch
<1>2. S \in SUBSET Event /\ \A e \in S : row[e] = "published"
  BY DEF Inv, TypeOK
<1>3. \A e \in S : Ledger[e] = "delivered"
  BY <1>2, LedgerOf DEF Inv
<1>4. Ledger' = [e \in Event |-> IF e \in S THEN "forgotten" ELSE Ledger[e]]
  BY <1>1, StandingOf DEF Ledger
<1>5. UNCHANGED received
  BY DEF PurgeBatch, world
<1>. QED  BY <1>2, <1>3, <1>4, <1>5 DEF Delivery!Forget, Delivery!Put

LEMMA StepDelivers ==
    Inv /\ [Next]_vars => [Delivery!Next]_<<Ledger, received>>
<1>. SUFFICES ASSUME Inv, [Next]_vars, ~UNCHANGED <<row, received>>
              PROVE  Delivery!Next
  BY DEF Ledger
<1>1. ASSUME NEW r \in Relay,
             \/ Start(r) \/ Stop(r) \/ Leave(r) \/ Claim(r) \/ Fail(r) \/ Delivered(r) \/ Rest(r)
             \/ StartCleanup(r) \/ Wake(r) \/ Crash(r) \/ Disconnect(r) \/ TickFails(r)
             \/ CleanupFails(r)
      PROVE  UNCHANGED <<row, received>>
  BY <1>1 DEF Start, Stop, Leave, Claim, Fail, Delivered, Attempted, Rest, StartCleanup, Wake,
              Crash, Disconnect, TickFails, CleanupFails, Fault, table, world
<1>2. ASSUME NEW r \in Relay, Commit(r)
      PROVE  connected[r]
  BY <1>2 DEF Commit, table, world
<1>3. \/ \E e \in Event : Stage(e)
      \/ \E r \in Relay : Handle(r) \/ Commit(r) \/ PurgeBatch(r)
  BY <1>1 DEF Next, Work, vars, table, world
<1>. QED  BY <1>2, <1>3, StageStages, HandleReceives, CommitRecords, PurgeForgets
          DEF Inv, Delivery!Next

(***************************************************************************)
(* The relays implement at-least-once delivery whatever their number: an   *)
(* event is published only once every subscriber received it, none hears   *)
(* of it before its write commits, and crashes, lost connections and       *)
(* prunes never take it from owed to forgotten.                            *)
(***************************************************************************)
THEOREM ImplementsDelivery == Spec => AtLeastOnce
<1>1. Init => Delivery!Init
  BY StandingOf DEF Init, Delivery!Init, Ledger
<1>. QED  BY <1>1, StepDelivers, InvHolds, PTL DEF Spec, AtLeastOnce, Delivery!Spec
=============================================================================
