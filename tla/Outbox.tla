-------------------------------- MODULE Outbox ------------------------------
(***************************************************************************)
(* The transactional outbox and its relays (core/outbox.py, core/          *)
(* event_bus.py, the relay's part of main.py): one relay per worker polls  *)
(* the shared table, claims a batch, dispatches each event to the          *)
(* subscribers, and records the outcomes in one commit; in between it      *)
(* prunes delivered rows and sleeps.                                       *)
(*                                                                         *)
(* Events are numbered in the order of (occurred_at, id), which is not the *)
(* order they commit in.  Between the claim and the commit a relay holds   *)
(* its rows' locks in an open transaction and awaits handlers, so every    *)
(* handler call is a step.  A fault may kill the worker, cut its database  *)
(* connection (the server rolls back and drops the locks while the relay   *)
(* goes on dispatching), or fail a statement.                              *)
(***************************************************************************)
EXTENDS Naturals, FiniteSets, Sequences

CONSTANTS Relay,            \* one per worker
          MaxEvent,         \* bound: the events that writes may commit
          Handler,
          Subscribers,      \* each event's handlers in subscription order
          BatchSize, MaxRetries,
          PurgeBatchSize, PurgeMaxBatches,
          MaxFaults         \* bound: crashes, lost connections, errors

Event == 1 .. MaxEvent

ASSUME SizeAssumption ==
    /\ MaxEvent \in Nat /\ MaxFaults \in Nat
    /\ {BatchSize, MaxRetries, PurgeBatchSize, PurgeMaxBatches} \subseteq Nat \ {0}
ASSUME SubscribersAssumption == Subscribers \in [Event -> Seq(Handler)]
ASSUME RelayAssumption == IsFiniteSet(Relay)

VARIABLES
    row,        \* what the two timestamps of each row say
    retries,    \* retry_count
    pc,         \* where each relay's loop is
    stopping,   \* the stop event of each relay
    batch,      \* the rows each relay claimed
    connected,  \* whether the claiming transaction is still open
    published,  \* rows of the batch marked published, not yet committed
    failed,     \* rows of the batch marked failed, not yet committed
    called,     \* subscribers of the current row called so far
    full,       \* whether the last tick claimed a full batch
    cutoff,     \* the rows old enough for the prune pass under way
    passes,     \* batches the prune pass has deleted
    received,   \* the (handler, event) calls that returned
    attempts,   \* finished delivery attempts of each event
    faults      \* faults so far

table    == <<row, retries>>
tick     == <<batch, connected, published, failed, called>>
prune    == <<cutoff, passes>>
world    == <<received, attempts, faults>>
vars     == <<table, pc, stopping, tick, full, prune, world>>

Deliverable == {e \in Event : row[e] = "pending"}
Locked      == UNION {batch[r] : r \in {o \in Relay : connected[o]}}
Processed(r) == published[r] \cup failed[r]

\* The row of the batch whose turn it is.
Current(r) ==
    CHOOSE e \in batch[r] \ Processed(r) : \A o \in batch[r] \ Processed(r) : e <= o

Smaller(m, n) == IF m < n THEN m ELSE n

Init ==
    /\ row       = [e \in Event |-> "unstaged"]
    /\ retries   = [e \in Event |-> 0]
    /\ pc        = [r \in Relay |-> "down"]
    /\ stopping  = [r \in Relay |-> FALSE]
    /\ batch     = [r \in Relay |-> {}]
    /\ connected = [r \in Relay |-> FALSE]
    /\ published = [r \in Relay |-> {}]
    /\ failed    = [r \in Relay |-> {}]
    /\ called    = [r \in Relay |-> 0]
    /\ full      = [r \in Relay |-> FALSE]
    /\ cutoff    = [r \in Relay |-> {}]
    /\ passes    = [r \in Relay |-> 0]
    /\ received  = {}
    /\ attempts  = [e \in Event |-> 0]
    /\ faults    = 0

Goto(r, l) == pc' = [pc EXCEPT ![r] = l]

\* The session of a tick is closed: what it had not committed is gone.
EndTick(r) ==
    /\ batch'     = [batch EXCEPT ![r] = {}]
    /\ connected' = [connected EXCEPT ![r] = FALSE]
    /\ published' = [published EXCEPT ![r] = {}]
    /\ failed'    = [failed EXCEPT ![r] = {}]
    /\ called'    = [called EXCEPT ![r] = 0]

EndPrune(r) ==
    /\ cutoff' = [cutoff EXCEPT ![r] = {}]
    /\ passes' = [passes EXCEPT ![r] = 0]

\* The relay's task ends; another one starts afresh.
Down(r) ==
    /\ Goto(r, "down")
    /\ stopping' = [stopping EXCEPT ![r] = FALSE]
    /\ full'     = [full EXCEPT ![r] = FALSE]

\* The end of the loop body: sleep unless the batch was full.
NextRound(r) ==
    /\ Goto(r, IF full[r] THEN "poll" ELSE "sleep")
    /\ full' = [full EXCEPT ![r] = FALSE]

-----------------------------------------------------------------------------
\* stage_events: a write commits its event with its rows.
Stage(e) ==
    /\ row[e] = "unstaged"
    /\ row' = [row EXCEPT ![e] = "pending"]
    /\ UNCHANGED <<retries, pc, stopping, tick, full, prune, world>>

\* The application's lifespan starts the relay, and sets its stop event.
Start(r) ==
    /\ pc[r] = "down"
    /\ Goto(r, "poll")
    /\ UNCHANGED <<table, stopping, tick, full, prune, world>>

Stop(r) ==
    /\ pc[r] # "down" /\ ~stopping[r]
    /\ stopping' = [stopping EXCEPT ![r] = TRUE]
    /\ UNCHANGED <<table, pc, tick, full, prune, world>>

\* mutant: while True
ToldNever(r) == FALSE

\* The loop test.
Told(r) == stopping[r]

Leave(r) ==
    /\ pc[r] = "poll" /\ Told(r)
    /\ Down(r)
    /\ UNCHANGED <<table, tick, prune, world>>

-----------------------------------------------------------------------------
\* deliver_pending

\* mutant: a plain SELECT, which sees rows that another relay has locked
ClaimUnlocked(r) ==
    /\ pc[r] = "poll" /\ ~Told(r)
    /\ \E S \in SUBSET Deliverable :
         /\ Cardinality(S) = Smaller(BatchSize, Cardinality(Deliverable))
         /\ \A e \in S, o \in Deliverable \ S : e < o
         /\ batch' = [batch EXCEPT ![r] = S]
    /\ connected' = [connected EXCEPT ![r] = TRUE]
    /\ Goto(r, "deliver")
    /\ UNCHANGED <<table, stopping, published, failed, called, full, prune, world>>

\* The oldest deliverable rows nobody holds, up to the batch size.
Claim(r) ==
    LET free == Deliverable \ Locked
    IN  /\ pc[r] = "poll" /\ ~Told(r)
        /\ \E S \in SUBSET free :
             /\ Cardinality(S) = Smaller(BatchSize, Cardinality(free))
             /\ \A e \in S, o \in free \ S : e < o
             /\ batch' = [batch EXCEPT ![r] = S]
        /\ connected' = [connected EXCEPT ![r] = TRUE]
        /\ Goto(r, "deliver")
        /\ UNCHANGED <<table, stopping, published, failed, called, full, prune, world>>

InRow(r) == pc[r] = "deliver" /\ batch[r] # Processed(r)

\* dispatch: the next subscriber handles the event.
Handle(r) ==
    /\ InRow(r) /\ called[r] < Len(Subscribers[Current(r)])
    /\ called'   = [called EXCEPT ![r] = @ + 1]
    /\ received' = received \cup {<<Subscribers[Current(r)][called[r] + 1], Current(r)>>}
    /\ UNCHANGED <<table, pc, stopping, batch, connected, published, failed, full, prune,
                   attempts, faults>>

\* A row is done: the next one starts with its first subscriber.
Attempted(r) ==
    /\ called'   = [called EXCEPT ![r] = 0]
    /\ attempts' = [attempts EXCEPT ![Current(r)] = @ + 1]
    /\ UNCHANGED <<table, pc, stopping, batch, connected, full, prune, received, faults>>

\* mutant: an exception is logged and the row counts as delivered
FailSwallowed(r) ==
    /\ InRow(r)
    /\ published' = [published EXCEPT ![r] = @ \cup {Current(r)}]
    /\ UNCHANGED failed
    /\ Attempted(r)

\* The payload does not rebuild, or the next subscriber raises.
Fail(r) ==
    /\ InRow(r)
    /\ failed' = [failed EXCEPT ![r] = @ \cup {Current(r)}]
    /\ UNCHANGED published
    /\ Attempted(r)

Delivered(r) ==
    /\ InRow(r) /\ called[r] = Len(Subscribers[Current(r)])
    /\ published' = [published EXCEPT ![r] = @ \cup {Current(r)}]
    /\ UNCHANGED failed
    /\ Attempted(r)

\* mutant: dead only past the ceiling
OutcomeLate(r) ==
    /\ retries' = [e \in Event |-> IF e \in failed[r] THEN retries[e] + 1 ELSE retries[e]]
    /\ row' = [e \in Event |->
                 IF e \in published[r] THEN "published"
                 ELSE IF e \in failed[r] /\ retries[e] + 1 > MaxRetries THEN "dead"
                 ELSE row[e]]

\* The marks of the batch: a failed row counts one more retry and is dead
\* when they are used up.
Outcome(r) ==
    /\ retries' = [e \in Event |-> IF e \in failed[r] THEN retries[e] + 1 ELSE retries[e]]
    /\ row' = [e \in Event |->
                 IF e \in published[r] THEN "published"
                 ELSE IF e \in failed[r] /\ retries[e] + 1 >= MaxRetries THEN "dead"
                 ELSE row[e]]

\* mutant: nothing catches the commit's error, and the task dies of it
CommitUncaught(r) ==
    /\ pc[r] = "deliver" /\ batch[r] = Processed(r)
    /\ connected[r]
    /\ Outcome(r)
    /\ full' = [full EXCEPT ![r] = Cardinality(batch[r]) = BatchSize]
    /\ EndTick(r)
    /\ Goto(r, "ticked")
    /\ UNCHANGED <<stopping, prune, world>>

\* One commit for the batch; on a lost connection it raises, _tick logs it
\* and reports nothing processed.
Commit(r) ==
    /\ pc[r] = "deliver" /\ batch[r] = Processed(r)
    /\ IF connected[r] THEN Outcome(r) ELSE UNCHANGED table
    /\ full' = [full EXCEPT ![r] = connected[r] /\ Cardinality(batch[r]) = BatchSize]
    /\ EndTick(r)
    /\ Goto(r, "ticked")
    /\ UNCHANGED <<stopping, prune, world>>

-----------------------------------------------------------------------------
\* The rest of the loop: prune when it is due, then rest.

Rest(r) ==
    /\ pc[r] = "ticked"
    /\ NextRound(r)
    /\ UNCHANGED <<table, stopping, tick, prune, world>>

\* The cutoff is taken once: the rows published before it.
StartCleanup(r) ==
    /\ pc[r] = "ticked"
    /\ \E old \in SUBSET {e \in Event : row[e] = "published"} :
         cutoff' = [cutoff EXCEPT ![r] = old]
    /\ Goto(r, "purge")
    /\ UNCHANGED <<table, stopping, tick, full, passes, world>>

\* purge_published, one bounded DELETE and its commit.
PurgeBatch(r) ==
    LET due == {e \in cutoff[r] : row[e] = "published"}
    IN  /\ pc[r] = "purge"
        /\ \E S \in SUBSET due :
             /\ Cardinality(S) = Smaller(PurgeBatchSize, Cardinality(due))
             /\ row' = [e \in Event |-> IF e \in S THEN "purged" ELSE row[e]]
             /\ IF Cardinality(S) < PurgeBatchSize \/ passes[r] + 1 = PurgeMaxBatches
                THEN EndPrune(r) /\ NextRound(r)
                ELSE passes' = [passes EXCEPT ![r] = @ + 1] /\ UNCHANGED <<pc, full, cutoff>>
        /\ UNCHANGED <<retries, stopping, tick, world>>

\* The poll interval is over, or the stop event woke the relay.
Wake(r) ==
    /\ pc[r] = "sleep"
    /\ Goto(r, "poll")
    /\ UNCHANGED <<table, stopping, tick, full, prune, world>>

-----------------------------------------------------------------------------
\* Faults

Fault == faults < MaxFaults /\ faults' = faults + 1 /\ UNCHANGED <<received, attempts>>

\* The worker dies: its transaction is rolled back.
Crash(r) ==
    /\ Fault
    /\ pc[r] # "down"
    /\ Down(r) /\ EndTick(r) /\ EndPrune(r)
    /\ UNCHANGED table

\* The server ends the claiming transaction; the relay notices at commit.
Disconnect(r) ==
    /\ Fault
    /\ connected[r]
    /\ connected' = [connected EXCEPT ![r] = FALSE]
    /\ UNCHANGED <<table, pc, stopping, batch, published, failed, called, full, prune>>

\* The claim raises: _tick survives it and reports nothing processed.
TickFails(r) ==
    /\ Fault
    /\ pc[r] = "poll" /\ ~Told(r)
    /\ full' = [full EXCEPT ![r] = FALSE]
    /\ Goto(r, "ticked")
    /\ UNCHANGED <<table, stopping, tick, prune>>

\* A DELETE raises: the batches before it stay committed.
CleanupFails(r) ==
    /\ Fault
    /\ pc[r] = "purge"
    /\ EndPrune(r) /\ NextRound(r)
    /\ UNCHANGED <<table, stopping, tick>>

Work(r) ==
    \/ Leave(r) \/ Claim(r) \/ Handle(r) \/ Fail(r) \/ Delivered(r) \/ Commit(r)
    \/ Rest(r) \/ StartCleanup(r) \/ PurgeBatch(r) \/ Wake(r)

Next ==
    \/ \E e \in Event : Stage(e)
    \/ \E r \in Relay : \/ Work(r)
                        \/ Start(r) \/ Stop(r)
                        \/ Crash(r) \/ Disconnect(r) \/ TickFails(r) \/ CleanupFails(r)

Spec == Init /\ [][Next]_vars

\* A running relay's task is scheduled, its handlers return and its sleep
\* ends. Nothing makes a stopped or crashed worker come back.
FairSpec == Spec /\ \A r \in Relay : WF_vars(Work(r))

-----------------------------------------------------------------------------
\* Properties

\* Every variable has its type; retry_count never passes the ceiling.
TypeOK ==
    /\ row \in [Event -> {"unstaged", "pending", "published", "dead", "purged"}]
    /\ retries \in [Event -> 0 .. MaxRetries]
    /\ pc \in [Relay -> {"down", "poll", "deliver", "ticked", "purge", "sleep"}]
    /\ stopping \in [Relay -> BOOLEAN]
    /\ batch \in [Relay -> SUBSET Event]
    /\ connected \in [Relay -> BOOLEAN]
    /\ published \in [Relay -> SUBSET Event]
    /\ failed \in [Relay -> SUBSET Event]
    /\ called \in [Relay -> Nat]
    /\ full \in [Relay -> BOOLEAN]
    /\ cutoff \in [Relay -> SUBSET Event]
    /\ passes \in [Relay -> 0 .. PurgeMaxBatches - 1]
    /\ received \subseteq Handler \X Event
    /\ attempts \in [Event -> Nat]
    /\ faults \in 0 .. MaxFaults

\* What the table, and the open transactions, say of an event's attempts.
Settled(e) == IF row[e] \in {"published", "purged"} THEN 1 ELSE 0

Unrecorded(e) == Cardinality({r \in Relay : connected[r] /\ e \in Processed(r)})

(***************************************************************************)
(* Every delivery attempt is recorded once, and only a fault can lose the  *)
(* record of one: the attempts an event has seen are its retry_count, plus *)
(* its publication, plus what open transactions are about to record, plus  *)
(* at most one per fault.  So relays never deliver an event twice between  *)
(* them, and a row is dead exactly when its retries are used up.           *)
(***************************************************************************)
AttemptsAccounted ==
    \A e \in Event :
        LET recorded == retries[e] + Settled(e) + Unrecorded(e)
        IN  /\ recorded <= attempts[e] /\ attempts[e] <= recorded + faults
            /\ row[e] = "dead" <=> retries[e] >= MaxRetries

\* A row's standing, as the listeners are concerned.
Standing == [unstaged |-> "unstaged", pending |-> "owed", published |-> "delivered",
             dead |-> "parked", purged |-> "forgotten"]

Ledger == [e \in Event |-> Standing[row[e]]]

Delivery == INSTANCE EventDelivery WITH ledger <- Ledger

(***************************************************************************)
(* The relays implement at-least-once delivery: an event is marked         *)
(* published only once every subscriber has received it, is never called   *)
(* before its write commits, stays owed over every crash, and only a       *)
(* published row is pruned.                                                *)
(***************************************************************************)
AtLeastOnce == Delivery!Spec

(***************************************************************************)
(* As long as one worker stays up, every committed event is eventually     *)
(* published or dead-lettered, whatever its handlers do and whatever       *)
(* happens to the other workers.                                           *)
(***************************************************************************)
EventuallySettled ==
    (\E r \in Relay : <>[](pc[r] # "down"))
      => \A e \in Event : row[e] = "pending" ~> row[e] # "pending"

(***************************************************************************)
(* Shutdown is bounded: a relay asked to stop finishes its tick and its    *)
(* prune pass and leaves its loop.                                         *)
(***************************************************************************)
StopReturns == \A r \in Relay : stopping[r] ~> pc[r] = "down"
=============================================================================
