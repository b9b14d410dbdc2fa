---------------------------- MODULE EventDelivery ---------------------------
(***************************************************************************)
(* What the transactional outbox promises its listeners, with no relays,   *)
(* batches or retries: a committed event is owed until every subscriber    *)
(* has received it or it is parked for triage; only a delivered event is   *)
(* ever forgotten, and a parked one stays.  A subscriber may receive an    *)
(* event again at any time (at-least-once), but never before it is         *)
(* committed.                                                              *)
(***************************************************************************)
EXTENDS Sequences

CONSTANTS Event, Handler,
          Subscribers      \* each event's handlers in subscription order

VARIABLES ledger,          \* where each event stands
          received         \* the (handler, event) pairs that happened

Owed == {e \in Event : ledger[e] = "owed"}

ReceivedByAll(e) ==
    \A i \in DOMAIN Subscribers[e] : <<Subscribers[e][i], e>> \in received

Put(S, state) == [e \in Event |-> IF e \in S THEN state ELSE ledger[e]]

Init ==
    /\ ledger = [e \in Event |-> "unstaged"]
    /\ received = {}

\* A write commits with its event.
Stage(e) ==
    /\ ledger[e] = "unstaged"
    /\ ledger' = Put({e}, "owed")
    /\ UNCHANGED received

Receive(h, e) ==
    /\ ledger[e] # "unstaged"
    /\ received' = received \cup {<<h, e>>}
    /\ UNCHANGED ledger

\* One commit settles some owed events and parks others.
Record(delivered, parked) ==
    /\ delivered \cap parked = {}
    /\ \A e \in delivered : ReceivedByAll(e)
    /\ ledger' = [e \in Event |-> IF e \in delivered THEN "delivered"
                                  ELSE IF e \in parked THEN "parked"
                                  ELSE ledger[e]]
    /\ UNCHANGED received

Forget(S) ==
    /\ \A e \in S : ledger[e] = "delivered"
    /\ ledger' = Put(S, "forgotten")
    /\ UNCHANGED received

Next ==
    \/ \E e \in Event : Stage(e)
    \/ \E e \in Event : \E h \in Handler : Receive(h, e)
    \/ \E delivered, parked \in SUBSET Owed : Record(delivered, parked)
    \/ \E S \in SUBSET Event : Forget(S)

Spec == Init /\ [][Next]_<<ledger, received>>
=============================================================================
