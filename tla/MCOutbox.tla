------------------------------- MODULE MCOutbox -----------------------------
(***************************************************************************)
(* Instances of Outbox for TLC. The first event has two subscribers, so an *)
(* attempt can fail between them; the second has one.                      *)
(***************************************************************************)
EXTENDS Outbox, TLC

CONSTANTS r1, r2, h1, h2

MCSubscribers ==
    [e \in Event |-> IF e = 1 THEN <<h1, h2>> ELSE <<h1>>]

\* The second event has no subscriber; it can still fail to rebuild.
MCFirstSubscribed == [e \in Event |-> IF e = 1 THEN <<h1>> ELSE << >>]

RelaySymmetry == Permutations(Relay)
=============================================================================
