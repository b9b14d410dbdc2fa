--------------------------- MODULE MCOutboxOutage ---------------------------
(***************************************************************************)
(* A single relay with no faults and a backlog of one full batch.          *)
(***************************************************************************)
EXTENDS OutboxOutage

CONSTANTS r1, h1

MCOneSubscriber == [e \in Event |-> <<h1>>]
=============================================================================
