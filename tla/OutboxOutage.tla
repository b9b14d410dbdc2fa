----------------------------- MODULE OutboxOutage ---------------------------
(***************************************************************************)
(* How long an outage a delivery survives: Outbox with a history variable  *)
(* that counts, for each event, the poll intervals a relay slept through   *)
(* since the event's first failed delivery was recorded.                   *)
(***************************************************************************)
EXTENDS Outbox

VARIABLE waits

OutageInit == Init /\ waits = [e \in Event |-> 0]

\* A whole interval: the relay was not woken by its stop event.
Slept == \E r \in Relay : pc[r] = "sleep" /\ pc'[r] = "poll" /\ ~stopping[r]

OutageNext ==
    /\ Next
    /\ waits' = [e \in Event |->
                   IF Slept /\ row[e] = "pending" /\ retries[e] > 0
                   THEN Smaller(waits[e] + 1, MaxRetries)
                   ELSE waits[e]]

OutageSpec == OutageInit /\ [][OutageNext]_<<vars, waits>>

(***************************************************************************)
(* The retry ceiling times the poll interval is the outage a delivery      *)
(* survives: between the first failure of a row and its dead-letter the    *)
(* relay slept at least once for every further retry.                      *)
(***************************************************************************)
SurvivesOutage == \A e \in Event : row[e] = "dead" => waits[e] >= MaxRetries - 1
=============================================================================
