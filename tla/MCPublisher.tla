----------------------------- MODULE MCPublisher -----------------------------
(***************************************************************************)
(* A consumer of plain and MassTransit messages and a consumer of          *)
(* envelopes, both bound to one exchange, in the manner of                 *)
(* examples/production_setup.rs.                                           *)
(***************************************************************************)
EXTENDS Publisher, TLC
CONSTANTS reports, tasks, events, k1, k2, T

Schemas == [Order |-> [order_id |-> "string", amount |-> "number"],
            Notification |-> [recipient |-> "string", message |-> "string"],
            Report |-> [message |-> "string", headers |-> "string"],
            Stream |-> [id |-> "string"]]

Configs ==
    (reports :> [queue |-> reports, exchange |-> events, routing_keys |-> {"report"},
                 type |-> T, envelopes |-> FALSE]
     @@ tasks :> [queue |-> tasks, exchange |-> events, routing_keys |-> {"report", "task"},
                 type |-> "Order", envelopes |-> TRUE])

ToQueue(q) == [queue |-> q, exchange |-> None, routing_key |-> "none"]
ToExchange(key) == [queue |-> None, exchange |-> events, routing_key |-> key]
As(api, masstransit, type) ==
    [api |-> api, masstransit |-> masstransit, type |-> type, max_retries |-> 1]

Requests ==
    {ToQueue(reports) @@ As("publish", FALSE, T),
     ToQueue(reports) @@ As("publish_masstransit", TRUE, T),
     ToQueue(reports) @@ As("publish", FALSE, "Stream"),
     ToExchange("report") @@ As("publish", TRUE, T),
     ToExchange("task") @@ As("publish_with_envelope", FALSE, "Order")}

Connections == [a \in Actor |-> IF a \in Call THEN k1 ELSE k2]
CallSymmetry == Permutations(Call)
=============================================================================
