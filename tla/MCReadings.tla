----------------------------- MODULE MCReadings -----------------------------
(* An OTLP collector, and an agent on the REST routes whose first batch is *)
(* refused.                                                                *)
EXTENDS Readings

CONSTANTS collector, agent

Metric(f, n, t) == [field |-> f, value |-> n, time |-> t]
Point(s) == [status |-> "ok", samples |-> <<s>>]
Not(status) == [status |-> status, samples |-> <<Metric("usage", 0, 0)>>]

Sources == [x \in {collector, agent} |-> IF x = collector THEN "otlp" ELSE "rest"]
BatchesOf ==
  [x \in {collector, agent} |->
     IF x = collector
       THEN <<<<Point(Metric("restart", 1, 0)), Not("malformed")>>,
              <<Point(Metric("restart", 1, 0))>>,
              <<Point(Metric("restart", 3, 2)), Point(Metric("restart", 2, 1)), Not("rejected")>>>>
       ELSE <<<<Point(Metric("usage", 1, 1)), Not("rejected")>>,
              <<Point(Metric("log", 0, 0))>>>>]
=============================================================================
