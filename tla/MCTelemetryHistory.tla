------------------------- MODULE MCTelemetryHistory -------------------------
\* An instance of TelemetryHistory for TLC: two logs of a cluster at one instant
\* and one of another cluster, warnings in two slots, and two samples of a series
\* that differ in their service.
EXTENDS BaselineHistory

Row(table, cluster, time, workload, service, label, value) ==
  [table |-> table, cluster |-> cluster, time |-> time, workload |-> workload,
   pod |-> None, service |-> service, label |-> label, value |-> value]

MCRecords ==
  <<Row("logs", "A", 1, "api", None, "error", 0), Row("logs", "A", 1, None, None, "info", 0),
    Row("logs", "B", 2, "api", None, "error", 0),
    Row("metrics", "A", 0, "api", None, "memory", 5), Row("metrics", "A", 1, "api", "web", "memory", 6),
    Row("events", "A", 0, "api", None, "Warning", 0), Row("events", "A", 1, "api", None, "Warning", 0)>>

Search(table, cluster, start, end, limit) ==
  [table |-> table, cluster |-> cluster, workload |-> None, pod |-> None,
   labels |-> {}, start |-> start, end |-> end, limit |-> limit]

MCRequests ==
  {Search("logs", "A", 0, 2, 1), Search("logs", Unnamed, 1, 3, 2), Search("events", "A", 0, 2, 1)}

Probe(w, start, bucket, limit) ==
  [cluster |-> "A", workload |-> w, pod |-> None, labels |-> {}, name |-> "memory",
   names |-> {"memory", "cpu"}, bucket |-> bucket, start |-> start, end |-> start + 2,
   resource |-> [scope |-> "workload", name |-> w], limit |-> limit]

MCProbes ==
  {Probe("api", 0, 0, 1), Probe("api", 1, 0, 2), Probe(None, 0, 2, 2), Probe(None, 0, 0, 2)}

MCIncidents == {[start |-> -1, end |-> 2], [start |-> 0, end |-> 1]}

MCDeployment == {}
=============================================================================
