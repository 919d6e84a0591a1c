---------------------------- MODULE MCIncidents ----------------------------
EXTENDS IncidentHandling, TLC

On(scope, workload, pod, node) ==
  [scope |-> scope, cluster |-> "c", namespace |-> IF scope = "node" THEN None ELSE "ns",
   workload |-> workload, workloadUid |-> None, pod |-> pod, node |-> node,
   container |-> IF scope = "container" THEN "app" ELSE None]

Signal(classification, source, severity, resource) ==
  [classification |-> classification, source |-> source, severity |-> severity,
   confidence |-> 80, restarted |-> classification = "OOM_KILLED", resource |-> resource]

Rule(classification, severity, resource) ==
  Signal(classification, "DETERMINISTIC", severity, resource)

Shop1 == On("pod", "shop", "shop-1", "n1")
Shop2 == On("pod", "shop", "shop-2", "n1")
Cart == On("container", "cart", "cart-1", "n1")

\* Two pods of a Deployment and the node they are on.
NodeFails ==
  [a |-> Rule("POD_NOT_READY", "HIGH", Shop1), b |-> Rule("POD_NOT_READY", "HIGH", Shop2),
   c |-> Rule("NODE_NOT_READY", "CRITICAL", On("node", None, None, "n1"))]

\* A database that fails, and the Deployment that needs it.
DatabaseFails ==
  [a |-> Signal("DATABASE_CONNECTIVITY", "LOG_CLASSIFIER", "HIGH", Cart),
   b |-> Signal("ERROR_RATE_ANOMALY", "STATISTICAL", "WARNING", Shop1),
   c |-> Signal("LATENCY_ANOMALY", "STATISTICAL", "WARNING", Shop1)]

\* Memory, on two Deployments.
MemoryFails ==
  [a |-> Rule("HIGH_MEMORY_UTILIZATION", "WARNING", Cart), b |-> Rule("OOM_KILLED", "HIGH", Cart),
   c |-> Rule("CRASH_LOOP", "HIGH", Shop1)]

\* Two pods of a Deployment, of which the telemetry tells the uid; and itself.
RolloutFails ==
  LET known(r) == [r EXCEPT !.workloadUid = "u"]
  IN [a |-> Rule("POD_NOT_READY", "HIGH", known(Shop1)),
      b |-> Rule("POD_NOT_READY", "HIGH", known(Shop2)),
      c |-> Rule("DEPLOYMENT_DEGRADED", "HIGH", known(On("deployment", "shop", None, None)))]

AllStories == {NodeFails, DatabaseFails, MemoryFails, RolloutFails}

\* A shift, one within it, and one that begins as the second ends.
SomeRanges ==
  {[start |-> 1, end |-> 4], [start |-> 2, end |-> 3], [start |-> 3, end |-> 5]}
=============================================================================
