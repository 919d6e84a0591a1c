----------------------------- MODULE MCDetectors -----------------------------
\* An instance of Detectors for TLC: a utilization rule that needs two samples
\* and a readiness rule that needs a second, on samples of one series; and the
\* metrics that are collected of a resource.
EXTENDS Detectors

Sample(time, signals) ==
  [time |-> time, series |-> "metric", relevant |-> TRUE, signal |-> signals]

MCSamples ==
  <<Sample(1, <<"high", "high">>),   Sample(1, <<"normal", "silent">>),
    Sample(2, <<"high", "high">>),   Sample(2, <<"silent", "normal">>),
    Sample(3, <<"high", "normal">>), Sample(3, <<"normal", "high">>),
    Sample(4, <<"high", "high">>),   Sample(4, <<"normal", "normal">>),
    Sample(5, <<"high", "high">>)>>

MCObservations == <<2, 1>>
MCDurations == <<0, 1>>

\* What the collectors of a behaviour report: metrics whose rules meet.
MCCollected ==
  {{"restart", "status", "containerReady", "podReady"}, {"memory"}, {"cpu"},
   {"desired", "available"}, {"nodeReady"}}

\* Events about the pod, with and without its container and its uid, and two
\* about other objects.
MCNotices ==
  {[kind |-> "kubernetes", reason |-> n[1], object |-> n[2], container |-> n[3], uid |-> n[4]] :
     n \in {"OOMKilled"} \X {"Pod"} \X BOOLEAN \X BOOLEAN
           \union {"BackOff", "FailedMount"} \X {"Pod"} \X {TRUE} \X BOOLEAN
           \union {"ErrImagePull"} \X {"Deployment", "Node"} \X {FALSE} \X {FALSE}}
=============================================================================
