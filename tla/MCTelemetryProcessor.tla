------------------------ MODULE MCTelemetryProcessor ------------------------
\* Instances of TelemetryProcessor for TLC: short streams of telemetry about
\* one container, a second apart.
EXTENDS TelemetryProcessor

Sample(time, signals) ==
  [time |-> time, series |-> "memory", relevant |-> TRUE, signal |-> signals]

LogLine(time) ==
  [time |-> time, series |-> "log", relevant |-> FALSE,
   signal |-> [r \in Rules |-> "silent"]]

\* The first anomaly opens; one event then resolves it and opens the second.
MCRelay ==
  <<Sample(1, <<"high", "silent">>), LogLine(1), Sample(2, <<"normal", "high">>)>>

\* An anomaly opens and is resolved; the last log line brings the time at which
\* its incident is stable.
MCEpisode ==
  <<Sample(1, <<"high">>), LogLine(1), Sample(2, <<"normal">>), LogLine(3)>>

MCNone == <<0>>
MCNoneEach == <<0, 0>>
=============================================================================
