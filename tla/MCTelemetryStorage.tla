------------------------- MODULE MCTelemetryStorage -------------------------
\* An instance of TelemetryStorage for TLC.
EXTENDS TelemetryStorage

MCLogThenMalformed == <<"log", "malformed">>
=============================================================================
