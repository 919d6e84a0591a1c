------------------------------ MODULE Detectors ------------------------------
(***************************************************************************)
(* The three detectors of apps/processor: the statistical detector and the *)
(* log classifier of Detection, the rule engine of RuleLifecycle, and the  *)
(* rules themselves in FailureEpisodes.  No state is shared between these  *)
(* modules, and TelemetryProcessor says how a handler goes through them: a *)
(* behaviour is one of the first, of the second, or of the third.          *)
(***************************************************************************)
EXTENDS Detection, FailureEpisodes

CONSTANTS Telemetry, NumRules, Series, ObservationsNeeded, DurationNeeded   \* of RuleEngine

VARIABLES
  part,
  memory, status   \* of RuleLifecycle

Lifecycle == INSTANCE RuleLifecycle

ASSUME DetectorsAssumption ==
  /\ NumRules \in Nat /\ Telemetry \in Seq(Lifecycle!Events)
  /\ ObservationsNeeded \in [Lifecycle!Rules -> Nat]
  /\ DurationNeeded \in [Lifecycle!Rules -> Nat]

ruleVars == <<memory, status>>
detectorsVars == <<part, vars, ruleVars, episodeVars>>

DetectorsInit ==
  /\ part \in {"past", "rules", "episodes"}
  /\ Init /\ (part # "past" => source = "usage")
  /\ Lifecycle!Init
  /\ EpisodeInit /\ (part # "episodes" => ~labelled /\ watched = CHOOSE m \in Collected : TRUE)

DetectorsNext ==
  \/ part = "past" /\ Next /\ UNCHANGED <<part, ruleVars, episodeVars>>
  \/ part = "rules" /\ Lifecycle!Next /\ UNCHANGED <<part, vars, episodeVars>>
  \/ part = "episodes" /\ EpisodeNext /\ UNCHANGED <<part, vars, ruleVars>>

DetectorsSpec == DetectorsInit /\ [][DetectorsNext]_detectorsVars

-----------------------------------------------------------------------------
(* An anomaly of the rules opened after enough samples, for long enough      *)
(* (RuleLifecycle).                                                          *)
HeldThroughout == Lifecycle!HeldThroughout
=============================================================================
