------------------------------- MODULE Plans --------------------------------
(***************************************************************************)
(* The catalog of packages/billing: the tiers and what each one introduces *)
(* and allows.                                                             *)
(***************************************************************************)
EXTENDS Naturals

PlanIds == {"basic", "pro", "enterprise"}

PlanRank == [basic |-> 0, pro |-> 1, enterprise |-> 2]

IntroducedBy ==
  [basic |-> {"clusters", "cluster-onboarding", "incidents", "alerts", "incident-ledger"},
   pro |-> {"team-management", "integrations", "log-aggregator", "reporting", "voice-call-agent"},
   enterprise |-> {"auto-remediation"}]

PlanFeatures == UNION {IntroducedBy[plan] : plan \in PlanIds}

FeaturesFor(plan) ==
  UNION {IntroducedBy[p] : p \in {q \in PlanIds : PlanRank[q] <= PlanRank[plan]}}

PlanIncludes(plan, feature) == feature \in FeaturesFor(plan)

MinimumPlanFor(feature) == CHOOSE plan \in PlanIds : feature \in IntroducedBy[plan]

(* How many clusters a tier allows; Unlimited is more than anybody has. *)
ClusterLimit(plan, unlimited) == IF plan = "basic" THEN 1 ELSE unlimited

PlanAllowingClusters(used, unlimited) ==
  LET allowing == {plan \in PlanIds : ClusterLimit(plan, unlimited) > used}
  IN IF allowing = {} THEN "enterprise"
     ELSE CHOOSE plan \in allowing : \A p \in allowing : PlanRank[plan] <= PlanRank[p]
=============================================================================
