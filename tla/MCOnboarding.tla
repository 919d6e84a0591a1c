---------------------------- MODULE MCOnboarding ----------------------------
(* The server's own cluster and a remote one, whose contexts have one name; *)
(* the default organization and a customer.                                *)
EXTENDS Onboarding

CONSTANTS home, remote, operator, customer, default, acme

OneName == [m \in {home, remote} |-> "default"]
OneEach == [a \in {operator, customer} |-> IF a = operator THEN default ELSE acme]
Tiers == [o \in {default, acme} |-> IF o = default THEN "pro" ELSE "basic"]
=============================================================================
