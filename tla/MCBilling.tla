----------------------------- MODULE MCBilling ------------------------------
(* Two checkouts of one buyer, who may also sign up for nothing. *)
EXTENDS Billing

CONSTANTS alice, first, second

OneBuyer == [s \in {first, second} |-> alice]
=============================================================================
