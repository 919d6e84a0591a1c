---------------------------- MODULE AtLeastOnce ----------------------------
(***************************************************************************)
(* What a consumer of the event stream promises its publishers: an entry   *)
(* is released to the broker (acknowledged, never to be seen again) only   *)
(* when its effect has happened or when it is preserved as a dead letter.  *)
(* Effects may be repeated - several redeliveries of one entry are one     *)
(* effect here - and they are never undone.                                *)
(*                                                                         *)
(* TelemetryStorage and TelemetryProcessor are shown to implement this.    *)
(***************************************************************************)

CONSTANT Entries   \* the stream sequence numbers of one subject

VARIABLES
  effect,          \* entries whose effect has happened
  deadLettered,    \* entries preserved on deadletter.<topic>
  released         \* entries acknowledged to the broker

vars == <<effect, deadLettered, released>>

Init ==
  /\ effect = {}
  /\ deadLettered = {}
  /\ released = {}

\* One write may carry the effect of several entries (a batch).
TakeEffect ==
  /\ \E S \in SUBSET Entries : effect' = effect \union S
  /\ UNCHANGED <<deadLettered, released>>

DeadLetter ==
  /\ \E e \in Entries : deadLettered' = deadLettered \union {e}
  /\ UNCHANGED <<effect, released>>

Release ==
  /\ \E e \in effect \union deadLettered : released' = released \union {e}
  /\ UNCHANGED <<effect, deadLettered>>

Next == TakeEffect \/ DeadLetter \/ Release

Spec == Init /\ [][Next]_vars
=============================================================================
