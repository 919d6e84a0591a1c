--------------------------- MODULE MCNotification ---------------------------
(***************************************************************************)
(* Small instances of Notification: one assigned SRE and the primary Admin.*)
(***************************************************************************)
EXTENDS Notification

CONSTANTS Sre, Admin, w1, r1, Signal

MCTargets  == {Sre, Admin}
MCAssigned == {Sre}
MCAdmins   == {Admin}
MCWorkers  == {w1}
MCOneRequest == {r1}
MCSignals == {Signal}
=============================================================================
