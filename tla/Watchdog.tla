------------------------------ MODULE Watchdog ------------------------------
(***************************************************************************)
(* What /healthz and the kubelet's liveness probe promise together, and    *)
(* nothing else: a daemon that has got stuck is killed in the end, and     *)
(* only one that is stuck is killed.                                       *)
(***************************************************************************)
VARIABLE status    \* "off", "well", "stuck" or "killed"

Init == status = "off"

(* A process comes up, well or, without its metrics port, unfit from the   *)
(* start; or it ends before it is up.                                      *)
ComeUp == status \in {"off", "killed"} /\ status' \in {"off", "well", "stuck"}

(* It ends on its own account: a signal.                                   *)
GoOff == status \in {"well", "stuck"} /\ status' = "off"

Stick == status = "well" /\ status' = "stuck"

Kill == status = "stuck" /\ status' = "killed"

Next == ComeUp \/ GoOff \/ Stick \/ Kill

Spec == Init /\ [][Next]_status /\ WF_status(Kill)
=============================================================================
