-------------------------- MODULE ProcessLifecycle --------------------------
(***************************************************************************)
(* What the short-term scheduler promises to the rest of the simulator,    *)
(* independently of its queues: every process is in one stage of its life, *)
(* one process at most has the CPU, the CPU is left idle only when nobody  *)
(* is ready, and the stages follow one another in the only sensible order  *)
(*                                                                         *)
(*      new -> ready <-> running -> gone                                   *)
(*               ^          |                                              *)
(*               +- blocked <                                              *)
(*                                                                         *)
(* Scheduler.tla implements this specification.                            *)
(***************************************************************************)
CONSTANT Process

VARIABLE status

Stages == {"new", "ready", "running", "blocked", "gone"}

InStage(stage) == {p \in Process : status[p] = stage}

Init == status = [p \in Process |-> "new"]

(* A loaded process becomes ready.                                         *)
Admit(p) ==
    /\ status[p] = "new"
    /\ status' = [status EXCEPT ![p] = "ready"]

(* The CPU changes hands: the running process, if there is one, moves to   *)
(* the stage `out', and a ready process, if there is one, takes the CPU.   *)
Switch(out) ==
    \E next \in SUBSET InStage("ready") :
        /\ next = {} => InStage("ready") = {}
        /\ \A p, q \in next : p = q
        /\ status' = [p \in Process |->
                        IF p \in next THEN "running"
                        ELSE IF status[p] = "running" THEN out
                        ELSE status[p]]

(* A blocked process gets what it waited for; it becomes ready and never   *)
(* takes the CPU directly.                                                 *)
Wake(p) ==
    /\ status[p] = "blocked"
    /\ status' = [status EXCEPT ![p] = "ready"]

Next ==
    \/ \E p \in Process : Admit(p) \/ Wake(p)
    \/ \E out \in {"ready", "blocked", "gone"} : Switch(out)

Spec == Init /\ [][Next]_status

-----------------------------------------------------------------------------
(* Every process is in a known stage.                                      *)
TypeOK == status \in [Process -> Stages]

(* Two processes never run at once.                                        *)
OneRunning == \A p, q \in InStage("running") : p = q
=============================================================================
