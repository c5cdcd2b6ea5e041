----------------------------- MODULE MCSemaphore -----------------------------
(* Three processes that use two semaphores in any order.                   *)
EXTENDS Semaphore, TLC

CONSTANTS p1, p2, p3, s1, s2

MCPriority == (p1 :> 1) @@ (p2 :> 0) @@ (p3 :> 0)

(* One charge overdraws every slice; charged to a semaphore it empties it. *)
MCCharges == {3000}

(* A bound for the value of a semaphore nobody waits for.                  *)
MaxS == 1
SBound == \A s \in Sem : S[s] <= MaxS
Symmetry == Permutations({p2, p3}) \cup Permutations({s1, s2})
=============================================================================
