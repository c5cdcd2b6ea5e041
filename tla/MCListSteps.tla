----------------------------- MODULE MCListSteps -----------------------------
(* Two threads and the ways they use the lists of the program.             *)
EXTENDS ListSteps, TLC

CONSTANTS n1, n2, n3, n4, cpu, other

Way(f, g) == (cpu :> f) @@ (other :> g)

ReadyQueue == Way({"add", "remove_head"}, {"add"})
BlockedQueue == Way({"add", "remove_node"}, {"remove_node"})
PendingRequests == Way({"add"}, {"remove_node"})
IoLog == Way({"add"}, {"add"})
CpuOnly == Way({"add", "remove_head", "remove_node"}, {})

AllUses == {ReadyQueue, BlockedQueue, PendingRequests, IoLog, CpuOnly}
ReadyQueueOnly == {ReadyQueue}

Symmetry == Permutations(Node)
=============================================================================
