--------------------------- MODULE MCAgentRuntime ---------------------------
EXTENDS AgentRuntime, TLC

Symmetry == Permutations(Requests)

=============================================================================
