------------------------ MODULE MCConversationService ------------------------
\* ConversationService with the turns and the editors interchangeable.
EXTENDS ConversationService, TLC

Symmetry == Permutations(Turns) \cup Permutations(Editors)
=============================================================================
