---------------------------- MODULE MCChatLabData ----------------------------
\* The instance TLC checks; the requests are interchangeable.
EXTENDS ChatLabData, TLC
Symmetry == Permutations(Handlers)
==============================================================================
