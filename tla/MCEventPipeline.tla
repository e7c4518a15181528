--------------------------- MODULE MCEventPipeline ---------------------------
EXTENDS EventPipeline

\* Consumers are interchangeable: the partition starts with one of them.
MCInit == Init /\ owner = CHOOSE c \in Consumer : TRUE

MCFairSpec == MCInit /\ [][Next]_vars /\ Fairness
==============================================================================
