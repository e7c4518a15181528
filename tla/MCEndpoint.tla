------------------------------ MODULE MCEndpoint ------------------------------
EXTENDS ChatEndpoint

\* The second provider is dearer; a usage is none, the estimate, or has no price.
MCInputPrice == [p \in Provider |-> IF p = "primary" THEN 1 ELSE 2]
MCOutputPrice == [p \in Provider |-> IF p = "primary" THEN 2 ELSE 3]
MCEstimate == [prompt |-> 1, completion |-> 2]
MCPolicies == {None, {}, Provider}
\* Both may send the first key; the second handler may also send a request of its own.
MCSends == [h \in Handler |-> {<<"k1", "whole">>, <<"k1", "stream">>}
                              \cup (IF h = "second" THEN {<<"k2", "whole">>} ELSE {})]
MCUsages == {MCEstimate, [prompt |-> 2, completion |-> 3], [prompt |-> -1, completion |-> 0]}
===============================================================================
