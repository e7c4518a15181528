------------------------------ MODULE MCProcess ------------------------------
EXTENDS ServiceProcess

\* The two development secrets share their prefix.
MCPrefixOf == [s \in Secret |-> IF s \in DevSecret THEN "dev" ELSE s]
===============================================================================
