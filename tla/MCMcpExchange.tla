--------------------------- MODULE MCMcpExchange ---------------------------
EXTENDS McpExchange
CONSTANTS d1
All == [d \in Dispatchers |-> {"SESSION", "TOKEN"}]
=============================================================================
