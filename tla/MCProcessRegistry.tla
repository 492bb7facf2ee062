------------------------- MODULE MCProcessRegistry -------------------------
\* Two Python workers (config.json takes a list) and the gateway.
EXTENDS ProcessRegistry

MCChildren == <<"worker1", "worker2", "node">>
MCWaited == {"node"}
=============================================================================
