-------------------------- MODULE MCStreamingWorker --------------------------
\* Three connections: one that is served, one in the backlog, one that finds
\* the backlog full.
EXTENDS StreamingWorker

MCClients == 1..3
=============================================================================
