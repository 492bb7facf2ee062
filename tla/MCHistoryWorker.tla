-------------------------- MODULE MCHistoryWorker --------------------------
\* Instances of HistoryWorker for TLC: messages of one chat, the last of them
\* with the timestamp of the one before.
EXTENDS HistoryWorker

MCChats == {"a"}
MCChatOf == [m \in Ids |-> "a"]
MCTsOf == [m \in Ids |-> IF m = 3 THEN 2 ELSE m]
=============================================================================
