------------------------- MODULE MCMessagePipeline -------------------------
\* Instances of MessagePipeline for TLC: two chats that share a partition,
\* and one message of every kind the consumers tell apart.
EXTENDS MessagePipeline

MCChats == {"a", "b"}
MCPartitions == {"p"}
MCPartitionOf == [ch \in MCChats |-> "p"]

\* 1, 2: a user message and the summary of chat a; 3: an event that does not
\* parse; 4: a user message of chat b with the timestamp of message 1.
MCChatOf == [m \in Ids |-> IF m = 4 THEN "b" ELSE "a"]
MCTsOf == [m \in Ids |-> IF m = 4 THEN 1 ELSE m]
MCRoleOf == [m \in Ids |-> CASE m \in {1, 4} -> "user"
                             [] m = 2 -> "summary"
                             [] OTHER -> "invalid"]
=============================================================================
