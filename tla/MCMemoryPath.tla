---------------------------- MODULE MCMemoryPath ----------------------------
(***************************************************************************)
(* Instance of MemoryPath for TLC: two chats, and one request of each      *)
(* size.  A read that fails and a clock that is set back end what the      *)
(* memory promises: they are not combined with other faults.               *)
(***************************************************************************)
EXTENDS MemoryPath

MCChats == {"a", "b"}
MCChatOf == [m \in Ids |-> IF m = 2 THEN "b" ELSE "a"]
MCTsOf == [m \in Ids |-> m]
MCSizeOf == <<"large", "huge", "small">>

OneKindOfFault ==
    ~Trusted => crashes + saveFaults + faults = 0 /\ readFaults + backsteps = 1

MCSpec == PathInit /\ [][PathNext /\ OneKindOfFault']_pathVars /\ PathFairness
=============================================================================
