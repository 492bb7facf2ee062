----------------------------- MODULE MemoryPath -----------------------------
(***************************************************************************)
(* The HistoryWorker and the Python API thread together: an event from the *)
(* ring to the state in RocksDB, with every call of infer() taken apart.   *)
(* HistoryWorker alone takes the outcome of a call as given; here it is    *)
(* what the socket, the timeouts and the other process make of it.         *)
(***************************************************************************)
EXTENDS HistoryWorker

CONSTANTS SizeOf, Backlog, MaxFaults

ASSUME PathAssumption ==
    /\ SizeOf \in [Ids -> {"small", "large", "huge"}]
    /\ Backlog \in Nat \ {0}
    /\ MaxFaults \in Nat

VARIABLES server, backlog, serving, call, reply, faults

Api == INSTANCE InferApi

apiVars == <<server, backlog, serving, call, reply, faults>>
pathVars == <<vars, apiVars>>

PathInit == Init /\ Api!ApiInit

-----------------------------------------------------------------------------
\* run() calls infer() for the event it has taken.
Ask == wpc = "infer" /\ Api!Start(cur) /\ UNCHANGED vars

\* infer() makes of a line what it finds in it, and of an error a fallback.
Hear ==
    /\ Api!ReadLine
    /\ IF reply.kind = "delta"
       THEN Answered({reply.of}, "model")
       ELSE Answered({}, loaded.summary)

Fallback ==
    /\ Api!ConnectFails \/ Api!WriteFails \/ Api!ReadFails \/ Api!GiveUp
    /\ Answered({}, "fallback")

CallStep ==
    \/ Ask
    \/ (Api!Connect \/ Api!Write) /\ UNCHANGED vars
    \/ Hear
    \/ Fallback

LoopStep ==
    /\ \/ Subscribe \/ Receive \/ ReceiveBlind \/ ReceiveLagged
       \/ SavePrimary \/ SaveIndex \/ SaveFails \/ PushRecent
    /\ UNCHANGED apiVars

PathNext ==
    \/ CallStep
    \/ LoopStep
    \/ Crash /\ Api!StartAnew
    \/ ((\E m \in Ids : Send(m)) \/ Tick \/ ClockBack) /\ UNCHANGED apiVars
    \/ (Api!ServerStep \/ Api!ServerFault) /\ UNCHANGED vars

PathSpec == PathInit /\ [][PathNext]_pathVars

\* tokio runs the worker, its timeouts fire, and Python runs its thread.
PathFairness ==
    /\ WF_pathVars(CallStep)
    /\ WF_pathVars(LoopStep)
    /\ WF_pathVars(Api!ServerStep /\ UNCHANGED vars)

PathFairSpec == PathSpec /\ PathFairness

-----------------------------------------------------------------------------
(* Properties.                                                             *)

PathTypeOK == TypeOK /\ Api!ApiTypeOK

\* Late answers of calls that were given up find nobody: see InferApi.
OneConnectionHeld == Api!OneConnectionHeld

\* What infer() adds to a state was learned from the event in hand, whatever
\* timeouts, late answers and deaths of the Python process come in between.
MemoryIsOwn ==
    wpc \in {"primary", "index"} => delta.facts \subseteq loaded.facts \cup {cur}

\* The one call that no timeout ends: the write of a request that does not
\* fit the socket buffer, to a thread that never comes back from a generation.
Stuck == call.at = "write" /\ SizeOf[call.msg] = "huge" /\ server = "hung"

\* The worker is done with each event some time, whether Python runs, answers,
\* hangs or is gone: the loop comes back to its ring.
TakenIsHandled == (cur # NoMsg) ~> (cur = NoMsg \/ Stuck)

\* The thread outlives callers that are gone: it works off what is waiting.
BacklogIsServed == (backlog # <<>>) ~> (backlog = <<>> \/ server = "hung")
=============================================================================
