-------------------------- MODULE MemoryPathProofs --------------------------
(***************************************************************************)
(* Machine-checked proofs about MemoryPath, for all messages, sizes of     *)
(* requests, backlogs and numbers of faults: a late answer never becomes   *)
(* the answer to another message, and so the path with every call taken    *)
(* apart implements HistoryWorker and keeps all that is proved there.      *)
(***************************************************************************)
EXTENDS MemoryPath, HistoryWorkerProofs

\* What is under way on the socket belongs to the call in progress.
ReplyIsOwn ==
    /\ Api!At("connect") => ~Api!Held /\ reply = Api!Silence
    /\ serving.live => serving.msg = call.msg
    /\ \A i \in DOMAIN backlog : backlog[i].live => backlog[i].msg = call.msg
    /\ reply.kind = "delta" => reply.of = call.msg

ApiInv == Api!ApiTypeOK /\ Api!OneConnectionHeld /\ ReplyIsOwn

\* The call in progress is about the event in hand.
CallIsForCur ==
    /\ unread \in Seq(Ids)
    /\ wpc = "infer" => cur \in Ids
    /\ ~Api!At("idle") => wpc = "infer" /\ call.msg = cur

PathInv == ApiInv /\ CallIsForCur /\ MemoryIsOwn

USE DEF Api!Silence, Api!NoDelta, Api!Delta, Api!Idle, Api!At, Api!Held, Api!NoConn

\* The caller leaves: each connection of the list stays, and has no caller.
LEMMA DroppedConns ==
    ASSUME NEW q \in Seq(Api!Conn), NEW r,
           r = [i \in DOMAIN q |-> [q[i] EXCEPT !.live = FALSE]]
    PROVE  /\ r \in Seq(Api!Conn) /\ Len(r) = Len(q) /\ DOMAIN r = DOMAIN q
           /\ \A i \in DOMAIN q : ~r[i].live
<1>1. \A i \in DOMAIN q : q[i] \in Api!Conn OBVIOUS
<1>2. \A i \in DOMAIN q : r[i] \in Api!Conn /\ ~r[i].live
  BY <1>1 DEF Api!Conn
<1>3. DOMAIN q = 1..Len(q) /\ Len(q) \in Nat /\ DOMAIN r = DOMAIN q OBVIOUS
<1>4. r \in [1..Len(q) -> Api!Conn] BY <1>2, <1>3
<1> QED BY <1>2, <1>3, <1>4

\* The caller writes: each connection of the list stays, with its caller.
LEMMA WrittenConns ==
    ASSUME NEW q \in Seq(Api!Conn), NEW r,
           r = [i \in DOMAIN q |-> [q[i] EXCEPT !.sent = q[i].live \/ q[i].sent]]
    PROVE  /\ r \in Seq(Api!Conn) /\ Len(r) = Len(q) /\ DOMAIN r = DOMAIN q
           /\ \A i \in DOMAIN q : r[i].msg = q[i].msg /\ r[i].live = q[i].live
<1>1. \A i \in DOMAIN q : q[i] \in Api!Conn OBVIOUS
<1>2. \A i \in DOMAIN q : r[i] \in Api!Conn /\ r[i].msg = q[i].msg /\ r[i].live = q[i].live
  BY <1>1 DEF Api!Conn
<1>3. DOMAIN q = 1..Len(q) /\ Len(q) \in Nat /\ DOMAIN r = DOMAIN q OBVIOUS
<1>4. r \in [1..Len(q) -> Api!Conn] BY <1>2, <1>3
<1> QED BY <1>2, <1>3, <1>4

\* A call that returns leaves nothing on the socket that is its own.
LEMMA ReturnKeeps ==
    ASSUME ApiInv, Api!Return
    PROVE  ApiInv' /\ call' = Api!Idle /\ reply' = Api!Silence
<1> USE PathAssumption
<1>1. Api!ApiTypeOK BY DEF ApiInv
<1>2. backlog' = [i \in DOMAIN backlog |-> [backlog[i] EXCEPT !.live = FALSE]]
  BY DEF Api!Return, Api!LeaveConnection, Api!Drop
<1>3. /\ backlog' \in Seq(Api!Conn) /\ Len(backlog') = Len(backlog)
      /\ \A i \in DOMAIN backlog' : ~backlog'[i].live
  BY <1>1, <1>2, DroppedConns DEF Api!ApiTypeOK
<1>4. serving' \in Api!Conn \cup {Api!NoConn} /\ ~serving'.live
  <2>1. serving' = [serving EXCEPT !.live = FALSE] BY DEF Api!Return, Api!LeaveConnection, Api!Drop
  <2>2. CASE serving \in Api!Conn BY <2>1, <2>2 DEF Api!Conn
  <2>3. CASE serving = Api!NoConn BY <2>1, <2>3
  <2> QED BY <1>1, <2>2, <2>3 DEF Api!ApiTypeOK
<1>5. call' = Api!Idle /\ reply' = Api!Silence /\ server' = server /\ faults' = faults
  BY DEF Api!Return
<1>6. Api!ApiTypeOK' BY <1>1, <1>3, <1>4, <1>5 DEF Api!ApiTypeOK
<1>7. Api!OneConnectionHeld' BY <1>3, <1>4, <1>5 DEF Api!OneConnectionHeld
<1>8. ReplyIsOwn' BY <1>3, <1>4, <1>5 DEF ReplyIsOwn
<1> QED BY <1>5, <1>6, <1>7, <1>8 DEF ApiInv

\* A new call starts on a socket without a connection of an earlier one.
LEMMA StartKeeps ==
    ASSUME ApiInv, NEW m \in Ids, Api!Start(m)
    PROVE  ApiInv' /\ call'.msg = m
  BY DEF ApiInv, Api!Start, Api!ApiTypeOK, Api!Conn, Api!OneConnectionHeld, ReplyIsOwn

\* Its connection is the last of the backlog, behind those that were given up.
LEMMA ConnectKeeps ==
    ASSUME ApiInv, Api!Connect
    PROVE  ApiInv' /\ call'.msg = call.msg /\ ~Api!At("idle") /\ ~Api!At("idle")'
<1> USE PathAssumption
<1>1. Api!ApiTypeOK /\ call \in [at : {"connect", "write", "read"}, msg : Ids] /\ call.at = "connect"
  BY DEF ApiInv, Api!Connect, Api!ApiTypeOK
<1>2. call' \in [at : {"connect", "write", "read"}, msg : Ids] /\ call'.at = "write" /\ call'.msg = call.msg
  BY <1>1 DEF Api!Connect
<1> DEFINE c == [msg |-> call.msg, live |-> TRUE, sent |-> FALSE]
<1>3. c \in Api!Conn BY <1>1 DEF Api!Conn
<1>4. /\ backlog \in Seq(Api!Conn) /\ Len(backlog) < Backlog
      /\ backlog' = Append(backlog, c)
  BY <1>1 DEF Api!Connect, Api!ApiTypeOK
<1> HIDE DEF c
<1>5. /\ backlog' \in Seq(Api!Conn) /\ Len(backlog') = Len(backlog) + 1
      /\ DOMAIN backlog' = 1..Len(backlog) + 1
      /\ \A i \in 1..Len(backlog) : backlog'[i] = backlog[i]
      /\ backlog'[Len(backlog) + 1] = c
  BY <1>3, <1>4
<1>6. ~serving.live /\ \A i \in 1..Len(backlog) : ~backlog[i].live
  BY <1>1, <1>4 DEF ApiInv, ReplyIsOwn
<1>7. UNCHANGED <<server, serving, reply, faults>> BY DEF Api!Connect
<1>8. Api!ApiTypeOK' BY <1>1, <1>2, <1>4, <1>5, <1>7 DEF Api!ApiTypeOK
<1>9. Api!OneConnectionHeld' BY <1>2, <1>5, <1>6, <1>7 DEF Api!OneConnectionHeld
<1>10. c.msg = call.msg BY DEF c
<1>11. ReplyIsOwn' BY <1>2, <1>5, <1>6, <1>7, <1>10 DEF ApiInv, ReplyIsOwn
<1> QED BY <1>1, <1>2, <1>8, <1>9, <1>11 DEF ApiInv

\* The request goes out on the connection of the call.
LEMMA WriteKeeps ==
    ASSUME ApiInv, Api!Write
    PROVE  ApiInv' /\ call'.msg = call.msg /\ ~Api!At("idle") /\ ~Api!At("idle")'
<1> USE PathAssumption
<1>1. Api!ApiTypeOK /\ call \in [at : {"connect", "write", "read"}, msg : Ids] /\ call.at = "write"
  BY DEF ApiInv, Api!Write, Api!ApiTypeOK
<1>2. /\ call' \in [at : {"connect", "write", "read"}, msg : Ids]
      /\ call'.at \in {"write", "read"} /\ call'.msg = call.msg
  BY <1>1 DEF Api!Write
<1>3. /\ backlog' \in Seq(Api!Conn) /\ Len(backlog') = Len(backlog) /\ DOMAIN backlog' = DOMAIN backlog
      /\ \A i \in DOMAIN backlog : backlog'[i].live = backlog[i].live /\ backlog'[i].msg = backlog[i].msg
  <2>1. backlog' = [i \in DOMAIN backlog |->
                       [backlog[i] EXCEPT !.sent = backlog[i].live \/ backlog[i].sent]]
    BY DEF Api!Write
  <2>2. backlog \in Seq(Api!Conn) BY <1>1 DEF Api!ApiTypeOK
  <2> DEFINE r == [i \in DOMAIN backlog |->
                     [backlog[i] EXCEPT !.sent = backlog[i].live \/ backlog[i].sent]]
  <2>3. /\ r \in Seq(Api!Conn) /\ Len(r) = Len(backlog) /\ DOMAIN r = DOMAIN backlog
        /\ \A i \in DOMAIN backlog : r[i].msg = backlog[i].msg /\ r[i].live = backlog[i].live
    BY <2>2, WrittenConns
  <2>4. backlog' = r BY <2>1
  <2> HIDE DEF r
  <2> QED BY <2>3, <2>4
<1>4. serving' \in Api!Conn \cup {Api!NoConn} /\ serving'.live = serving.live /\ serving'.msg = serving.msg
  <2>1. serving' = [serving EXCEPT !.sent = serving.live \/ serving.sent] BY DEF Api!Write
  <2>2. CASE serving \in Api!Conn BY <2>1, <2>2 DEF Api!Conn
  <2>3. CASE serving = Api!NoConn BY <2>1, <2>3
  <2> QED BY <1>1, <2>2, <2>3 DEF Api!ApiTypeOK
<1>6. UNCHANGED <<server, reply, faults>> BY DEF Api!Write
<1>7. Api!ApiTypeOK' BY <1>1, <1>2, <1>3, <1>4, <1>6 DEF Api!ApiTypeOK
<1>8. Api!OneConnectionHeld' BY <1>2, <1>3, <1>4, <1>6 DEF ApiInv, Api!OneConnectionHeld
<1>9. ReplyIsOwn' BY <1>2, <1>3, <1>4, <1>6 DEF ApiInv, ReplyIsOwn
<1> QED BY <1>1, <1>2, <1>7, <1>8, <1>9 DEF ApiInv

\* A line is for the caller of the connection it is written to, or for nobody.
LEMMA AnswerKeeps ==
    ASSUME ApiInv, NEW line,
           \/ line \in {Api!NoDelta, Api!Silence}
           \/ serving \in Api!Conn /\ line = Api!Delta(serving.msg),
           Api!Answer(line)
    PROVE  ApiInv'
  BY DEF ApiInv, Api!Answer, Api!ApiTypeOK, Api!Conn, Api!OneConnectionHeld, ReplyIsOwn

\* The first of the backlog is the caller's only if nobody is behind it.
LEMMA AcceptKeeps ==
    ASSUME ApiInv, Api!Accept
    PROVE  ApiInv'
<1> USE PathAssumption
<1>1. Api!ApiTypeOK /\ backlog \in Seq(Api!Conn) /\ backlog # <<>> BY DEF ApiInv, Api!Accept, Api!ApiTypeOK
<1>2. /\ serving' = backlog[1] /\ serving' \in Api!Conn
      /\ backlog' \in Seq(Api!Conn) /\ Len(backlog') = Len(backlog) - 1
      /\ DOMAIN backlog' = 1..Len(backlog) - 1
      /\ \A i \in 1..Len(backlog) - 1 : backlog'[i] = backlog[i + 1]
      /\ 1 \in DOMAIN backlog /\ Len(backlog) \in Nat \ {0}
      /\ DOMAIN backlog = 1..Len(backlog)
  BY <1>1 DEF Api!Accept
<1>3. server' = "recv" /\ UNCHANGED <<call, reply, faults>> BY DEF Api!Accept
<1>4. Api!ApiTypeOK' BY <1>1, <1>2, <1>3 DEF Api!ApiTypeOK
<1>5. \A i \in DOMAIN backlog' : i + 1 \in DOMAIN backlog /\ backlog'[i] = backlog[i + 1] BY <1>2
<1>6. Api!OneConnectionHeld' BY <1>2, <1>3, <1>5 DEF ApiInv, Api!OneConnectionHeld
<1>7. ReplyIsOwn' BY <1>2, <1>3, <1>5 DEF ApiInv, ReplyIsOwn
<1> QED BY <1>4, <1>6, <1>7 DEF ApiInv

\* Whatever the thread does, dies or hangs, the socket stays the call's.
LEMMA ServerKeeps ==
    ASSUME ApiInv, Api!ServerStep \/ Api!ServerFault
    PROVE  ApiInv' /\ call' = call
<1> USE PathAssumption
<1>1. CASE Api!Listen
  BY <1>1 DEF Api!Listen, ApiInv, Api!ApiTypeOK, Api!OneConnectionHeld, ReplyIsOwn
<1>2. CASE Api!Accept BY <1>2, AcceptKeeps DEF Api!Accept
<1>3. CASE Api!Recv
  <2>1. CASE server' = "generate" /\ UNCHANGED <<backlog, serving, call, reply, faults>>
    BY <2>1 DEF ApiInv, Api!ApiTypeOK, Api!OneConnectionHeld, ReplyIsOwn
  <2>2. CASE Api!Answer(Api!NoDelta) BY <2>2, AnswerKeeps DEF Api!Answer
  <2>3. CASE Api!Answer(Api!Silence) BY <2>3, AnswerKeeps DEF Api!Answer
  <2> QED BY <1>3, <2>1, <2>2, <2>3 DEF Api!Recv
<1>4. CASE Api!Generate
  <2>1. PICK line \in {Api!Delta(serving.msg), Api!NoDelta} : Api!Answer(line)
    BY <1>4 DEF Api!Generate
  <2>2. CASE line = Api!NoDelta BY <2>1, <2>2, AnswerKeeps DEF Api!Answer
  <2>3. CASE line = Api!Delta(serving.msg) /\ serving \in Api!Conn
    BY <2>1, <2>3, AnswerKeeps DEF Api!Answer
  <2>4. CASE serving = Api!NoConn
    BY <2>1, <2>4 DEF ApiInv, Api!Answer, Api!ApiTypeOK, Api!OneConnectionHeld, ReplyIsOwn
  <2> QED BY <2>1, <2>2, <2>3, <2>4 DEF ApiInv, Api!ApiTypeOK
<1>5. CASE Api!Hang
  BY <1>5 DEF Api!Hang, ApiInv, Api!ApiTypeOK, Api!OneConnectionHeld, ReplyIsOwn
<1>6. CASE Api!Exit
  BY <1>6 DEF Api!Exit, ApiInv, Api!ApiTypeOK, Api!OneConnectionHeld, ReplyIsOwn
<1> QED BY <1>1, <1>2, <1>3, <1>4, <1>5, <1>6 DEF Api!ServerStep, Api!ServerFault

\* A new pair of processes has a socket without connections.
LEMMA StartAnewKeeps ==
    ASSUME ApiInv, Api!StartAnew
    PROVE  ApiInv' /\ call' = Api!Idle
  BY PathAssumption DEF Api!StartAnew, ApiInv, Api!ApiTypeOK, Api!OneConnectionHeld, ReplyIsOwn

-----------------------------------------------------------------------------
\* A call that returns leaves the worker with a delta of the event in hand.
LEMMA AnsweredKeeps ==
    ASSUME PathInv, ApiInv', call' = Api!Idle, NEW learned, NEW summary,
           learned \subseteq {cur}, Answered(learned, summary)
    PROVE  PathInv'
<1>1. delta'.facts = loaded.facts \cup learned BY DEF Answered, Merge
<1>2. cur' = cur /\ loaded' = loaded /\ unread' = unread /\ wpc' = "primary"
  BY DEF Answered, channelVars
<1>3. MemoryIsOwn' BY <1>1, <1>2 DEF MemoryIsOwn
<1>4. CallIsForCur' BY <1>2 DEF PathInv, CallIsForCur
<1> QED BY <1>3, <1>4 DEF PathInv

\* A step of the call in progress.
LEMMA CallStepKeeps == ASSUME PathInv, CallStep PROVE PathInv'
<1> ApiInv /\ CallIsForCur /\ MemoryIsOwn BY DEF PathInv
<1>1. CASE Ask
  <2>1. cur \in Ids /\ Api!Start(cur) /\ wpc = "infer" BY <1>1 DEF Ask, CallIsForCur
  <2>2. ApiInv' /\ call'.msg = cur BY <2>1, StartKeeps
  <2>3. UNCHANGED <<unread, wpc, cur, loaded, delta>>
    BY <1>1 DEF Ask, vars, channelVars, workVars
  <2> QED BY <2>1, <2>2, <2>3 DEF PathInv, CallIsForCur, MemoryIsOwn
<1>2. CASE (Api!Connect \/ Api!Write) /\ UNCHANGED vars
  <2>1. ApiInv' /\ call'.msg = call.msg /\ ~Api!At("idle")
    BY <1>2, ConnectKeeps, WriteKeeps
  <2>2. UNCHANGED <<unread, wpc, cur, loaded, delta>> BY <1>2 DEF vars, channelVars, workVars
  <2> QED BY <2>1, <2>2 DEF PathInv, CallIsForCur, MemoryIsOwn
<1>3. CASE Hear
  <2>1. Api!At("read") /\ Api!Return BY <1>3 DEF Hear, Api!ReadLine
  <2>2. ApiInv' /\ call' = Api!Idle BY <2>1, ReturnKeeps
  <2>3. call.msg = cur BY <2>1 DEF CallIsForCur
  <2>4. CASE reply.kind = "delta"
    <3>1. reply.of = cur BY <2>3, <2>4 DEF ApiInv, ReplyIsOwn
    <3>2. Answered({reply.of}, "model") BY <1>3, <2>4 DEF Hear
    <3> QED BY <2>2, <3>1, <3>2, AnsweredKeeps
  <2>5. CASE reply.kind # "delta"
    <3>1. Answered({}, loaded.summary) BY <1>3, <2>5 DEF Hear
    <3> QED BY <2>2, <3>1, AnsweredKeeps
  <2> QED BY <2>4, <2>5
<1>4. CASE Fallback
  <2>1. Api!Return /\ Answered({}, "fallback")
    BY <1>4 DEF Fallback, Api!ConnectFails, Api!WriteFails, Api!ReadFails, Api!GiveUp
  <2>2. ApiInv' /\ call' = Api!Idle BY <2>1, ReturnKeeps
  <2> QED BY <2>1, <2>2, AnsweredKeeps
<1> QED BY <1>1, <1>2, <1>3, <1>4 DEF CallStep

\* The loop takes an event, saves and goes on while no call is in progress.
LEMMA LoopStepKeeps == ASSUME PathInv, LoopStep PROVE PathInv'
<1> USE WorkerAssumption DEF CallIsForCur, MemoryIsOwn
<1> ApiInv /\ CallIsForCur /\ MemoryIsOwn BY DEF PathInv
<1>1. UNCHANGED apiVars BY DEF LoopStep
<1>2. ApiInv' /\ call' = call
  BY <1>1 DEF apiVars, ApiInv, Api!ApiTypeOK, Api!OneConnectionHeld, ReplyIsOwn
<1>3. CASE Subscribe BY <1>2, <1>3 DEF Subscribe, channelVars, PathInv
<1>4. ASSUME NEW last, wpc = "recv", unread # <<>>, Take(Head(unread), last) PROVE PathInv'
  <2>1. Head(unread) \in Ids /\ Tail(unread) \in Seq(Ids) BY <1>4
  <2>2. unread' = Tail(unread) BY <1>4 DEF Take
  <2>3. wpc' \in {"recv", "infer"} /\ (wpc' = "infer" => cur' = Head(unread))
    BY <1>4 DEF Take
  <2>4. Api!At("idle")' BY <1>2, <1>4
  <2> QED BY <1>2, <2>1, <2>2, <2>3, <2>4 DEF PathInv
<1>5. CASE Receive BY <1>4, <1>5 DEF Receive
<1>6. CASE ReceiveBlind BY <1>4, <1>6 DEF ReceiveBlind
<1>7. CASE ReceiveLagged BY <1>2, <1>7 DEF ReceiveLagged, PathInv
<1>8. CASE SavePrimary BY <1>2, <1>8 DEF SavePrimary, channelVars, PathInv
<1>9. CASE SaveIndex BY <1>2, <1>9 DEF SaveIndex, channelVars, PathInv
<1>10. CASE SaveFails BY <1>2, <1>10 DEF SaveFails, channelVars, PathInv
<1>11. CASE PushRecent BY <1>2, <1>11 DEF PushRecent, channelVars, PathInv
<1> QED BY <1>3, <1>5, <1>6, <1>7, <1>8, <1>9, <1>10, <1>11 DEF LoopStep

\* The consumer fills the ring, the clock moves: nothing the call looks at.
LEMMA SendKeeps ==
    ASSUME PathInv, UNCHANGED apiVars, (\E m \in Ids : Send(m)) \/ Tick \/ ClockBack
    PROVE  PathInv'
<1> USE DEF CallIsForCur, MemoryIsOwn
<1> ApiInv /\ CallIsForCur /\ MemoryIsOwn BY DEF PathInv
<1>1. ApiInv' /\ call' = call
  BY DEF apiVars, ApiInv, Api!ApiTypeOK, Api!OneConnectionHeld, ReplyIsOwn
<1>2. ASSUME NEW m \in Ids, Send(m) PROVE PathInv'
  <2>1. Append(unread, m) \in Seq(Ids) /\ Tail(Append(unread, m)) \in Seq(Ids)
    <3> DEFINE more == Append(unread, m)
    <3>1. unread \in Seq(Ids) OBVIOUS
    <3>2. more \in Seq(Ids) /\ Len(more) = Len(unread) + 1 /\ Len(unread) \in Nat BY <3>1
    <3> HIDE DEF more
    <3>3. more # <<>> BY <3>2
    <3>4. Tail(more) \in Seq(Ids) BY <3>2, <3>3
    <3> QED BY <3>2, <3>4 DEF more
  <2>2. unread' \in {unread, Append(unread, m), Tail(Append(unread, m))}
    BY <1>2 DEF Send, channelVars
  <2>3. unread' \in Seq(Ids) BY <2>1, <2>2
  <2>4. UNCHANGED <<wpc, cur, loaded, delta>> BY <1>2 DEF Send, workVars
  <2> QED BY <1>1, <2>3, <2>4 DEF PathInv
<1>3. CASE Tick BY <1>1, <1>3 DEF Tick, channelVars, workVars, PathInv
<1>4. CASE ClockBack BY <1>1, <1>4 DEF ClockBack, channelVars, workVars, PathInv
<1> QED BY <1>2, <1>3, <1>4

\* The invariant holds in every state.
LEMMA PathInvAlways == PathSpec => []PathInv
<1>1. PathInit => PathInv
  BY PathAssumption DEF PathInit, Init, Api!ApiInit, PathInv, ApiInv, Api!ApiTypeOK,
     Api!OneConnectionHeld, ReplyIsOwn, CallIsForCur, MemoryIsOwn
<1>2. ASSUME PathInv, [PathNext]_pathVars PROVE PathInv'
  <2> USE <1>2
  <2> ApiInv /\ CallIsForCur /\ MemoryIsOwn BY DEF PathInv
  <2>1. CASE CallStep BY <2>1, CallStepKeeps
  <2>2. CASE LoopStep BY <2>2, LoopStepKeeps
  <2>3. CASE Crash /\ Api!StartAnew
    <3>1. ApiInv' /\ call' = Api!Idle BY <2>3, StartAnewKeeps
    <3> QED BY <2>3, <3>1 DEF Crash, PathInv, CallIsForCur, MemoryIsOwn
  <2>4. CASE ((\E m \in Ids : Send(m)) \/ Tick \/ ClockBack) /\ UNCHANGED apiVars
    BY <2>4, SendKeeps
  <2>5. CASE (Api!ServerStep \/ Api!ServerFault) /\ UNCHANGED vars
    <3>1. ApiInv' /\ call' = call BY <2>5, ServerKeeps
    <3>2. UNCHANGED <<unread, wpc, cur, loaded, delta>> BY <2>5 DEF vars, channelVars, workVars
    <3> QED BY <3>1, <3>2 DEF PathInv, CallIsForCur, MemoryIsOwn
  <2>6. CASE UNCHANGED pathVars
    BY <2>6 DEF pathVars, vars, apiVars, channelVars, workVars, PathInv, ApiInv, Api!ApiTypeOK,
       Api!OneConnectionHeld, ReplyIsOwn, CallIsForCur, MemoryIsOwn
  <2> QED BY <2>1, <2>2, <2>3, <2>4, <2>5, <2>6 DEF PathNext
<1> QED BY <1>1, <1>2, PTL DEF PathSpec

\* infer() holds one connection at most, and all that is ahead of it on the API
\* socket belongs to calls that were given up.
THEOREM OneCallHeld == PathSpec => []OneConnectionHeld
<1>1. PathInv => OneConnectionHeld BY DEF PathInv, ApiInv, OneConnectionHeld
<1> QED BY PathInvAlways, <1>1, PTL

\* The state infer() and merge() make of an event adds at most that event to the
\* last state: no late answer, of whichever call, gets into it.
THEOREM MemoryOwn == PathSpec => []MemoryIsOwn
<1>1. PathInv => MemoryIsOwn BY DEF PathInv
<1> QED BY PathInvAlways, <1>1, PTL

-----------------------------------------------------------------------------
(* The path implements HistoryWorker: what HistoryWorker takes as given of *)
(* a call of infer() is all that the socket lets happen.                   *)

LEMMA PathStepImplements ==
    ASSUME PathInv, [PathNext]_pathVars
    PROVE  [Next]_vars
<1>1. CASE Ask \/ ((Api!Connect \/ Api!Write) /\ UNCHANGED vars)
  BY <1>1 DEF Ask
<1>2. CASE Hear /\ reply.kind = "delta"
  <2>1. reply.of = call.msg BY <1>2 DEF PathInv, ApiInv, ReplyIsOwn
  <2>2. call.msg = cur BY <1>2 DEF Hear, Api!ReadLine, PathInv, CallIsForCur
  <2>3. Answered({cur}, "model") BY <1>2, <2>1, <2>2 DEF Hear
  <2> QED BY <2>3 DEF Infer, WorkerStep, Next
<1>3. CASE Hear /\ reply.kind # "delta"
  <2>1. Answered({}, loaded.summary) BY <1>3 DEF Hear
  <2> QED BY <2>1 DEF Infer, WorkerStep, Next
<1>4. CASE Fallback
  <2>1. Answered({}, "fallback") BY <1>4 DEF Fallback
  <2> QED BY <2>1 DEF Infer, WorkerStep, Next
<1>5. CASE LoopStep BY <1>5 DEF LoopStep, WorkerStep, Next
<1>6. CASE Crash BY <1>6 DEF Next
<1>7. CASE (\E m \in Ids : Send(m)) \/ Tick \/ ClockBack BY <1>7 DEF Next
<1>8. CASE (Api!ServerStep \/ Api!ServerFault) /\ UNCHANGED vars BY <1>8
<1>9. CASE UNCHANGED pathVars BY <1>9 DEF pathVars
<1> QED BY <1>1, <1>2, <1>3, <1>4, <1>5, <1>6, <1>7, <1>8, <1>9 DEF PathNext, CallStep

\* Timeouts, late answers, deaths and restarts of the Python process make of a
\* call what HistoryWorker says of it: its own answer, no facts, or a fallback.
THEOREM PathImplementsWorker == PathSpec => Spec
<1>1. PathInit => Init BY DEF PathInit
<1>2. PathInv /\ [PathNext]_pathVars => [Next]_vars BY PathStepImplements
<1> QED BY <1>1, <1>2, PathInvAlways, PTL DEF PathSpec, Spec

\* Type correctness of the path: the worker's state, the socket and the call.
THEOREM PathTypeCorrect == PathSpec => []PathTypeOK
<1>1. PathInv /\ TypeOK => PathTypeOK BY DEF PathInv, ApiInv, PathTypeOK
<1> QED BY <1>1, PathInvAlways, PathImplementsWorker, WorkerTypeCorrect, PTL

\* With the socket taken apart, the store still implements ChatMemory.
THEOREM PathIsMemory == PathSpec => ImplementsChatMemory
BY PathImplementsWorker, StoreIsMemory

\* Nothing learned and saved is forgotten, the events the worker is done with
\* are covered, and recent_state is in order: on the whole path.
THEOREM PathKeepsMemory ==
    PathSpec => [](NothingForgotten /\ ConsideredIsCovered /\ RecentInOrder)
BY PathImplementsWorker, LearnedIsKept, DoneIsCovered, HistoryInOrder, PTL
=============================================================================
