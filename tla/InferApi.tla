------------------------------ MODULE InferApi ------------------------------
(***************************************************************************)
(* A call of HistoryWorker::infer() and the API socket that answers it     *)
(* (src/src/history_worker/mod.rs, serve_api_socket() in                   *)
(* src/scripts/worker_mistral7b/__main__.py).                              *)
(*                                                                         *)
(* The server is one thread: it accepts a connection, receives once,       *)
(* generates, answers and closes before it accepts the next.  The caller   *)
(* makes one call at a time, each on a connection of its own.  It gives up *)
(* after 60 s; the server does not know, and works on.                     *)
(***************************************************************************)
EXTENDS Integers, Sequences, SequencesExt

CONSTANTS
    Ids,        \* the messages infer() is called for, numbers other than 0
    SizeOf,     \* "small": one recv() takes the request; "large": perhaps not;
                \* "huge": the socket buffer does not hold it either
    Backlog,    \* connections the kernel holds for a server that is busy
    MaxFaults   \* bound: generations that never end, exits of the Python process

VARIABLES
    server,     \* where the API thread is
    backlog,    \* connections that wait for accept(), oldest first
    serving,    \* the connection the thread works on, or NoConn
    call,       \* where infer() is, and the message it is about
    reply,      \* what lies in the caller's socket: the line of the server
    faults

apiVars == <<server, backlog, serving, call, reply, faults>>

\* `live`: the caller still holds its end; `sent`: the request is written.
Conn == [msg : Ids, live : BOOLEAN, sent : BOOLEAN]
NoConn == [msg |-> 0, live |-> FALSE, sent |-> FALSE]

\* A line: the delta the model gave for a message, or JSON without a delta.
Delta(m) == [kind |-> "delta", of |-> m]
NoDelta == [kind |-> "empty"]
Silence == [kind |-> "none"]

Up == server \notin {"loading", "gone"}
Idle == [at |-> "idle"]
At(step) == call.at = step
Held == serving.live \/ \E i \in DOMAIN backlog : backlog[i].live

ApiTypeOK ==
    /\ server \in {"loading", "accept", "recv", "generate", "hung", "gone"}
    /\ backlog \in Seq(Conn) /\ Len(backlog) <= Backlog
    /\ serving \in Conn \cup {NoConn}
    /\ call \in {Idle} \cup [at : {"connect", "write", "read"}, msg : Ids]
    /\ reply \in {Silence, NoDelta} \cup {Delta(m) : m \in Ids}
    /\ faults \in 0..MaxFaults

ApiInit ==
    /\ server = "loading" /\ backlog = <<>> /\ serving = NoConn
    /\ call = Idle /\ reply = Silence
    /\ faults = 0

-----------------------------------------------------------------------------
(* infer().                                                                *)

Drop(c) == [c EXCEPT !.live = FALSE]
LeaveConnection ==
    /\ backlog' = [i \in DOMAIN backlog |-> Drop(backlog[i])]
    /\ serving' = Drop(serving)

\* Faulty variant: the stream is kept for the next call.
ReturnOpen ==
    /\ call' = Idle /\ reply' = Silence
    /\ UNCHANGED <<server, backlog, serving, faults>>

\* infer() returns; its stream is dropped with it.
Return ==
    /\ call' = Idle /\ reply' = Silence
    /\ LeaveConnection
    /\ UNCHANGED <<server, faults>>

Start(m) ==
    /\ At("idle")
    /\ call' = [at |-> "connect", msg |-> m]
    /\ UNCHANGED <<server, backlog, serving, reply, faults>>

\* Faulty variant: a backlog without a bound.
ConnectUnbounded ==
    /\ At("connect") /\ Up
    /\ backlog' = Append(backlog, [msg |-> call.msg, live |-> TRUE, sent |-> FALSE])
    /\ call' = [call EXCEPT !.at = "write"]
    /\ UNCHANGED <<server, serving, reply, faults>>

\* The kernel completes the connection, whatever the server is doing.
Connect ==
    /\ At("connect") /\ Up /\ Len(backlog) < Backlog
    /\ backlog' = Append(backlog, [msg |-> call.msg, live |-> TRUE, sent |-> FALSE])
    /\ call' = [call EXCEPT !.at = "write"]
    /\ UNCHANGED <<server, serving, reply, faults>>

\* Faulty variant: connect() without a timeout.
ConnectRefused == At("connect") /\ ~Up /\ Return

\* Nobody listens, or the backlog is full for 3 s.
ConnectFails == At("connect") /\ (~Up \/ Len(backlog) = Backlog) /\ Return

\* write_all() returns once the kernel has the request; that of a huge one
\* waits for the server to read, and there is no timeout on it.
Write ==
    LET Mark(c) == [c EXCEPT !.sent = c.live \/ c.sent]
    IN  /\ At("write") /\ Held
        /\ backlog' = [i \in DOMAIN backlog |-> Mark(backlog[i])]
        /\ serving' = Mark(serving)
        /\ call' = IF SizeOf[call.msg] = "huge" THEN call ELSE [call EXCEPT !.at = "read"]
        /\ UNCHANGED <<server, reply, faults>>

WriteFails == At("write") /\ ~Held /\ Return

ReadLine == At("read") /\ reply # Silence /\ Return

\* The server closed without a line, or 60 s are over.
ReadFails == At("read") /\ reply = Silence /\ ~Held /\ Return
GiveUp == At("read") /\ Return

-----------------------------------------------------------------------------
(* The API thread.                                                         *)

\* The model is loaded: remove the old socket, bind, listen.
Listen ==
    /\ server = "loading"
    /\ server' = "accept"
    /\ UNCHANGED <<backlog, serving, call, reply, faults>>

Accept ==
    /\ server = "accept" /\ backlog # <<>>
    /\ serving' = Head(backlog) /\ backlog' = Tail(backlog)
    /\ server' = "recv"
    /\ UNCHANGED <<call, reply, faults>>

\* Faulty variant: the exception of a sendall() to nobody ends the thread.
AnswerOrEnd(line) ==
    /\ reply' = IF serving.live THEN line ELSE reply
    /\ serving' = NoConn
    /\ server' = IF serving.live THEN "accept" ELSE "gone"
    /\ UNCHANGED <<backlog, call, faults>>

\* sendall() and close(); a line for a caller that is gone raises, which is
\* caught.
Answer(line) ==
    /\ reply' = IF serving.live THEN line ELSE reply
    /\ serving' = NoConn
    /\ server' = "accept"
    /\ UNCHANGED <<backlog, call, faults>>

\* recv(65535), once: part of a request is "invalid json"; nothing at all
\* means that the caller left.
Recv ==
    /\ server = "recv"
    /\ \/ /\ serving.sent /\ SizeOf[serving.msg] # "huge"
          /\ server' = "generate"
          /\ UNCHANGED <<backlog, serving, call, reply, faults>>
       \/ serving.sent /\ SizeOf[serving.msg] # "small" /\ Answer(NoDelta)
       \/ ~serving.sent /\ ~serving.live /\ Answer(Silence)

\* generate_state_delta(): facts and a summary; or none that parse, or an
\* exception that becomes {"error": ...}.
Generate == server = "generate" /\ \E line \in {Delta(serving.msg), NoDelta} : Answer(line)

Hang ==
    /\ server = "generate" /\ faults < MaxFaults
    /\ server' = "hung" /\ faults' = faults + 1
    /\ UNCHANGED <<backlog, serving, call, reply>>

\* The process dies, and its connections with it; nothing restarts it.
Exit ==
    /\ server # "gone" /\ faults < MaxFaults
    /\ server' = "gone" /\ faults' = faults + 1
    /\ backlog' = <<>> /\ serving' = NoConn
    /\ UNCHANGED <<call, reply>>

\* The Rust process ends and is started again, with a Python process of its own;
\* an earlier one keeps a socket that has no name any more.
StartAnew ==
    /\ server' = "loading" /\ backlog' = <<>> /\ serving' = NoConn
    /\ call' = Idle /\ reply' = Silence
    /\ UNCHANGED faults

ServerStep == Listen \/ Accept \/ Recv \/ Generate
ServerFault == Hang \/ Exit

-----------------------------------------------------------------------------
(* Properties.                                                             *)

\* A caller holds one connection at most, and everything ahead of it belongs
\* to calls that were given up: so a late answer finds nobody, and never
\* becomes the answer to the next message.
OneConnectionHeld ==
    /\ serving.live => \A i \in DOMAIN backlog : ~backlog[i].live
    /\ \A i \in DOMAIN backlog : backlog[i].live => i = Len(backlog)
    /\ At("idle") => ~Held /\ reply = Silence
=============================================================================
