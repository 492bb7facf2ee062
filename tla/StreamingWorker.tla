--------------------------- MODULE StreamingWorker ---------------------------
(***************************************************************************)
(* The streaming socket of a Python worker                                 *)
(* (src/scripts/worker_mistral7b/__main__.py, net/server.py,               *)
(* inference/dispatcher.py, inference/streaming.py) and the Node side of   *)
(* each connection (src/node/src/sockets/worker.ts).                       *)
(*                                                                         *)
(* The main thread accepts one connection at a time, puts every request    *)
(* line it reads into a queue and goes on reading the SAME connection      *)
(* until its peer ends it.  A worker thread takes the requests, writes     *)
(* their answers and closes the connection from under the main thread.     *)
(* The kernel keeps a socket open while a recv on it is in progress, so    *)
(* the peer sees the end only once the main thread has left that recv.     *)
(*                                                                         *)
(* The gateway opens a connection per request, writes one line and ends    *)
(* its side when it reads the "done" line.  Requests are named by their    *)
(* connection.                                                             *)
(***************************************************************************)
EXTENDS Integers, Sequences, FiniteSets, SequencesExt

CONSTANTS
    Clients,        \* the connections, numbered as the gateway opens them
    Backlog,        \* connections the kernel keeps for accept() (listen(8))
    MaxLines,       \* bound: lines of an answer before its last one
    MaxFailures,    \* bound: requests whose reading or handling raises
    MaxHangs,       \* bound: generations that never end
    MaxQuits        \* bound: peers that go away by themselves

ASSUME StreamingAssumption ==
    /\ IsFiniteSet(Clients) /\ Clients \subseteq Nat \ {0}
    /\ Backlog \in Nat \ {0}
    /\ {MaxLines, MaxFailures, MaxHangs, MaxQuits} \subseteq Nat

VARIABLES
    peer,       \* peer[k]: the gateway's side of connection k
    backlog,    \* connections that wait for accept()
    main,       \* where the main thread is
    conn,       \* its variable conn
    queue,      \* request_queue
    worker,     \* where the worker thread is
    job,        \* its variable job
    wire,       \* wire[k]: the lines written to k, in order
    closed,     \* connections closed by the server's code
    failures, hangs, quits

vars == <<peer, backlog, main, conn, queue, worker, job, wire, closed,
          failures, hangs, quits>>

None == 0
Line == {"queued", "line", "done", "error"}

\* idle: not connected; open; half: it has ended its side; over: it has read
\* the end of the other side; refused: no room in the backlog; gone: its
\* process ended.
PeerState == {"idle", "open", "half", "over", "refused", "gone"}

TypeOK ==
    /\ peer \in [Clients -> PeerState]
    /\ backlog \in Seq(Clients) /\ Len(backlog) <= Backlog
    /\ main \in {"accept", "recv", "put", "reply", "again"}
    /\ conn \in Clients \cup {None}
    /\ queue \in Seq(Clients)
    /\ worker \in {"idle", "work", "stuck", "close"}
    /\ job \in Clients \cup {None}
    /\ wire \in [Clients -> Seq(Line)]
    /\ closed \in SUBSET Clients
    /\ failures \in 0..MaxFailures /\ hangs \in 0..MaxHangs /\ quits \in 0..MaxQuits

Init ==
    /\ peer = [k \in Clients |-> "idle"]
    /\ backlog = <<>>
    /\ main = "accept" /\ conn = None
    /\ queue = <<>>
    /\ worker = "idle" /\ job = None
    /\ wire = [k \in Clients |-> <<>>]
    /\ closed = {}
    /\ failures = 0 /\ hangs = 0 /\ quits = 0

\* k is the next connection to open.
IsNext(k) == peer[k] = "idle" /\ \A j \in Clients : j < k => peer[j] # "idle"

Has(k, line) == line \in Range(wire[k])
Queued(k) == k \in Range(queue)

\* Jobs the worker thread has still to answer.
Outstanding == Range(queue) \cup (IF worker \in {"work", "stuck"} THEN {job} ELSE {})

\* A line reaches the gateway unless one of the two sides has gone.
Deliver(k, line) ==
    IF k \in closed \/ peer[k] \in {"over", "gone"} THEN wire
    ELSE [wire EXCEPT ![k] = Append(@, line)]

\* The gateway can read the end of k: the server has closed it and the main
\* thread is not inside a recv that keeps the socket open.
Ended(k) == k \in closed /\ ~(main = "recv" /\ conn = k)

-----------------------------------------------------------------------------
(* The gateway.                                                            *)

\* Faulty variant: a backlog without a bound.
ConnectAlways(k) ==
    /\ IsNext(k)
    /\ peer' = [peer EXCEPT ![k] = "open"]
    /\ backlog' = Append(backlog, k)
    /\ UNCHANGED <<main, conn, queue, worker, job, wire, closed, failures, hangs, quits>>

\* net.createConnection and the write of the request line.
Connect(k) ==
    /\ IsNext(k)
    /\ Len(backlog) < Backlog
    /\ peer' = [peer EXCEPT ![k] = "open"]
    /\ backlog' = Append(backlog, k)
    /\ UNCHANGED <<main, conn, queue, worker, job, wire, closed, failures, hangs, quits>>

\* connect() fails with EAGAIN; the gateway reports it and closes the websocket.
Refuse(k) ==
    /\ IsNext(k)
    /\ Len(backlog) = Backlog
    /\ peer' = [peer EXCEPT ![k] = "refused"]
    /\ UNCHANGED <<backlog, main, conn, queue, worker, job, wire, closed, failures, hangs, quits>>

\* The "done" line makes the gateway end its side; an "error" line does not.
ReadDone(k) ==
    /\ peer[k] = "open" /\ Has(k, "done")
    /\ peer' = [peer EXCEPT ![k] = "half"]
    /\ UNCHANGED <<backlog, main, conn, queue, worker, job, wire, closed, failures, hangs, quits>>

\* The "end" event, after every line has been read.  allowHalfOpen is off: an
\* open side is ended too.
ReadEnd(k) ==
    /\ peer[k] = "half" \/ (peer[k] = "open" /\ ~Has(k, "done"))
    /\ Ended(k)
    /\ peer' = [peer EXCEPT ![k] = "over"]
    /\ UNCHANGED <<backlog, main, conn, queue, worker, job, wire, closed, failures, hangs, quits>>

\* The gateway process ends with the request open.
Quit(k) ==
    /\ peer[k] \in {"open", "half"}
    /\ quits < MaxQuits
    /\ quits' = quits + 1
    /\ peer' = [peer EXCEPT ![k] = "gone"]
    /\ UNCHANGED <<backlog, main, conn, queue, worker, job, wire, closed, failures, hangs>>

-----------------------------------------------------------------------------
(* The main thread.                                                        *)

\* accept().  The assignment to conn drops the last reference to the previous
\* socket unless a job holds it, and a dropped socket is closed.
Accept ==
    /\ main = "accept" /\ backlog # <<>>
    /\ conn' = Head(backlog)
    /\ backlog' = Tail(backlog)
    /\ closed' = IF conn = None \/ Queued(conn) \/ (worker # "idle" /\ job = conn)
                 THEN closed ELSE closed \cup {conn}
    /\ main' = "recv"
    /\ UNCHANGED <<peer, queue, worker, job, wire, failures, hangs, quits>>

\* The first recv returns the request line.
Unread(k) == ~Queued(k) /\ job # k /\ ~Has(k, "queued") /\ ~Has(k, "error")
                /\ ~Has(k, "done") /\ k \notin closed

ReadRequest ==
    /\ main = "recv" /\ Unread(conn)
    /\ main' = "put"
    /\ UNCHANGED <<peer, backlog, conn, queue, worker, job, wire, closed, failures, hangs, quits>>

\* The line raises: a chunk of 64 KiB that ends inside a character does not
\* decode.  The handler reports it and the loop goes back to accept().
ReadFails ==
    /\ main = "recv" /\ Unread(conn)
    /\ failures < MaxFailures
    /\ failures' = failures + 1
    /\ wire' = Deliver(conn, "error")
    /\ main' = "accept"
    /\ UNCHANGED <<peer, backlog, conn, queue, worker, job, closed, hangs, quits>>

\* qsize(), put().  The priority is a constant and the time stamps grow, so
\* the priority queue is a queue.
PutJob ==
    /\ main = "put"
    /\ queue' = Append(queue, conn)
    /\ main' = "reply"
    /\ UNCHANGED <<peer, backlog, conn, worker, job, wire, closed, failures, hangs, quits>>

\* The queue response; writing to a connection that is closed or whose peer has
\* gone raises, which leads back to accept().
Reply ==
    /\ main = "reply"
    /\ wire' = Deliver(conn, "queued")
    /\ main' = IF wire' = wire THEN "accept" ELSE "again"
    /\ UNCHANGED <<peer, backlog, conn, queue, worker, job, closed, failures, hangs, quits>>

\* Faulty variant: the main thread leaves a connection after one request.
LeaveConnection ==
    /\ main = "again"
    /\ main' = "accept"
    /\ UNCHANGED <<peer, backlog, conn, queue, worker, job, wire, closed, failures, hangs, quits>>

\* The generator calls recv again; on a closed socket that raises.
RecvAgain ==
    /\ main = "again"
    /\ main' = IF conn \in closed THEN "accept" ELSE "recv"
    /\ UNCHANGED <<peer, backlog, conn, queue, worker, job, wire, closed, failures, hangs, quits>>

\* recv returns no bytes once the peer has ended its side.
ReadEof ==
    /\ main = "recv" /\ ~Unread(conn)
    /\ peer[conn] \in {"half", "over", "gone"}
    /\ main' = "accept"
    /\ UNCHANGED <<peer, backlog, conn, queue, worker, job, wire, closed, failures, hangs, quits>>

-----------------------------------------------------------------------------
(* The worker thread.                                                      *)

TakeJob ==
    /\ worker = "idle" /\ queue # <<>>
    /\ job' = Head(queue)
    /\ queue' = Tail(queue)
    /\ worker' = "work"
    /\ UNCHANGED <<peer, backlog, main, conn, wire, closed, failures, hangs, quits>>

\* send_system(), send_event(): errors of the connection are ignored.
Stream ==
    /\ worker = "work"
    /\ Len(SelectSeq(wire[job], LAMBDA l : l = "line")) < MaxLines
    /\ wire' = Deliver(job, "line")
    /\ UNCHANGED <<peer, backlog, main, conn, queue, worker, job, closed, failures, hangs, quits>>

Finish ==
    /\ worker = "work"
    /\ wire' = Deliver(job, "done")
    /\ worker' = "close"
    /\ UNCHANGED <<peer, backlog, main, conn, queue, job, closed, failures, hangs, quits>>

\* Faulty variants: the exception is not reported; the job is queued again.
FailSilently ==
    /\ worker = "work"
    /\ \/ failures < MaxFailures /\ failures' = failures + 1
       \/ peer[job] = "gone" /\ failures' = failures
    /\ worker' = "close"
    /\ UNCHANGED <<peer, backlog, main, conn, queue, job, wire, closed, hangs, quits>>

FailAndRetry ==
    /\ worker = "work"
    /\ failures < MaxFailures /\ failures' = failures + 1
    /\ wire' = Deliver(job, "error")
    /\ queue' = Append(queue, job)
    /\ worker' = "idle"
    /\ UNCHANGED <<peer, backlog, main, conn, job, closed, hangs, quits>>

\* handle_request raises: the text is JSON but no object, the model fails, or
\* route_request writes the summary to a peer that has gone.
Fail ==
    /\ worker = "work"
    /\ \/ failures < MaxFailures /\ failures' = failures + 1
       \/ peer[job] = "gone" /\ failures' = failures
    /\ wire' = Deliver(job, "error")
    /\ worker' = "close"
    /\ UNCHANGED <<peer, backlog, main, conn, queue, job, closed, hangs, quits>>

\* The thread that runs model.generate dies: the streamer has no timeout and
\* never ends.
Hang ==
    /\ worker = "work"
    /\ hangs < MaxHangs
    /\ hangs' = hangs + 1
    /\ worker' = "stuck"
    /\ UNCHANGED <<peer, backlog, main, conn, queue, job, wire, closed, failures, quits>>

\* Faulty variant: no finally.
LeaveOpen ==
    /\ worker = "close"
    /\ worker' = "idle"
    /\ UNCHANGED <<peer, backlog, main, conn, queue, job, wire, closed, failures, hangs, quits>>

\* finally: conn.close(), and back to the queue.
CloseJob ==
    /\ worker = "close"
    /\ closed' = closed \cup {job}
    /\ worker' = "idle"
    /\ UNCHANGED <<peer, backlog, main, conn, queue, job, wire, failures, hangs, quits>>

-----------------------------------------------------------------------------
MainStep == Accept \/ ReadRequest \/ PutJob \/ Reply \/ RecvAgain \/ ReadEof
WorkerStep == TakeJob \/ Finish \/ CloseJob
PeerReads(k) == ReadDone(k) \/ ReadEnd(k)

Next ==
    \/ MainStep \/ ReadFails
    \/ WorkerStep \/ Stream \/ Fail \/ Hang
    \/ \E k \in Clients : Connect(k) \/ Refuse(k) \/ PeerReads(k) \/ Quit(k)

Spec == Init /\ [][Next]_vars

\* Both threads are scheduled, a generation that does not hang ends, and the
\* gateway's event loop reads what arrives.  Nobody has to connect.
FairSpec ==
    /\ Spec
    /\ WF_vars(MainStep)
    /\ WF_vars(WorkerStep)
    /\ \A k \in Clients : WF_vars(PeerReads(k))

-----------------------------------------------------------------------------
(* Properties.                                                             *)

\* The server works on one request at a time, end to end: every job that is
\* queued or being answered belongs to the connection the main thread is
\* reading, unless its peer went away.  So the queue never builds up behind a
\* live request, and the next request waits in the kernel's backlog.
OneLiveRequest ==
    \A k \in Outstanding : k = conn \/ peer[k] = "gone"

\* No request ends in silence: a gateway that reads the end of a connection
\* has read the end of an answer or an error on it.
EndIsExplained ==
    \A k \in Clients : peer[k] = "over" => Has(k, "done") \/ Has(k, "error")

\* A request is answered at most once, whichever threads write to it.
AnsweredOnce ==
    \A k \in Clients : \A i, j \in DOMAIN wire[k] :
        {wire[k][i], wire[k][j]} \subseteq {"done", "error"} => i = j

\* The server ends no connection under an answer: when the end becomes readable,
\* the gateway has ended its own side, was sent an error, or is gone.  The exception
\* is a main thread that has not come back to recv since it queued the request.
Hurried(k) == conn = k /\ main \in {"reply", "again"}
EndFollowsHalf ==
    [][\A k \in Clients : ~Ended(k) /\ Ended(k)' =>
          peer[k] \in {"half", "over", "gone"} \/ Has(k, "error") \/ Hurried(k)]_vars

\* Unless a request hangs or raises, each connection the gateway opens comes to
\* its end, whichever peers go away.
RequestsEnd ==
    \A k \in Clients :
        peer[k] = "open" ~> (peer[k] \in {"over", "gone"} \/ hangs > 0 \/ failures > 0)

\* "Do *not* close conn — worker thread will handle it" (__main__.py:228): what
\* the worker thread closes, the gateway sees closed.
CloseIsSeen ==
    \A k \in Clients : k \in closed ~> peer[k] \in {"over", "gone"}
=============================================================================
