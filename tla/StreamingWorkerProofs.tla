------------------------ MODULE StreamingWorkerProofs ------------------------
(***************************************************************************)
(* Machine-checked proofs about StreamingWorker, for every number of       *)
(* connections, size of the backlog, length of answers and number of       *)
(* faults.                                                                 *)
(***************************************************************************)
EXTENDS StreamingWorker, SequenceTheorems, TLAPS

-----------------------------------------------------------------------------
(* The inductive invariant.                                                *)

Answered(k) == Has(k, "done") \/ Has(k, "error")
Explained(k) == Answered(k) \/ peer[k] = "gone"

\* The queue names a request once, and not the one that is being answered.
JobsAreDistinct ==
    /\ IsInjective(queue)
    /\ worker # "idle" => job \in Clients \ Range(queue)

\* What is to be answered has no answer yet and is open, ...
OutstandingIsOpen == \A k \in Outstanding : ~Answered(k) /\ k \notin closed

\* ... and so is the request the main thread is about to queue.
PutIsNew ==
    /\ main # "accept" => conn \in Clients
    /\ main = "put" => /\ conn \notin Range(queue) /\ job # conn
                       /\ ~Answered(conn) /\ conn \notin closed

\* The gateway ends its side after an answer, and is done after the server is.
PeerFollows ==
    \A k \in Clients : /\ peer[k] = "half" => Has(k, "done")
                       /\ peer[k] = "over" => k \in closed

\* Both threads give up a connection, and the server closes it, only with an
\* answer or an error on it, unless its peer has gone.
EndsExplained ==
    /\ \A k \in closed : Explained(k)
    /\ worker = "close" => Explained(job)
    /\ main = "accept" /\ conn # None => Explained(conn)

IInv ==
    /\ TypeOK /\ JobsAreDistinct /\ OutstandingIsOpen /\ PutIsNew /\ PeerFollows
    /\ EndsExplained /\ OneLiveRequest /\ AnsweredOnce

-----------------------------------------------------------------------------
(* Sequences and lines.                                                    *)

LEMMA AppendRange ==
    ASSUME NEW S, NEW s \in Seq(S), NEW x \in S
    PROVE  /\ Append(s, x) \in Seq(S) /\ Append(s, x) # s
           /\ Range(Append(s, x)) = Range(s) \cup {x}
           /\ IsInjective(s) /\ x \notin Range(s) => IsInjective(Append(s, x))
<1> DEFINE more == Append(s, x)
<1>1. /\ more \in Seq(S) /\ Len(s) \in Nat /\ Len(more) = Len(s) + 1
      /\ DOMAIN s = 1..Len(s) /\ DOMAIN more = 1..Len(s) + 1
      /\ \A i \in DOMAIN s : more[i] = s[i]
      /\ more[Len(s) + 1] = x
  OBVIOUS
<1> HIDE DEF more
<1>2. more # s BY <1>1
<1>3. Range(more) = Range(s) \cup {x}
  <2>1. \A y \in Range(more) : y \in Range(s) \cup {x}
    <3> TAKE y \in Range(more)
    <3>1. PICK i \in DOMAIN more : y = more[i] BY DEF Range
    <3>2. i \in DOMAIN s \/ i = Len(s) + 1 BY <1>1
    <3> QED BY <1>1, <3>1, <3>2 DEF Range
  <2>2. x \in Range(more) BY <1>1 DEF Range
  <2>3. \A i \in DOMAIN s : s[i] \in Range(more)
    <3> TAKE i \in DOMAIN s
    <3>1. i \in DOMAIN more /\ more[i] = s[i] BY <1>1
    <3> QED BY <3>1 DEF Range
  <2>4. Range(s) \subseteq Range(more) BY <2>3 DEF Range
  <2> QED BY <2>1, <2>2, <2>4
<1>4. ASSUME IsInjective(s), x \notin Range(s), NEW i \in DOMAIN more, NEW j \in DOMAIN more,
             more[i] = more[j]
      PROVE  i = j
  <2>1. \A k \in DOMAIN s : more[k] = s[k] /\ s[k] # x BY <1>1, <1>4 DEF Range
  <2>2. CASE i \in DOMAIN s /\ j \in DOMAIN s BY <1>4, <2>1, <2>2 DEF IsInjective
  <2>3. CASE i \notin DOMAIN s \/ j \notin DOMAIN s BY <1>1, <1>4, <2>1, <2>3
  <2> QED BY <2>2, <2>3
<1>5. IsInjective(s) /\ x \notin Range(s) => IsInjective(more) BY <1>4 DEF IsInjective
<1> QED BY <1>1, <1>2, <1>3, <1>5 DEF more

LEMMA HeadRange ==
    ASSUME NEW S, NEW s \in Seq(S), s # <<>>
    PROVE  /\ Head(s) \in S /\ Tail(s) \in Seq(S) /\ Len(Tail(s)) <= Len(s)
           /\ Range(s) = Range(Tail(s)) \cup {Head(s)}
           /\ IsInjective(s) => IsInjective(Tail(s)) /\ Head(s) \notin Range(Tail(s))
<1> DEFINE rest == Tail(s)
           first == Head(s)
<1>1. /\ rest \in Seq(S) /\ Len(s) \in Nat /\ Len(s) > 0 /\ Len(rest) = Len(s) - 1
      /\ DOMAIN s = 1..Len(s) /\ DOMAIN rest = 1..Len(s) - 1
      /\ first = s[1] /\ first \in S
      /\ \A i \in DOMAIN rest : rest[i] = s[i + 1]
  BY HeadTailProperties
<1> HIDE DEF rest, first
<1>2. Range(s) = Range(rest) \cup {first}
  <2>1. \A i \in DOMAIN rest : i + 1 \in DOMAIN s /\ rest[i] = s[i + 1] BY <1>1
  <2>2. Range(rest) \subseteq Range(s) BY <2>1 DEF Range
  <2>3. first \in Range(s) BY <1>1 DEF Range
  <2>4. ASSUME NEW i \in DOMAIN s PROVE s[i] \in Range(rest) \cup {first}
    <3>1. CASE i = 1 BY <1>1, <3>1
    <3>2. CASE i # 1
      <4>1. i - 1 \in DOMAIN rest /\ rest[i - 1] = s[i] BY <1>1, <3>2
      <4> QED BY <4>1 DEF Range
    <3> QED BY <3>1, <3>2
  <2>5. Range(s) \subseteq Range(rest) \cup {first} BY <2>4 DEF Range
  <2> QED BY <2>2, <2>3, <2>5
<1>3. ASSUME IsInjective(s) PROVE IsInjective(rest) /\ first \notin Range(rest)
  <2>1. \A i, j \in DOMAIN s : s[i] = s[j] => i = j BY <1>3 DEF IsInjective
  <2>2. ASSUME NEW i \in DOMAIN rest, NEW j \in DOMAIN rest, rest[i] = rest[j] PROVE i = j
    <3>1. i + 1 \in DOMAIN s /\ j + 1 \in DOMAIN s /\ s[i + 1] = s[j + 1] BY <1>1, <2>2
    <3>2. i + 1 = j + 1 BY <2>1, <3>1
    <3> QED BY <1>1, <3>2
  <2>3. ASSUME NEW i \in DOMAIN rest PROVE rest[i] # first
    <3>1. i + 1 \in DOMAIN s /\ 1 \in DOMAIN s /\ i + 1 # 1 BY <1>1
    <3> QED BY <1>1, <2>1, <3>1
  <2> QED BY <2>2, <2>3 DEF IsInjective, Range
<1> QED BY <1>1, <1>2, <1>3 DEF rest, first

\* A line is written or dropped, and changes no other connection.
LEMMA DeliverFacts ==
    ASSUME TypeOK, NEW k \in Clients, NEW line \in Line
    PROVE  /\ Deliver(k, line) \in [Clients -> Seq(Line)]
           /\ \A j \in Clients \ {k} : Deliver(k, line)[j] = wire[j]
           /\ \/ /\ k \in closed \/ peer[k] \in {"over", "gone"}
                 /\ Deliver(k, line) = wire
              \/ /\ k \notin closed /\ peer[k] \notin {"over", "gone"}
                 /\ Deliver(k, line)[k] = Append(wire[k], line)
                 /\ Deliver(k, line) # wire
<1>1. wire \in [Clients -> Seq(Line)] /\ wire[k] \in Seq(Line) BY DEF TypeOK
<1>2. Append(wire[k], line) \in Seq(Line) /\ Append(wire[k], line) # wire[k] BY <1>1, AppendRange
<1> QED BY <1>1, <1>2 DEF Deliver

\* What a line adds to what is known of its connection.
LEMMA DeliverLine ==
    ASSUME TypeOK, NEW k \in Clients, NEW line \in Line, wire' = Deliver(k, line), AnsweredOnce,
           line \in {"done", "error"} => ~Answered(k)
    PROVE  /\ wire' \in [Clients -> Seq(Line)] /\ AnsweredOnce'
           /\ \A j \in Clients, l \in Line : Has(j, l) => Has(j, l)'
           /\ \A j \in Clients \ {k} : Answered(j)' <=> Answered(j)
           /\ line \notin {"done", "error"} => (Answered(k)' <=> Answered(k))
           /\ wire' = wire <=> k \in closed \/ peer[k] \in {"over", "gone"}
           /\ line \in {"done", "error"} => Answered(k)' \/ k \in closed \/ peer[k] \in {"over", "gone"}
<1>1. /\ wire' \in [Clients -> Seq(Line)] /\ \A j \in Clients \ {k} : wire'[j] = wire[j]
      /\ wire \in [Clients -> Seq(Line)] /\ wire[k] \in Seq(Line)
  BY DeliverFacts DEF TypeOK
<1>2. CASE wire' = wire
  <2>1. k \in closed \/ peer[k] \in {"over", "gone"} BY <1>2, DeliverFacts
  <2> QED BY <1>1, <1>2, <2>1 DEF AnsweredOnce, Answered, Has
<1>3. CASE wire' # wire
  <2>1. wire'[k] = Append(wire[k], line) /\ ~(k \in closed \/ peer[k] \in {"over", "gone"})
    BY <1>3, DeliverFacts
  <2>2. Range(wire'[k]) = Range(wire[k]) \cup {line} BY <1>1, <2>1, AppendRange
  <2>3. \A j \in Clients, l \in Line : Has(j, l) => Has(j, l)' BY <1>1, <2>2 DEF Has
  <2>4. \A j \in Clients \ {k} : Answered(j)' <=> Answered(j) BY <1>1 DEF Answered, Has
  <2>5. line \notin {"done", "error"} => (Answered(k)' <=> Answered(k)) BY <2>2 DEF Answered, Has
  <2>6. line \in {"done", "error"} => Answered(k)' BY <2>2 DEF Answered, Has
  <2>7. AnsweredOnce'
    <3> SUFFICES ASSUME NEW c \in Clients, NEW i \in DOMAIN wire'[c], NEW j \in DOMAIN wire'[c],
                        {wire'[c][i], wire'[c][j]} \subseteq {"done", "error"}
                 PROVE  i = j
      BY DEF AnsweredOnce
    <3>1. CASE c # k BY <1>1, <3>1 DEF AnsweredOnce
    <3>2. CASE c = k
      <4> DEFINE old == wire[k]
                 new == wire'[k]
      <4>1. /\ Len(old) \in Nat /\ DOMAIN old = 1..Len(old) /\ DOMAIN new = 1..Len(old) + 1
            /\ \A n \in DOMAIN old : new[n] = old[n]
            /\ new[Len(old) + 1] = line
        BY <1>1, <2>1
      <4>2. \A a, b \in DOMAIN old : {old[a], old[b]} \subseteq {"done", "error"} => a = b
        BY DEF AnsweredOnce
      <4>3. line \in {"done", "error"} => \A a \in DOMAIN old : old[a] \notin {"done", "error"}
        BY DEF Answered, Has, Range
      <4> HIDE DEF old, new
      <4>4. i \in DOMAIN new /\ j \in DOMAIN new /\ {new[i], new[j]} \subseteq {"done", "error"}
        BY <3>2 DEF new
      <4>5. CASE i \in DOMAIN old /\ j \in DOMAIN old BY <4>1, <4>2, <4>4, <4>5
      <4>6. CASE i \notin DOMAIN old /\ j \in DOMAIN old BY <4>1, <4>3, <4>4, <4>6
      <4>7. CASE i \in DOMAIN old /\ j \notin DOMAIN old BY <4>1, <4>3, <4>4, <4>7
      <4>8. CASE i \notin DOMAIN old /\ j \notin DOMAIN old BY <4>1, <4>4, <4>8
      <4> QED BY <4>5, <4>6, <4>7, <4>8
    <3> QED BY <3>1, <3>2
  <2> QED BY <1>1, <1>3, <2>1, <2>3, <2>4, <2>5, <2>6, <2>7
<1> QED BY <1>2, <1>3

-----------------------------------------------------------------------------
(* The gateway's steps.                                                    *)

\* What the gateway may do to its side of one connection.
LEMMA PeerStep ==
    ASSUME IInv, NEW k \in Clients, NEW side \in PeerState,
           peer' = [peer EXCEPT ![k] = side],
           peer[k] # "gone",
           side = "half" => Has(k, "done"),
           side = "over" => k \in closed,
           UNCHANGED <<main, conn, queue, worker, job, wire, closed>>,
           backlog' \in Seq(Clients), Len(backlog') <= Backlog,
           failures' = failures, hangs' = hangs, quits' \in 0..MaxQuits
    PROVE  IInv'
<1>1. peer \in [Clients -> PeerState] BY DEF IInv, TypeOK
<1>2. /\ peer' \in [Clients -> PeerState] /\ peer'[k] = side
      /\ \A j \in Clients : j # k => peer'[j] = peer[j]
  BY <1>1
<1>3. TypeOK' BY <1>2 DEF IInv, TypeOK
<1>4. JobsAreDistinct' /\ OutstandingIsOpen' /\ PutIsNew' /\ AnsweredOnce'
  BY DEF IInv, JobsAreDistinct, OutstandingIsOpen, PutIsNew, AnsweredOnce, Answered, Has, Outstanding
<1>5. PeerFollows' BY <1>2 DEF IInv, PeerFollows, Has
<1>6. \A j \in Clients : Explained(j) => Explained(j)' BY <1>2 DEF Explained, Answered, Has
<1>7. closed \subseteq Clients /\ job \in Clients \cup {None} /\ conn \in Clients \cup {None}
  BY DEF IInv, TypeOK
<1>8. worker = "close" => job \in Clients BY DEF IInv, JobsAreDistinct
<1>9. EndsExplained' BY <1>6, <1>7, <1>8 DEF IInv, EndsExplained
<1>10. Outstanding' = Outstanding /\ Outstanding \subseteq Clients
  BY <1>7 DEF Outstanding, IInv, TypeOK, JobsAreDistinct, Range
<1>11. OneLiveRequest' BY <1>2, <1>10 DEF IInv, OneLiveRequest
<1> QED BY <1>3, <1>4, <1>5, <1>9, <1>11 DEF IInv

LEMMA GatewayInv ==
    ASSUME IInv, NEW k \in Clients, Connect(k) \/ Refuse(k) \/ PeerReads(k) \/ Quit(k)
    PROVE  IInv'
<1>0. /\ backlog \in Seq(Clients) /\ Len(backlog) <= Backlog /\ Len(backlog) \in Nat
      /\ Backlog \in Nat /\ quits \in 0..MaxQuits /\ MaxQuits \in Nat
      /\ peer \in [Clients -> PeerState]
  BY StreamingAssumption DEF IInv, TypeOK
<1>1. CASE Connect(k)
  <2>1. backlog' \in Seq(Clients) /\ Len(backlog') = Len(backlog) + 1 BY <1>0, <1>1 DEF Connect
  <2>2. Len(backlog') <= Backlog BY <1>0, <1>1, <2>1 DEF Connect
  <2> QED BY <1>0, <1>1, <2>1, <2>2, PeerStep DEF Connect, IsNext, PeerState
<1>2. CASE Refuse(k) BY <1>0, <1>2, PeerStep DEF Refuse, IsNext, PeerState
<1>3. CASE ReadDone(k) BY <1>0, <1>3, PeerStep DEF ReadDone, PeerState
<1>4. CASE ReadEnd(k) BY <1>0, <1>4, PeerStep DEF ReadEnd, Ended, PeerState
<1>5. CASE Quit(k)
  <2>1. quits' \in 0..MaxQuits BY <1>0, <1>5 DEF Quit
  <2> QED BY <1>0, <1>5, <2>1, PeerStep DEF Quit, PeerState
<1> QED BY <1>1, <1>2, <1>3, <1>4, <1>5 DEF PeerReads

-----------------------------------------------------------------------------
(* The main thread.                                                        *)

LEMMA AcceptInv == ASSUME IInv, Accept PROVE IInv'
<1>1. /\ main = "accept" /\ main' = "recv" /\ backlog # <<>>
      /\ conn' = Head(backlog) /\ backlog' = Tail(backlog)
      /\ closed' = IF conn = None \/ Queued(conn) \/ (worker # "idle" /\ job = conn)
                   THEN closed ELSE closed \cup {conn}
      /\ UNCHANGED <<peer, queue, worker, job, wire, failures, hangs, quits>>
  BY DEF Accept
<1>2. /\ Head(backlog) \in Clients /\ Tail(backlog) \in Seq(Clients)
      /\ Len(Tail(backlog)) <= Len(backlog) /\ Len(backlog) <= Backlog
  BY <1>1, HeadRange DEF IInv, TypeOK
<1>3. Len(Tail(backlog)) <= Backlog
  <2>1. Len(Tail(backlog)) \in Nat /\ Len(backlog) \in Nat /\ Backlog \in Nat
    BY <1>2, StreamingAssumption DEF IInv, TypeOK
  <2> QED BY <1>2, <2>1
<1>4. conn \in Clients \cup {None} /\ None \notin Clients
  BY StreamingAssumption DEF IInv, TypeOK, None
<1>5. TypeOK' BY <1>1, <1>2, <1>3, <1>4 DEF IInv, TypeOK
<1>6. JobsAreDistinct' /\ AnsweredOnce' BY <1>1 DEF IInv, JobsAreDistinct, AnsweredOnce
<1>7. PutIsNew' BY <1>1, <1>2 DEF PutIsNew
<1>8. PeerFollows' BY <1>1 DEF IInv, PeerFollows, Has
<1>9. Outstanding' = Outstanding /\ \A k : (Answered(k)' <=> Answered(k)) /\ (Explained(k)' <=> Explained(k))
  BY <1>1 DEF Outstanding, Answered, Explained, Has
<1>10. conn \in Outstanding => closed' = closed BY <1>1 DEF Outstanding, Queued
<1>11. OutstandingIsOpen' BY <1>1, <1>9, <1>10 DEF IInv, OutstandingIsOpen
<1>12. closed' # closed => Explained(conn) /\ closed' = closed \cup {conn}
  BY <1>1 DEF IInv, EndsExplained
<1>13. EndsExplained' BY <1>1, <1>9, <1>12 DEF IInv, EndsExplained
<1>14. OneLiveRequest'
  <2> SUFFICES ASSUME NEW k \in Outstanding PROVE peer[k] = "gone"
    BY <1>1, <1>9 DEF OneLiveRequest
  <2>1. ~Answered(k) BY DEF IInv, OutstandingIsOpen
  <2>2. CASE k = conn
    <3>1. k # None BY <1>4, <2>2 DEF Outstanding, IInv, TypeOK, JobsAreDistinct, Range
    <3> QED BY <1>1, <2>1, <2>2, <3>1 DEF IInv, EndsExplained, Explained
  <2> QED BY <2>2 DEF IInv, OneLiveRequest
<1> QED BY <1>5, <1>6, <1>7, <1>8, <1>11, <1>13, <1>14 DEF IInv

\* Steps of the main thread that move nothing but itself.
LEMMA MainMoves ==
    ASSUME IInv, UNCHANGED <<peer, backlog, conn, queue, worker, job, wire, closed>>,
           UNCHANGED <<failures, hangs, quits>>,
           main' \in {"accept", "recv", "put", "reply", "again"}, main # "accept",
           main' = "put" => Unread(conn),
           main' = "accept" => Explained(conn)
    PROVE  IInv'
<1>1. TypeOK' BY DEF IInv, TypeOK
<1>2. JobsAreDistinct' /\ OutstandingIsOpen' /\ PeerFollows' /\ OneLiveRequest' /\ AnsweredOnce'
  BY DEF IInv, JobsAreDistinct, OutstandingIsOpen, PeerFollows, OneLiveRequest, AnsweredOnce,
         Outstanding, Answered, Has
<1>3. PutIsNew' BY DEF IInv, PutIsNew, Unread, Queued, Answered, Has
<1>4. \A k : Explained(k)' <=> Explained(k) BY DEF Explained, Answered, Has
<1>5. EndsExplained' BY <1>4 DEF IInv, EndsExplained
<1> QED BY <1>1, <1>2, <1>3, <1>5 DEF IInv

LEMMA MainMovesInv == ASSUME IInv, ReadRequest \/ RecvAgain \/ ReadEof PROVE IInv'
<1>0. main # "accept" => conn \in Clients BY DEF IInv, PutIsNew
<1>1. CASE ReadRequest BY <1>1, MainMoves DEF ReadRequest
<1>2. CASE RecvAgain
  <2>1. main' = "accept" => Explained(conn) BY <1>2 DEF RecvAgain, IInv, EndsExplained
  <2>2. main' \in {"accept", "recv"} BY <1>2 DEF RecvAgain
  <2> QED BY <1>2, <2>1, <2>2, MainMoves DEF RecvAgain
<1>3. CASE ReadEof
  <2>1. Explained(conn)
    BY <1>0, <1>3 DEF ReadEof, IInv, PeerFollows, EndsExplained, Explained, Answered
  <2> QED BY <1>3, <2>1, MainMoves DEF ReadEof
<1> QED BY <1>1, <1>2, <1>3

LEMMA PutJobInv == ASSUME IInv, PutJob PROVE IInv'
<1>1. /\ main = "put" /\ main' = "reply" /\ queue' = Append(queue, conn)
      /\ UNCHANGED <<peer, backlog, conn, worker, job, wire, closed, failures, hangs, quits>>
  BY DEF PutJob
<1>2. /\ conn \in Clients /\ conn \notin Range(queue) /\ job # conn
      /\ ~Answered(conn) /\ conn \notin closed
  BY <1>1 DEF IInv, PutIsNew
<1>3. /\ queue' \in Seq(Clients) /\ Range(queue') = Range(queue) \cup {conn} /\ IsInjective(queue')
  BY <1>1, <1>2, AppendRange DEF IInv, TypeOK, JobsAreDistinct
<1>4. TypeOK' BY <1>1, <1>3 DEF IInv, TypeOK
<1>5. JobsAreDistinct' BY <1>1, <1>2, <1>3 DEF IInv, JobsAreDistinct
<1>6. Outstanding' = Outstanding \cup {conn} BY <1>1, <1>3 DEF Outstanding
<1>7. \A k : (Answered(k)' <=> Answered(k)) /\ (Explained(k)' <=> Explained(k))
  BY <1>1 DEF Answered, Explained, Has
<1>8. OutstandingIsOpen' BY <1>1, <1>2, <1>6, <1>7 DEF IInv, OutstandingIsOpen
<1>9. PutIsNew' BY <1>1, <1>2 DEF PutIsNew
<1>10. PeerFollows' /\ AnsweredOnce' BY <1>1 DEF IInv, PeerFollows, AnsweredOnce, Has
<1>11. EndsExplained' BY <1>1, <1>7 DEF IInv, EndsExplained
<1>12. OneLiveRequest' BY <1>1, <1>6 DEF IInv, OneLiveRequest
<1> QED BY <1>4, <1>5, <1>8, <1>9, <1>10, <1>11, <1>12 DEF IInv

\* A line is written: what has an answer keeps it, and what is open stays open.
LEMMA WriteLine ==
    ASSUME IInv, NEW k \in Clients, NEW line \in Line, wire' = Deliver(k, line),
           line \in {"done", "error"} => ~Answered(k) /\ k \notin closed,
           UNCHANGED <<peer, closed>>
    PROVE  /\ wire' \in [Clients -> Seq(Line)] /\ AnsweredOnce' /\ PeerFollows'
           /\ \A j \in Clients : Explained(j) => Explained(j)'
           /\ \A j \in Clients \ {k} : Answered(j)' <=> Answered(j)
           /\ line \notin {"done", "error"} => (Answered(k)' <=> Answered(k))
           /\ line \in {"done", "error"} => Explained(k)'
           /\ wire' = wire => Explained(k)
<1>0. TypeOK /\ AnsweredOnce /\ PeerFollows /\ \A j \in closed : Explained(j)
  BY DEF IInv, EndsExplained
<1>1. /\ wire' \in [Clients -> Seq(Line)] /\ AnsweredOnce'
      /\ \A j \in Clients, l \in Line : Has(j, l) => Has(j, l)'
      /\ \A j \in Clients \ {k} : Answered(j)' <=> Answered(j)
      /\ line \notin {"done", "error"} => (Answered(k)' <=> Answered(k))
      /\ wire' = wire <=> k \in closed \/ peer[k] \in {"over", "gone"}
      /\ line \in {"done", "error"} => Answered(k)' \/ k \in closed \/ peer[k] \in {"over", "gone"}
  BY <1>0, DeliverLine
<1>2. "done" \in Line /\ "error" \in Line BY DEF Line
<1>3. PeerFollows' BY <1>0, <1>1, <1>2 DEF PeerFollows
<1>4. \A j \in Clients : Explained(j) => Explained(j)' BY <1>1, <1>2 DEF Explained, Answered
<1>5. k \in closed \/ peer[k] \in {"over", "gone"} => Explained(k)
  BY <1>0 DEF PeerFollows, Explained
<1>6. line \in {"done", "error"} => Explained(k)'
  BY <1>0, <1>1 DEF PeerFollows, Explained
<1>7. wire' = wire => Explained(k) BY <1>1, <1>5
<1> QED BY <1>1, <1>3, <1>4, <1>6, <1>7

LEMMA ReplyInv == ASSUME IInv, Reply PROVE IInv'
<1>1. /\ main = "reply" /\ wire' = Deliver(conn, "queued")
      /\ main' = IF wire' = wire THEN "accept" ELSE "again"
      /\ UNCHANGED <<peer, backlog, conn, queue, worker, job, closed, failures, hangs, quits>>
  BY DEF Reply
<1>2. conn \in Clients BY <1>1 DEF IInv, PutIsNew
<1>3. /\ wire' \in [Clients -> Seq(Line)] /\ AnsweredOnce' /\ PeerFollows'
      /\ \A j \in Clients : Explained(j) => Explained(j)'
      /\ \A j \in Clients : Answered(j)' <=> Answered(j)
      /\ wire' = wire => Explained(conn)
  BY <1>1, <1>2, WriteLine DEF Line
<1>4. TypeOK' BY <1>1, <1>3 DEF IInv, TypeOK
<1>5. JobsAreDistinct' BY <1>1 DEF IInv, JobsAreDistinct
<1>6. Outstanding' = Outstanding /\ Outstanding \subseteq Clients
  BY <1>1 DEF Outstanding, IInv, TypeOK, JobsAreDistinct, Range
<1>7. OutstandingIsOpen' BY <1>1, <1>3, <1>6 DEF IInv, OutstandingIsOpen
<1>8. PutIsNew' BY <1>1, <1>2 DEF PutIsNew
<1>9. closed \subseteq Clients /\ (worker = "close" => job \in Clients)
  BY DEF IInv, TypeOK, JobsAreDistinct
<1>10. EndsExplained' BY <1>1, <1>2, <1>3, <1>9 DEF IInv, EndsExplained
<1>11. OneLiveRequest' BY <1>1, <1>6 DEF IInv, OneLiveRequest
<1> QED BY <1>3, <1>4, <1>5, <1>7, <1>8, <1>10, <1>11 DEF IInv

LEMMA ReadFailsInv == ASSUME IInv, ReadFails PROVE IInv'
<1>1. /\ main = "recv" /\ Unread(conn) /\ failures < MaxFailures /\ failures' = failures + 1
      /\ wire' = Deliver(conn, "error") /\ main' = "accept"
      /\ UNCHANGED <<peer, backlog, conn, queue, worker, job, closed, hangs, quits>>
  BY DEF ReadFails
<1>2. conn \in Clients /\ ~Answered(conn) /\ conn \notin closed /\ conn \notin Outstanding
  BY <1>1 DEF IInv, PutIsNew, Unread, Answered, Outstanding, Queued
<1>3. /\ wire' \in [Clients -> Seq(Line)] /\ AnsweredOnce' /\ PeerFollows'
      /\ \A j \in Clients : Explained(j) => Explained(j)'
      /\ \A j \in Clients \ {conn} : Answered(j)' <=> Answered(j)
      /\ Explained(conn)'
  BY <1>1, <1>2, WriteLine DEF Line
<1>4. failures' \in 0..MaxFailures BY <1>1, StreamingAssumption DEF IInv, TypeOK
<1>5. TypeOK' BY <1>1, <1>3, <1>4 DEF IInv, TypeOK
<1>6. JobsAreDistinct' BY <1>1 DEF IInv, JobsAreDistinct
<1>7. Outstanding' = Outstanding /\ Outstanding \subseteq Clients
  BY <1>1 DEF Outstanding, IInv, TypeOK, JobsAreDistinct, Range
<1>8. OutstandingIsOpen' BY <1>1, <1>2, <1>3, <1>7 DEF IInv, OutstandingIsOpen
<1>9. PutIsNew' BY <1>1, <1>2 DEF PutIsNew
<1>10. closed \subseteq Clients /\ (worker = "close" => job \in Clients)
  BY DEF IInv, TypeOK, JobsAreDistinct
<1>11. EndsExplained' BY <1>1, <1>3, <1>10 DEF IInv, EndsExplained
<1>12. OneLiveRequest' BY <1>1, <1>7 DEF IInv, OneLiveRequest
<1> QED BY <1>3, <1>5, <1>6, <1>8, <1>9, <1>11, <1>12 DEF IInv

-----------------------------------------------------------------------------
(* The worker thread.                                                      *)

LEMMA TakeJobInv == ASSUME IInv, TakeJob PROVE IInv'
<1>1. /\ worker = "idle" /\ queue # <<>> /\ worker' = "work"
      /\ job' = Head(queue) /\ queue' = Tail(queue)
      /\ UNCHANGED <<peer, backlog, main, conn, wire, closed, failures, hangs, quits>>
  BY DEF TakeJob
<1>2. /\ job' \in Clients /\ queue' \in Seq(Clients) /\ Range(queue) = Range(queue') \cup {job'}
      /\ IsInjective(queue') /\ job' \notin Range(queue')
  BY <1>1, HeadRange DEF IInv, TypeOK, JobsAreDistinct
<1>3. TypeOK' BY <1>1, <1>2 DEF IInv, TypeOK
<1>4. JobsAreDistinct' BY <1>1, <1>2 DEF JobsAreDistinct
<1>5. Outstanding' = Outstanding BY <1>1, <1>2 DEF Outstanding
<1>6. \A k : (Answered(k)' <=> Answered(k)) /\ (Explained(k)' <=> Explained(k))
  BY <1>1 DEF Answered, Explained, Has
<1>7. OutstandingIsOpen' BY <1>1, <1>5, <1>6 DEF IInv, OutstandingIsOpen
<1>8. PutIsNew' BY <1>1, <1>2, <1>6 DEF IInv, PutIsNew
<1>9. PeerFollows' /\ AnsweredOnce' BY <1>1 DEF IInv, PeerFollows, AnsweredOnce, Has
<1>10. EndsExplained' BY <1>1, <1>6 DEF IInv, EndsExplained
<1>11. OneLiveRequest' BY <1>1, <1>5 DEF IInv, OneLiveRequest
<1> QED BY <1>3, <1>4, <1>7, <1>8, <1>9, <1>10, <1>11 DEF IInv

LEMMA StreamInv == ASSUME IInv, Stream PROVE IInv'
<1>1. /\ worker = "work" /\ wire' = Deliver(job, "line")
      /\ UNCHANGED <<peer, backlog, main, conn, queue, worker, job, closed, failures, hangs, quits>>
  BY DEF Stream
<1>2. job \in Clients BY <1>1 DEF IInv, JobsAreDistinct
<1>3. /\ wire' \in [Clients -> Seq(Line)] /\ AnsweredOnce' /\ PeerFollows'
      /\ \A j \in Clients : Explained(j) => Explained(j)'
      /\ \A j \in Clients : Answered(j)' <=> Answered(j)
  BY <1>1, <1>2, WriteLine DEF Line
<1>4. TypeOK' BY <1>1, <1>3 DEF IInv, TypeOK
<1>5. JobsAreDistinct' BY <1>1 DEF IInv, JobsAreDistinct
<1>6. Outstanding' = Outstanding /\ Outstanding \subseteq Clients
  BY <1>1 DEF Outstanding, IInv, TypeOK, JobsAreDistinct, Range
<1>7. OutstandingIsOpen' BY <1>1, <1>3, <1>6 DEF IInv, OutstandingIsOpen
<1>8. PutIsNew' BY <1>1, <1>3 DEF IInv, PutIsNew
<1>9. closed \subseteq Clients /\ conn \in Clients \cup {None} BY DEF IInv, TypeOK
<1>10. EndsExplained' BY <1>1, <1>3, <1>9 DEF IInv, EndsExplained
<1>11. OneLiveRequest' BY <1>1, <1>6 DEF IInv, OneLiveRequest
<1> QED BY <1>3, <1>4, <1>5, <1>7, <1>8, <1>10, <1>11 DEF IInv

\* The last line of a job, whether it is the end of an answer or an error.
LEMMA LastLineInv ==
    ASSUME IInv, worker = "work", NEW line \in {"done", "error"}, wire' = Deliver(job, line),
           worker' = "close", failures' \in 0..MaxFailures,
           UNCHANGED <<peer, backlog, main, conn, queue, job, closed, hangs, quits>>
    PROVE  IInv'
<1>1. job \in Clients /\ job \notin Range(queue) /\ job \in Outstanding
  BY DEF IInv, JobsAreDistinct, Outstanding
<1>2. ~Answered(job) /\ job \notin closed BY <1>1 DEF IInv, OutstandingIsOpen
<1>3. /\ wire' \in [Clients -> Seq(Line)] /\ AnsweredOnce' /\ PeerFollows'
      /\ \A j \in Clients : Explained(j) => Explained(j)'
      /\ \A j \in Clients \ {job} : Answered(j)' <=> Answered(j)
      /\ Explained(job)'
  BY <1>1, <1>2, WriteLine DEF Line
<1>4. TypeOK' BY <1>3 DEF IInv, TypeOK
<1>5. JobsAreDistinct' BY DEF IInv, JobsAreDistinct
<1>6. Outstanding' = Outstanding \ {job} /\ Outstanding \subseteq Clients
  BY <1>1 DEF Outstanding, IInv, TypeOK, Range
<1>7. OutstandingIsOpen' BY <1>3, <1>6 DEF IInv, OutstandingIsOpen
<1>8. PutIsNew' BY <1>3 DEF IInv, PutIsNew
<1>9. closed \subseteq Clients /\ conn \in Clients \cup {None} BY DEF IInv, TypeOK
<1>10. EndsExplained' BY <1>3, <1>9 DEF IInv, EndsExplained
<1>11. OneLiveRequest' BY <1>6 DEF IInv, OneLiveRequest
<1> QED BY <1>3, <1>4, <1>5, <1>7, <1>8, <1>10, <1>11 DEF IInv

LEMMA HangInv == ASSUME IInv, Hang PROVE IInv'
<1>1. /\ worker = "work" /\ worker' = "stuck" /\ hangs < MaxHangs /\ hangs' = hangs + 1
      /\ UNCHANGED <<peer, backlog, main, conn, queue, job, wire, closed, failures, quits>>
  BY DEF Hang
<1>2. hangs' \in 0..MaxHangs BY <1>1, StreamingAssumption DEF IInv, TypeOK
<1>3. TypeOK' BY <1>1, <1>2 DEF IInv, TypeOK
<1>4. Outstanding' = Outstanding BY <1>1 DEF Outstanding
<1>5. \A k : (Answered(k)' <=> Answered(k)) /\ (Explained(k)' <=> Explained(k))
  BY <1>1 DEF Answered, Explained, Has
<1>6. JobsAreDistinct' /\ PutIsNew' /\ PeerFollows' /\ AnsweredOnce'
  BY <1>1, <1>5 DEF IInv, JobsAreDistinct, PutIsNew, PeerFollows, AnsweredOnce, Has
<1>7. OutstandingIsOpen' /\ OneLiveRequest' BY <1>1, <1>4, <1>5 DEF IInv, OutstandingIsOpen, OneLiveRequest
<1>8. EndsExplained' BY <1>1, <1>5 DEF IInv, EndsExplained
<1> QED BY <1>3, <1>6, <1>7, <1>8 DEF IInv

LEMMA CloseJobInv == ASSUME IInv, CloseJob PROVE IInv'
<1>1. /\ worker = "close" /\ worker' = "idle" /\ closed' = closed \cup {job}
      /\ UNCHANGED <<peer, backlog, main, conn, queue, job, wire, failures, hangs, quits>>
  BY DEF CloseJob
<1>2. job \in Clients /\ job \notin Range(queue) /\ Explained(job)
  BY <1>1 DEF IInv, JobsAreDistinct, EndsExplained
<1>3. TypeOK' BY <1>1, <1>2 DEF IInv, TypeOK
<1>4. Outstanding' = Outstanding /\ job \notin Outstanding BY <1>1, <1>2 DEF Outstanding
<1>5. \A k : (Answered(k)' <=> Answered(k)) /\ (Explained(k)' <=> Explained(k))
  BY <1>1 DEF Answered, Explained, Has
<1>6. JobsAreDistinct' /\ PeerFollows' /\ AnsweredOnce'
  BY <1>1 DEF IInv, JobsAreDistinct, PeerFollows, AnsweredOnce, Has
<1>7. PutIsNew' BY <1>1, <1>5 DEF IInv, PutIsNew
<1>8. OutstandingIsOpen' /\ OneLiveRequest' BY <1>1, <1>4, <1>5 DEF IInv, OutstandingIsOpen, OneLiveRequest
<1>9. EndsExplained' BY <1>1, <1>2, <1>5 DEF IInv, EndsExplained
<1> QED BY <1>3, <1>6, <1>7, <1>8, <1>9 DEF IInv

-----------------------------------------------------------------------------
LEMMA InitInv == ASSUME Init PROVE IInv
<1>1. Range(queue) = {} /\ Outstanding = {} BY DEF Init, Range, Outstanding
<1>2. Len(<<>>) <= Backlog BY StreamingAssumption
<1>3. TypeOK BY <1>2, StreamingAssumption DEF Init, TypeOK, PeerState
<1>4. JobsAreDistinct BY DEF Init, JobsAreDistinct, IsInjective
<1>5. OutstandingIsOpen /\ OneLiveRequest BY <1>1 DEF OutstandingIsOpen, OneLiveRequest
<1>6. PutIsNew /\ PeerFollows /\ EndsExplained /\ AnsweredOnce
  BY DEF Init, PutIsNew, PeerFollows, EndsExplained, AnsweredOnce
<1> QED BY <1>3, <1>4, <1>5, <1>6 DEF IInv

LEMMA NextInv == ASSUME IInv, [Next]_vars PROVE IInv'
<1>1. CASE MainStep
  BY <1>1, AcceptInv, MainMovesInv, PutJobInv, ReplyInv DEF MainStep
<1>2. CASE ReadFails BY <1>2, ReadFailsInv
<1>3. CASE WorkerStep
  <2>1. CASE Finish
    <3>1. failures \in 0..MaxFailures BY DEF IInv, TypeOK
    <3> QED BY <2>1, <3>1, LastLineInv DEF Finish
  <2> QED BY <1>3, <2>1, TakeJobInv, CloseJobInv DEF WorkerStep
<1>4. CASE Fail
  <2>1. failures' \in 0..MaxFailures BY <1>4, StreamingAssumption DEF Fail, IInv, TypeOK
  <2> QED BY <1>4, <2>1, LastLineInv DEF Fail
<1>5. CASE Stream \/ Hang BY <1>5, StreamInv, HangInv
<1>6. ASSUME NEW k \in Clients, Connect(k) \/ Refuse(k) \/ PeerReads(k) \/ Quit(k) PROVE IInv'
  BY <1>6, GatewayInv
<1>7. CASE UNCHANGED vars
  BY <1>7 DEF vars, IInv, TypeOK, JobsAreDistinct, OutstandingIsOpen, PutIsNew, PeerFollows,
              EndsExplained, OneLiveRequest, AnsweredOnce, Outstanding, Explained, Answered, Has
<1> QED BY <1>1, <1>2, <1>3, <1>4, <1>5, <1>6, <1>7 DEF Next

LEMMA InvHolds == Spec => []IInv
<1>1. Init => IInv BY InitInv
<1>2. IInv /\ [Next]_vars => IInv' BY NextInv
<1> QED BY <1>1, <1>2, PTL DEF Spec

\* Every variable of both threads and of the gateway keeps its type.
THEOREM StreamingTypeCorrect == Spec => []TypeOK
<1>1. IInv => TypeOK BY DEF IInv
<1> QED BY <1>1, InvHolds, PTL

\* The server never has a request of a live peer waiting behind another one:
\* the two threads work on the same connection, however many are opened.
THEOREM OneRequestAtATime == Spec => []OneLiveRequest
<1>1. IInv => OneLiveRequest BY DEF IInv
<1> QED BY <1>1, InvHolds, PTL

\* Whatever raises, hangs or goes away, a gateway that reads the end of a
\* connection has an answer or an error from it.
THEOREM NoSilentEnd == Spec => []EndIsExplained
<1>1. IInv => EndIsExplained
  BY DEF IInv, EndIsExplained, PeerFollows, EndsExplained, Explained, Answered
<1> QED BY <1>1, InvHolds, PTL

\* Two threads write to a connection, and it still gets one last line at most.
THEOREM OneAnswer == Spec => []AnsweredOnce
<1>1. IInv => AnsweredOnce BY DEF IInv
<1> QED BY <1>1, InvHolds, PTL
-----------------------------------------------------------------------------
(* The end of a connection.                                                *)

Past(k) == peer[k] \in {"half", "over", "gone"}
Serves(k) == conn = k /\ main \in {"recv", "reply", "again"}

\* The main thread stays with a connection whose request it has queued, until the
\* gateway ends its side or is gone; a job that has raised it may have left.
\* After the last line of an answer comes the close.
ServedOK ==
    /\ \A k \in Outstanding : Past(k) \/ Serves(k)
    /\ worker = "close" => /\ job \notin closed
                           /\ Past(job) \/ Has(job, "error") \/ Serves(job)
    /\ \A k \in Clients : Has(k, "done") => k \in closed \/ (worker = "close" /\ job = k)

\* A side that was ended stays ended.
LEMMA PastStays == ASSUME IInv, Next PROVE \A k \in Clients : Past(k) => Past(k)'
BY DEF IInv, TypeOK, Past, Next, MainStep, WorkerStep, Accept, ReadRequest, PutJob, Reply,
       RecvAgain, ReadEof, ReadFails, TakeJob, Finish, CloseJob, Stream, Fail, Hang, Connect,
       Refuse, PeerReads, ReadDone, ReadEnd, Quit, IsNext

\* What is not written does not change what a connection has; an error stays.
LEMMA ServedStep == ASSUME IInv, ServedOK, Next PROVE ServedOK'
<1>0. /\ Outstanding \subseteq Clients /\ (worker = "close" => job \in Clients)
      /\ (main # "accept" => conn \in Clients)
      /\ \A k \in Clients : Past(k) => Past(k)'
  BY PastStays DEF IInv, TypeOK, JobsAreDistinct, PutIsNew, Outstanding, Range
<1>1. ASSUME UNCHANGED <<wire, closed, worker, job, queue>>,
             \A k \in Clients : Serves(k) => Past(k) \/ Serves(k)'
                                 \/ (k \notin Outstanding /\ ~(worker = "close" /\ job = k))
      PROVE  ServedOK'
  <2>1. Outstanding' = Outstanding /\ \A k, l : Has(k, l)' <=> Has(k, l)
    BY <1>1 DEF Outstanding, Has
  <2> QED BY <1>0, <1>1, <2>1 DEF ServedOK
<1>2. CASE \E k \in Clients : Connect(k) \/ Refuse(k) \/ PeerReads(k) \/ Quit(k)
  <2>1. UNCHANGED <<wire, closed, worker, job, queue, main, conn>>
    BY <1>2 DEF Connect, Refuse, PeerReads, ReadDone, ReadEnd, Quit
  <2> QED BY <1>1, <2>1 DEF Serves
<1>3. CASE ReadRequest
  <2>1. UNCHANGED <<wire, closed, worker, job, queue>> BY <1>3 DEF ReadRequest
  <2>2. \A k : Serves(k) => k = conn BY DEF Serves
  <2>3. conn \notin Outstanding /\ job # conn
    BY <1>3 DEF ReadRequest, Unread, Queued, Outstanding
  <2> QED BY <1>1, <2>1, <2>2, <2>3
<1>4. CASE RecvAgain
  <2>1. UNCHANGED <<wire, closed, worker, job, queue, conn>> /\ main = "again"
        /\ main' = IF conn \in closed THEN "accept" ELSE "recv"
    BY <1>4 DEF RecvAgain
  <2>2. conn \in closed => conn \notin Outstanding /\ ~(worker = "close" /\ job = conn)
    BY DEF IInv, OutstandingIsOpen, ServedOK
  <2>3. \A k : Serves(k) => k = conn BY DEF Serves
  <2>4. conn \notin closed => Serves(conn)' BY <2>1 DEF Serves
  <2> QED BY <1>1, <2>1, <2>2, <2>3, <2>4
<1>5. CASE ReadEof
  <2>1. UNCHANGED <<wire, closed, worker, job, queue>> /\ Past(conn) BY <1>5 DEF ReadEof, Past
  <2>2. \A k : Serves(k) => k = conn BY DEF Serves
  <2> QED BY <1>1, <2>1, <2>2
<1>6. CASE Accept
  <2>1. /\ UNCHANGED <<wire, worker, job, queue>> /\ main = "accept"
        /\ closed' = IF conn = None \/ Queued(conn) \/ (worker # "idle" /\ job = conn)
                     THEN closed ELSE closed \cup {conn}
    BY <1>6 DEF Accept
  <2>2. Outstanding' = Outstanding /\ \A k, l : Has(k, l)' <=> Has(k, l)
    BY <2>1 DEF Outstanding, Has
  <2>3. \A k : ~Serves(k) BY <2>1 DEF Serves
  <2> QED BY <1>0, <2>1, <2>2, <2>3 DEF ServedOK
<1>7. CASE PutJob
  <2>1. /\ main' = "reply" /\ main = "put" /\ queue' = Append(queue, conn)
        /\ UNCHANGED <<conn, worker, job, wire, closed>>
    BY <1>7 DEF PutJob
  <2>2. Range(queue') = Range(queue) \cup {conn}
    BY <1>0, <2>1, AppendRange DEF IInv, TypeOK
  <2>3. Outstanding' = Outstanding \cup {conn} BY <2>1, <2>2 DEF Outstanding
  <2>4. Serves(conn)' /\ \A k : ~Serves(k) BY <2>1 DEF Serves
  <2>5. \A k, l : Has(k, l)' <=> Has(k, l) BY <2>1 DEF Has
  <2> QED BY <1>0, <2>1, <2>3, <2>4, <2>5 DEF ServedOK
<1>8. ASSUME NEW k \in Clients, NEW line \in Line, wire' = Deliver(k, line)
      PROVE  /\ \A c \in Clients, l \in Line : Has(c, l) => Has(c, l)'
             /\ \A c \in Clients, l \in Line : Has(c, l)' => Has(c, l) \/ (c = k /\ l = line)
             /\ wire' = wire \/ Has(k, line)'
             /\ wire' = wire => k \in closed \/ Past(k)
  <2>1. /\ wire' \in [Clients -> Seq(Line)] /\ \A j \in Clients \ {k} : wire'[j] = wire[j]
        /\ wire \in [Clients -> Seq(Line)] /\ wire[k] \in Seq(Line)
        /\ \/ (k \in closed \/ Past(k)) /\ wire' = wire
           \/ wire'[k] = Append(wire[k], line) /\ wire' # wire
    BY <1>8, DeliverFacts DEF IInv, TypeOK, Past
  <2>2. Range(Append(wire[k], line)) = Range(wire[k]) \cup {line} BY <2>1, AppendRange
  <2> QED BY <2>1, <2>2 DEF Has
<1>9. "done" \in Line /\ "error" \in Line /\ "queued" \in Line /\ "line" \in Line BY DEF Line
<1>10. CASE Reply
  <2>1. /\ wire' = Deliver(conn, "queued") /\ main = "reply"
        /\ main' = IF wire' = wire THEN "accept" ELSE "again"
        /\ UNCHANGED <<conn, queue, worker, job, closed>>
    BY <1>10 DEF Reply
  <2>2. Outstanding' = Outstanding BY <2>1 DEF Outstanding
  <2>3. \A k : Serves(k) => k = conn BY DEF Serves
  <2>4. /\ \A c \in Clients : Has(c, "error") => Has(c, "error")'
        /\ \A c \in Clients : Has(c, "done")' => Has(c, "done")
        /\ wire' = wire => conn \in closed \/ Past(conn)
    BY <1>0, <1>8, <1>9, <2>1
  <2>5. wire' # wire => Serves(conn)' BY <2>1 DEF Serves
  <2>6. conn \in closed => conn \notin Outstanding /\ ~(worker = "close" /\ job = conn)
    BY DEF IInv, OutstandingIsOpen, ServedOK
  <2> QED BY <1>0, <2>1, <2>2, <2>3, <2>4, <2>5, <2>6 DEF ServedOK
<1>11. CASE ReadFails
  <2>1. /\ wire' = Deliver(conn, "error") /\ main = "recv"
        /\ UNCHANGED <<conn, queue, worker, job, closed>>
    BY <1>11 DEF ReadFails
  <2>2. Outstanding' = Outstanding BY <2>1 DEF Outstanding
  <2>3. \A k : Serves(k) => k = conn BY DEF Serves
  <2>4. /\ \A c \in Clients : Has(c, "error") => Has(c, "error")'
        /\ \A c \in Clients : Has(c, "done")' => Has(c, "done")
    BY <1>0, <1>8, <1>9, <2>1
  <2>5. conn \notin Outstanding /\ job # conn
    BY <1>11 DEF ReadFails, Unread, Queued, Outstanding
  <2> QED BY <1>0, <2>1, <2>2, <2>3, <2>4, <2>5 DEF ServedOK
<1>12. CASE Stream
  <2>1. /\ wire' = Deliver(job, "line") /\ worker = "work"
        /\ UNCHANGED <<conn, main, queue, worker, job, closed>>
    BY <1>12 DEF Stream
  <2>2. job \in Clients BY <2>1 DEF IInv, JobsAreDistinct
  <2>3. Outstanding' = Outstanding /\ \A k : Serves(k)' <=> Serves(k)
    BY <2>1 DEF Outstanding, Serves
  <2>4. \A c \in Clients : Has(c, "done")' => Has(c, "done")
    BY <1>8, <1>9, <2>1, <2>2
  <2> QED BY <1>0, <2>1, <2>3, <2>4 DEF ServedOK
<1>13. CASE Finish \/ Fail
  <2>1. PICK line \in {"done", "error"} : wire' = Deliver(job, line)
    BY <1>13 DEF Finish, Fail
  <2>2. worker = "work" /\ worker' = "close" /\ UNCHANGED <<conn, main, queue, job, closed>>
    BY <1>13 DEF Finish, Fail
  <2>3. job \in Outstanding BY <2>2 DEF Outstanding
  <2>4. Outstanding' \subseteq Outstanding /\ \A k : Serves(k)' <=> Serves(k)
    BY <2>2 DEF Outstanding, Serves
  <2>5. job \notin closed /\ (Past(job) \/ Serves(job))
    BY <2>3 DEF IInv, OutstandingIsOpen, ServedOK
  <2>6. \A c \in Clients : Has(c, "done")' => Has(c, "done") \/ c = job
    BY <1>0, <1>8, <1>9, <2>1, <2>3
  <2> QED BY <1>0, <2>2, <2>3, <2>4, <2>5, <2>6 DEF ServedOK
<1>14. CASE TakeJob
  <2>1. /\ worker = "idle" /\ queue # <<>> /\ worker' = "work"
        /\ job' = Head(queue) /\ queue' = Tail(queue)
        /\ UNCHANGED <<main, conn, wire, closed>>
    BY <1>14 DEF TakeJob
  <2>2. Range(queue) = Range(queue') \cup {job'}
    BY <2>1, HeadRange DEF IInv, TypeOK
  <2>3. Outstanding' = Outstanding BY <2>1, <2>2 DEF Outstanding
  <2>4. \A k, l : (Has(k, l)' <=> Has(k, l)) /\ (Serves(k)' <=> Serves(k))
    BY <2>1 DEF Has, Serves
  <2> QED BY <1>0, <2>1, <2>3, <2>4 DEF ServedOK
<1>15. CASE Hang
  <2>1. /\ worker = "work" /\ worker' = "stuck"
        /\ UNCHANGED <<main, conn, queue, job, wire, closed>>
    BY <1>15 DEF Hang
  <2>2. Outstanding' = Outstanding BY <2>1 DEF Outstanding
  <2>3. \A k, l : (Has(k, l)' <=> Has(k, l)) /\ (Serves(k)' <=> Serves(k))
    BY <2>1 DEF Has, Serves
  <2> QED BY <1>0, <2>1, <2>2, <2>3 DEF ServedOK
<1>16. CASE CloseJob
  <2>1. /\ worker = "close" /\ worker' = "idle" /\ closed' = closed \cup {job}
        /\ UNCHANGED <<main, conn, queue, job, wire>>
    BY <1>16 DEF CloseJob
  <2>2. Outstanding' = Outstanding BY <2>1 DEF Outstanding
  <2>3. \A k, l : (Has(k, l)' <=> Has(k, l)) /\ (Serves(k)' <=> Serves(k))
    BY <2>1 DEF Has, Serves
  <2> QED BY <1>0, <2>1, <2>2, <2>3 DEF ServedOK
<1> QED
  BY <1>2, <1>3, <1>4, <1>5, <1>6, <1>7, <1>10, <1>11, <1>12, <1>13, <1>14, <1>15, <1>16
     DEF Next, MainStep, WorkerStep

\* The end becomes readable when the worker closes, when the main thread leaves its
\* recv, or when it drops a connection that had an error.
LEMMA EndStep ==
    ASSUME IInv, ServedOK, Next, NEW k \in Clients, ~Ended(k), Ended(k)'
    PROVE  Past(k) \/ Has(k, "error") \/ Hurried(k)
<1>1. CASE k \notin closed /\ CloseJob
  <2>1. worker = "close" /\ job = k /\ UNCHANGED <<main, conn>> BY <1>1 DEF CloseJob, Ended
  <2>2. CASE Serves(k)
    <3>1. ~(main = "recv" /\ conn = k) BY <2>1 DEF Ended
    <3> QED BY <2>2, <3>1 DEF Serves, Hurried
  <2> QED BY <2>1, <2>2 DEF ServedOK
<1>2. CASE k \notin closed /\ Accept
  <2>1. main = "accept" /\ conn = k /\ ~(worker = "close" /\ job = k) /\ conn # None
    BY <1>2 DEF Accept, Ended
  <2>2. Explained(k) BY <2>1 DEF IInv, EndsExplained
  <2>3. ~Has(k, "done") BY <1>2, <2>1 DEF ServedOK
  <2> QED BY <2>2, <2>3 DEF Explained, Answered, Past
<1>3. CASE k \in closed
  <2>1. main = "recv" /\ conn = k /\ ~(main' = "recv" /\ conn' = k) BY <1>3 DEF Ended
  <2>2. ~Unread(conn) BY <1>3, <2>1 DEF Unread
  <2>3. ReadEof
    BY <2>1, <2>2 DEF Next, MainStep, WorkerStep, Accept, ReadRequest, PutJob, Reply, RecvAgain,
         ReadFails, TakeJob, Finish, CloseJob, Stream, Fail, Hang, Connect, Refuse, PeerReads,
         ReadDone, ReadEnd, Quit
  <2> QED BY <2>1, <2>3 DEF ReadEof, Past
<1>4. k \in closed \/ CloseJob \/ Accept
  <2>1. k \in closed' BY DEF Ended
  <2> QED
    BY <2>1 DEF Next, MainStep, WorkerStep, ReadRequest, PutJob, Reply, RecvAgain, ReadEof,
         ReadFails, TakeJob, Finish, Stream, Fail, Hang, Connect, Refuse, PeerReads, ReadDone,
         ReadEnd, Quit
<1> QED BY <1>1, <1>2, <1>3, <1>4

\* What GatewayStream relies on: the end of a connection with an answer follows the
\* gateway's own end, because the main thread's recv keeps the socket open until then.
THEOREM EndAfterHalf == Spec => EndFollowsHalf
<1>1. Init => ServedOK
  <2> SUFFICES ASSUME Init PROVE ServedOK
    OBVIOUS
  <2>1. Range(queue) = {} /\ Outstanding = {} BY DEF Init, Range, Outstanding
  <2>2. \A k \in Clients : ~Has(k, "done") BY DEF Init, Has, Range
  <2> QED BY <2>1, <2>2 DEF Init, ServedOK
<1>2. IInv /\ ServedOK /\ [Next]_vars => ServedOK'
  <2>1. CASE UNCHANGED vars
    BY <2>1 DEF vars, ServedOK, Outstanding, Past, Serves, Has
  <2> QED BY <2>1, ServedStep
<1>3. IInv /\ ServedOK /\ [Next]_vars =>
        [\A k \in Clients : ~Ended(k) /\ Ended(k)' =>
          peer[k] \in {"half", "over", "gone"} \/ Has(k, "error") \/ Hurried(k)]_vars
  BY EndStep DEF Past
<1> QED BY <1>1, <1>2, <1>3, InvHolds, PTL DEF Spec, EndFollowsHalf
=============================================================================
