---------------------------- MODULE GatewayStream ----------------------------
(***************************************************************************)
(* A question on its way through the Node gateway                          *)
(* (src/node/src/sockets/websocket.ts, sockets/worker.ts,                  *)
(* kafka/emitters.ts).                                                     *)
(*                                                                         *)
(* A websocket message is emitted to Kafka, then sent to the worker on a   *)
(* connection of its own.  Every chunk of the answer starts an async       *)
(* handler that appends it to the buffer of the connection and takes       *)
(* lines from that shared buffer; it is suspended while Kafka acknowledges *)
(* a system line, and the handlers of later chunks overtake it.  When the  *)
(* connection ends, the collected tokens are emitted as the assistant's    *)
(* message.                                                                *)
(*                                                                         *)
(* The worker is external here: it writes the lines of an answer in order, *)
(* and the end of the connection comes when StreamingWorker lets it come.  *)
(***************************************************************************)
EXTENDS Integers, Sequences, FiniteSets, SequencesExt

CONSTANTS
    Requests,       \* websocket messages that are no registration
    Answers,        \* the sequences of lines a worker may answer with: the tokens
                    \* before the end
    MaxLost,        \* bound: emits that Kafka refuses
    MaxDeaths       \* bound: 1 if the worker's process may die

Kinds == {"queued", "system", "summary", "token", "error", "done"}

ASSUME GatewayAssumption ==
    /\ IsFiniteSet(Requests)
    /\ Answers \subseteq Seq(Kinds)
    /\ \A a \in Answers : \A i, j \in DOMAIN a : a[i] = "token" /\ a[j] = "done" => i < j
    /\ MaxLost \in Nat /\ MaxDeaths \in {0, 1}

VARIABLES
    stage,      \* stage[r]: idle, asking, streaming, half, over, failed
    question,   \* question[r]: the message has a text
    answer,     \* answer[r]: the lines the worker will write
    written,    \* written[r]: how many of them it has written
    arrived,    \* arrived[r]: how many of them are in the buffer or taken from it
    taken,      \* taken[r]: how many of them a handler has taken
    full,       \* full[r]: fullResponse, as the positions of its tokens
    sends,      \* emits Kafka has not answered
    acks,       \* answered emits whose continuation has not run
    log,        \* what the topic holds
    shown,      \* shown[r]: the tokens the websocket was sent
    open,       \* the websocket is open
    dead,       \* the worker's process has died
    lost,
    cut         \* requests whose connection ended before the gateway had ended its
                \* side: a history variable, no guard reads it

vars == <<stage, question, answer, written, arrived, taken, full, sends, acks,
          log, shown, open, dead, lost, cut>>

\* An emit: of the question, of line i, or of the final message.
Emit(r, role, i, text) == [request |-> r, role |-> role, line |-> i, text |-> text]
Lines(r) == answer[r]

\* The tokens of an answer, by their positions.
Tokens(r) == {i \in 1..Len(Lines(r)) : Lines(r)[i] = "token"}

\* The sequence s holds the numbers of S, in increasing order.
Lists(s, S) ==
    /\ \A i, j \in DOMAIN s : i < j => s[i] < s[j]
    /\ {s[i] : i \in DOMAIN s} = S

Ascending(S) == CHOOSE s \in [1..Cardinality(S) -> S] : Lists(s, S)

Logged(r, role) == \E m \in log : m.request = r /\ m.role = role

Roles == {"user", "system", "summary", "assistant"}

EmitOK(m) ==
    /\ m \in [request : Requests, role : Roles, line : Nat, text : Seq(Nat)]
    /\ m.line <= Len(Lines(m.request))

TypeOK ==
    /\ stage \in [Requests -> {"idle", "asking", "streaming", "half", "over", "failed"}]
    /\ question \in [Requests -> BOOLEAN]
    /\ answer \in [Requests -> Answers]
    /\ taken \in [Requests -> Nat]
    /\ arrived \in [Requests -> Nat]
    /\ written \in [Requests -> Nat]
    /\ \A r \in Requests :
          taken[r] <= arrived[r] /\ arrived[r] <= written[r] /\ written[r] <= Len(Lines(r))
    /\ full \in [Requests -> Seq(Nat)]
    /\ shown \in [Requests -> Seq(Nat)]
    /\ \A m \in sends \cup acks \cup log : EmitOK(m)
    /\ open \in BOOLEAN
    /\ dead \in BOOLEAN
    /\ lost \in 0..MaxLost
    /\ cut \in SUBSET Requests

Init ==
    /\ stage = [r \in Requests |-> "idle"]
    /\ question \in [Requests -> BOOLEAN]
    /\ answer \in [Requests -> Answers]
    /\ written = [r \in Requests |-> 0]
    /\ arrived = [r \in Requests |-> 0]
    /\ taken = [r \in Requests |-> 0]
    /\ full = [r \in Requests |-> <<>>]
    /\ sends = {} /\ acks = {}
    /\ log = {} /\ shown = [r \in Requests |-> <<>>]
    /\ open = TRUE /\ dead = FALSE
    /\ lost = 0 /\ cut = {}

-----------------------------------------------------------------------------
(* The websocket handler.                                                  *)

\* net.createConnection, the write of the request, the handlers.  Without the
\* worker the connection fails and its error closes the websocket.
CanConnect == ~dead

\* Faulty variant: the emit is not awaited.
AskAtOnce(r) ==
    /\ stage[r] = "idle" /\ open
    /\ stage' = [stage EXCEPT ![r] = IF CanConnect THEN "streaming" ELSE "failed"]
    /\ open' = CanConnect
    /\ sends' = IF question[r] THEN sends \cup {Emit(r, "user", 0, <<>>)} ELSE sends
    /\ UNCHANGED <<question, answer, written, arrived, taken, full, acks, log, shown, dead, lost, cut>>

\* A message with a text is emitted first and the handler waits; one without
\* goes to the worker at once.
Ask(r) ==
    /\ stage[r] = "idle" /\ open
    /\ IF question[r]
       THEN /\ stage' = [stage EXCEPT ![r] = "asking"]
            /\ sends' = sends \cup {Emit(r, "user", 0, <<>>)}
            /\ UNCHANGED open
       ELSE /\ stage' = [stage EXCEPT ![r] = IF CanConnect THEN "streaming" ELSE "failed"]
            /\ open' = CanConnect
            /\ UNCHANGED sends
    /\ UNCHANGED <<question, answer, written, arrived, taken, full, acks, log, shown, dead, lost, cut>>

\* The emit is over, acknowledged or not.
AskWorker(r) ==
    /\ stage[r] = "asking"
    /\ Emit(r, "user", 0, <<>>) \in acks
    /\ acks' = acks \ {Emit(r, "user", 0, <<>>)}
    /\ stage' = [stage EXCEPT ![r] = IF CanConnect THEN "streaming" ELSE "failed"]
    /\ open' = (open /\ CanConnect)
    /\ UNCHANGED <<question, answer, written, arrived, taken, full, sends, log, shown, dead, lost, cut>>

\* Faulty variant: the close handler destroys the connections to the worker.
CloseEverything ==
    /\ open
    /\ open' = FALSE
    /\ stage' = [r \in Requests |-> IF stage[r] \in {"streaming", "half"} THEN "failed" ELSE stage[r]]
    /\ UNCHANGED <<question, answer, written, arrived, taken, full, sends, acks,
                   log, shown, dead, lost, cut>>

\* The browser goes away.  The connections to the worker stay.
CloseSocket ==
    /\ open
    /\ open' = FALSE
    /\ UNCHANGED <<stage, question, answer, written, arrived, taken, full, sends, acks,
                   log, shown, dead, lost, cut>>

-----------------------------------------------------------------------------
(* Kafka.                                                                  *)

KafkaAppends(m) ==
    /\ m \in sends
    /\ sends' = sends \ {m} /\ acks' = acks \cup {m}
    /\ log' = log \cup {m}
    /\ UNCHANGED <<stage, question, answer, written, arrived, taken, full, shown, open, dead, lost, cut>>

\* emitMessageToKafka() logs the error and returns as if the message were sent.
KafkaRefuses(m) ==
    /\ m \in sends
    /\ lost < MaxLost
    /\ lost' = lost + 1
    /\ sends' = sends \ {m} /\ acks' = acks \cup {m}
    /\ UNCHANGED <<stage, question, answer, written, arrived, taken, full, log, shown, open, dead, cut>>

-----------------------------------------------------------------------------
(* The worker.                                                             *)

WorkerWrites(r) ==
    /\ stage[r] \in {"streaming", "half"} /\ ~dead
    /\ written[r] < Len(Lines(r))
    /\ written' = [written EXCEPT ![r] = @ + 1]
    /\ UNCHANGED <<stage, question, answer, arrived, taken, full, sends, acks, log, shown,
                   open, dead, lost, cut>>

WorkerDies ==
    /\ ~dead /\ MaxDeaths = 1
    /\ dead' = TRUE
    /\ UNCHANGED <<stage, question, answer, written, arrived, taken, full, sends, acks, log,
                   shown, open, lost, cut>>

-----------------------------------------------------------------------------
(* The stream handlers.                                                    *)

\* The last line the loop takes of the lines after `from` up to n before it suspends
\* or runs out: the first system line, or n.
LastTaken(r, from, n) ==
    LET stops == {i \in (from + 1)..n : Lines(r)[i] = "system"} \cup {n}
    IN  CHOOSE i \in stops : \A j \in stops : i <= j

\* The loop of one handler from the lines it finds in the buffer to its next
\* suspension, and the emits it leaves in flight: that of a summary is not
\* awaited.  A token is collected, and shown while the websocket is open.
RunLoop(r, from, n) ==
    LET last == LastTaken(r, from, n)
        Of(kind) == {i \in (from + 1)..last : Lines(r)[i] = kind}
        tokens == Ascending(Of("token"))
    IN  /\ taken' = [taken EXCEPT ![r] = last]
        /\ full' = [full EXCEPT ![r] = @ \o tokens]
        /\ shown' = [shown EXCEPT ![r] = IF open THEN @ \o tokens ELSE @]
        /\ stage' = [stage EXCEPT ![r] = IF @ = "streaming" /\ Of("done") # {} THEN "half" ELSE @]
        /\ sends' = sends \cup {Emit(r, Lines(r)[i], i, <<>>) :
                                   i \in Of("system") \cup Of("summary")}

\* A chunk: any number of the lines written.
OnData(r) ==
    /\ stage[r] \in {"streaming", "half"}
    /\ \E n \in (arrived[r] + 1)..written[r] :
          /\ arrived' = [arrived EXCEPT ![r] = n]
          /\ RunLoop(r, taken[r], n)
    /\ UNCHANGED <<question, answer, written, acks, log, open, dead, lost, cut>>

\* Faulty variant: the handler goes on with its own copy of the buffer.
ResumeStale(r) ==
    /\ \E m \in acks :
          /\ m.request = r /\ m.role = "system"
          /\ acks' = acks \ {m}
          /\ RunLoop(r, m.line, arrived[r])
    /\ UNCHANGED <<question, answer, written, arrived, log, open, dead, lost, cut>>

\* A suspended handler shows its system line and goes on with what the buffer
\* holds by now.
ResumeSystem(r) ==
    /\ \E m \in acks :
          /\ m.request = r /\ m.role = "system"
          /\ acks' = acks \ {m}
    /\ RunLoop(r, taken[r], arrived[r])
    /\ UNCHANGED <<question, answer, written, arrived, log, open, dead, lost, cut>>

\* emitSummaryBroadcast() tells every client of the device (not modelled).
Broadcast(r) ==
    /\ \E m \in acks :
          /\ m.request = r /\ m.role = "summary"
          /\ acks' = acks \ {m}
    /\ UNCHANGED <<stage, question, answer, written, arrived, taken, full, sends, log, shown,
                   open, dead, lost, cut>>

\* The end event comes after the last chunk.  As a rule it follows the gateway's
\* own end (EndFollowsHalf of StreamingWorker); it comes before that if the worker
\* dies, after an error line, or when the main thread of the worker has not come
\* back to recv.
Ends(r) ==
    /\ arrived[r] = written[r]
    /\ stage[r] \in {"streaming", "half"}
    /\ written[r] = Len(Lines(r)) \/ dead
    /\ stage' = [stage EXCEPT ![r] = "over"]
    /\ cut' = IF stage[r] = "half" THEN cut ELSE cut \cup {r}
    /\ UNCHANGED <<question, answer, written, arrived, taken, full, acks, log, shown, open,
                   dead, lost>>

\* Faulty variants: the final message has a role the topic does not know; it has
\* what the websocket was sent.
OnEndAsBot(r) ==
    /\ Ends(r)
    /\ sends' = IF full[r] = <<>> THEN sends
                ELSE sends \cup {Emit(r, "bot", 0, full[r])}

OnEndAsShown(r) ==
    /\ Ends(r)
    /\ sends' = IF shown[r] = <<>> THEN sends
                ELSE sends \cup {Emit(r, "assistant", 0, shown[r])}

\* What was collected by then is emitted; suspended handlers are not waited for.
OnEnd(r) ==
    /\ Ends(r)
    /\ sends' = IF full[r] = <<>> THEN sends
                ELSE sends \cup {Emit(r, "assistant", 0, full[r])}

\* The worker died before it read the request: the connection is reset, and the
\* error closes the websocket.
OnError(r) ==
    /\ stage[r] = "streaming" /\ dead /\ written[r] = 0
    /\ stage' = [stage EXCEPT ![r] = "failed"]
    /\ open' = FALSE
    /\ UNCHANGED <<question, answer, written, arrived, taken, full, sends, acks, log, shown,
                   dead, lost, cut>>

-----------------------------------------------------------------------------
GatewayStep(r) ==
    \/ AskWorker(r) \/ OnData(r) \/ ResumeSystem(r)
    \/ Broadcast(r) \/ OnEnd(r) \/ OnError(r)
KafkaAnswers == \E m \in sends : KafkaAppends(m) \/ KafkaRefuses(m)

Next ==
    \/ \E r \in Requests : Ask(r) \/ GatewayStep(r) \/ WorkerWrites(r)
    \/ KafkaAnswers \/ WorkerDies \/ CloseSocket

Spec == Init /\ [][Next]_vars

\* The event loop runs, the worker writes, Kafka answers.
FairSpec ==
    /\ Spec
    /\ WF_vars(KafkaAnswers)
    /\ \A r \in Requests : WF_vars(GatewayStep(r)) /\ WF_vars(WorkerWrites(r))

-----------------------------------------------------------------------------
(* Properties.                                                             *)

\* However the handlers of one connection overtake each other, the tokens of
\* the lines taken so far are collected in the worker's order, none left out or
\* repeated, and the websocket is shown the first of them.
TokensInOrder ==
    \A r \in Requests :
       /\ Lists(full[r], {i \in Tokens(r) : i <= taken[r]})
       /\ IsPrefix(shown[r], full[r])
       /\ open => shown[r] = full[r]

\* The message saved for the assistant holds the whole answer, although the end
\* event does not wait for suspended handlers, unless it came before the gateway
\* had ended its side.
AssistantComplete ==
    \A m \in log :
        m.role = "assistant" /\ m.request \notin cut => Lists(m.text, Tokens(m.request))

\* An answer enters the topic after its question, or without it when Kafka has
\* refused the question; a question never enters it behind its answer.
QuestionFirst ==
    [][\A r \in Requests :
          /\ ~Logged(r, "assistant") /\ Logged(r, "assistant")' /\ question[r] =>
                Logged(r, "user") \/ lost > 0
          /\ ~Logged(r, "user") /\ Logged(r, "user")' => ~Logged(r, "assistant")]_vars

\* A finished answer reaches the topic, whether or not the browser stays, unless
\* Kafka refuses an emit or the connection ended too early.
AnswerIsSaved ==
    \A r \in Requests :
       (written[r] = Len(Lines(r)) /\ Tokens(r) # {}) ~>
           (Logged(r, "assistant") \/ lost > 0 \/ r \in cut)
=============================================================================
