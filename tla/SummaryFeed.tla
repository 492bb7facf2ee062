----------------------------- MODULE SummaryFeed -----------------------------
(***************************************************************************)
(* Summaries in the Rust server: from the topic to RocksDB and the         *)
(* broadcast channel, and from there to the websockets of                  *)
(* /chat-summary/ws; and the last one per chat that /chat-summary/last     *)
(* returns (routes/chat_summary.rs, MessageStore::load_last_summary).      *)
(*                                                                         *)
(* Joins, offsets and crashes of the consumer and the deletes of a chat    *)
(* are in MessagePipeline.  The two puts of save() are one step: the list  *)
(* needs both to see a summary.                                            *)
(***************************************************************************)
EXTENDS Integers, Sequences, FiniteSets, SequencesExt

CONSTANTS
    Listeners,      \* clients of /chat-summary/ws
    Summaries,
    ChatOf,         \* the chat of a summary
    Capacity,       \* size of the broadcast ring (2048 in main.rs)
    MaxDrops,       \* bound: MessageStore::save() that fails
    MaxMisreads     \* bound: clients whose list the storage cannot read in full

VARIABLES
    stamped, topic, \* of the gateway: see DeviceRegistry
    pos,        \* events of the topic the consumer has taken
    cpc,        \* where the consumer is
    stored,     \* summaries RocksDB has under their id and time
    dropped,    \* summaries whose save failed
    sent,       \* what went to the broadcast channel
    peer,       \* the client: away, here, gone
    hpc,        \* where ws_handler() is
    since,      \* length of `sent` when it subscribed
    unread,     \* the receiver's part of the ring
    lag,        \* the ring has overwritten something it has not read
    lagged,     \* it has seen RecvError::Lagged
    fed,        \* what the handler wrote to the client, or is writing
    early,      \* what was sent between the upgrade and subscribe()
    listed,     \* what /chat-summary/last answered, or NotListed
    misread     \* what was stored in the chats that this answer left out

listVars == <<peer, hpc, since, unread, lag, lagged, fed, early, listed, misread>>
feedVars == <<pos, cpc, stored, dropped, sent, listVars>>

NotListed == {0}

FeedTypeOK ==
    /\ pos \in 0..Len(topic) /\ cpc \in {"poll", "save", "send"}
    /\ sent \in Seq(Summaries)
    /\ stored \cup dropped \cup ToSet(sent) \subseteq ToSet(SubSeq(topic, 1, pos))
    /\ peer \in [Listeners -> {"away", "here", "gone"}]
    /\ hpc \in [Listeners -> {"none", "upgraded", "select", "sending", "closed"}]
    /\ unread \in [Listeners -> Seq(Summaries)] /\ fed \in [Listeners -> Seq(Summaries)]
    /\ since \in [Listeners -> Nat] /\ early \in [Listeners -> SUBSET Summaries]
    /\ \A l \in Listeners : Len(unread[l]) <= Capacity /\ since[l] <= Len(sent)
    /\ lag \in [Listeners -> BOOLEAN] /\ lagged \in [Listeners -> BOOLEAN]
    /\ listed \in [Listeners -> (SUBSET Summaries) \cup {NotListed}]
    /\ misread \in [Listeners -> SUBSET Summaries]

\* A listener whose handler is closed from the start is one that never comes.
FeedInit ==
    /\ pos = 0 /\ cpc = "poll" /\ stored = {} /\ dropped = {} /\ sent = <<>>
    /\ peer \in [Listeners -> {"away", "gone"}]
    /\ hpc = [l \in Listeners |-> IF peer[l] = "gone" THEN "closed" ELSE "none"]
    /\ since = [l \in Listeners |-> 0]
    /\ unread = [l \in Listeners |-> <<>>]
    /\ lag = [l \in Listeners |-> FALSE]
    /\ lagged = [l \in Listeners |-> FALSE]
    /\ fed = [l \in Listeners |-> <<>>]
    /\ early = [l \in Listeners |-> {}]
    /\ listed = [l \in Listeners |-> NotListed]
    /\ misread = [l \in Listeners |-> {}]

-----------------------------------------------------------------------------
(* list_last()                                                             *)

Older(m, n) == \E i, j \in DOMAIN stamped : i < j /\ stamped[i] = m /\ stamped[j] = n
OfChat(ch) == {n \in stored : ChatOf[n] = ch}

\* Faulty variant: the list is made of what was broadcast.
LastSent(ch) ==
    LET of == OfChat(ch) \cap ToSet(sent)
    IN  {n \in of : \A m \in of : ~Older(n, m)}

\* load_last_summary: the newest time key whose record is a summary of the chat.
LastSummary(ch) == {n \in OfChat(ch) : \A m \in OfChat(ch) : ~Older(n, m)}

ListLast == UNION {LastSummary(ChatOf[n]) : n \in stored}

-----------------------------------------------------------------------------
(* The consumer.                                                           *)

Poll ==
    /\ cpc = "poll" /\ pos < Len(topic)
    /\ pos' = pos + 1 /\ cpc' = "save"
    /\ UNCHANGED <<stored, dropped, sent, listVars>>

\* Faulty variant: the event is broadcast first and saved with the next one.
SaveLater ==
    /\ cpc = "save"
    /\ cpc' = "send"
    /\ stored' = stored \cup ToSet(sent) /\ UNCHANGED dropped
    /\ UNCHANGED <<pos, sent, listVars>>

\* save() succeeds, or its error is logged.
Save ==
    /\ cpc = "save"
    /\ cpc' = "send"
    /\ \/ stored' = stored \cup {topic[pos]} /\ UNCHANGED dropped
       \/ /\ Cardinality(dropped) < MaxDrops
          /\ dropped' = dropped \cup {topic[pos]} /\ UNCHANGED stored
    /\ UNCHANGED <<pos, sent, listVars>>

Subscribed(l) == hpc[l] \in {"select", "sending"}

\* Faulty variant: a channel without a bound.
SendUnbounded ==
    /\ cpc = "send"
    /\ cpc' = "poll"
    /\ sent' = Append(sent, topic[pos])
    /\ unread' = [l \in Listeners |->
           IF Subscribed(l) THEN Append(unread[l], topic[pos]) ELSE <<>>]
    /\ early' = [l \in Listeners |->
           IF hpc[l] = "upgraded" THEN early[l] \cup {topic[pos]} ELSE early[l]]
    /\ UNCHANGED <<pos, stored, dropped, peer, hpc, since, lag, lagged, fed, listed, misread>>

\* tx.send: a full ring overwrites the oldest event of a receiver.
Send ==
    /\ cpc = "send"
    /\ cpc' = "poll"
    /\ sent' = Append(sent, topic[pos])
    /\ unread' = [l \in Listeners |->
           IF ~Subscribed(l) THEN <<>>
           ELSE IF Len(unread[l]) < Capacity THEN Append(unread[l], topic[pos])
           ELSE Append(Tail(unread[l]), topic[pos])]
    /\ lag' = [l \in Listeners |-> lag[l] \/ (Subscribed(l) /\ Len(unread[l]) = Capacity)]
    /\ early' = [l \in Listeners |->
           IF hpc[l] = "upgraded" THEN early[l] \cup {topic[pos]} ELSE early[l]]
    /\ UNCHANGED <<pos, stored, dropped, peer, hpc, since, lagged, fed, listed, misread>>

ConsumerStep == Poll \/ Save \/ Send

-----------------------------------------------------------------------------
(* ws_handler()                                                            *)

consumerVars == <<pos, cpc, stored, dropped, sent>>
Goto(l, step) == hpc' = [hpc EXCEPT ![l] = step]

\* The client has the answer to its upgrade before the handler subscribes.
Upgrade(l) ==
    /\ peer[l] = "away"
    /\ peer' = [peer EXCEPT ![l] = "here"]
    /\ Goto(l, "upgraded")
    /\ UNCHANGED <<consumerVars, since, unread, lag, lagged, fed, early, listed, misread>>

Subscribe(l) ==
    /\ hpc[l] = "upgraded" /\ Goto(l, "select")
    /\ since' = [since EXCEPT ![l] = Len(sent)]
    /\ UNCHANGED <<consumerVars, peer, unread, lag, lagged, fed, early, listed, misread>>

\* list_last() leaves out a chat whose summary it cannot read, and answers 200;
\* when list_chat_ids() fails, it leaves out every chat.
List(l) ==
    /\ peer[l] = "here" /\ listed[l] = NotListed
    /\ \E out \in SUBSET {ChatOf[n] : n \in stored} :
          /\ out = {} \/ Cardinality({k \in Listeners : misread[k] # {}}) < MaxMisreads
          /\ misread' = [misread EXCEPT ![l] = {n \in stored : ChatOf[n] \in out}]
          /\ listed' = [listed EXCEPT ![l] = {n \in ListLast : ChatOf[n] \notin out}]
    /\ UNCHANGED <<consumerVars, peer, hpc, since, unread, lag, lagged, fed, early>>

PeerLeaves(l) ==
    /\ peer[l] = "here"
    /\ peer' = [peer EXCEPT ![l] = "gone"]
    /\ UNCHANGED <<consumerVars, hpc, since, unread, lag, lagged, fed, early, listed, misread>>

\* The receiver is dropped with the handler.
Close(l) ==
    /\ Goto(l, "closed")
    /\ unread' = [unread EXCEPT ![l] = <<>>] /\ lag' = [lag EXCEPT ![l] = FALSE]
    /\ UNCHANGED <<consumerVars, peer, since, lagged, fed, early, listed, misread>>

\* Faulty variant: select! has no arm for the client's side of the socket.
NoticeNever(l) == hpc[l] = "none" /\ peer[l] = "gone" /\ Close(l)

\* select! has a Close, an error or the end of the client's side ready.
Notice(l) == hpc[l] = "select" /\ peer[l] = "gone" /\ Close(l)

Recv(l) ==
    /\ hpc[l] = "select" /\ ~lag[l] /\ unread[l] # <<>>
    /\ Goto(l, "sending")
    /\ unread' = [unread EXCEPT ![l] = Tail(@)]
    /\ fed' = [fed EXCEPT ![l] = Append(@, Head(unread[l]))]
    /\ UNCHANGED <<consumerVars, peer, since, lag, lagged, early, listed, misread>>

\* Faulty variant: subscribe() is inside the loop.
DeliveredAnew(l) ==
    /\ hpc[l] = "sending" /\ peer[l] = "here" /\ Goto(l, "select")
    /\ unread' = [unread EXCEPT ![l] = <<>>]
    /\ UNCHANGED <<consumerVars, peer, since, lag, lagged, fed, early, listed, misread>>

\* ws_tx.send returns, as late as the client reads.
Delivered(l) ==
    /\ hpc[l] = "sending" /\ peer[l] = "here" /\ Goto(l, "select")
    /\ UNCHANGED <<consumerVars, peer, since, unread, lag, lagged, fed, early, listed, misread>>

SendFails(l) == hpc[l] = "sending" /\ peer[l] = "gone" /\ Close(l)

\* Faulty variant: Err(_) => break.
LagCloses(l) ==
    /\ hpc[l] = "select" /\ lag[l] /\ Close(l)

\* Lagged(skipped) is logged; the next recv() has the oldest event still there.
RecvLagged(l) ==
    /\ hpc[l] = "select" /\ lag[l]
    /\ lag' = [lag EXCEPT ![l] = FALSE] /\ lagged' = [lagged EXCEPT ![l] = TRUE]
    /\ UNCHANGED <<consumerVars, peer, hpc, since, unread, fed, early, listed, misread>>

HandlerStep(l) ==
    Subscribe(l) \/ Notice(l) \/ Recv(l) \/ RecvLagged(l) \/ Delivered(l) \/ SendFails(l)
ClientStep(l) == Upgrade(l) \/ List(l) \/ PeerLeaves(l)

-----------------------------------------------------------------------------
(* Properties.                                                             *)

\* A client gets the summaries in the order they were sent, each once and none
\* left out since it subscribed, unless its handler was told that it lagged.
FeedIsGapless ==
    \A l \in Listeners : Subscribed(l) =>
        LET got == fed[l] \o unread[l]
            due == SubSeq(sent, since[l] + 1, Len(sent))
        IN  IF lag[l] \/ lagged[l] THEN IsSuffix(unread[l], due) ELSE got = due

\* Subscribe, then list: between the two a client misses no summary, and it
\* has each or a newer one of the chat.  The exceptions are a failed save, a
\* lag, what is sent in the moment between the upgrade and subscribe(), and what
\* was stored of a chat that the list had to leave out.
NothingMissed ==
    \A l \in Listeners : \A n \in ToSet(sent) :
        Subscribed(l) /\ listed[l] # NotListed /\ ~lag[l] /\ ~lagged[l] =>
            \/ n \in ToSet(fed[l] \o unread[l])
            \/ n \in dropped \cup early[l] \cup misread[l]
            \/ \E m \in listed[l] : ChatOf[m] = ChatOf[n] /\ ~Older(m, n)

\* The handler of a client that left ends, whether or not summaries come.
LeftIsNoticed == \A l \in Listeners : (peer[l] = "gone") ~> (hpc[l] = "closed")

\* A client that stays gets the newest summary, however far it has lagged.
NewestIsFed ==
    \A l \in Listeners, n \in Summaries :
        LET Newest == sent # <<>> /\ Last(sent) = n
        IN  (Subscribed(l) /\ Newest /\ Len(sent) > since[l])
                ~> (n \in ToSet(fed[l]) \/ peer[l] = "gone" \/ ~Newest)
=============================================================================
