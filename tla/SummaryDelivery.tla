--------------------------- MODULE SummaryDelivery ---------------------------
(***************************************************************************)
(* The way of a summary: the Python worker asks the Rust server for the    *)
(* last summary of the chat and, if there is none, generates one; the      *)
(* gateway gives it to Kafka and shows it to the devices; the server       *)
(* stores it and feeds its listeners, and has it for the next question.    *)
(***************************************************************************)
EXTENDS DeviceRegistry

CONSTANTS
    Listeners, ChatOf, Capacity, MaxDrops, MaxMisreads,
    MaxFetchFaults      \* bound: GET /chat-summary/last that fails, takes over 2 s or
                        \* comes without the chat

ASSUME DeliveryAssumption ==
    /\ Capacity \in Nat \ {0}
    /\ {MaxDrops, MaxMisreads, MaxFetchFaults} \subseteq Nat

VARIABLES
    pos, cpc, stored, dropped, sent,
    peer, hpc, since, unread, lag, lagged, fed, early, listed, misread,
    text,           \* the summary that a summary repeats, or itself; 0 before
    known,          \* what was stored when its question fetched the list
    fetchFaults

Feed == INSTANCE SummaryFeed

workerVars == <<text, known, fetchFaults>>
feedVars == <<pos, cpc, stored, dropped, sent, peer, hpc, since, unread, lag,
              lagged, fed, early, listed, misread>>
deliveryVars == <<gatewayVars, feedVars, workerVars>>

DeliveryInit ==
    /\ GatewayInit /\ Feed!FeedInit
    /\ text = [n \in Summaries |-> 0]
    /\ known = [n \in Summaries |-> {}]
    /\ fetchFaults \in {0, MaxFetchFaults}

-----------------------------------------------------------------------------
\* get_conversation_summary(): the summary of the chat in the list, else a new
\* one.  The worker takes one question after the other.
Summarize(n) ==
    LET found == {m \in Feed!ListLast : ChatOf[m] = ChatOf[n]}
    IN  /\ text[n] = 0 /\ \A m \in Summaries : m < n => text[m] # 0
        /\ known' = [known EXCEPT ![n] = stored]
        /\ text' = [text EXCEPT ![n] = IF found = {} THEN n ELSE text[CHOOSE m \in found : TRUE]]
        /\ UNCHANGED fetchFaults

\* The fetch fails, or list_last() could not read the chat: logged nowhere, and a new
\* summary is generated.
SummarizeBlind(n) ==
    /\ text[n] = 0 /\ \A m \in Summaries : m < n => text[m] # 0
    /\ fetchFaults < MaxFetchFaults /\ fetchFaults' = fetchFaults + 1
    /\ text' = [text EXCEPT ![n] = n]
    /\ UNCHANGED known

WorkerStep == \E n \in Summaries : Summarize(n) \/ SummarizeBlind(n)

\* The line reaches the gateway, in the stream of the websocket that asked.
LineArrives == \E n \in Summaries : text[n] # 0 /\ Emit(n)

DeliveryNext ==
    \/ WorkerStep /\ UNCHANGED <<gatewayVars, feedVars>>
    \/ (LineArrives \/ BrowserStep \/ KafkaStep \/ PushStep) /\ UNCHANGED <<feedVars, workerVars>>
    \/ Feed!ConsumerStep /\ UNCHANGED <<gatewayVars, workerVars>>
    \/ /\ \E l \in Listeners : Feed!HandlerStep(l) \/ Feed!ClientStep(l)
       /\ UNCHANGED <<gatewayVars, workerVars>>

DeliverySpec == DeliveryInit /\ [][DeliveryNext]_deliveryVars

\* tokio runs the consumer and the handlers; a client that stays reads what it
\* is sent.  Nothing is assumed of Kafka, the browsers or the worker.
DeliveryFairness ==
    /\ WF_deliveryVars(Feed!ConsumerStep /\ UNCHANGED <<gatewayVars, workerVars>>)
    /\ \A l \in Listeners :
          WF_deliveryVars(Feed!HandlerStep(l) /\ UNCHANGED <<gatewayVars, workerVars>>)

DeliveryFairSpec == DeliverySpec /\ DeliveryFairness

-----------------------------------------------------------------------------
(* Properties.                                                             *)

DeliveryTypeOK ==
    /\ GatewayTypeOK /\ Feed!FeedTypeOK
    /\ text \in [Summaries -> Nat] /\ known \in [Summaries -> SUBSET Summaries]
    /\ fetchFaults \in 0..MaxFetchFaults
    /\ \A n \in Summaries : text[n] \in 0..n /\ known[n] \subseteq stored

FeedIsGapless == Feed!FeedIsGapless
NothingMissed == Feed!NothingMissed
LeftIsNoticed == Feed!LeftIsNoticed
NewestIsFed == Feed!NewestIsFed

\* What a browser was shown the server has too, some time: it is stored, or
\* Kafka refused it or its save failed, and then nobody told the browser.  (A
\* server that dies after an early commit skips it too: LossIsBounded of
\* MessagePipeline; no server dies here.)
ShownIsStored ==
    \A n \in Summaries : (shown[n] # {}) ~> (n \in stored \cup dropped \cup refused)

\* A chat keeps its summary: of two that follow each other, the later one repeats
\* the earlier one, unless that was not stored yet when the later one was asked for
\* or the worker did not get it: no list, or one without the chat.
SummaryIsKept ==
    \A i, j \in DOMAIN stamped :
        LET m == stamped[i]
            n == stamped[j]
        IN  /\ i < j /\ ChatOf[m] = ChatOf[n] /\ m \in known[n]
            /\ \A k \in i+1..j-1 : ChatOf[stamped[k]] # ChatOf[n]
            => text[n] = text[m]
=============================================================================
