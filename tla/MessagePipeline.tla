-------------------------- MODULE MessagePipeline --------------------------
(***************************************************************************)
(* From the Kafka topic `messages` to RocksDB, the in-memory window and    *)
(* the broadcast channels (src/src/kafka/messages.rs, message_store.rs,    *)
(* src/src/routes/chat_thread.rs).                                         *)
(*                                                                         *)
(* Two consumer groups read the same topic in one process: "chat" stores   *)
(* every event, keeps the sliding window and forwards summaries to the     *)
(* WebSocket listeners; "user" stores the user events a second time and    *)
(* feeds the HistoryWorker.  DELETE /chat-thread/:id erases a chat while   *)
(* both run.  Every storage call is a step of its own, so the model has    *)
(* all interleavings of the two consumers and the delete handler, a        *)
(* failure of each call, and a crash of the process between any two.       *)
(***************************************************************************)
EXTENDS MessageStore

CONSTANTS
    Partitions,     \* partitions of the topic
    PartitionOf,    \* Kafka places a message by its key, the chat id
    WindowSize,     \* messages kept per chat in memory (50 in the code)
    MaxLog,         \* bound: entries of a partition, copies included
    MaxCrashes,     \* bound: crashes of the Rust process
    MaxFaults,      \* bound: failed puts
    MaxDeletes      \* bound: delete requests

ASSUME PipelineAssumption ==
    /\ Chats # {}
    /\ PartitionOf \in [Chats -> Partitions]
    /\ WindowSize \in Nat \ {0}
    /\ MaxLog \in Nat
    /\ MaxCrashes \in Nat
    /\ MaxFaults \in Nat
    /\ MaxDeletes \in Nat

VARIABLES
    log,        \* log[p]: the messages of partition p, oldest first
    committed,  \* committed[c][p]: offset group c committed, or NoOffset
    pc,         \* pc[c]: where consumer c is in its loop
    pos,        \* pos[c][p]: messages of p handed to consumer c
    base,       \* base[c][p]: offset at which c joined in this run
    cur,        \* cur[c]: the message consumer c works on, or NoMsg
    window,     \* window[ch]: recent_messages
    feed,       \* feed[c]: what c has broadcast in this run
    del,        \* the delete handler
    \* History variables, read by the properties only.
    dropped,    \* messages a failed put or a crash cut short in consumer "chat"
    halfSaved,  \* messages whose index put did not happen
    raced,      \* messages saved while a delete of their chat was running
    erased,     \* messages some delete has removed from messages_by_id
    crashes, faults, deletes

consumerVars == <<committed, pc, pos, base, cur, window, feed>>
ghostVars == <<dropped, halfSaved, raced, erased>>
countVars == <<crashes, faults, deletes>>
vars == <<storeVars, log, consumerVars, del, ghostVars, countVars>>

NoMsg == 0
NoOffset == -1

PC == {"joining", "poll", "window", "primary", "index", "publish"}
DelStep == {"idle", "started", "scanned", "visiting", "done", "failed"}

Partition(m) == PartitionOf[ChatOf[m]]
Valid(m) == RoleOf[m] # "invalid"
Copies(m) == Cardinality({i \in 1..Len(log[Partition(m)]) : log[Partition(m)][i] = m})

\* Faulty variant: both groups take user events only.
HandlesUsersOnly(c, m) == RoleOf[m] = "user"

\* What consumer c acts on; it skips anything else.
Handles(c, m) == Valid(m) /\ (c = "user" => RoleOf[m] = "user")
\* What consumer c forwards: summaries to the listeners, user events to the worker.
Forwards(c, m) == IF c = "chat" THEN RoleOf[m] = "summary" ELSE RoleOf[m] = "user"

\* Messages of partition p that group c will not be handed again.
Seen(c, p) ==
    IF pc[c] # "joining" THEN pos[c][p]
    ELSE IF committed[c][p] = NoOffset THEN 0 ELSE committed[c][p]

NoDelete == [step |-> "idle", chat |-> CHOOSE ch \in Chats : TRUE,
             batchP |-> {}, batchI |-> {}, todo |-> {}, quiet |-> FALSE]

LogTypeOK ==
    /\ log \in [Partitions -> Seq(Ids)]
    /\ committed \in [Consumers -> [Partitions -> Nat \cup {NoOffset}]]

LoopTypeOK ==
    /\ pc \in [Consumers -> PC]
    /\ pos \in [Consumers -> [Partitions -> Nat]]
    /\ base \in [Consumers -> [Partitions -> Nat]]
    /\ cur \in [Consumers -> Ids \cup {NoMsg}]

OutputTypeOK ==
    /\ window \in [Chats -> Seq(Ids)]
    /\ feed \in [Consumers -> Seq(Ids)]

DelTypeOK ==
    del \in [step : DelStep, chat : Chats, batchP : SUBSET Ids,
             batchI : SUBSET Ids, todo : SUBSET Ids, quiet : BOOLEAN]

GhostTypeOK ==
    /\ dropped \in SUBSET Ids
    /\ halfSaved \in SUBSET Ids
    /\ raced \in SUBSET Ids
    /\ erased \in SUBSET Ids

CountTypeOK ==
    /\ crashes \in 0..MaxCrashes
    /\ faults \in 0..MaxFaults
    /\ deletes \in 0..MaxDeletes

TypeOK ==
    /\ StoreTypeOK
    /\ LogTypeOK
    /\ LoopTypeOK
    /\ OutputTypeOK
    /\ DelTypeOK
    /\ GhostTypeOK
    /\ CountTypeOK

Init ==
    /\ StoreInit
    /\ log = [p \in Partitions |-> <<>>]
    /\ committed = [c \in Consumers |-> [p \in Partitions |-> NoOffset]]
    /\ pc = [c \in Consumers |-> "joining"]
    /\ pos = [c \in Consumers |-> [p \in Partitions |-> 0]]
    /\ base = [c \in Consumers |-> [p \in Partitions |-> 0]]
    /\ cur = [c \in Consumers |-> NoMsg]
    /\ window = [ch \in Chats |-> <<>>]
    /\ feed = [c \in Consumers |-> <<>>]
    /\ del = NoDelete
    /\ dropped = {} /\ halfSaved = {} /\ raced = {} /\ erased = {}
    /\ crashes = 0 /\ faults = 0 /\ deletes = 0

-----------------------------------------------------------------------------
(* The gateway and the broker.                                             *)

\* A message reaches the log.  A retry of producer.send() after a lost
\* acknowledgement appends it again.
Produce(m) ==
    /\ Len(log[Partition(m)]) < MaxLog
    /\ log' = [log EXCEPT ![Partition(m)] = Append(@, m)]
    /\ del' = [del EXCEPT !.quiet = @ /\ del.chat # ChatOf[m]]
    /\ UNCHANGED <<storeVars, consumerVars, ghostVars, countVars>>

\* Faulty variant: both groups start at the end of the log.
JoinLatest(c) ==
    LET start == [p \in Partitions |->
                    IF committed[c][p] # NoOffset THEN committed[c][p] ELSE Len(log[p])]
    IN  /\ pc[c] = "joining"
        /\ pc' = [pc EXCEPT ![c] = "poll"]
        /\ pos' = [pos EXCEPT ![c] = start]
        /\ base' = [base EXCEPT ![c] = start]
        /\ UNCHANGED <<storeVars, log, committed, cur, window, feed, del, ghostVars, countVars>>

\* Group c gets its partitions: the committed offset if there is one, else
\* auto.offset.reset ("earliest" for chat, "latest" for user).
Join(c) ==
    LET start == [p \in Partitions |->
                    IF committed[c][p] # NoOffset THEN committed[c][p]
                    ELSE IF c = "chat" THEN 0 ELSE Len(log[p])]
    IN  /\ pc[c] = "joining"
        /\ pc' = [pc EXCEPT ![c] = "poll"]
        /\ pos' = [pos EXCEPT ![c] = start]
        /\ base' = [base EXCEPT ![c] = start]
        /\ UNCHANGED <<storeVars, log, committed, cur, window, feed, del,
                       ghostVars, countVars>>

\* Faulty variant: the end of the log is committed, not the position.
CommitEnd(c, p) ==
    /\ pc[c] # "joining"
    /\ committed[c][p] # Len(log[p])
    /\ committed' = [committed EXCEPT ![c][p] = Len(log[p])]
    /\ UNCHANGED <<storeVars, log, pc, pos, base, cur, window, feed, del,
                   ghostVars, countVars>>

\* enable.auto.commit: a timer commits the position, whatever became of the
\* message the loop is working on.
AutoCommit(c, p) ==
    /\ pc[c] # "joining"
    /\ committed[c][p] # pos[c][p]
    /\ committed' = [committed EXCEPT ![c][p] = pos[c][p]]
    /\ UNCHANGED <<storeVars, log, pc, pos, base, cur, window, feed, del,
                   ghostVars, countVars>>

-----------------------------------------------------------------------------
(* The consumer loops.                                                     *)

FirstStep(c) == IF c = "chat" THEN "window" ELSE "primary"

Poll(c, p) ==
    /\ pc[c] = "poll"
    /\ pos[c][p] < Len(log[p])
    /\ pos' = [pos EXCEPT ![c][p] = @ + 1]
    /\ LET m == log[p][pos[c][p] + 1]
       IN  IF Handles(c, m)
           THEN /\ cur' = [cur EXCEPT ![c] = m]
                /\ pc' = [pc EXCEPT ![c] = FirstStep(c)]
           ELSE UNCHANGED <<cur, pc>>
    /\ UNCHANGED <<storeVars, log, committed, base, window, feed, del,
                   ghostVars, countVars>>

\* Faulty variant: a full entry drops the event that was just pushed.
PushUntilFull(w, m) == IF Len(w) < WindowSize THEN Append(w, m) ELSE w

\* entry.push(event), then remove(0) if the entry has grown past the limit.
Push(w, m) == IF Len(w) < WindowSize THEN Append(w, m) ELSE Tail(Append(w, m))

PushWindow ==
    /\ pc["chat"] = "window"
    /\ window' = [window EXCEPT ![ChatOf[cur["chat"]]] = Push(@, cur["chat"])]
    /\ pc' = [pc EXCEPT !["chat"] = "primary"]
    /\ UNCHANGED <<storeVars, log, committed, pos, base, cur, feed, del,
                   ghostVars, countVars>>

\* GET /chat-thread/:chat_id: the window if it holds anything, sorted by time
\* (a stable sort), else the database.
GetThread(ch) ==
    LET w == window[ch]
        Before(i, j) == TsOf[w[i]] < TsOf[w[j]] \/ (TsOf[w[i]] = TsOf[w[j]] /\ i < j)
        order == InOrder(DOMAIN w, Before)
    IN  IF w # <<>> THEN [i \in DOMAIN w |-> w[order[i]]] ELSE LoadThread(ch)

DeleteOverlaps(m) ==
    del.step \in {"scanned", "visiting"} /\ del.chat = ChatOf[m]

\* MessageStore::save, first put.
SavePrimary(c) ==
    /\ pc[c] = "primary"
    /\ PutPrimary(cur[c], c)
    /\ pc' = [pc EXCEPT ![c] = "index"]
    /\ raced' = IF DeleteOverlaps(cur[c]) THEN raced \cup {cur[c]} ELSE raced
    /\ UNCHANGED <<index, log, committed, pos, base, cur, window, feed, del,
                   dropped, halfSaved, erased, countVars>>

\* MessageStore::save, second put.
SaveIndex(c) ==
    /\ pc[c] = "index"
    /\ PutIndex(cur[c])
    /\ pc' = [pc EXCEPT ![c] = "publish"]
    /\ halfSaved' = halfSaved \ {cur[c]}
    /\ UNCHANGED <<primary, log, committed, pos, base, cur, window, feed, del,
                   dropped, raced, erased, countVars>>

\* Either put returns an error: it is logged and the loop goes on.
SaveFails(c) ==
    /\ pc[c] \in {"primary", "index"}
    /\ faults < MaxFaults
    /\ faults' = faults + 1
    /\ pc' = [pc EXCEPT ![c] = "publish"]
    /\ IF pc[c] = "primary"
       THEN /\ dropped' = IF c = "chat" THEN dropped \cup {cur[c]} ELSE dropped
            /\ UNCHANGED halfSaved
       ELSE halfSaved' = halfSaved \cup {cur[c]} /\ UNCHANGED dropped
    /\ UNCHANGED <<storeVars, log, committed, pos, base, cur, window, feed, del,
                   raced, erased, crashes, deletes>>

\* Faulty variant: an event broadcast in this run is not broadcast again.
PublishOnce(c) ==
    /\ pc[c] = "publish"
    /\ feed' = [feed EXCEPT ![c] =
                    IF Forwards(c, cur[c]) /\ cur[c] \notin Range(@) THEN Append(@, cur[c]) ELSE @]
    /\ pc' = [pc EXCEPT ![c] = "poll"]
    /\ cur' = [cur EXCEPT ![c] = NoMsg]
    /\ UNCHANGED <<storeVars, log, committed, pos, base, window, del,
                   ghostVars, countVars>>

\* tx.send / tx_user.send; the result is ignored.
Publish(c) ==
    /\ pc[c] = "publish"
    /\ feed' = [feed EXCEPT ![c] =
                    IF Forwards(c, cur[c]) THEN Append(@, cur[c]) ELSE @]
    /\ pc' = [pc EXCEPT ![c] = "poll"]
    /\ cur' = [cur EXCEPT ![c] = NoMsg]
    /\ UNCHANGED <<storeVars, log, committed, pos, base, window, del,
                   ghostVars, countVars>>

-----------------------------------------------------------------------------
(* DELETE /chat-thread/:chat_id.                                           *)

\* Both groups are done with every message of the chat that was produced.
Settled(ch) ==
    LET p == PartitionOf[ch]
    IN  \A c \in Consumers :
            /\ cur[c] # NoMsg => ChatOf[cur[c]] # ch
            /\ \A i \in 1..Len(log[p]) : ChatOf[log[p][i]] = ch => i <= Seen(c, p)

\* Faulty variant: the window is left to the consumer.
DelStartKeepsWindow(ch) ==
    /\ del.step \in {"idle", "done", "failed"}
    /\ deletes < MaxDeletes
    /\ deletes' = deletes + 1
    /\ del' = [step |-> "started", chat |-> ch, batchP |-> {}, batchI |-> {},
               todo |-> {}, quiet |-> Settled(ch)]
    /\ UNCHANGED <<storeVars, log, committed, pc, pos, base, cur, window, feed,
                   ghostVars, crashes, faults>>

\* The handler removes the window under the write lock ...
DelStart(ch) ==
    /\ del.step \in {"idle", "done", "failed"}
    /\ deletes < MaxDeletes
    /\ deletes' = deletes + 1
    /\ window' = [window EXCEPT ![ch] = <<>>]
    /\ del' = [step |-> "started", chat |-> ch, batchP |-> {}, batchI |-> {},
               todo |-> {}, quiet |-> Settled(ch)]
    /\ UNCHANGED <<storeVars, log, committed, pc, pos, base, cur, feed,
                   ghostVars, crashes, faults>>

\* Faulty variant: the scan does not compare the chat.
DelScanAll ==
    /\ del.step = "started"
    /\ del' = [del EXCEPT !.step = "scanned", !.batchP = {m \in Ids : Present(m)}]
    /\ UNCHANGED <<storeVars, log, consumerVars, ghostVars, countVars>>

\* ... scans messages_by_id (an iterator reads one snapshot) ...
DelScanPrimary ==
    /\ del.step = "started"
    /\ del' = [del EXCEPT !.step = "scanned", !.batchP = RecordsOf(del.chat)]
    /\ UNCHANGED <<storeVars, log, consumerVars, ghostVars, countVars>>

\* ... opens an iterator on messages_by_time ...
DelOpenIndex ==
    /\ del.step = "scanned"
    /\ del' = [del EXCEPT !.step = "visiting", !.todo = index]
    /\ UNCHANGED <<storeVars, log, consumerVars, ghostVars, countVars>>

\* ... looks every key up in messages_by_id as it is now ...
DelVisit(m) ==
    /\ del.step = "visiting"
    /\ m \in del.todo
    /\ \A n \in del.todo \ {m} : KeyLess(m, n)
    /\ del' = [del EXCEPT !.todo = @ \ {m},
                          !.batchI = IF m \in RecordsOf(del.chat)
                                     THEN @ \cup {m} ELSE @]
    /\ UNCHANGED <<storeVars, log, consumerVars, ghostVars, countVars>>

\* ... and writes one batch.
DelWrite ==
    /\ del.step = "visiting"
    /\ del.todo = {}
    /\ WriteBatch(del.batchP, del.batchI)
    /\ del' = [del EXCEPT !.step = "done"]
    /\ erased' = erased \cup del.batchP
    /\ UNCHANGED <<log, consumerVars, dropped, halfSaved, raced, countVars>>

\* A read or the write returns an error: nothing was written to RocksDB, the
\* window is already gone.
DelFails ==
    /\ del.step \in {"started", "scanned", "visiting"}
    /\ faults < MaxFaults
    /\ faults' = faults + 1
    /\ del' = [del EXCEPT !.step = "failed", !.todo = {}]
    /\ UNCHANGED <<storeVars, log, consumerVars, ghostVars, crashes, deletes>>

-----------------------------------------------------------------------------
\* The chat group has committed past a message it has not stored yet.
CommittedTooEarly ==
    /\ pc["chat"] \in {"window", "primary"}
    /\ LET p == Partition(cur["chat"]) IN committed["chat"][p] = pos["chat"][p]

\* The process dies; RocksDB, the log and the committed offsets survive.
Crash ==
    /\ crashes < MaxCrashes
    /\ crashes' = crashes + 1
    /\ pc' = [c \in Consumers |-> "joining"]
    /\ pos' = [c \in Consumers |-> [p \in Partitions |-> 0]]
    /\ base' = [c \in Consumers |-> [p \in Partitions |-> 0]]
    /\ cur' = [c \in Consumers |-> NoMsg]
    /\ window' = [ch \in Chats |-> <<>>]
    /\ feed' = [c \in Consumers |-> <<>>]
    /\ del' = NoDelete
    /\ dropped' = IF CommittedTooEarly THEN dropped \cup {cur["chat"]} ELSE dropped
    /\ halfSaved' = halfSaved \cup {cur[c] : c \in {d \in Consumers : pc[d] = "index"}}
    /\ UNCHANGED <<storeVars, log, committed, raced, erased, faults, deletes>>

ConsumerStep(c) ==
    \/ Join(c)
    \/ \E p \in Partitions : Poll(c, p)
    \/ c = "chat" /\ PushWindow
    \/ SavePrimary(c)
    \/ SaveIndex(c)
    \/ SaveFails(c)
    \/ Publish(c)

DeleteStep ==
    \/ DelScanPrimary
    \/ DelOpenIndex
    \/ \E m \in Ids : DelVisit(m)
    \/ DelWrite
    \/ DelFails

Next ==
    \/ \E m \in Ids : Produce(m)
    \/ \E c \in Consumers : ConsumerStep(c)
    \/ \E c \in Consumers, p \in Partitions : AutoCommit(c, p)
    \/ \E ch \in Chats : DelStart(ch)
    \/ DeleteStep
    \/ Crash

Spec == Init /\ [][Next]_vars

\* tokio keeps scheduling both consumer tasks and the handler.  Nothing is
\* assumed of the gateway, of commits, crashes or new requests.
Fairness ==
    /\ \A c \in Consumers : WF_vars(ConsumerStep(c))
    /\ WF_vars(DeleteStep)

FairSpec == Spec /\ Fairness
-----------------------------------------------------------------------------
(* Properties.                                                             *)

InFlight(m) == \E c \in Consumers : cur[c] = m
Unstored(m) == cur["chat"] = m /\ pc["chat"] \in {"window", "primary"}

\* MessageStore::save writes two column families with two puts.  A record
\* without a time key, which load_thread never returns, exists only while a
\* consumer stands between the puts, after the second put failed or the
\* process died before it, or when the save overlapped a delete of the chat.
TornIsExplained ==
    \A m \in Ids :
        Present(m) /\ m \notin index =>
            \/ \E c \in Consumers : cur[c] = m /\ pc[c] = "index"
            \/ m \in halfSaved
            \/ m \in raced

\* Every valid message the chat group has moved past is stored, unless a
\* delete removed it, the loop is still before the put, or its put was lost.
ConsumedIsPersisted ==
    \A p \in Partitions : \A i \in 1..Seen("chat", p) :
        LET m == log[p][i]
        IN  Valid(m) => Present(m) \/ m \in erased \/ Unstored(m) \/ m \in dropped

\* Consumed by the chat group, and neither stored, nor deleted, nor coming.
Lost ==
    {m \in Ids :
        /\ Valid(m) /\ ~Present(m) /\ m \notin erased /\ ~Unstored(m)
        /\ \E p \in Partitions : \E i \in 1..Seen("chat", p) : log[p][i] = m}

\* The offset timer commits what the loop has not stored, and a failed put is
\* only logged: each crash and each storage error may cost one message of the
\* topic, never more.
LossIsBounded == Cardinality(Lost) <= crashes + faults

\* Sequence s, at its indices I, holds what t holds at the positions J: each of
\* them once, and in the same order.
SameInOrder(s, I, t, J) ==
    \E at \in [I -> J] :
        /\ \A i, j \in I : i < j => at[i] < at[j]
        /\ \A i \in I : s[i] = t[at[i]]
        /\ \A j \in J : \E i \in I : at[i] = j

\* Positions of partition p that consumer c was handed in this run.
HandedThisRun(c, p) == (base[c][p] + 1)..pos[c][p]

\* Position i of p is that of the message consumer c works on.
InHand(c, p, i) == cur[c] # NoMsg /\ Partition(cur[c]) = p /\ i = pos[c][p]

\* The events of a chat that this process has pushed into the window.
Pushed(ch) ==
    LET p == PartitionOf[ch]
    IN  {i \in HandedThisRun("chat", p) :
            /\ Valid(log[p][i]) /\ ChatOf[log[p][i]] = ch
            /\ ~(pc["chat"] = "window" /\ InHand("chat", p, i))}

\* The events of a partition that consumer c has broadcast in this run.
Forwarded(c, p) ==
    {i \in HandedThisRun(c, p) :
        Valid(log[p][i]) /\ Forwards(c, log[p][i]) /\ ~InHand(c, p, i)}

\* recent_messages holds the latest events of a chat that this process has
\* consumed, in the order of the topic and without a gap: all of them until
\* the limit is reached or the chat is deleted.  (Not those of an earlier
\* run: after a restart the window starts empty.)
WindowIsLogTail ==
    \A ch \in Chats :
        /\ Len(window[ch]) <= WindowSize
        /\ \E tail \in SUBSET Pushed(ch) :
              /\ \A i \in tail : \A j \in Pushed(ch) : i < j => j \in tail
              /\ SameInOrder(window[ch], DOMAIN window[ch], log[PartitionOf[ch]], tail)
              /\ deletes = 0 => tail = Pushed(ch) \/ Len(window[ch]) = WindowSize

\* In one run a consumer forwards exactly what it was handed and should
\* forward, once each and in the order of the partition, even when the store
\* refused the message.
FeedFollowsLog ==
    \A c \in Consumers, p \in Partitions :
        SameInOrder(feed[c], {i \in DOMAIN feed[c] : Partition(feed[c][i]) = p},
                    log[p], Forwarded(c, p))

\* A delete that starts when both groups are done with the chat, and during
\* which nothing new arrives, leaves nothing of it: the chat is not listed and
\* its thread is empty, in memory and in RocksDB.
QuietDeleteEmpties ==
    del.step = "done" /\ del.quiet =>
        del.chat \notin ListChatIds /\ GetThread(del.chat) = <<>>

\* A stored message disappears only in the batch of a delete of its own chat.
OnlyDeleteErases ==
    [][\A m \in Ids : Present(m) /\ ~Present(m)' =>
          del.step = "visiting" /\ del'.step = "done" /\ ChatOf[m] = del.chat]_vars

\* Whatever valid message reaches the topic is in the end stored, deleted or
\* lost to a failure; it never stays waiting.
ProducedIsHandled ==
    \A m \in Ids :
        (Valid(m) /\ Copies(m) > 0) ~> (Present(m) \/ m \in erased \/ m \in dropped)

-----------------------------------------------------------------------------
(* What comments and messages of the code say, and the code does not do.   *)

\* chat_thread.rs:91 "Deleted thread {chat_id} from memory + DB": what the
\* delete saw and removed stays away.
DeletedStaysDeleted ==
    del.step = "done" => Range(GetThread(del.chat)) \cap del.batchP = {}

\* messages.rs:85 "keep only last 50": a window that is not full lacks nothing
\* that is stored of the chat, but for what the chat loop has yet to take, so that
\* answering from memory first loses nothing.
Awaits(m) == \E i \in DOMAIN log[Partition(m)] : i > pos["chat"][Partition(m)] /\ log[Partition(m)][i] = m
WindowKeepsLast ==
    \A ch \in Chats :
        window[ch] # <<>> /\ Len(window[ch]) < WindowSize =>
            \A m \in RecordsOf(ch) : InFlight(m) \/ Awaits(m) \/ m \in Range(GetThread(ch))
=============================================================================
