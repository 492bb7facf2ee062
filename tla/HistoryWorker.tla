--------------------------- MODULE HistoryWorker ---------------------------
(***************************************************************************)
(* The HistoryWorker task (src/src/history_worker/mod.rs), the broadcast   *)
(* channel that feeds it (src/src/main.rs, src/src/kafka/messages.rs) and  *)
(* the state store (src/src/storage/state_store.rs).                       *)
(*                                                                         *)
(* For each user event the worker reads the last state of the chat, asks   *)
(* the Python model what the message says, merges the answer and writes    *)
(* the state under the wall-clock time: a record, then an index key.  The  *)
(* channel is a ring: a receiver that falls behind gets an error instead   *)
(* of the overwritten events, and the loop ends at the first error.        *)
(***************************************************************************)
EXTENDS Integers, Sequences, FiniteSets, FiniteSetsExt

CONSTANTS
    Chats, Ids, ChatOf, TsOf,
    Capacity,       \* slots of the ring (256 in the code)
    MaxClock,       \* bound: the wall clock runs over 1..MaxClock
    MaxSends,       \* bound: events broadcast, redeliveries included
    MaxCrashes,     \* bound: crashes of the process
    MaxSaveFaults,  \* bound: failed puts
    MaxReadFaults,  \* bound: failed load_last_for_chat
    MaxBacksteps    \* bound: times the wall clock is set back

ASSUME WorkerAssumption ==
    /\ Ids \subseteq Nat \ {0}
    /\ IsFiniteSet(Ids)
    /\ ChatOf \in [Ids -> Chats]
    /\ TsOf \in [Ids -> Nat]
    /\ Capacity \in Nat \ {0}
    /\ MaxClock \in Nat \ {0}
    /\ {MaxSends, MaxCrashes, MaxSaveFaults, MaxReadFaults, MaxBacksteps} \subseteq Nat

VARIABLES
    unread,     \* events in the ring the worker has not received, oldest first
    lagged,     \* the ring has overwritten an event it had not received
    state,      \* CF "state": state[ch], the records of a chat by time
    stateIdx,   \* CF "state_by_chat": the times indexed for a chat
    clock,      \* Utc::now()
    wpc,        \* where the worker is
    cur,        \* the event it works on, or NoMsg
    loaded,     \* the last state it read before the inference
    delta,      \* the state it is about to save
    stamp,      \* the time of that state
    recent,     \* recent_state: messages processed in this run, per chat
    considered, \* history: events the worker has received and finished with
    absorbed,   \* history: messages learned from, whose state was saved
    sends, crashes, saveFaults, readFaults, backsteps

channelVars == <<unread, lagged>>
storeVars == <<state, stateIdx>>
workVars == <<wpc, cur, loaded, delta, stamp>>
ghostVars == <<considered, absorbed>>
countVars == <<sends, crashes, saveFaults, readFaults, backsteps>>
vars == <<channelVars, storeVars, clock, workVars, recent, ghostVars, countVars>>

NoMsg == 0
Times == 1..MaxClock
WorkerPC == {"unborn", "recv", "infer", "primary", "index", "push", "dead"}

\* A StateDelta as far as the worker reads it back: the timestamp it covers,
\* the messages whose facts and intents its ChatState holds, and what the
\* summary is: of the model, or the error code a fallback puts there.
MemoryRecord == [lastTs : Nat, facts : SUBSET Ids, summary : {"none", "model", "fallback"}]
Blank == [lastTs |-> 0, facts |-> {}, summary |-> "none"]

\* Faulty variant: the scan runs from the oldest time.
LoadFirst(ch) ==
    LET times == stateIdx[ch] \cap DOMAIN state[ch]
    IN  IF times = {} THEN Blank ELSE state[ch][Min(times)]

\* load_last_for_chat: the newest indexed time that has a record.
LoadLast(ch) ==
    LET times == stateIdx[ch] \cap DOMAIN state[ch]
    IN  IF times = {} THEN Blank ELSE state[ch][Max(times)]

TypeOK ==
    /\ unread \in Seq(Ids) /\ Len(unread) <= Capacity
    /\ lagged \in BOOLEAN
    /\ DOMAIN state = Chats
    /\ \A ch \in Chats :
          /\ DOMAIN state[ch] \subseteq Times
          /\ \A t \in DOMAIN state[ch] : state[ch][t] \in MemoryRecord
    /\ stateIdx \in [Chats -> SUBSET Times]
    /\ clock \in Times
    /\ wpc \in WorkerPC
    /\ cur \in Ids \cup {NoMsg}
    /\ loaded \in MemoryRecord /\ delta \in MemoryRecord
    /\ stamp \in Times
    /\ recent \in [Chats -> Seq(Ids)]
    /\ considered \in SUBSET Ids /\ absorbed \in SUBSET Ids
    /\ sends \in 0..MaxSends
    /\ crashes \in 0..MaxCrashes
    /\ saveFaults \in 0..MaxSaveFaults
    /\ readFaults \in 0..MaxReadFaults
    /\ backsteps \in 0..MaxBacksteps

Init ==
    /\ unread = <<>> /\ lagged = FALSE
    /\ state = [ch \in Chats |-> [t \in {} |-> Blank]]
    /\ stateIdx = [ch \in Chats |-> {}]
    /\ clock = 1
    /\ wpc = "unborn" /\ cur = NoMsg
    /\ loaded = Blank /\ delta = Blank /\ stamp = 1
    /\ recent = [ch \in Chats |-> <<>>]
    /\ considered = {} /\ absorbed = {}
    /\ sends = 0 /\ crashes = 0 /\ saveFaults = 0 /\ readFaults = 0 /\ backsteps = 0

-----------------------------------------------------------------------------
\* Faulty variant: a channel without a bound.
SendUnbounded(m) ==
    /\ sends < MaxSends
    /\ sends' = sends + 1
    /\ unread' = IF wpc \in {"unborn", "dead"} THEN unread ELSE Append(unread, m)
    /\ UNCHANGED <<lagged, storeVars, clock, workVars, recent, considered, absorbed,
                   crashes, saveFaults, readFaults, backsteps>>

\* The user consumer broadcasts an event; after a crash Kafka hands it the
\* events after the committed offset again.  Without a receiver the event is
\* gone; a full ring overwrites the oldest one.
Send(m) ==
    /\ sends < MaxSends
    /\ sends' = sends + 1
    /\ IF wpc \in {"unborn", "dead"} THEN UNCHANGED channelVars
       ELSE IF Len(unread) < Capacity
            THEN unread' = Append(unread, m) /\ UNCHANGED lagged
            ELSE unread' = Tail(Append(unread, m)) /\ lagged' = TRUE
    /\ UNCHANGED <<storeVars, clock, workVars, recent, considered, absorbed,
                   crashes, saveFaults, readFaults, backsteps>>

\* main() subscribes for the worker after it has spawned the consumers.
Subscribe ==
    /\ wpc = "unborn"
    /\ wpc' = "recv"
    /\ UNCHANGED <<channelVars, storeVars, clock, cur, loaded, delta, stamp,
                   recent, ghostVars, countVars>>

\* Faulty variant: an event with the timestamp of the state is taken again.
TakeNotOlder(m, last) ==
    /\ unread' = Tail(unread)
    /\ IF TsOf[m] < last.lastTs
       THEN considered' = considered \cup {m} /\ UNCHANGED <<wpc, cur, loaded>>
       ELSE /\ wpc' = "infer" /\ cur' = m /\ loaded' = last
            /\ UNCHANGED considered
    /\ UNCHANGED <<lagged, storeVars, clock, delta, stamp, recent, absorbed,
                   sends, crashes, saveFaults, backsteps>>

\* What the loop does with event m and the last state it was given: skip it if
\* that state covers its timestamp, else infer.
Take(m, last) ==
    /\ unread' = Tail(unread)
    /\ IF TsOf[m] <= last.lastTs
       THEN considered' = considered \cup {m} /\ UNCHANGED <<wpc, cur, loaded>>
       ELSE /\ wpc' = "infer" /\ cur' = m /\ loaded' = last
            /\ UNCHANGED considered
    /\ UNCHANGED <<lagged, storeVars, clock, delta, stamp, recent, absorbed,
                   sends, crashes, saveFaults, backsteps>>

Receive ==
    /\ wpc = "recv" /\ ~lagged /\ unread # <<>>
    /\ Take(Head(unread), LoadLast(ChatOf[Head(unread)]))
    /\ UNCHANGED readFaults

\* load_last_for_chat fails: unwrap_or(None).
ReceiveBlind ==
    /\ wpc = "recv" /\ ~lagged /\ unread # <<>>
    /\ readFaults < MaxReadFaults
    /\ readFaults' = readFaults + 1
    /\ Take(Head(unread), Blank)

\* recv() returns Err(Lagged): `while let Ok(event)` ends and run() returns.
ReceiveLagged ==
    /\ wpc = "recv" /\ lagged
    /\ wpc' = "dead"
    /\ unread' = <<>>
    /\ UNCHANGED <<lagged, storeVars, clock, cur, loaded, delta, stamp, recent,
                   ghostVars, countVars>>

\* Faulty variants: the new facts replace the old ones; the timestamp stays.
MergeReplaces(base, m, learned, summary) ==
    [lastTs |-> TsOf[m], facts |-> learned, summary |-> summary]

MergeKeepsTs(base, m, learned, summary) ==
    [lastTs |-> base.lastTs, facts |-> base.facts \cup learned, summary |-> summary]

\* merge: facts (and intents) the state does not have are added, the latest
\* summary overwrites.
Merge(base, m, learned, summary) ==
    [lastTs |-> TsOf[m], facts |-> base.facts \cup learned, summary |-> summary]

\* infer() returns; merge() adds what it learned to the state read before.
Answered(learned, summary) ==
    /\ wpc = "infer"
    /\ delta' = Merge(loaded, cur, learned, summary)
    /\ stamp' = clock
    /\ wpc' = "primary"
    /\ UNCHANGED <<channelVars, storeVars, clock, cur, loaded, recent,
                   ghostVars, countVars>>

\* The model gave facts, a summary, both or neither; or it could not be reached
\* in time, and fallback() put an error code for the summary.
Infer ==
    \/ \E learned \in {{}, {cur}}, summary \in {"model", loaded.summary} :
          Answered(learned, summary)
    \/ Answered({}, "fallback")

\* StateStore::save, first put: key "state:<chat>:<ts>".
SavePrimary ==
    LET ch == ChatOf[cur]
    IN  /\ wpc = "primary"
        /\ state' = [state EXCEPT ![ch] =
                        [t \in DOMAIN @ \cup {stamp} |-> IF t = stamp THEN delta ELSE @[t]]]
        /\ wpc' = "index"
        /\ UNCHANGED <<channelVars, stateIdx, clock, cur, loaded, delta, stamp,
                       recent, ghostVars, countVars>>

\* StateStore::save, second put: key "<ts>:<chat>".
SaveIndex ==
    /\ wpc = "index"
    /\ stateIdx' = [stateIdx EXCEPT ![ChatOf[cur]] = @ \cup {stamp}]
    /\ absorbed' = absorbed \cup ({cur} \cap delta.facts)
    /\ wpc' = "push"
    /\ UNCHANGED <<channelVars, state, clock, cur, loaded, delta, stamp, recent,
                   considered, countVars>>

\* Either put fails: logged, and the loop goes on to recent_state.
SaveFails ==
    /\ wpc \in {"primary", "index"}
    /\ saveFaults < MaxSaveFaults
    /\ saveFaults' = saveFaults + 1
    /\ wpc' = "push"
    /\ UNCHANGED <<channelVars, storeVars, clock, cur, loaded, delta, stamp, recent,
                   ghostVars, sends, crashes, readFaults, backsteps>>

PushRecent ==
    /\ wpc = "push"
    /\ recent' = [recent EXCEPT ![ChatOf[cur]] = Append(@, cur)]
    /\ considered' = considered \cup {cur}
    /\ wpc' = "recv" /\ cur' = NoMsg
    /\ UNCHANGED <<channelVars, storeVars, clock, loaded, delta, stamp,
                   absorbed, countVars>>

-----------------------------------------------------------------------------
Tick ==
    /\ clock < MaxClock
    /\ clock' = clock + 1
    /\ UNCHANGED <<channelVars, storeVars, workVars, recent, ghostVars, countVars>>

\* The wall clock is not monotone: NTP or an operator sets it back.
ClockBack ==
    /\ clock > 1
    /\ backsteps < MaxBacksteps
    /\ clock' = clock - 1
    /\ backsteps' = backsteps + 1
    /\ UNCHANGED <<channelVars, storeVars, workVars, recent, ghostVars,
                   sends, crashes, saveFaults, readFaults>>

Crash ==
    /\ crashes < MaxCrashes
    /\ crashes' = crashes + 1
    /\ unread' = <<>> /\ lagged' = FALSE
    /\ wpc' = "unborn" /\ cur' = NoMsg
    /\ loaded' = Blank /\ delta' = Blank /\ stamp' = 1
    /\ recent' = [ch \in Chats |-> <<>>]
    /\ UNCHANGED <<storeVars, clock, considered, absorbed, sends, saveFaults,
                   readFaults, backsteps>>

WorkerStep ==
    \/ Subscribe
    \/ Receive
    \/ ReceiveBlind
    \/ ReceiveLagged
    \/ Infer
    \/ SavePrimary
    \/ SaveIndex
    \/ SaveFails
    \/ PushRecent

Next ==
    \/ \E m \in Ids : Send(m)
    \/ WorkerStep
    \/ Tick
    \/ ClockBack
    \/ Crash

Spec == Init /\ [][Next]_vars

\* tokio schedules main() and the worker, and infer() returns after at most
\* 3 s + 60 s.
FairSpec == Spec /\ WF_vars(WorkerStep)

-----------------------------------------------------------------------------
(* Properties.                                                             *)

\* Under every number of failed puts and crashes; not when the memory was read
\* as empty, nor when the keys of its states are out of order.
Trusted == readFaults = 0 /\ backsteps = 0

\* The state store under its two puts, redeliveries and crashes implements the
\* cumulative memory.
Memory == INSTANCE ChatMemory WITH
    memory <- [ch \in Chats |-> LoadLast(ch)], trusted <- Trusted
ImplementsChatMemory == Memory!MemorySpec

\* "Merge python semantic memory into cumulative ChatState" (mod.rs:144): what
\* was learned from a message and saved stays in the state of its chat.
NothingForgotten ==
    Trusted => \A m \in absorbed : m \in LoadLast(ChatOf[m]).facts

\* An event the worker is done with is covered by the state in RocksDB, so a
\* redelivery of it, or of an older one, changes nothing.
ConsideredIsCovered ==
    Trusted /\ saveFaults = 0 =>
        \A m \in considered : TsOf[m] <= LoadLast(ChatOf[m]).lastTs

\* recent_state, which the Python side reads as the history of the chat, has
\* each message once and in the order of the timestamps.
RecentInOrder ==
    Trusted /\ saveFaults = 0 =>
        \A ch \in Chats : \A i, j \in DOMAIN recent[ch] :
            i < j => TsOf[recent[ch][i]] < TsOf[recent[ch][j]]

\* An event that reached the ring is considered, or the process crashed.
HeardIsConsidered ==
    \A m \in Ids : (\E i \in DOMAIN unread : unread[i] = m) ~> (m \in considered \/ wpc = "unborn")
=============================================================================
