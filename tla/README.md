# Verification of ktulhu: the message pipeline, its workers and its gateway

TLA+ models of the concurrent parts of this repository, TLC runs that check them on small
instances, and TLAPS proofs of every safety property those runs check. Every definition is translated from the source;
`PROJECT.json` ("map") names the lines. `src/` below stands for the root of the repository:
the Rust server is under `src/src`, the Node gateway under `src/node`, the Python worker under
`src/scripts/worker_mistral7b`.

## 1. The system

A browser talks to the Node **gateway** over a websocket. The gateway emits each question to the
Kafka topic `messages`, then opens a connection to the Python **worker**, streams the answer back
to the browser and emits it to the topic as the assistant's message. The Rust **server** reads the
topic with two consumer groups in one process, stores the messages in RocksDB, keeps the last ones of
each chat in memory, feeds summaries to websocket listeners and user events to the **history worker**, which
asks the Python worker what a message says and keeps a cumulative state per chat. The server also
starts the worker and the gateway as child processes and kills them on Ctrl+C. When an answer needs the
web, the worker asks the server's **scraper**; after an answer it makes or repeats a **summary** of the chat, which the
gateway emits to the topic and shows to the browsers of the user's device.

| Component | State it keeps | Operations | What is hard |
|---|---|---|---|
| Message store, `src/src/storage/message_store.rs` | column families `messages_by_id`, `messages_by_time` | `save` (two puts), `delete_thread` (two scans, one batch), `load_thread`, `list_chat_ids` | error or crash between the two puts; a delete beside two writers |
| Kafka consumers, `src/src/kafka/messages.rs` | position and committed offset of each group, `recent_messages`, two broadcast channels | receive, push to the window, save, broadcast | offsets are committed by a timer, not by the loop; failed saves are logged and skipped; both groups write the same keys |
| Chat thread routes, `src/src/routes/chat_thread.rs` | none of their own | GET (window, else RocksDB), DELETE | the window and RocksDB are changed in separate steps, beside the consumers |
| History worker, `src/src/history_worker/mod.rs`, `state_store.rs` | broadcast ring, `state`, `state_by_chat`, `recent_state` | receive, read the last state, infer (up to 63 s), merge, save (two puts) | the ring overflows; keys are wall-clock times; the state read before the inference is merged after it |
| Process registry, `main.rs`, `process_registry.rs`, `manager.rs` | children behind mutexes, a task that waits for the gateway | spawn, wait, interrupt, `kill_all` | a mutex is held for the life of the gateway |
| Python streaming socket, `__main__.py`, `net/`, `inference/` | `request_queue`, one connection per thread | accept, read lines, queue, answer, close | two threads on one connection; a close under a `recv`; a backlog of 8 |
| Gateway stream, `websocket.ts`, `worker.ts`, `emitters.ts` | per connection: buffer, `fullResponse` | question, chunks, end | async handlers of one connection overtake each other while Kafka acknowledges |
| Python API socket, `__main__.py` 81-164, `summarizer_delta.py` | one thread, its backlog, the connection in hand | accept, receive once, generate, answer, close | callers give up after 60 s, the thread does not know; one `recv` for a request of any size |
| Device registry, `websocket.ts`, `emitSummaryBroadcast` | `deviceClients`, the device of each websocket | register, close, emit, push | registrations and closes during the await of Kafka |
| Summary feed, `routes/chat_summary.rs` | a receiver of the broadcast channel per listener | upgrade, subscribe, receive, lag, leave; list of the last summaries | subscription and list are two requests; a ring that overwrites |
| Summary of a chat, `summary_manager.py` | none: asks the server's list | fetch, generate | the list it asks is filled by what it wrote, by way of gateway, Kafka and RocksDB |
| Scraper, `src/src/scraper`, `brave.py` | a socket file, a task per search, a task per page | bind, search, pages, answer | timeouts on both sides; pages end in any order; a file that outlives the process |
| State and device routes, configuration, startup of the gateway, prompts | | | see section 7 |

How they interact: gateway → topic → both consumer groups (messages: lost, duplicated by a producer
retry, delivered again after a crash); user consumer → history worker (a bounded ring in memory);
DELETE ↔ consumers (shared RocksDB and window, no common lock); gateway ↔ Python worker (one socket
connection per question); history worker ↔ API thread (one connection per event, timeouts on one side only);
worker → server (the list of summaries, the web search); server → browsers (the feed) and gateway → browsers (the
push); server → children (signals, a mutex per child).

What makes each component correct:

* store and consumers: a valid message that was consumed is stored, and only failures lose messages, one
  each; a record that its chat's thread does not show has an explainable cause; the window and the
  broadcasts follow the topic; a delete erases its own chat, and all of it if nothing disturbs it;
* history worker: a cumulative memory that forgets nothing it saved, takes events once and in order,
  and goes on whatever fails;
* registry: a shutdown ends, and leaves no child;
* streaming socket: one request at a time, no request that ends in silence or is answered twice, and
  each one comes to an end;
* gateway: the tokens in order, the saved answer complete, the question before its answer;
* API socket: a late answer is never taken for that of another message, the worker comes back from every call, and the
  thread serves whoever waits;
* summaries: pushed to the device that asked, fed without gap or with a lag the handler was told of, listed or
  fed, kept from one question of the chat to the next, and stored if they were shown;
* scraper: no client gives up on a search that has time left, an answer has all that was found, a handler ends.

`PROJECT.json` ("hazards") lists what is hard to test, each at its line.

## 2. Modules

| Module | Models |
|---|---|
| `MessageStore` | the two column families, single puts, the batch, the queries |
| `MessagePipeline` | extends `MessageStore`: topic, both consumers, window, broadcasts, DELETE, failed puts, crashes |
| `MessagePipelineProofs` | theorems about `MessagePipeline` |
| `ChatMemory` | abstract: what the history worker promises |
| `HistoryWorker` | the worker loop, the ring and the state store; implements `ChatMemory` |
| `HistoryWorkerProofs` | theorems about `HistoryWorker`, the refinement among them |
| `InferApi` | one call of `infer()` and the API thread that answers it |
| `MemoryPath` | extends `HistoryWorker` with `InferApi`: the outcome of a call is what the socket, the timeouts and the other process make of it |
| `MemoryPathProofs` | extends `HistoryWorkerProofs`: theorems about `MemoryPath` |
| `ProcessRegistry` | children, the waiting task, interrupts, `kill_all` |
| `ProcessRegistryProofs` | theorems about `ProcessRegistry` |
| `StreamingWorker` | main and worker thread of the Python process, its connections |
| `StreamingWorkerProofs` | theorems about `StreamingWorker` |
| `GatewayStream` | a question and its answer in the gateway |
| `GatewayStreamProofs` | theorems about `GatewayStream` |
| `DeviceRegistry` | websockets, their devices, and the push of summaries |
| `SummaryFeed` | summaries in the server: consumer, ring, listeners, the list |
| `SummaryDelivery` | extends `DeviceRegistry` with `SummaryFeed` and the worker's question for the summary: the whole way of a summary |
| `SummaryDeliveryProofs` | theorems about `SummaryDelivery` and the two modules it joins |
| `Scraper` | scraper task, its handlers and pages, and the Python client, on one clock |
| `ScraperProofs` | theorems about `Scraper` |
| `MC...` | the instances for TLC |

An operator commented as a *faulty variant* is a bug somebody could write in the definition that
follows it. None is part of a specification; "mutants" in `PROJECT.json` says which property each one breaks.

### MessagePipeline

`pc[c]` is the place of consumer `c` in its loop; each storage call is a step, because the other
consumer and the DELETE handler run between any two:

| Action | Code |
|---|---|
| `Produce` | `emitMessageToKafka`; a producer retry may append a message again |
| `Join` | subscription; `auto.offset.reset` is `earliest` for `chat`, `latest` for `user` |
| `AutoCommit` | the offset timer of librdkafka (external): commits the position, whatever the loop does with the message |
| `Poll` | the next event; unparsable ones, and for `user` those of another role, are skipped |
| `PushWindow` | `entry.push`, `entry.remove(0)` |
| `SavePrimary`, `SaveIndex`, `SaveFails` | the two puts of `MessageStore::save` and its error, which is logged |
| `Publish` | `tx.send` / `tx_user.send` |
| `DelStart` … `DelWrite`, `DelFails` | the DELETE handler: remove the window, scan the records, scan the time keys and look each up, write one batch |
| `Crash` | the process ends; RocksDB, topic and offsets survive |

A message is its id; chat, role and time are constants. A record is abstracted to the consumer that
wrote it, because the two write different fields. `dropped`, `halfSaved`, `raced` and `erased` are history
variables: the code has nothing like them and no guard reads them.

### HistoryWorker

`Take` is the loop from `recv` to the call of `infer`, `Infer` its three outcomes (facts and a summary,
neither, the error code of `fallback`), `SavePrimary` and `SaveIndex` the puts of `StateStore::save`. A
state is what the worker reads back: the timestamp it covers, the messages whose facts it holds, where its
summary is from. The ring is the queue of one receiver: a send to a full ring drops the oldest event and
marks the receiver lagged. `ClockBack` is a wall clock that steps back.

`ChatMemory` promises a memory that only grows, per chat, as long as `trusted`: no read error was taken for a new chat
and no clock was set back. `Trusted` is that condition in the worker. The refinement mapping takes the abstract memory of a chat to what `load_last_for_chat` would answer. Both
puts are invisible until the index key is there; a failed put or a crash in between is a stutter.

### InferApi and MemoryPath

`call.at` is the place of `infer()`: before `connect`, in `write_all`, in `read_line`; leaving it drops the stream
(`Return`). The thread takes the oldest connection of the backlog, receives once, generates, answers and closes; `live` says
whether the caller still holds its end, which the thread cannot see. The timeouts are not clocks: `GiveUp` may happen at
any time while reading, `ConnectFails` while the backlog is full; the write has none. `SizeOf` says what one `recv(65535)`
makes of a request: all of it, perhaps a part (answered as invalid JSON), never all. In `MemoryPath` the action `Infer`
of `HistoryWorker` is replaced by the steps of the call: `Hear` and `Fallback` are its outcomes, the ones `HistoryWorker`
takes as given. A crash of the server ends both processes' parts: the new Python process binds a new socket.

### DeviceRegistry, SummaryFeed, SummaryDelivery

`emit[n]` is one run of `emitSummaryBroadcast()`: the device is read for the event before the await (`of`) and again for
the push after it. `moved` and `crossed` are history variables that name the exceptions of the properties: a socket
that registers a second device stays in the set of the first, and a requester that registers during the await gets
the summary on another device than its event says. `Leave` and `CloseEvent` are apart, because `readyState` changes before the `close`
handler runs. `SummaryFeed` takes the topic as it finds it (joins and offsets are `MessagePipeline`'s); `save` is one
step there, because the list sees a summary only with both keys. `hpc` is the place of `ws_handler()`: the upgrade is
answered before `subscribe()` (`early` holds what is broadcast in between), and `select!` waits for the ring and for the
client. `List` is one request of `list_last()`: an error of `list_chat_ids` leaves out every chat and one of `load_last_summary` its own,
both with a 200; `misread` is a history variable with what was stored in the chats that were left out. Deletes are in `MessagePipeline` only.
The worker writes the line of a summary twice (search_router.py:31, dispatcher.py:92), so the topic gets two events of one text; the model
emits one, as the second adds neither a text nor a chat. In `SummaryDelivery` a summary comes into being when `get_conversation_summary()` finds one for the chat in the list, and repeats it,
or finds none, fails or gets a list without the chat, and generates one (`text`).

### Scraper

The one module with a clock: `Tick` lets time pass when nothing is due, so a request ends at any moment up to its limit, and at
the limit it ends before the clock moves on. `phase` is the time of the search, then of the pages, which run side by
side; `waited` is the time of the Python socket, which runs through both. What `AnswerIsDue` is about is that the two
limits of the server add up to that of the client. The file an earlier process left is removed by `Bind`.

### ProcessRegistry

`Waited` is the set of children that have a task waiting for them (the gateway). An interrupt reaches the whole process
group (Ctrl+C at a terminal) or the server alone (`kill -INT`, a supervisor).

### StreamingWorker

`closed` holds the connections the server's code has closed, `Ended` those whose peer can see
it: the kernel keeps a socket open while a `recv` on it is in progress, and the main thread is in that `recv`
whenever it waits for more lines of a request. Connections are numbered in the order they are opened.
Observations that went into the model: `extract_user_prompt` raises for a text that is JSON but no object
(`Fail`), and a request longer than a chunk of 64 KiB fails to decode when the chunk ends inside a
character (`ReadFails`). Linux admits one connection more than the backlog; `Backlog` is what it admits.

### GatewayStream

One variable per piece of state of a connection. `OnData` is one handler up to its first `await`,
`ResumeSystem` its continuation: it takes lines from the shared buffer, so it finds it as the handlers
after it have left it. The worker is external and writes one of the `Answers`. The end of the connection may come
once every line has arrived; `cut` is a history variable with the requests for which it came before the gateway had ended its
side. `EndFollowsHalf` of `StreamingWorker` (theorem `EndAfterHalf`) says when that can be while
the worker's process lives: after an error line, which the gateway does not end its side at, or when the main thread of the
worker has not come back to `recv` since it queued the request.

## 3. Runs

Runs that hold:

| Run | Instance | Shows |
|---|---|---|
| `pipeline_failures` | a user event, a summary, an unparsable event; topic of 2 entries with any duplicates; window of 1; one crash, one failed put | `ConsumedIsPersisted`, `LossIsBounded`, `WindowIsLogTail`, `FeedFollowsLog`; `ProducedIsHandled` under fairness |
| `pipeline_delete` | two chats of one partition, 2 entries, one delete, one failure | `TornIsExplained`, `QuietDeleteEmpties`, `OnlyDeleteErases` |
| `worker_memory` | the worker with the API thread; three messages of two chats, one request of each size; 3 sends, ring of 2, clock of 2, backlog of 1; a crash, a failed put, a hang or exit of Python; or a failed read or a clock set back | `NothingForgotten`, `ConsideredIsCovered`, `RecentInOrder`, `MemoryIsOwn`; implements `ChatMemory`; `TakenIsHandled` and `BacklogIsServed` under fairness |
| `registry_shutdown` | two workers and the gateway, any of which may exit, both kinds of interrupt, at any time and repeated | `CleanShutdownLeavesNoChild`; `ShutdownEnds` under fairness |
| `streaming_requests` | 3 connections, backlog of 1, one peer that quits, one exception, one hang | `OneLiveRequest`, `EndIsExplained`, `AnsweredOnce`, `RequestsEnd` |
| `gateway_answer` | one question, with and without text; three answers with the lines of every kind; a refused emit, the death of the worker, a browser that leaves | `TokensInOrder`, `AssistantComplete`, `QuestionFirst`, `AnswerIsSaved` |
| `summary_delivery` | two summaries of a chat, two websockets, two devices, two registrations; a refused emit, a failed save; or a listener behind a ring of 1, with a list that the storage cannot read, and a failed fetch of the worker's | `ClientsAreCurrent`, `PushIsForDevice`, `FeedIsGapless`, `NothingMissed`, `SummaryIsKept`; `ShownIsStored`, `LeftIsNoticed`, `NewestIsFed` under fairness |
| `scraper` | two searches of two pages, limits of 2 and 4 ticks, a restart of the server | `AnswerIsDue`, `AnswerIsWhole`; `HandlerEnds` under fairness |

Runs that find a disagreement between a comment or message of the code and what the code does:

| Run | Property | Counterexample |
|---|---|---|
| `pipeline_restart_window` | `WindowKeepsLast` (messages.rs:85 "keep only last 50") | one message is stored and its offset committed, a restart, one more message of the chat: the window has only that one, and GET answers from it |
| `worker_lag` | `HeardIsConsidered` (messages.rs:186 "Send to HistoryWorker") | two events while the ring holds one: `recv` returns `Err(Lagged)` and `while let Ok` ends the worker |
| `registry_parent` | `InterruptEnds` (process_registry.rs:43 "triggers full cleanup") | SIGINT to the server alone: `kill_all` waits for the mutex the waiting task holds as long as the gateway runs |
| `streaming_close` | `CloseIsSeen` (\_\_main\_\_.py:228 "worker thread will handle it") | a request raises; the gateway does not end its side at an error line, the main thread stays in `recv` |

The type invariants of `MessagePipeline`, `HistoryWorker`, `ProcessRegistry` and `Scraper`, `OneConnectionHeld` of `MemoryPath` and
`EndFollowsHalf` of `StreamingWorker` are in no run: they are proved for every instance (section 6). So is every safety property the runs check.

`CHECK_DEADLOCK FALSE` everywhere: a system at rest is a legal end of these bounded instances.

Further disagreements met while modelling, without a run of their own:

* `DeletedStaysDeleted` of `MessagePipeline` (chat_thread.rs:91 "Deleted thread … from memory + DB"): the chat consumer
  saves a user message, DELETE removes it, the user consumer saves it again. To see it, add the property as an invariant to
  `pipeline_delete.cfg`, with `MaxFaults = 0`.
* `unwrap_or(None)` (mod.rs:190) takes a failed read for a new chat, and a state saved after the clock was set back sorts
  before the older one: without `Trusted` TLC refutes `NothingForgotten` and the refinement.
* A request that one `recv` does not take is answered as invalid JSON; one that the socket buffer does not hold either waits
  in `write_all`, which has no timeout, for a thread that may never read: the exception `Stuck` of `TakenIsHandled` (a huge request and a thread that hangs).
* A websocket that registered two devices stays in the set of the first after its close (`moved` in `ClientsAreCurrent`), so
  while it is open it is shown summaries of both.
* `list_last` ("Returns the most recent `summary` per chat_id", chat_summary.rs:45) answers an empty or partial list with a 200 when the
  storage cannot be read (`unwrap_or_default`, `if let Ok`, lines 49-53): the exception `misread` of `NothingMissed`, without which TLC
  refutes it. The worker takes a list without the chat for a chat without a summary, and generates a new one.
* The text of the feed is normalised (chat_summary.rs), that of `/chat-summary/last` is not; the feed follows the
  order of the topic, the list that of the timestamps.
* A failed second put leaves a record that `load_thread` ("Load all messages", message_store.rs:27) never
  returns: the `halfSaved` case of `TornIsExplained`.
* "Re-save into RocksDB for consistency" (messages.rs:169): either consumer may write last.
* The worker subscribes (main.rs:140) after the consumers are spawned: what they broadcast before reaches nobody
  (`Send` while `wpc = "unborn"`).
* "Immediate queue response" (\_\_main\_\_.py:251): written after `put`, so lines of the answer may come first;
  `Answers` contains this order.
* The `end` handler (worker.ts:179) waits for no suspended `data` handler. An end that comes before the gateway's own one
  can leave tokens out of the message that is saved: the exception `cut` of `AssistantComplete`.
* The message saved for the assistant is the concatenation of the tokens (worker.ts:188), not the final text that
  `rewrite_if_meta_response` may have changed.

## 4. Bounds

* Topic of 2 entries, window of 1: the smallest with a duplicate, an eviction, an entry in hand while another
  is committed, and a message behind the one that fails. Two crashes in a row, or a crash after a failure, add no new
  kind of state: a crash resets everything but RocksDB, topic and offsets. The order of the messages inside a window TLC does not see
  here: a topic of 3 with a window of 2 takes longer than a run may. The theorem `WindowsFollowTheLog` has it, as the theorems cover every bound; only
  `ProducedIsHandled` rests on the instance.
* Deletes: two chats in one partition show that a delete does not touch the other chat; the code has no state
  that outlives one delete but the store.
* Worker: ring of 2 with 3 sends overflows while the loop is busy; a clock of 2 gives equal and different keys; two messages of one
  chat, so that a state has one before it, and one of another. Backlog of 1: a call behind one that was given up, and one that
  finds the backlog full. `OneKindOfFault` keeps read errors and clock steps, which end the promise of the memory, apart
  from the other faults: after them only the properties that do not depend on `Trusted` are left, and those are checked with
  every other fault. The theorems need none of these bounds.
* Summaries: two, so that one follows another; ring of 1, so that the second overwrites. `MCInit` has two scenarios, the browsers or the listener, because
  these share nothing but the topic and the store, which both scenarios have. With
  one chat a list that cannot be read is the empty one; the theorem `ListAndFeedMissNothing` has a list that leaves out any of several chats.
* Scraper: limits of 2 and 4 keep the ratio of 5 s and 10 s, with a moment inside each limit; two pages, to
  end in either order; two searches, since the client makes one at a time and a handler may outlive its own. The theorems
  cover all limits and numbers of pages.
* Streaming: with backlog 1, three connections are one served, one waiting, one refused.
* Gateway: one request. Two share only the websocket and the producer, which no handler waits for on behalf of
  another; each has its own buffer, and the connections of a websocket are not ordered with each other by the code.

## 5. Fairness

* `MessagePipeline`: weak fairness of each consumer and of the DELETE handler. Both are tokio tasks without a lock
  held across their steps; nothing is assumed of producers, commits, crashes or new requests. `SaveFails` is part of the
  step but bounded.
* `HistoryWorker` alone: weak fairness of the worker, as `infer` returns after at most 3 s + 60 s (its two timeouts).
* `MemoryPath`: the call and the loop go on (tokio; the timeouts fire), and so does the API thread while it lives and does not hang.
  Nothing is assumed of sends, faults or the clock. The call is fair as a whole: an answer, an error or a timeout,
  whichever is possible.
* `SummaryDelivery`: tokio runs the consumer and the handlers, and a client that stays reads what it is sent. Nothing
  is assumed of Kafka, the browsers or the worker: `ShownIsStored` needs no more, as a summary is shown after Kafka has answered.
* `Scraper`: time passes, the server binds once it is started, client and handlers do what is due.
* `ProcessRegistry`: tasks run and a killed process dies; nobody need send a signal, no child need exit.
* `StreamingWorker`: both threads run, a generation that does not hang ends, the gateway's event loop reads. No
  fairness of `Connect`, `Quit`, `Fail` or `Hang`.
* `GatewayStream`: the event loop runs, the worker writes while it lives, Kafka answers each emit, either way.

## 6. Proofs

Every invariant and every action property of the runs that hold, and the refinement of `ChatMemory`, is a theorem for all values of
the constants. Each proof has the same shape: an inductive invariant, one lemma that a step keeps each of its parts, with one case
per action, and the theorem. The runs check the property on their instances; the strengthened invariants hold there too: TLC checks
them in a module that extends the instance and the proofs.

### MessagePipelineProofs

For all chats, messages, partitions, window sizes and bounds, from `StoreAssumption` and `PipelineAssumption` (finitely many
messages, each with a chat, a role and a time; a key decides the partition):

* `TypeCorrect`: `Spec => []TypeOK`. Inductive with `LoopOK`: a loop has a message in hand exactly when it is
  between `Poll` and `Publish`, a valid one, and only the chat loop stands before the window. Without it
  `cur[c]` could be no message where the puts use it.
* `TearsExplained`: `Spec => []TornIsExplained`. The property says nothing of a delete in progress, whose batch may be
  about to remove time keys. `DeleteOK` adds: while a delete stands between its scan and its write, the keys it has collected, and the
  records of its chat, are those of the scan or were saved since (`raced`). Then the batch tears no record that is not in
  `raced`.
* `Persistence`: `Spec => []ConsumedIsPersisted`. The property is not inductive: with a second copy of the message in
  hand earlier in the topic, "still before its put" excuses that copy too, and a crash would leave it without excuse.
  `HandledOK` states it position by position, and `PlaceInv` says that the message in hand is the one at the position, that
  keys decide partitions, and that a commit never runs ahead of the position; so a crash skips the message in
  hand exactly when `CommittedTooEarly`.
* `LossBounded`: `Spec => []LossIsBounded`. `Lost` is a subset of `dropped`, and `DropCount` bounds the
  cardinality of `dropped` step by step: only a crash and a failed put drop a message, and each is counted.
* `OnlyADeleteErases`: `Spec => OnlyDeleteErases`, an action property. `BatchOK`: the batch has records of the delete's own chat only.
* `QuietDelete`: `Spec => []QuietDeleteEmpties`. `QuietInv` is what is true before the end: the chat stays settled (both groups are
  past its messages and hold none), its window stays empty, and between scan and write no record is outside the batch.
* `FeedsFollowTheLog` and `WindowsFollowTheLog`: `Spec => []FeedFollowsLog` and `Spec => []WindowIsLogTail`. `RunInv` ties the two loops to
  the positions of this run: the message in hand is the last one handed over, and a group that has not joined has forwarded nothing. The
  lemmas on `SameInOrder` say how the correspondence of a sequence with positions of the topic survives an append on
  both sides, a drop of the first element on both sides, and an append to the topic alone.

### HistoryWorkerProofs

For all messages, ring sizes, clocks and numbers of faults, from `WorkerAssumption`:

* `WorkerTypeCorrect`: `Spec => []TypeOK`.
* `StoreIsMemory`: `Spec => ImplementsChatMemory`, the refinement. The mapping reads RocksDB, so a step of `ChatMemory` is
  the put of the index key, and everything before it is a stutter. What must be known at that put is spread over
  the loop: `KeysHaveRecords` and `RecordIsWritten` (a key always finds its record), `KeysInOrder` (unless the clock was set back, the new
  key is the newest) and `ReadIsCurrent` (nobody else writes, so what the loop read is what the store still holds). `ReadIsCurrent` has
  two cases after the first put: two states in the same millisecond share a key, and the first put then already replaces the record.
* `LearnedIsKept`, `DoneIsCovered`, `HistoryInOrder`: `[]NothingForgotten`, `[]ConsideredIsCovered`, `[]RecentInOrder`. `SavedCovers` carries the
  last two over the moment between the save and the push to `recent_state`.

### MemoryPathProofs

For all messages, sizes, backlogs and bounds, from `WorkerAssumption` and `PathAssumption`:

* `OneCallHeld`: `PathSpec => []OneConnectionHeld`, and
* `MemoryOwn`: `PathSpec => []MemoryIsOwn`, from one invariant. `ReplyIsOwn`: what is live on the socket, and a line that
  came back, is for the message of the call, and a call starts on a socket without either. `CallIsForCur`: that message is the
  event in hand. So what `Hear` hands to `merge` is the event's own. One lemma per action of the call and of the thread.
* `PathImplementsWorker`: `PathSpec => Spec`. A step of the call is a stutter of `HistoryWorker` or one of the outcomes of its
  `Infer`. With it `PathIsMemory` (`PathSpec => ImplementsChatMemory`) and `PathKeepsMemory` (the three invariants of the memory) are those of
  `HistoryWorkerProofs`: the composition refines the worker, and the worker refines the abstract memory.
* `PathTypeCorrect`: `PathSpec => []PathTypeOK`.

### SummaryDeliveryProofs

For all summaries, chats, sockets, devices, listeners, sizes of the ring and bounds, from `RegistryAssumption` (which has it that
`NoDevice` is no device) and `DeliveryAssumption`. One invariant, `DeliveryInv`, from which everything follows:

* `DeliveryTypeCorrect` (`DeliveryTypeOK`).
* `RegistryIsCurrent` (`ClientsAreCurrent`) and `PushesGoToDevice` (`PushIsForDevice`), from `GatewayInv`. `EventNamesAsker`: the device
  an event names is that of its requester, unless the requester registered since, which `crossed` records; the push reads the registry after the await, so
  this has to hold through every registration and close in between.
* `FeedHasNoGap` (`FeedIsGapless`), from `FeedInv`. Two numbers locate a listener in what was sent: `RingIsTail` says that the ring
  holds the last part of it, `FedIsHead` that without a lag what the client got lies between `since` and that part.
* `ListAndFeedMissNothing` (`NothingMissed`), from `ListCovers`: what a client was listed covers everything sent
  so far but what it is fed and the exceptions, from the upgrade on. It needs `SentIsSaved`: a summary is broadcast after its save. A
  list may leave out any chats: what is stored of them is `misread`, and of each other chat `NewestStored` finds the newest in the list.
* `ChatKeepsSummary` (`SummaryIsKept`), from `WorkerInv`: a summary repeats the newest one of its chat that was stored when it was asked
  for (`TextRepeats`), and those were all stamped before it (`KnownIsOlder`).
  A question whose fetch failed, or whose list lacked the chat, has nothing in `known`, and the property says nothing of it.

### StreamingWorkerProofs

For every number of connections, backlog, length of answers and number of faults, from `StreamingAssumption`. `IInv` has both threads and the
peers in it, because each of the three properties is kept by one thread only as long as the other one keeps its part:

* `StreamingTypeCorrect` (`TypeOK`), `OneRequestAtATime` (`OneLiveRequest`),
* `NoSilentEnd` (`EndIsExplained`): `EndsExplained` says at each of the three places where a connection is given up (the close
  in the worker thread, the return to `accept`, `closed`) that it has its answer or error, or its peer is gone.
* `OneAnswer` (`AnsweredOnce`): `OutstandingIsOpen` and `PutIsNew`: what is queued, being answered, or about to be queued has no
  answer yet, and `JobsAreDistinct`: it is there once.
* `EndAfterHalf` (`EndFollowsHalf`), an action property. `ServedOK`: the main thread stays with a connection whose request it has
  queued until the gateway has ended its side or is gone, and after the last line of an answer comes the close. So a `recv` keeps
  the socket open under the answer; only a main thread that has yet to reach it (`Hurried`) does not.

### GatewayStreamProofs

For every number of requests and every set of answers in which the tokens come before the end, from `GatewayAssumption`. That
order is what `inference/streaming.py:24-29` writes: the loop over the streamer, then the line with `done`.

* `GatewayTypeCorrect` (`TypeOK`): no line is taken before it has arrived, or arrives before it was written.
* `TokensKeepOrder` (`TokensInOrder`). Inductive as it is; the work is in the lemmas: `AscendingLists` (every finite set of positions has an
  ascending list, by the least bound without one) and `ConcatLists` (the lists of two sets, one below the other, one after the other).
  `Handles` covers a chunk and a resumed handler in one, since both run the loop on the shared buffer from where it is.
* `SavedAnswerIsWhole` (`AssistantComplete`). `HalfOK`: the gateway ends its side only after the end of the answer was taken, so every
  token was; `SaysOK`: a final message belongs to a connection that is over, and snapshots a complete list unless
  the end came early (`cut`). Suspended handlers may still run after it, but find no token.
* `QuestionComesFirst` (`QuestionFirst`), an action property. `AskOK`: an emit of a question belongs to a handler that waits for it, is not in
  flight twice, and once answered is in the topic or was refused; `PassedOK`: a question that went to the worker has been through Kafka.

### ProcessRegistryProofs

For every list of distinct children, whichever of them are waited for, and both kinds of
interrupt, from `RegistryAssumption` (no child is listed twice):

* `RegistryTypeCorrect`: `Spec => []TypeOK`.
* `ShutdownLeavesNoChild`: `Spec => []CleanShutdownLeavesNoChild`. The property speaks of the end of the shutdown only.
  `SpawnedOK` says that the children up to `spawned` are the started ones, all of them before the server serves, and
  that nobody waits for the others; here the list must be injective. `KillOK` says that from the interrupt on a child that
  runs is one `kill_all` has yet to visit: no child starts any more, and a visited one is killed or had exited.

### ScraperProofs

For every number of searches and pages and all limits, from `ScraperAssumption` (a request has some time,
and the client at least twice as much; the code has 5 s and 10 s):

* `ScraperTypeCorrect`: `Spec => []TypeOK`, which here says that no clock passes its limit.
* `AnswerInTime`: `Spec => []AnswerIsDue`. `InTime` bounds how far the client's clock is ahead of the handler's: by
  nothing during the search, by one limit while the pages are fetched. The property alone speaks of the last moment only.
* `AnswerComplete`: `Spec => []AnswerIsWhole`. `Whole` says that from `join_all` on no page is out and the reply is what was found.

### How the models are written for the proofs

A sequence that picks or sorts elements of another is described, not computed: the library's `SelectSeq` and
`SetToSortSeq` are recursive or take an operator, and the provers cannot look into either. `InOrder` (the sort of `load_thread`) and
`Ascending` (the tokens of a run of the loop) choose the one ordered list there is; `SameInOrder` and `Lists` state "the same elements in the
same order" in the properties `WindowIsLogTail`, `FeedFollowsLog`, `TokensInOrder` and `AssistantComplete`; `AnsweredOnce` compares
positions in place of counting. These say what the counting and selecting forms said.

### Only model-checked

The liveness properties (`ProducedIsHandled`, `TakenIsHandled`, `BacklogIsServed`, `ShutdownEnds`, `RequestsEnd`, `AnswerIsSaved`, `ShownIsStored`,
`LeftIsNoticed`, `NewestIsFed`, `HandlerEnds`): liveness under fairness needs ENABLED, which these provers do not have. The
four runs that find a disagreement: a counterexample is TLC's to find.

To check: `tlc -workers 2 -config <run>.cfg <module>` with the module `PROJECT.json` names for the run, and
`tlapm <module>.tla` for each of the `...Proofs` modules.

## 7. Not modelled

* The state and device routes (`state_delta.rs`, `messages/by_device.rs` and others) only read: what they return is a function of
  state the modules above have (`LoadLast`, `recent`, the records of the store), and they promise nothing of their own about it.
* Startup of the gateway: `waitForSocket` and `ensureKafka`. What an emit through a producer that never connected
  does, is the refused emit of `GatewayStream`; a worker that is not there is its refused connection.
* The `state_delta` branch and the branch for lines that are no JSON in `worker.ts`: this worker writes neither.
* Text of messages and prompts, classifiers, which paragraphs of a page are kept: data no property tells apart.
* Rebalancing of a consumer group: one process has every partition.
* Kafka's internal loss; the topic is durable.
* Timestamps of the request queue that step back (`time.time()` as a priority): the queue is taken as FIFO.
* Configuration, CORS, shell scripts, `inference.pyOLD`: no concurrent behaviour.

## 8. Plan

The order of the modules was: pipeline first (it holds the data), then the worker it feeds, the processes and sockets around
them, then the calls between the processes (`InferApi`, `MemoryPath`), the summaries, the scraper. What is left, most important first:

1. Composition of `MessagePipeline` and `HistoryWorker` over the ring, with the committed offset of the user group:
   which events of the topic reach the memory at all. Composition of `GatewayStream` and `StreamingWorker`, in which
   `cut` would be a consequence of `EndFollowsHalf` and not a choice.
2. An abstract specification of the pipeline (a topic that each consumer has read to some place, and a store) with `MessagePipeline` shown to
   implement it, as `HistoryWorker` implements `ChatMemory`.
3. Startup of the gateway, with a producer that is kept after a failed connect.
