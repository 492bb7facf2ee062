------------------------- MODULE HistoryWorkerProofs -------------------------
(***************************************************************************)
(* Machine-checked proofs about HistoryWorker, for all messages, capacities *)
(* of the ring, ranges of the clock and numbers of faults: the state store *)
(* implements the cumulative memory of ChatMemory.                         *)
(***************************************************************************)
EXTENDS HistoryWorker, WellFoundedInduction, TLAPS

-----------------------------------------------------------------------------
(* The inductive invariant.                                                *)

\* Where the loop is tells whether it has an event in hand, what it knows of
\* it, and how far the save of its state has come.
HandIsFull == wpc \in {"infer", "primary", "index", "push"} <=> cur # NoMsg
HandIsNewer == wpc \in {"infer", "primary", "index"} => TsOf[cur] > loaded.lastTs
DeltaIsMerge ==
    wpc \in {"primary", "index"} =>
        \E learned \in {{}, {cur}}, summary \in {"model", "fallback", loaded.summary} :
            delta = Merge(loaded, cur, learned, summary)

\* The record is written before its key: a key always finds its record.
KeysHaveRecords == \A ch \in Chats : stateIdx[ch] \subseteq DOMAIN state[ch]
RecordIsWritten ==
    wpc = "index" => /\ stamp \in DOMAIN state[ChatOf[cur]]
                     /\ state[ChatOf[cur]][stamp] = delta

LoopInv ==
    TypeOK /\ HandIsFull /\ HandIsNewer /\ DeltaIsMerge /\ KeysHaveRecords /\ RecordIsWritten

\* While the clock is not set back, the key of the next state is the newest.
KeysInOrder ==
    backsteps = 0 =>
        /\ \A ch \in Chats : \A t \in stateIdx[ch] : t <= clock
        /\ wpc \in {"primary", "index"} =>
              /\ stamp <= clock
              /\ \A ch \in Chats : \A t \in stateIdx[ch] : t <= stamp

\* Nobody else writes: what the loop has read is what RocksDB holds, until its
\* own save, which may replace a record under a key that is there already.
ReadIsCurrent ==
    Trusted =>
        /\ wpc \in {"infer", "primary"} => loaded = LoadLast(ChatOf[cur])
        /\ wpc = "index" => LoadLast(ChatOf[cur]) \in {loaded, delta}

StoreInv == LoopInv /\ KeysInOrder /\ ReadIsCurrent

\* What was saved covers the event that is next to enter recent_state, and all
\* that are there.
SavedCovers ==
    Trusted /\ saveFaults = 0 =>
        /\ wpc = "push" => TsOf[cur] <= LoadLast(ChatOf[cur]).lastTs
        /\ \A ch \in Chats : \A i \in DOMAIN recent[ch] :
              TsOf[recent[ch][i]] <= LoadLast(ch).lastTs
        /\ cur # NoMsg => \A i \in DOMAIN recent[ChatOf[cur]] :
              TsOf[recent[ChatOf[cur]][i]] < TsOf[cur]

CoverInv == StoreInv /\ SavedCovers /\ ConsideredIsCovered /\ RecentInOrder

-----------------------------------------------------------------------------
(* The newest key of a store.                                              *)

Below == {pair \in Nat \X Nat : pair[1] < pair[2]}

\* Every set of numbers that has a bound has a greatest element: the least of
\* its bounds.
LEMMA Greatest ==
    ASSUME NEW S \in SUBSET Nat, S # {}, NEW bound \in Nat, \A t \in S : t <= bound
    PROVE  \E top \in S : \A t \in S : t <= top
<1> DEFINE Bounds == {n \in Nat : \A t \in S : t <= n}
<1>1. IsWellFoundedOn(Below, Nat) BY NatLessThanWellFounded DEF OpToRel, Below
<1>2. PICK n \in Bounds : \A k \in Bounds : ~(<<k, n>> \in Below)
  BY <1>1, WFMin
<1>3. \A k \in Bounds : n <= k
  <2> SUFFICES ASSUME NEW k \in Bounds PROVE ~(k < n) OBVIOUS
  <2>1. k \in Nat /\ n \in Nat OBVIOUS
  <2>2. <<k, n>> \notin Below BY <1>2
  <2> QED BY <2>1, <2>2 DEF Below
<1>4. CASE n \in S BY <1>4
<1>5. CASE n \notin S /\ n > 0
  <2>1. \A t \in S : t <= n - 1 BY <1>5
  <2>2. n - 1 \in Bounds BY <2>1, <1>5
  <2> QED BY <2>2, <1>3
<1>6. CASE n \notin S /\ n = 0
  <2>1. PICK t \in S : TRUE OBVIOUS
  <2>2. t = 0 BY <2>1, <1>6
  <2> QED BY <2>1, <2>2, <1>6
<1> QED BY <1>4, <1>5, <1>6

LEMMA MaxOfTimes ==
    ASSUME NEW S \in SUBSET Times, S # {}
    PROVE  Max(S) \in S /\ \A t \in S : t <= Max(S)
<1>0. MaxClock \in Nat /\ S \in SUBSET Nat /\ \A t \in S : t <= MaxClock
  BY WorkerAssumption DEF Times
<1>1. PICK top \in S : \A t \in S : t <= top
  BY <1>0, Greatest
<1>2. \A t \in S : top >= t BY <1>1, WorkerAssumption DEF Times
<1>3. Max(S) \in S /\ \A t \in S : Max(S) >= t BY <1>2 DEF Max
<1> QED BY <1>3, WorkerAssumption DEF Times

LEMMA MaxIs ==
    ASSUME NEW S \in SUBSET Times, NEW top \in S, \A t \in S : t <= top
    PROVE  Max(S) = top
<1>1. Max(S) \in S /\ top <= Max(S) BY MaxOfTimes
<1>2. \A t \in S : t \in Int BY WorkerAssumption DEF Times
<1>3. Max(S) \in Int /\ top \in Int BY <1>1, <1>2
<1>4. Max(S) <= top BY <1>1
<1> QED BY <1>1, <1>3, <1>4

\* LoadLast as a function of the records and the keys of one chat.
NewestOf(records, keys) ==
    IF keys \cap DOMAIN records = {} THEN Blank
    ELSE records[Max(keys \cap DOMAIN records)]

LEMMA LoadLastIsNewest ==
    ASSUME NEW ch
    PROVE  /\ LoadLast(ch) = NewestOf(state[ch], stateIdx[ch])
           /\ LoadLast(ch)' = NewestOf(state'[ch], stateIdx'[ch])
BY DEF LoadLast, NewestOf

LEMMA NewestIsRecord ==
    ASSUME NEW records, NEW keys \in SUBSET Times,
           \A t \in DOMAIN records : records[t] \in MemoryRecord
    PROVE  NewestOf(records, keys) \in MemoryRecord
<1>1. Blank \in MemoryRecord BY DEF Blank, MemoryRecord
<1>2. CASE keys \cap DOMAIN records # {}
  <2>1. Max(keys \cap DOMAIN records) \in DOMAIN records BY <1>2, MaxOfTimes
  <2> QED BY <1>2, <2>1 DEF NewestOf
<1> QED BY <1>1, <1>2 DEF NewestOf

\* A state written under the newest key, new or not, is the newest state.
LEMMA NewestIsWritten ==
    ASSUME NEW records, NEW keys \in SUBSET Times, NEW t \in keys,
           t \in DOMAIN records, \A u \in keys : u <= t
    PROVE  NewestOf(records, keys) = records[t]
<1>1. Max(keys \cap DOMAIN records) = t BY MaxIs
<1> QED BY <1>1 DEF NewestOf

\* A record without a key is not read.
LEMMA NewestIgnoresRecord ==
    ASSUME NEW records, NEW keys \in SUBSET Times, keys \subseteq DOMAIN records,
           NEW t, t \notin keys, NEW record
    PROVE  NewestOf([u \in DOMAIN records \cup {t} |->
                        IF u = t THEN record ELSE records[u]], keys)
           = NewestOf(records, keys)
<1> DEFINE written == [u \in DOMAIN records \cup {t} |-> IF u = t THEN record ELSE records[u]]
<1>1. keys \cap DOMAIN written = keys /\ keys \cap DOMAIN records = keys OBVIOUS
<1>2. CASE keys = {} BY <1>1, <1>2 DEF NewestOf
<1>3. CASE keys # {}
  <2>1. Max(keys) \in keys BY <1>3, MaxOfTimes
  <2>2. written[Max(keys)] = records[Max(keys)] BY <2>1
  <2> QED BY <1>1, <1>3, <2>2 DEF NewestOf
<1> QED BY <1>2, <1>3

-----------------------------------------------------------------------------
(* The loop: what it holds in its hands and in which order it writes.      *)

LEMMA BoundsType ==
    /\ MaxSends \in Nat /\ MaxCrashes \in Nat /\ MaxSaveFaults \in Nat
    /\ MaxReadFaults \in Nat /\ MaxBacksteps \in Nat
BY WorkerAssumption

LEMMA LoadLastType ==
    ASSUME LoopInv, NEW ch \in Chats
    PROVE  LoadLast(ch) \in MemoryRecord
<1>1. stateIdx[ch] \in SUBSET Times /\ \A t \in DOMAIN state[ch] : state[ch][t] \in MemoryRecord
  BY DEF LoopInv, TypeOK
<1> QED BY <1>1, NewestIsRecord, LoadLastIsNewest

LEMMA BlankType == Blank \in MemoryRecord /\ Blank.lastTs = 0
BY DEF Blank, MemoryRecord

\* The events in the ring stay events, and no more than its slots.
LEMMA SendRing ==
    ASSUME LoopInv, NEW m \in Ids, Send(m)
    PROVE  unread' \in Seq(Ids) /\ Len(unread') <= Capacity /\ lagged' \in BOOLEAN
<1>1. unread \in Seq(Ids) /\ Len(unread) <= Capacity /\ lagged \in BOOLEAN /\ Capacity \in Nat
  BY WorkerAssumption DEF LoopInv, TypeOK
<1>2. Append(unread, m) \in Seq(Ids) /\ Len(Append(unread, m)) = Len(unread) + 1 BY <1>1
<1>3. /\ Append(unread, m) # <<>>
      /\ Tail(Append(unread, m)) \in Seq(Ids) /\ Len(Tail(Append(unread, m))) = Len(unread)
  <2>1. Append(unread, m) # <<>> BY <1>1, <1>2
  <2> QED BY <1>1, <1>2, <2>1
<1>4. CASE wpc \in {"unborn", "dead"} BY <1>1, <1>4 DEF Send, channelVars
<1>5. CASE wpc \notin {"unborn", "dead"} /\ Len(unread) < Capacity
  <2>1. unread' = Append(unread, m) /\ lagged' = lagged BY <1>5 DEF Send
  <2> QED BY <1>1, <1>2, <1>5, <2>1
<1>6. CASE wpc \notin {"unborn", "dead"} /\ ~(Len(unread) < Capacity)
  <2>1. unread' = Tail(Append(unread, m)) /\ lagged' = TRUE BY <1>6 DEF Send
  <2> QED BY <1>1, <1>3, <2>1
<1> QED BY <1>4, <1>5, <1>6

LEMMA SendLoop ==
    ASSUME LoopInv, NEW m \in Ids, Send(m)
    PROVE  LoopInv'
<1>1. UNCHANGED <<storeVars, clock, workVars, recent, considered, absorbed,
                  crashes, saveFaults, readFaults, backsteps>>
  BY DEF Send
<1>2. sends' \in 0..MaxSends
  <2>1. sends < MaxSends /\ sends' = sends + 1 BY DEF Send
  <2> QED BY <2>1, BoundsType DEF LoopInv, TypeOK
<1>3. TypeOK' BY SendRing, <1>1, <1>2 DEF LoopInv, TypeOK, storeVars, workVars
<1> QED BY <1>1, <1>3 DEF LoopInv, HandIsFull, HandIsNewer, DeltaIsMerge, KeysHaveRecords,
              RecordIsWritten, storeVars, workVars

LEMMA TakeLoop ==
    ASSUME LoopInv, unread # <<>>, NEW last \in MemoryRecord, Take(Head(unread), last),
           wpc = "recv", readFaults' \in 0..MaxReadFaults
    PROVE  LoopInv'
<1> DEFINE m == Head(unread)
<1>1. /\ m \in Ids /\ m # NoMsg /\ TsOf[m] \in Nat
      /\ unread' \in Seq(Ids) /\ Len(unread') <= Capacity
  BY WorkerAssumption DEF LoopInv, TypeOK, Take, NoMsg
<1> HIDE DEF m
<1>2. UNCHANGED <<lagged, storeVars, clock, delta, stamp, recent, absorbed,
                  sends, crashes, saveFaults, backsteps>>
  BY DEF Take
<1>3. CASE TsOf[m] <= last.lastTs
  <2>1. considered' = considered \cup {m} /\ UNCHANGED <<wpc, cur, loaded>>
    BY <1>3 DEF Take, m
  <2>2. TypeOK' BY <1>1, <1>2, <2>1 DEF LoopInv, TypeOK, storeVars
  <2> QED BY <1>2, <2>1, <2>2 DEF LoopInv, HandIsFull, HandIsNewer, DeltaIsMerge,
                KeysHaveRecords, RecordIsWritten, storeVars
<1>4. CASE ~(TsOf[m] <= last.lastTs)
  <2>1. wpc' = "infer" /\ cur' = m /\ loaded' = last /\ UNCHANGED considered
    BY <1>4 DEF Take, m
  <2>2. TypeOK' BY <1>1, <1>2, <2>1 DEF LoopInv, TypeOK, WorkerPC, storeVars
  <2>3. TsOf[m] > last.lastTs BY <1>1, <1>4 DEF MemoryRecord
  <2> QED BY <1>1, <1>2, <2>1, <2>2, <2>3 DEF LoopInv, HandIsFull, HandIsNewer, DeltaIsMerge,
                KeysHaveRecords, RecordIsWritten, storeVars
<1> QED BY <1>3, <1>4

LEMMA ReceiveLoop == ASSUME LoopInv, Receive PROVE LoopInv'
<1>1. Head(unread) \in Ids BY DEF LoopInv, TypeOK, Receive
<1>2. ChatOf[Head(unread)] \in Chats BY <1>1, WorkerAssumption
<1>3. LoadLast(ChatOf[Head(unread)]) \in MemoryRecord BY <1>2, LoadLastType
<1>4. readFaults' \in 0..MaxReadFaults BY DEF Receive, LoopInv, TypeOK
<1> QED BY <1>3, <1>4, TakeLoop DEF Receive

LEMMA ReceiveBlindLoop == ASSUME LoopInv, ReceiveBlind PROVE LoopInv'
<1>1. readFaults' \in 0..MaxReadFaults
  BY WorkerAssumption DEF ReceiveBlind, LoopInv, TypeOK
<1> QED BY <1>1, BlankType, TakeLoop DEF ReceiveBlind

\* The event in hand is an event, of a chat.
LEMMA HandType ==
    ASSUME LoopInv, wpc \in {"infer", "primary", "index", "push"}
    PROVE  cur \in Ids /\ TsOf[cur] \in Nat /\ ChatOf[cur] \in Chats
BY WorkerAssumption DEF LoopInv, TypeOK, HandIsFull

\* What infer() may give for the event in hand.
LEMMA InferIsMerge ==
    ASSUME LoopInv, Infer
    PROVE  /\ wpc = "infer" /\ wpc' = "primary" /\ stamp' = clock
           /\ UNCHANGED <<channelVars, storeVars, clock, cur, loaded, recent,
                          ghostVars, countVars>>
           /\ \E learned \in {{}, {cur}}, summary \in {"model", "fallback", loaded.summary} :
                 delta' = Merge(loaded, cur, learned, summary)
<1>1. CASE \E learned \in {{}, {cur}}, summary \in {"model", loaded.summary} :
              Answered(learned, summary)
  BY <1>1 DEF Answered
<1>2. CASE Answered({}, "fallback") BY <1>2 DEF Answered
<1> QED BY <1>1, <1>2 DEF Infer

LEMMA MergeType ==
    ASSUME NEW base \in MemoryRecord, NEW m \in Ids, NEW learned \in {{}, {m}},
           NEW summary \in {"model", "fallback", base.summary}
    PROVE  Merge(base, m, learned, summary) \in MemoryRecord
<1>1. base.summary \in {"none", "model", "fallback"} /\ base.facts \in SUBSET Ids
  BY DEF MemoryRecord
<1>2. TsOf[m] \in Nat BY WorkerAssumption
<1> QED BY <1>1, <1>2 DEF Merge, MemoryRecord

LEMMA InferLoop == ASSUME LoopInv, Infer PROVE LoopInv'
<1>1. cur \in Ids /\ loaded \in MemoryRecord
  BY HandType, InferIsMerge DEF LoopInv, TypeOK
<1>2. delta' \in MemoryRecord BY <1>1, InferIsMerge, MergeType
<1>3. TypeOK'
  BY <1>2, InferIsMerge
  DEF LoopInv, TypeOK, WorkerPC, channelVars, storeVars, ghostVars, countVars
<1> QED BY <1>3, InferIsMerge
    DEF LoopInv, HandIsFull, HandIsNewer, DeltaIsMerge, KeysHaveRecords, RecordIsWritten, storeVars

\* The first put adds one record and touches no other.
LEMMA PutRecord ==
    ASSUME LoopInv, SavePrimary
    PROVE  /\ DOMAIN state' = Chats
           /\ DOMAIN state'[ChatOf[cur]] = DOMAIN state[ChatOf[cur]] \cup {stamp}
           /\ state'[ChatOf[cur]] = [t \in DOMAIN state[ChatOf[cur]] \cup {stamp} |->
                                       IF t = stamp THEN delta ELSE state[ChatOf[cur]][t]]
           /\ \A ch \in Chats : ch # ChatOf[cur] => state'[ch] = state[ch]
<1>1. ChatOf[cur] \in Chats /\ DOMAIN state = Chats
  BY HandType DEF SavePrimary, LoopInv, TypeOK
<1> QED BY <1>1 DEF SavePrimary

LEMMA SavePrimaryLoop == ASSUME LoopInv, SavePrimary PROVE LoopInv'
<1>1. UNCHANGED <<channelVars, stateIdx, clock, cur, loaded, delta, stamp,
                  recent, ghostVars, countVars>> /\ wpc = "primary" /\ wpc' = "index"
  BY DEF SavePrimary
<1>2. \A ch \in Chats : /\ DOMAIN state'[ch] \subseteq Times
                         /\ DOMAIN state[ch] \subseteq DOMAIN state'[ch]
                         /\ \A t \in DOMAIN state'[ch] : state'[ch][t] \in MemoryRecord
  <2>1. stamp \in Times /\ delta \in MemoryRecord BY DEF LoopInv, TypeOK
  <2>2. TAKE ch \in Chats
  <2>3. DOMAIN state[ch] \subseteq Times /\ \A t \in DOMAIN state[ch] : state[ch][t] \in MemoryRecord
    BY DEF LoopInv, TypeOK
  <2>4. CASE ch = ChatOf[cur] BY <2>1, <2>3, <2>4, PutRecord
  <2>5. CASE ch # ChatOf[cur] BY <2>3, <2>5, PutRecord
  <2> QED BY <2>4, <2>5
<1>3. TypeOK'
  BY <1>1, <1>2, PutRecord
  DEF LoopInv, TypeOK, WorkerPC, channelVars, ghostVars, countVars
<1>4. KeysHaveRecords' BY <1>1, <1>2 DEF LoopInv, KeysHaveRecords
<1>5. RecordIsWritten' BY <1>1, PutRecord DEF RecordIsWritten
<1> QED BY <1>1, <1>3, <1>4, <1>5 DEF LoopInv, HandIsFull, HandIsNewer, DeltaIsMerge

LEMMA PutKey ==
    ASSUME LoopInv, SaveIndex
    PROVE  /\ stateIdx' \in [Chats -> SUBSET Times]
           /\ stateIdx'[ChatOf[cur]] = stateIdx[ChatOf[cur]] \cup {stamp}
           /\ \A ch \in Chats : ch # ChatOf[cur] => stateIdx'[ch] = stateIdx[ch]
<1>1. ChatOf[cur] \in Chats /\ stateIdx \in [Chats -> SUBSET Times] /\ stamp \in Times
  BY HandType DEF SaveIndex, LoopInv, TypeOK
<1> QED BY <1>1 DEF SaveIndex

LEMMA SaveIndexLoop == ASSUME LoopInv, SaveIndex PROVE LoopInv'
<1>1. UNCHANGED <<channelVars, state, clock, cur, loaded, delta, stamp, recent,
                  considered, countVars>> /\ wpc = "index" /\ wpc' = "push"
  BY DEF SaveIndex
<1>2. absorbed' \in SUBSET Ids BY HandType DEF SaveIndex, LoopInv, TypeOK
<1>3. TypeOK'
  BY <1>1, <1>2, PutKey DEF LoopInv, TypeOK, WorkerPC, channelVars, countVars
<1>4. KeysHaveRecords'
  BY <1>1, PutKey DEF LoopInv, KeysHaveRecords, RecordIsWritten
<1> QED BY <1>1, <1>3, <1>4
    DEF LoopInv, HandIsFull, HandIsNewer, DeltaIsMerge, RecordIsWritten

LEMMA PushRecentLoop == ASSUME LoopInv, PushRecent PROVE LoopInv'
<1>1. UNCHANGED <<channelVars, storeVars, clock, loaded, delta, stamp, absorbed, countVars>>
      /\ wpc' = "recv" /\ cur' = NoMsg
  BY DEF PushRecent
<1>2. cur \in Ids /\ ChatOf[cur] \in Chats BY HandType DEF PushRecent
<1>3. recent' \in [Chats -> Seq(Ids)] BY <1>2 DEF PushRecent, LoopInv, TypeOK
<1>4. considered' \in SUBSET Ids BY <1>2 DEF PushRecent, LoopInv, TypeOK
<1>5. TypeOK'
  BY <1>1, <1>3, <1>4
  DEF LoopInv, TypeOK, WorkerPC, channelVars, storeVars, countVars
<1> QED BY <1>1, <1>5
    DEF LoopInv, HandIsFull, HandIsNewer, DeltaIsMerge, KeysHaveRecords, RecordIsWritten, storeVars

LEMMA SaveFailsLoop == ASSUME LoopInv, SaveFails PROVE LoopInv'
<1>1. UNCHANGED <<channelVars, storeVars, clock, cur, loaded, delta, stamp, recent,
                  ghostVars, sends, crashes, readFaults, backsteps>>
      /\ wpc \in {"primary", "index"} /\ wpc' = "push"
  BY DEF SaveFails
<1>2. saveFaults' \in 0..MaxSaveFaults
  BY BoundsType DEF SaveFails, LoopInv, TypeOK
<1>3. TypeOK'
  BY <1>1, <1>2 DEF LoopInv, TypeOK, WorkerPC, channelVars, storeVars, ghostVars
<1> QED BY <1>1, <1>3
    DEF LoopInv, HandIsFull, HandIsNewer, DeltaIsMerge, KeysHaveRecords, RecordIsWritten, storeVars

LEMMA SubscribeLoop == ASSUME LoopInv, Subscribe PROVE LoopInv'
BY DEF Subscribe, LoopInv, TypeOK, WorkerPC, HandIsFull, HandIsNewer, DeltaIsMerge,
       KeysHaveRecords, RecordIsWritten, channelVars, storeVars, ghostVars, countVars

LEMMA ReceiveLaggedLoop == ASSUME LoopInv, ReceiveLagged PROVE LoopInv'
<1>1. unread' \in Seq(Ids) /\ Len(unread') <= Capacity
  BY WorkerAssumption DEF ReceiveLagged
<1> QED BY <1>1
    DEF ReceiveLagged, LoopInv, TypeOK, WorkerPC, HandIsFull, HandIsNewer, DeltaIsMerge,
       KeysHaveRecords, RecordIsWritten, storeVars, ghostVars, countVars

LEMMA ClockLoop == ASSUME LoopInv, Tick \/ ClockBack PROVE LoopInv'
<1>1. clock' \in Times
  BY WorkerAssumption DEF Tick, ClockBack, LoopInv, TypeOK, Times
<1>2. backsteps' \in 0..MaxBacksteps
  BY BoundsType DEF Tick, ClockBack, LoopInv, TypeOK, countVars
<1>3. UNCHANGED <<channelVars, storeVars, workVars, recent, ghostVars,
                  sends, crashes, saveFaults, readFaults>>
  BY DEF Tick, ClockBack, countVars
<1>4. TypeOK'
  BY <1>1, <1>2, <1>3 DEF LoopInv, TypeOK, channelVars, storeVars, workVars, ghostVars
<1> QED BY <1>3, <1>4
    DEF LoopInv, HandIsFull, HandIsNewer, DeltaIsMerge, KeysHaveRecords, RecordIsWritten,
        storeVars, workVars

LEMMA CrashLoop == ASSUME LoopInv, Crash PROVE LoopInv'
<1>0. 1 \in Times /\ <<>> \in Seq(Ids) /\ Len(<<>>) <= Capacity
  BY WorkerAssumption DEF Times
<1>1. /\ unread' \in Seq(Ids) /\ Len(unread') <= Capacity /\ lagged' \in BOOLEAN
      /\ wpc' = "unborn" /\ cur' = NoMsg
      /\ loaded' \in MemoryRecord /\ delta' \in MemoryRecord /\ stamp' \in Times
  BY <1>0, BlankType DEF Crash
<1>2. crashes' \in 0..MaxCrashes BY BoundsType DEF Crash, LoopInv, TypeOK
<1>3. recent' \in [Chats -> Seq(Ids)] BY DEF Crash
<1>4. UNCHANGED <<storeVars, clock, considered, absorbed, sends, saveFaults,
                  readFaults, backsteps>>
  BY DEF Crash
<1>5. TypeOK'
  BY <1>1, <1>2, <1>3, <1>4 DEF LoopInv, TypeOK, WorkerPC, storeVars
<1> QED BY <1>1, <1>4, <1>5
    DEF LoopInv, HandIsFull, HandIsNewer, DeltaIsMerge, KeysHaveRecords, RecordIsWritten, storeVars

LEMMA InitLoop == ASSUME Init PROVE LoopInv
<1>1. 1 \in Times BY WorkerAssumption DEF Times
<1>2. unread \in Seq(Ids) /\ Len(unread) <= Capacity BY WorkerAssumption DEF Init
<1>3. \A ch \in Chats : DOMAIN state[ch] = {} BY DEF Init
<1>4. stateIdx \in [Chats -> SUBSET Times] /\ recent \in [Chats -> Seq(Ids)]
  BY DEF Init
<1>5. /\ sends \in 0..MaxSends /\ crashes \in 0..MaxCrashes /\ backsteps \in 0..MaxBacksteps
      /\ saveFaults \in 0..MaxSaveFaults /\ readFaults \in 0..MaxReadFaults
  BY BoundsType DEF Init
<1>6. loaded \in MemoryRecord /\ delta \in MemoryRecord BY BlankType DEF Init
<1>7. TypeOK BY <1>1, <1>2, <1>3, <1>4, <1>5, <1>6 DEF Init, TypeOK, WorkerPC
<1> QED BY <1>7 DEF Init, LoopInv, HandIsFull, HandIsNewer, DeltaIsMerge, KeysHaveRecords,
              RecordIsWritten

LEMMA NextLoop == ASSUME LoopInv, [Next]_vars PROVE LoopInv'
<1>1. CASE \E m \in Ids : Send(m) BY <1>1, SendLoop
<1>2. CASE Subscribe BY <1>2, SubscribeLoop
<1>3. CASE Receive BY <1>3, ReceiveLoop
<1>4. CASE ReceiveBlind BY <1>4, ReceiveBlindLoop
<1>5. CASE ReceiveLagged BY <1>5, ReceiveLaggedLoop
<1>6. CASE Infer BY <1>6, InferLoop
<1>7. CASE SavePrimary BY <1>7, SavePrimaryLoop
<1>8. CASE SaveIndex BY <1>8, SaveIndexLoop
<1>9. CASE SaveFails BY <1>9, SaveFailsLoop
<1>10. CASE PushRecent BY <1>10, PushRecentLoop
<1>11. CASE Tick \/ ClockBack BY <1>11, ClockLoop
<1>12. CASE Crash BY <1>12, CrashLoop
<1>13. CASE UNCHANGED vars
  BY <1>13 DEF LoopInv, TypeOK, HandIsFull, HandIsNewer, DeltaIsMerge, KeysHaveRecords,
               RecordIsWritten, vars, channelVars, storeVars, workVars, ghostVars, countVars
<1> QED BY <1>1, <1>2, <1>3, <1>4, <1>5, <1>6, <1>7, <1>8, <1>9, <1>10, <1>11, <1>12, <1>13
    DEF Next, WorkerStep

LEMMA LoopInvAlways == Spec => []LoopInv
<1>1. Init => LoopInv BY InitLoop
<1>2. LoopInv /\ [Next]_vars => LoopInv' BY NextLoop
<1> QED BY <1>1, <1>2, PTL DEF Spec

\* Type correctness of HistoryWorker: every state, every record under every key.
THEOREM WorkerTypeCorrect == Spec => []TypeOK
<1>1. LoopInv => TypeOK BY DEF LoopInv
<1> QED BY <1>1, LoopInvAlways, PTL

-----------------------------------------------------------------------------
(* The store: only the save of the event in hand changes what is read.     *)

\* Trust does not come back.
LEMMA TrustIsOld ==
    ASSUME LoopInv, [Next]_vars
    PROVE  (readFaults' = 0 => readFaults = 0) /\ (backsteps' = 0 => backsteps = 0)
           /\ (saveFaults' = 0 => saveFaults = 0)
<1> readFaults \in Nat /\ backsteps \in Nat /\ saveFaults \in Nat
  BY BoundsType DEF LoopInv, TypeOK
<1>1. CASE \E m \in Ids : Send(m) BY <1>1 DEF Send
<1>2. CASE Subscribe BY <1>2 DEF Subscribe, countVars
<1>3. CASE Receive BY <1>3 DEF Receive, Take
<1>4. CASE ReceiveBlind BY <1>4 DEF ReceiveBlind, Take
<1>5. CASE ReceiveLagged BY <1>5 DEF ReceiveLagged, countVars
<1>6. CASE Infer BY <1>6 DEF Infer, Answered, countVars
<1>7. CASE SavePrimary BY <1>7 DEF SavePrimary, countVars
<1>8. CASE SaveIndex BY <1>8 DEF SaveIndex, countVars
<1>9. CASE SaveFails BY <1>9 DEF SaveFails
<1>10. CASE PushRecent BY <1>10 DEF PushRecent, countVars
<1>11. CASE Tick \/ ClockBack BY <1>11 DEF Tick, ClockBack, countVars
<1>12. CASE Crash BY <1>12 DEF Crash
<1>13. CASE UNCHANGED vars BY <1>13 DEF vars, countVars
<1> QED BY <1>1, <1>2, <1>3, <1>4, <1>5, <1>6, <1>7, <1>8, <1>9, <1>10, <1>11, <1>12, <1>13
    DEF Next, WorkerStep

LEMMA ReadUntouched ==
    ASSUME UNCHANGED storeVars
    PROVE  \A ch \in Chats : LoadLast(ch)' = LoadLast(ch)
<1> state' = state /\ stateIdx' = stateIdx BY DEF storeVars
<1> QED BY LoadLastIsNewest

\* The first put is read at once when its key is there from an earlier save.
LEMMA SavePrimaryRead ==
    ASSUME StoreInv, SavePrimary, backsteps = 0
    PROVE  /\ \A ch \in Chats : ch # ChatOf[cur] => LoadLast(ch)' = LoadLast(ch)
           /\ LoadLast(ChatOf[cur])' \in {LoadLast(ChatOf[cur]), delta}
<1> DEFINE home == ChatOf[cur]
           old == state[home]
           put == [t \in DOMAIN old \cup {stamp} |-> IF t = stamp THEN delta ELSE old[t]]
<1>1. LoopInv BY DEF StoreInv
<1>2. home \in Chats /\ cur' = cur /\ stateIdx' = stateIdx /\ state'[home] = put
  BY <1>1, HandType, PutRecord DEF SavePrimary
<1>3. \A ch \in Chats : ch # home => LoadLast(ch)' = LoadLast(ch)
  BY <1>1, <1>2, PutRecord, LoadLastIsNewest
<1>4. /\ stateIdx[home] \in SUBSET Times /\ stateIdx[home] \subseteq DOMAIN old
      /\ \A t \in stateIdx[home] : t <= stamp
  BY <1>1, <1>2 DEF LoopInv, TypeOK, KeysHaveRecords, StoreInv, KeysInOrder, SavePrimary
<1>5. LoadLast(home)' = NewestOf(put, stateIdx[home])
      /\ LoadLast(home) = NewestOf(old, stateIdx[home])
  BY <1>2, LoadLastIsNewest
<1>6. CASE stamp \in stateIdx[home]
  <2>1. NewestOf(put, stateIdx[home]) = put[stamp] BY <1>4, <1>6, NewestIsWritten
  <2> QED BY <1>2, <1>3, <1>5, <2>1
<1>7. CASE stamp \notin stateIdx[home]
  <2>1. NewestOf(put, stateIdx[home]) = NewestOf(old, stateIdx[home])
    BY <1>4, <1>7, NewestIgnoresRecord
  <2> QED BY <1>2, <1>3, <1>5, <2>1
<1> QED BY <1>6, <1>7

\* After the second put what is read is what was saved.
LEMMA SaveIndexRead ==
    ASSUME StoreInv, SaveIndex, backsteps = 0
    PROVE  /\ \A ch \in Chats : ch # ChatOf[cur] => LoadLast(ch)' = LoadLast(ch)
           /\ LoadLast(ChatOf[cur])' = delta
<1> DEFINE home == ChatOf[cur]
           keys == stateIdx[home] \cup {stamp}
<1>1. LoopInv BY DEF StoreInv
<1>2. home \in Chats /\ cur' = cur /\ state' = state /\ stateIdx'[home] = keys
  BY <1>1, HandType, PutKey DEF SaveIndex
<1>3. \A ch \in Chats : ch # home => LoadLast(ch)' = LoadLast(ch)
  BY <1>1, <1>2, PutKey, LoadLastIsNewest
<1>4. /\ keys \in SUBSET Times /\ stamp \in Int /\ stamp \in DOMAIN state[home]
      /\ state[home][stamp] = delta /\ \A t \in stateIdx[home] : t <= stamp
  BY <1>1, <1>2, WorkerAssumption
  DEF LoopInv, TypeOK, RecordIsWritten, StoreInv, KeysInOrder, SaveIndex, Times
<1>5. NewestOf(state[home], keys) = delta BY <1>4, NewestIsWritten
<1> QED BY <1>2, <1>3, <1>5, LoadLastIsNewest

\* Steps that write nothing and leave the event in hand alone.
LEMMA ElsewhereStore ==
    ASSUME StoreInv, LoopInv', UNCHANGED <<storeVars, clock, wpc, cur, loaded, delta, stamp>>,
           readFaults' = 0 => readFaults = 0, backsteps' = 0 => backsteps = 0
    PROVE  StoreInv'
<1>1. KeysInOrder' BY DEF StoreInv, KeysInOrder, storeVars
<1>2. ReadIsCurrent' BY DEF StoreInv, ReadIsCurrent, Trusted, storeVars, LoadLast
<1> QED BY <1>1, <1>2 DEF StoreInv

\* Steps after which the loop is before its answer, or done with its save.
LEMMA EmptyHandStore ==
    ASSUME StoreInv, LoopInv', UNCHANGED <<storeVars, clock>>,
           wpc' \notin {"infer", "primary", "index"},
           readFaults' = 0 => readFaults = 0, backsteps' = 0 => backsteps = 0
    PROVE  StoreInv'
<1>1. KeysInOrder' BY DEF StoreInv, KeysInOrder, storeVars
<1>2. ReadIsCurrent' BY DEF ReadIsCurrent
<1> QED BY <1>1, <1>2 DEF StoreInv

LEMMA TakeStore ==
    ASSUME StoreInv, LoopInv', wpc = "recv", Take(Head(unread), LoadLast(ChatOf[Head(unread)])),
           UNCHANGED readFaults
    PROVE  StoreInv'
<1>1. UNCHANGED <<storeVars, clock, readFaults, backsteps>> BY DEF Take
<1>2. CASE UNCHANGED <<wpc, cur, loaded>>
  BY <1>1, <1>2, EmptyHandStore
<1>3. CASE /\ wpc' = "infer" /\ cur' = Head(unread)
           /\ loaded' = LoadLast(ChatOf[Head(unread)])
  <2>1. KeysInOrder' BY <1>1, <1>3 DEF StoreInv, KeysInOrder, storeVars
  <2>2. LoadLast(ChatOf[cur])' = LoadLast(ChatOf[Head(unread)])
    BY <1>1, <1>3 DEF LoadLast, storeVars
  <2>3. ReadIsCurrent' BY <1>3, <2>2 DEF ReadIsCurrent
  <2> QED BY <2>1, <2>3 DEF StoreInv
<1> QED BY <1>2, <1>3 DEF Take

LEMMA ReceiveBlindStore == ASSUME StoreInv, LoopInv', ReceiveBlind PROVE StoreInv'
<1>1. UNCHANGED <<storeVars, clock, backsteps>> /\ wpc' \notin {"primary", "index"}
  BY DEF ReceiveBlind, Take
<1>2. readFaults' # 0
  BY BoundsType DEF ReceiveBlind, StoreInv, LoopInv, TypeOK
<1>3. KeysInOrder' BY <1>1 DEF StoreInv, KeysInOrder, storeVars
<1>4. ReadIsCurrent' BY <1>2 DEF ReadIsCurrent, Trusted
<1> QED BY <1>3, <1>4 DEF StoreInv

\* The state gets the time of the answer: no key is newer.
LEMMA InferStore == ASSUME StoreInv, LoopInv', Infer PROVE StoreInv'
<1>1. /\ wpc = "infer" /\ wpc' = "primary" /\ stamp' = clock
      /\ UNCHANGED <<storeVars, clock, cur, loaded, readFaults, backsteps>>
  BY InferIsMerge DEF StoreInv, countVars
<1>2. clock \in Int BY WorkerAssumption DEF StoreInv, LoopInv, TypeOK, Times
<1>3. KeysInOrder' BY <1>1, <1>2 DEF StoreInv, KeysInOrder, storeVars
<1>4. ReadIsCurrent' BY <1>1 DEF StoreInv, ReadIsCurrent, Trusted, storeVars, LoadLast
<1> QED BY <1>3, <1>4 DEF StoreInv

LEMMA SavePrimaryStore == ASSUME StoreInv, LoopInv', SavePrimary PROVE StoreInv'
<1>1. /\ wpc = "primary" /\ wpc' = "index"
      /\ UNCHANGED <<stateIdx, clock, cur, loaded, delta, stamp, readFaults, backsteps>>
  BY DEF SavePrimary, countVars
<1>2. KeysInOrder' BY <1>1 DEF StoreInv, KeysInOrder
<1>3. ASSUME Trusted PROVE LoadLast(ChatOf[cur])' \in {loaded, delta}
  BY <1>1, <1>3, SavePrimaryRead DEF Trusted, StoreInv, ReadIsCurrent
<1>4. ReadIsCurrent' BY <1>1, <1>3 DEF ReadIsCurrent, Trusted
<1> QED BY <1>2, <1>4 DEF StoreInv

LEMMA SaveIndexStore == ASSUME StoreInv, LoopInv', SaveIndex PROVE StoreInv'
<1>1. wpc = "index" /\ wpc' = "push" /\ UNCHANGED <<clock, backsteps>>
  BY DEF SaveIndex, countVars
<1>2. ASSUME backsteps = 0, NEW ch \in Chats PROVE \A t \in stateIdx'[ch] : t <= clock
  BY <1>1, <1>2, PutKey DEF StoreInv, KeysInOrder
<1>3. KeysInOrder' BY <1>1, <1>2 DEF KeysInOrder
<1>4. ReadIsCurrent' BY <1>1 DEF ReadIsCurrent
<1> QED BY <1>3, <1>4 DEF StoreInv

LEMMA ClockStore == ASSUME StoreInv, LoopInv', Tick \/ ClockBack PROVE StoreInv'
<1>1. UNCHANGED <<storeVars, workVars, readFaults>>
  BY DEF Tick, ClockBack, countVars
<1>2. CASE Tick
  <2>1. clock' = clock + 1 /\ clock \in Int /\ stamp \in Int /\ backsteps' = backsteps
    BY <1>2, WorkerAssumption DEF Tick, StoreInv, LoopInv, TypeOK, Times, countVars
  <2>2. \A ch \in Chats : \A t \in stateIdx[ch] : t \in Int
    BY WorkerAssumption DEF StoreInv, LoopInv, TypeOK, Times
  <2>3. KeysInOrder' BY <1>1, <2>1, <2>2 DEF StoreInv, KeysInOrder, storeVars, workVars
  <2>4. ReadIsCurrent'
    BY <1>1, <2>1 DEF StoreInv, ReadIsCurrent, Trusted, storeVars, workVars, LoadLast
  <2> QED BY <2>3, <2>4 DEF StoreInv
<1>3. CASE ClockBack
  <2>1. backsteps' # 0 BY <1>3, BoundsType DEF ClockBack, StoreInv, LoopInv, TypeOK
  <2> QED BY <2>1 DEF StoreInv, KeysInOrder, ReadIsCurrent, Trusted
<1> QED BY <1>2, <1>3

LEMMA NextStore == ASSUME StoreInv, [Next]_vars PROVE StoreInv'
<1>1. LoopInv' BY NextLoop DEF StoreInv
<1>2. (readFaults' = 0 => readFaults = 0) /\ (backsteps' = 0 => backsteps = 0)
  BY TrustIsOld DEF StoreInv
<1>3. CASE \E m \in Ids : Send(m) BY <1>1, <1>2, <1>3, ElsewhereStore DEF Send, workVars
<1>4. CASE Subscribe BY <1>1, <1>2, <1>4, EmptyHandStore DEF Subscribe
<1>5. CASE Receive BY <1>1, <1>5, TakeStore DEF Receive
<1>6. CASE ReceiveBlind BY <1>1, <1>6, ReceiveBlindStore
<1>7. CASE ReceiveLagged BY <1>1, <1>2, <1>7, EmptyHandStore DEF ReceiveLagged
<1>8. CASE Infer BY <1>1, <1>8, InferStore
<1>9. CASE SavePrimary BY <1>1, <1>9, SavePrimaryStore
<1>10. CASE SaveIndex BY <1>1, <1>10, SaveIndexStore
<1>11. CASE SaveFails BY <1>1, <1>2, <1>11, EmptyHandStore DEF SaveFails
<1>12. CASE PushRecent BY <1>1, <1>2, <1>12, EmptyHandStore DEF PushRecent
<1>13. CASE Tick \/ ClockBack BY <1>1, <1>13, ClockStore
<1>14. CASE Crash BY <1>1, <1>2, <1>14, EmptyHandStore DEF Crash
<1>15. CASE UNCHANGED vars BY <1>1, <1>2, <1>15, ElsewhereStore DEF vars, workVars
<1> QED BY <1>3, <1>4, <1>5, <1>6, <1>7, <1>8, <1>9, <1>10, <1>11, <1>12, <1>13, <1>14, <1>15
    DEF Next, WorkerStep

LEMMA StoreInvAlways == Spec => []StoreInv
<1>1. Init => StoreInv
  BY InitLoop DEF Init, StoreInv, KeysInOrder, ReadIsCurrent
<1>2. StoreInv /\ [Next]_vars => StoreInv' BY NextStore
<1> QED BY <1>1, <1>2, PTL DEF Spec

-----------------------------------------------------------------------------
(* The store implements the cumulative memory.                             *)

\* What is read changes in one way only: for the chat of the event in hand,
\* from the state the loop has read to the state it saves.
LEMMA MemoryStep ==
    ASSUME StoreInv, [Next]_vars, Trusted'
    PROVE  \/ \A ch \in Chats : LoadLast(ch)' = LoadLast(ch)
           \/ /\ wpc \in {"primary", "index"} /\ loaded = LoadLast(ChatOf[cur])
              /\ \A ch \in Chats :
                    LoadLast(ch)' = IF ch = ChatOf[cur] THEN delta ELSE LoadLast(ch)
<1> DEFINE Goal == \/ \A ch \in Chats : LoadLast(ch)' = LoadLast(ch)
                   \/ /\ wpc \in {"primary", "index"} /\ loaded = LoadLast(ChatOf[cur])
                      /\ \A ch \in Chats :
                            LoadLast(ch)' = IF ch = ChatOf[cur] THEN delta ELSE LoadLast(ch)
<1>1. Trusted BY TrustIsOld DEF StoreInv, Trusted
<1>2. CASE SavePrimary
  <2>1. loaded = LoadLast(ChatOf[cur]) /\ wpc = "primary" /\ cur' = cur
    BY <1>1, <1>2 DEF SavePrimary, StoreInv, ReadIsCurrent
  <2> QED BY <1>1, <1>2, <2>1, SavePrimaryRead DEF Trusted
<1>3. CASE SaveIndex
  <2>1. LoadLast(ChatOf[cur]) \in {loaded, delta} /\ wpc = "index" /\ cur' = cur
    BY <1>1, <1>3 DEF SaveIndex, StoreInv, ReadIsCurrent
  <2> QED BY <1>1, <1>3, <2>1, SaveIndexRead DEF Trusted
<1>4. UNCHANGED storeVars => Goal BY ReadUntouched
<1>5. CASE \E m \in Ids : Send(m) BY <1>4, <1>5 DEF Send
<1>6. CASE Subscribe \/ ReceiveLagged \/ SaveFails \/ PushRecent \/ Tick \/ ClockBack \/ Crash
  BY <1>4, <1>6 DEF Subscribe, ReceiveLagged, SaveFails, PushRecent, Tick, ClockBack, Crash
<1>7. CASE Receive \/ ReceiveBlind BY <1>4, <1>7 DEF Receive, ReceiveBlind, Take
<1>8. CASE Infer BY <1>4, <1>8 DEF Infer, Answered
<1>9. CASE UNCHANGED vars BY <1>4, <1>9 DEF vars
<1> QED BY <1>2, <1>3, <1>5, <1>6, <1>7, <1>8, <1>9 DEF Next, WorkerStep

\* A step of the worker is a step of the memory, or none.
LEMMA StepImplements ==
    ASSUME StoreInv, [Next]_vars
    PROVE  [Memory!MemoryNext]_<<[ch \in Chats |-> LoadLast(ch)], Trusted>>
<1>1. CASE ~Trusted' BY <1>1 DEF Memory!MemoryNext
<1>2. CASE Trusted' /\ \A ch \in Chats : LoadLast(ch)' = LoadLast(ch)
  <2>1. Trusted BY <1>2, TrustIsOld DEF StoreInv, Trusted
  <2> QED BY <1>2, <2>1
<1>3. CASE /\ Trusted' /\ wpc \in {"primary", "index"} /\ loaded = LoadLast(ChatOf[cur])
           /\ \A ch \in Chats :
                 LoadLast(ch)' = IF ch = ChatOf[cur] THEN delta ELSE LoadLast(ch)
  <2> DEFINE memory == [ch \in Chats |-> LoadLast(ch)]
  <2>1. PICK learned \in {{}, {cur}}, summary \in {"model", "fallback", loaded.summary} :
             delta = Merge(loaded, cur, learned, summary)
    BY <1>3 DEF StoreInv, LoopInv, DeltaIsMerge
  <2>2. cur \in Ids /\ ChatOf[cur] \in Chats /\ TsOf[cur] > loaded.lastTs
    BY <1>3, HandType DEF StoreInv, LoopInv, HandIsNewer
  <2>3. memory[ChatOf[cur]] = loaded BY <1>3, <2>2
  <2>4. memory' = [memory EXCEPT ![ChatOf[cur]] = delta] BY <1>3, <2>2
  <2>5. Memory!Absorb(cur, learned)
    BY <2>1, <2>2, <2>3, <2>4 DEF Memory!Absorb, Merge
  <2> QED BY <1>3, <2>1, <2>2, <2>5 DEF Memory!MemoryNext
<1> QED BY <1>1, <1>2, <1>3, MemoryStep

\* The state store under its two puts, redeliveries and crashes is the memory
\* of ChatMemory: a message is learned from once, in the order of timestamps.
THEOREM StoreIsMemory == Spec => ImplementsChatMemory
<1>1. Init => Memory!MemoryInit
  <2> SUFFICES ASSUME Init PROVE Memory!MemoryInit OBVIOUS
  <2>1. Trusted BY DEF Init, Trusted
  <2>2. \A ch \in Chats : LoadLast(ch) = Memory!Blank
    BY DEF Init, LoadLast, Blank, Memory!Blank
  <2> QED BY <2>1, <2>2 DEF Memory!MemoryInit
<1>2. StoreInv /\ [Next]_vars
         => [Memory!MemoryNext]_<<[ch \in Chats |-> LoadLast(ch)], Trusted>>
  BY StepImplements
<1> QED BY <1>1, <1>2, StoreInvAlways, PTL DEF Spec, ImplementsChatMemory, Memory!MemorySpec

-----------------------------------------------------------------------------
(* What the worker may rely on: nothing is forgotten, nothing taken twice. *)

\* The memory of a chat only grows, in facts and in time.
LEMMA MemoryKeeps ==
    ASSUME StoreInv, [Next]_vars, Trusted', NEW ch \in Chats
    PROVE  /\ LoadLast(ch).facts \subseteq LoadLast(ch)'.facts
           /\ LoadLast(ch).lastTs <= LoadLast(ch)'.lastTs
<1>1. LoadLast(ch) \in MemoryRecord BY LoadLastType DEF StoreInv
<1>2. CASE LoadLast(ch)' = LoadLast(ch) BY <1>1, <1>2 DEF MemoryRecord
<1>3. CASE /\ wpc \in {"primary", "index"} /\ loaded = LoadLast(ch) /\ LoadLast(ch)' = delta
  <2>1. PICK learned \in {{}, {cur}}, summary \in {"model", "fallback", loaded.summary} :
             delta = Merge(loaded, cur, learned, summary)
    BY <1>3 DEF StoreInv, LoopInv, DeltaIsMerge
  <2>2. TsOf[cur] > loaded.lastTs /\ TsOf[cur] \in Nat /\ loaded.lastTs \in Nat
    BY <1>1, <1>3, HandType DEF StoreInv, LoopInv, HandIsNewer, MemoryRecord
  <2> QED BY <1>3, <2>1, <2>2 DEF Merge
<1> QED BY <1>2, <1>3, MemoryStep

LEMMA NothingForgottenStep ==
    ASSUME StoreInv, NothingForgotten, [Next]_vars
    PROVE  NothingForgotten'
<1> SUFFICES ASSUME Trusted', NEW m \in absorbed' PROVE m \in LoadLast(ChatOf[m])'.facts
  BY DEF NothingForgotten
<1>1. Trusted BY TrustIsOld DEF StoreInv, Trusted
<1>2. CASE m \in absorbed
  <2>1. ChatOf[m] \in Chats BY <1>2, WorkerAssumption DEF StoreInv, LoopInv, TypeOK
  <2>2. m \in LoadLast(ChatOf[m]).facts BY <1>1, <1>2 DEF NothingForgotten
  <2> QED BY <2>1, <2>2, MemoryKeeps
<1>3. CASE m \notin absorbed
  <2>1. SaveIndex
    BY <1>3 DEF Next, WorkerStep, Send, Subscribe, Receive, ReceiveBlind, Take, ReceiveLagged,
                Infer, Answered, SavePrimary, SaveFails, PushRecent, Tick, ClockBack, Crash,
                ghostVars, vars
  <2>2. m = cur /\ m \in delta.facts BY <1>3, <2>1 DEF SaveIndex
  <2>3. LoadLast(ChatOf[cur])' = delta /\ cur' = cur
    BY <1>1, <2>1, SaveIndexRead DEF Trusted, SaveIndex
  <2> QED BY <2>2, <2>3
<1> QED BY <1>2, <1>3

\* What was learned from a message and saved is never lost, whatever put fails
\* and wherever the process crashes.
THEOREM LearnedIsKept == Spec => []NothingForgotten
<1>1. Init => NothingForgotten BY DEF Init, NothingForgotten
<1>2. StoreInv /\ NothingForgotten /\ [Next]_vars => NothingForgotten'
  BY NothingForgottenStep
<1> QED BY <1>1, <1>2, StoreInvAlways, PTL DEF Spec

\* The cover of SavedCovers and ConsideredIsCovered, for one event.
LEMMA CoverGrows ==
    ASSUME StoreInv, [Next]_vars, Trusted', NEW ch \in Chats, NEW m \in Ids,
           TsOf[m] <= LoadLast(ch).lastTs
    PROVE  TsOf[m] <= LoadLast(ch)'.lastTs
<1>1. LoadLast(ch).lastTs \in Nat BY LoadLastType DEF StoreInv, MemoryRecord
<1>2. StoreInv' BY NextStore
<1>3. LoadLast(ch)' \in MemoryRecord
  <2>1. /\ stateIdx'[ch] \in SUBSET Times
        /\ \A t \in DOMAIN state'[ch] : state'[ch][t] \in MemoryRecord
    BY <1>2 DEF StoreInv, LoopInv, TypeOK
  <2> QED BY <2>1, NewestIsRecord, LoadLastIsNewest
<1>4. LoadLast(ch)'.lastTs \in Nat BY <1>3 DEF MemoryRecord
<1>5. TsOf[m] \in Nat BY WorkerAssumption
<1> QED BY <1>1, <1>4, <1>5, MemoryKeeps

\* The steps that leave the event in hand and recent_state alone, if the event
\* is covered when they are done with its save.
LEMMA SameHandCover ==
    ASSUME CoverInv, [Next]_vars, UNCHANGED <<cur, recent, considered>>,
           Trusted' /\ saveFaults' = 0 /\ wpc' = "push" =>
               TsOf[cur] <= LoadLast(ChatOf[cur])'.lastTs
    PROVE  SavedCovers' /\ ConsideredIsCovered' /\ RecentInOrder'
<1> SUFFICES ASSUME Trusted', saveFaults' = 0
             PROVE  SavedCovers' /\ ConsideredIsCovered' /\ RecentInOrder'
  BY DEF SavedCovers, ConsideredIsCovered, RecentInOrder
<1>1. StoreInv /\ LoopInv BY DEF CoverInv, StoreInv
<1>2. Trusted /\ saveFaults = 0 BY <1>1, TrustIsOld DEF Trusted
<1>3. \A ch \in Chats : \A i \in DOMAIN recent[ch] :
          TsOf[recent[ch][i]] <= LoadLast(ch)'.lastTs
  <2> TAKE ch \in Chats
  <2> TAKE i \in DOMAIN recent[ch]
  <2>1. recent[ch][i] \in Ids BY <1>1 DEF LoopInv, TypeOK
  <2>2. TsOf[recent[ch][i]] <= LoadLast(ch).lastTs BY <1>2 DEF CoverInv, SavedCovers
  <2> QED BY <1>1, <2>1, <2>2, CoverGrows
<1>4. SavedCovers' BY <1>2, <1>3 DEF CoverInv, SavedCovers
<1>5. ConsideredIsCovered'
  <2> SUFFICES ASSUME NEW m \in considered PROVE TsOf[m] <= LoadLast(ChatOf[m])'.lastTs
    BY DEF ConsideredIsCovered
  <2>1. m \in Ids /\ ChatOf[m] \in Chats
    BY <1>1, WorkerAssumption DEF LoopInv, TypeOK
  <2>2. TsOf[m] <= LoadLast(ChatOf[m]).lastTs BY <1>2 DEF CoverInv, ConsideredIsCovered
  <2> QED BY <1>1, <2>1, <2>2, CoverGrows
<1>6. RecentInOrder' BY <1>2 DEF CoverInv, RecentInOrder
<1> QED BY <1>4, <1>5, <1>6

LEMMA ElsewhereCover ==
    ASSUME CoverInv, [Next]_vars, UNCHANGED <<cur, recent, considered>>,
           wpc' = "push" => wpc = "push"
    PROVE  SavedCovers' /\ ConsideredIsCovered' /\ RecentInOrder'
<1>1. StoreInv /\ LoopInv BY DEF CoverInv, StoreInv
<1>2. ASSUME Trusted', saveFaults' = 0, wpc = "push"
      PROVE  TsOf[cur] <= LoadLast(ChatOf[cur])'.lastTs
  <2>1. cur \in Ids /\ ChatOf[cur] \in Chats BY <1>1, <1>2, HandType
  <2>2. Trusted /\ saveFaults = 0 BY <1>1, <1>2, TrustIsOld DEF Trusted
  <2>3. TsOf[cur] <= LoadLast(ChatOf[cur]).lastTs
    BY <1>2, <2>2 DEF CoverInv, SavedCovers
  <2>4. PICK ch \in Chats : ch = ChatOf[cur] BY <2>1
  <2>5. TsOf[cur] <= LoadLast(ch)'.lastTs BY <1>1, <1>2, <2>1, <2>3, <2>4, CoverGrows
  <2> QED BY <2>4, <2>5
<1> QED BY <1>2, SameHandCover

LEMMA TakeCover ==
    ASSUME CoverInv, unread # <<>>, Receive
    PROVE  SavedCovers' /\ ConsideredIsCovered' /\ RecentInOrder'
<1> SUFFICES ASSUME Trusted', saveFaults' = 0
             PROVE  SavedCovers' /\ ConsideredIsCovered' /\ RecentInOrder'
  BY DEF SavedCovers, ConsideredIsCovered, RecentInOrder
<1> DEFINE m == Head(unread)
           last == LoadLast(ChatOf[m])
<1>1. StoreInv /\ LoopInv BY DEF CoverInv, StoreInv
<1>2. /\ UNCHANGED <<state, stateIdx, recent>> /\ wpc = "recv" /\ wpc' \in {"recv", "infer"}
      /\ Trusted /\ saveFaults = 0 /\ cur = NoMsg
  BY <1>1 DEF Receive, Take, storeVars, Trusted, LoopInv, HandIsFull
<1>3. \A ch \in Chats : LoadLast(ch)' = LoadLast(ch) BY <1>2, ReadUntouched DEF storeVars
<1>4. m \in Ids /\ ChatOf[m] \in Chats /\ TsOf[m] \in Nat
  <2>1. unread \in Seq(Ids) BY <1>1 DEF LoopInv, TypeOK
  <2>2. m \in Ids BY <2>1
  <2> QED BY <2>2, WorkerAssumption
<1>5. last.lastTs \in Nat BY <1>1, <1>4, LoadLastType DEF MemoryRecord
<1>6. \A ch \in Chats : \A i \in DOMAIN recent[ch] :
          TsOf[recent[ch][i]] <= LoadLast(ch)'.lastTs
  BY <1>2, <1>3 DEF CoverInv, SavedCovers
<1>7. RecentInOrder' BY <1>2 DEF CoverInv, RecentInOrder
<1>8. CASE TsOf[m] <= last.lastTs
  <2>1. considered' = considered \cup {m} /\ wpc' = "recv" /\ cur' = NoMsg
    BY <1>2, <1>8 DEF Receive, Take
  <2>2. SavedCovers' BY <1>2, <1>6, <2>1 DEF SavedCovers
  <2>3. ConsideredIsCovered'
    <3> SUFFICES ASSUME NEW k \in considered' PROVE TsOf[k] <= LoadLast(ChatOf[k])'.lastTs
      BY DEF ConsideredIsCovered
    <3>1. k \in Ids /\ ChatOf[k] \in Chats
      BY <1>1, <1>4, <2>1, WorkerAssumption DEF LoopInv, TypeOK
    <3>2. CASE k = m BY <1>3, <1>8, <3>1, <3>2
    <3>3. CASE k \in considered
      BY <1>2, <1>3, <3>1, <3>3 DEF CoverInv, ConsideredIsCovered
    <3> QED BY <2>1, <3>2, <3>3
  <2> QED BY <1>7, <2>2, <2>3
<1>9. CASE ~(TsOf[m] <= last.lastTs)
  <2>1. considered' = considered /\ wpc' = "infer" /\ cur' = m
    BY <1>9 DEF Receive, Take
  <2>2. \A i \in DOMAIN recent[ChatOf[m]] : TsOf[recent[ChatOf[m]][i]] < TsOf[m]
    <3> TAKE i \in DOMAIN recent[ChatOf[m]]
    <3> DEFINE k == recent[ChatOf[m]][i]
    <3>1. k \in Ids /\ TsOf[k] \in Nat
      <4>1. recent[ChatOf[m]] \in Seq(Ids) BY <1>1, <1>4 DEF LoopInv, TypeOK
      <4>2. k \in Ids BY <4>1
      <4> QED BY <4>2, WorkerAssumption
    <3>2. TsOf[k] <= last.lastTs BY <1>2, <1>4 DEF CoverInv, SavedCovers
    <3> QED BY <1>4, <1>5, <1>9, <3>1, <3>2
  <2>3. SavedCovers' BY <1>2, <1>6, <2>1, <2>2 DEF SavedCovers
  <2>4. ConsideredIsCovered'
    <3> SUFFICES ASSUME NEW k \in considered PROVE TsOf[k] <= LoadLast(ChatOf[k])'.lastTs
      BY <2>1 DEF ConsideredIsCovered
    <3>1. ChatOf[k] \in Chats BY <1>1, WorkerAssumption DEF LoopInv, TypeOK
    <3> QED BY <1>2, <1>3, <3>1 DEF CoverInv, ConsideredIsCovered
  <2> QED BY <1>7, <2>3, <2>4
<1> QED BY <1>8, <1>9

LEMMA PushRecentCover ==
    ASSUME CoverInv, PushRecent
    PROVE  SavedCovers' /\ ConsideredIsCovered' /\ RecentInOrder'
<1> SUFFICES ASSUME Trusted', saveFaults' = 0
             PROVE  SavedCovers' /\ ConsideredIsCovered' /\ RecentInOrder'
  BY DEF SavedCovers, ConsideredIsCovered, RecentInOrder
<1> DEFINE home == ChatOf[cur]
           seq == recent[home]
<1>1. StoreInv /\ LoopInv BY DEF CoverInv, StoreInv
<1>2. /\ UNCHANGED <<state, stateIdx>> /\ wpc = "push" /\ wpc' = "recv" /\ cur' = NoMsg
      /\ considered' = considered \cup {cur} /\ Trusted /\ saveFaults = 0
  BY DEF PushRecent, storeVars, Trusted, countVars
<1>3. \A ch \in Chats : LoadLast(ch)' = LoadLast(ch) BY <1>2, ReadUntouched DEF storeVars
<1>4. cur \in Ids /\ home \in Chats /\ TsOf[cur] \in Nat BY <1>1, <1>2, HandType
<1>5. TsOf[cur] <= LoadLast(home).lastTs BY <1>2 DEF CoverInv, SavedCovers
<1>6. /\ seq \in Seq(Ids) /\ DOMAIN recent' = Chats /\ recent'[home] = Append(seq, cur)
      /\ \A ch \in Chats : ch # home => recent'[ch] = recent[ch]
  BY <1>1, <1>4 DEF PushRecent, LoopInv, TypeOK
<1>7. /\ DOMAIN recent'[home] = DOMAIN seq \cup {Len(seq) + 1} /\ Len(seq) \in Nat
      /\ DOMAIN seq = 1..Len(seq) /\ recent'[home][Len(seq) + 1] = cur
      /\ \A i \in DOMAIN seq : recent'[home][i] = seq[i]
  BY <1>4, <1>6
<1>8. \A ch \in Chats : \A i \in DOMAIN recent'[ch] :
          TsOf[recent'[ch][i]] <= LoadLast(ch)'.lastTs
  <2> TAKE ch \in Chats
  <2>1. \A i \in DOMAIN recent[ch] : TsOf[recent[ch][i]] <= LoadLast(ch)'.lastTs
    BY <1>2, <1>3 DEF CoverInv, SavedCovers
  <2>2. CASE ch # home BY <1>6, <2>1, <2>2
  <2>3. CASE ch = home BY <1>3, <1>5, <1>7, <2>1, <2>3
  <2> QED BY <2>2, <2>3
<1>9. SavedCovers' BY <1>2, <1>8 DEF SavedCovers
<1>10. ConsideredIsCovered'
  <2> SUFFICES ASSUME NEW k \in considered' PROVE TsOf[k] <= LoadLast(ChatOf[k])'.lastTs
    BY DEF ConsideredIsCovered
  <2>1. k \in Ids /\ ChatOf[k] \in Chats
    BY <1>1, <1>2, <1>4, WorkerAssumption DEF LoopInv, TypeOK
  <2>2. CASE k = cur BY <1>3, <1>5, <2>1, <2>2
  <2>3. CASE k \in considered
    BY <1>2, <1>3, <2>1, <2>3 DEF CoverInv, ConsideredIsCovered
  <2> QED BY <1>2, <2>2, <2>3
<1>11. RecentInOrder'
  <2> SUFFICES ASSUME NEW ch \in Chats, NEW i \in DOMAIN recent'[ch],
                      NEW j \in DOMAIN recent'[ch], i < j
               PROVE  TsOf[recent'[ch][i]] < TsOf[recent'[ch][j]]
    BY DEF RecentInOrder
  <2>1. \A k, l \in DOMAIN recent[ch] : k < l => TsOf[recent[ch][k]] < TsOf[recent[ch][l]]
    BY <1>2 DEF CoverInv, RecentInOrder
  <2>2. CASE ch # home BY <1>6, <2>1, <2>2
  <2>3. CASE ch = home /\ j \in DOMAIN seq
    <3>1. i \in DOMAIN seq BY <1>7, <2>3
    <3> QED BY <1>7, <2>1, <2>3, <3>1
  <2>4. CASE ch = home /\ j \notin DOMAIN seq
    <3>1. i \in DOMAIN seq /\ recent'[home][j] = cur BY <1>7, <2>4
    <3>2. TsOf[seq[i]] < TsOf[cur]
      BY <1>1, <1>2, <3>1 DEF CoverInv, SavedCovers, LoopInv, HandIsFull
    <3> QED BY <1>7, <2>4, <3>1, <3>2
  <2> QED BY <2>2, <2>3, <2>4
<1> QED BY <1>9, <1>10, <1>11

\* The put of the key makes what is read cover the event.
LEMMA SaveIndexCover ==
    ASSUME CoverInv, SaveIndex
    PROVE  SavedCovers' /\ ConsideredIsCovered' /\ RecentInOrder'
<1>1. StoreInv /\ LoopInv BY DEF CoverInv, StoreInv
<1>2. UNCHANGED <<cur, recent, considered, readFaults, backsteps>> /\ wpc = "index"
  BY DEF SaveIndex, countVars
<1>3. ASSUME Trusted' PROVE TsOf[cur] <= LoadLast(ChatOf[cur])'.lastTs
  <2>1. LoadLast(ChatOf[cur])' = delta
    BY <1>1, <1>2, <1>3, SaveIndexRead DEF Trusted
  <2>2. PICK learned \in {{}, {cur}}, summary \in {"model", "fallback", loaded.summary} :
             delta = Merge(loaded, cur, learned, summary)
    BY <1>1, <1>2 DEF LoopInv, DeltaIsMerge
  <2>3. delta.lastTs = TsOf[cur] /\ TsOf[cur] \in Nat
    BY <1>1, <1>2, <2>2, HandType DEF Merge
  <2> QED BY <1>2, <2>1, <2>3
<1> QED BY <1>2, <1>3, SameHandCover DEF Next, WorkerStep

LEMMA CrashCover ==
    ASSUME CoverInv, Crash
    PROVE  SavedCovers' /\ ConsideredIsCovered' /\ RecentInOrder'
<1> SUFFICES ASSUME Trusted', saveFaults' = 0
             PROVE  SavedCovers' /\ ConsideredIsCovered' /\ RecentInOrder'
  BY DEF SavedCovers, ConsideredIsCovered, RecentInOrder
<1>1. /\ \A ch \in Chats : DOMAIN recent'[ch] = {}
      /\ cur' = NoMsg /\ wpc' = "unborn"
      /\ UNCHANGED <<storeVars, considered>> /\ Trusted /\ saveFaults = 0
  BY DEF Crash, Trusted
<1>2. \A ch \in Chats : LoadLast(ch)' = LoadLast(ch) BY <1>1, ReadUntouched
<1>3. ConsideredIsCovered'
  <2> SUFFICES ASSUME NEW m \in considered PROVE TsOf[m] <= LoadLast(ChatOf[m])'.lastTs
    BY <1>1 DEF ConsideredIsCovered
  <2>1. ChatOf[m] \in Chats
    BY WorkerAssumption DEF CoverInv, StoreInv, LoopInv, TypeOK
  <2> QED BY <1>1, <1>2, <2>1 DEF CoverInv, ConsideredIsCovered
<1> QED BY <1>1, <1>3 DEF SavedCovers, RecentInOrder

LEMMA NextCover == ASSUME CoverInv, [Next]_vars PROVE CoverInv'
<1> DEFINE Covered == SavedCovers /\ ConsideredIsCovered /\ RecentInOrder
<1>1. StoreInv' BY NextStore DEF CoverInv
<1> SUFFICES Covered' BY <1>1 DEF CoverInv
<1>2. (readFaults' # 0 \/ saveFaults' # 0) => Covered'
  BY DEF SavedCovers, ConsideredIsCovered, RecentInOrder, Trusted
<1>3. CASE \E m \in Ids : Send(m) BY <1>3, ElsewhereCover DEF Send, workVars
<1>4. CASE Subscribe BY <1>4, ElsewhereCover DEF Subscribe, ghostVars
<1>5. CASE Receive BY <1>5, TakeCover DEF Receive
<1>6. CASE ReceiveBlind
  BY <1>2, <1>6, BoundsType DEF ReceiveBlind, CoverInv, StoreInv, LoopInv, TypeOK
<1>7. CASE ReceiveLagged BY <1>7, ElsewhereCover DEF ReceiveLagged, ghostVars
<1>8. CASE Infer BY <1>8, InferIsMerge, ElsewhereCover DEF CoverInv, StoreInv, ghostVars
<1>9. CASE SavePrimary BY <1>9, ElsewhereCover DEF SavePrimary, ghostVars
<1>10. CASE SaveIndex BY <1>10, SaveIndexCover
<1>11. CASE SaveFails
  BY <1>2, <1>11, BoundsType DEF SaveFails, CoverInv, StoreInv, LoopInv, TypeOK
<1>12. CASE PushRecent BY <1>12, PushRecentCover
<1>13. CASE Tick \/ ClockBack
  BY <1>13, ElsewhereCover DEF Tick, ClockBack, workVars, ghostVars
<1>14. CASE Crash BY <1>14, CrashCover
<1>15. CASE UNCHANGED vars BY <1>15, ElsewhereCover DEF vars, workVars, ghostVars
<1> QED BY <1>3, <1>4, <1>5, <1>6, <1>7, <1>8, <1>9, <1>10, <1>11, <1>12, <1>13, <1>14, <1>15
    DEF Next, WorkerStep

LEMMA CoverInvAlways == Spec => []CoverInv
<1>1. Init => CoverInv
  <2> SUFFICES ASSUME Init PROVE CoverInv OBVIOUS
  <2>1. StoreInv BY InitLoop DEF Init, StoreInv, KeysInOrder, ReadIsCurrent
  <2>2. /\ \A ch \in Chats : DOMAIN recent[ch] = {}
        /\ considered = {} /\ cur = NoMsg /\ wpc = "unborn"
    BY DEF Init
  <2> QED BY <2>1, <2>2 DEF CoverInv, SavedCovers, ConsideredIsCovered, RecentInOrder
<1>2. CoverInv /\ [Next]_vars => CoverInv' BY NextCover
<1> QED BY <1>1, <1>2, PTL DEF Spec

\* An event the worker is done with is covered by what RocksDB holds: a
\* redelivery after a crash, or a late duplicate, is skipped.
THEOREM DoneIsCovered == Spec => []ConsideredIsCovered
<1>1. CoverInv => ConsideredIsCovered BY DEF CoverInv
<1> QED BY <1>1, CoverInvAlways, PTL

\* recent_state has each message of a chat once, in the order of timestamps,
\* across crashes and duplicates.
THEOREM HistoryInOrder == Spec => []RecentInOrder
<1>1. CoverInv => RecentInOrder BY DEF CoverInv
<1> QED BY <1>1, CoverInvAlways, PTL
=============================================================================
