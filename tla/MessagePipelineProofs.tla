----------------------- MODULE MessagePipelineProofs -----------------------
(***************************************************************************)
(* Machine-checked proofs about MessagePipeline, for every number of       *)
(* messages, chats, partitions, crashes, faults and deletes.               *)
(***************************************************************************)
EXTENDS MessagePipeline, FiniteSetTheorems, TLAPS

\* Where a consumer stands and what it holds agree.
LoopOK ==
    \A c \in Consumers :
        /\ pc[c] \in {"joining", "poll"} <=> cur[c] = NoMsg
        /\ cur[c] # NoMsg => Valid(cur[c])
        /\ pc[c] = "window" => c = "chat"

TypeInv == TypeOK /\ LoopOK

\* An entry of a partition below its length is a message: what poll() reads.
LEMMA SeqElement ==
    ASSUME NEW S, NEW s \in Seq(S), NEW i \in Nat, i < Len(s)
    PROVE  s[i + 1] \in S
  OBVIOUS

\* Appending an element, and dropping the first one of the result, stay in S.
LEMMA PushType ==
    ASSUME NEW S, NEW s \in Seq(S), NEW m \in S
    PROVE  Append(s, m) \in Seq(S) /\ Tail(Append(s, m)) \in Seq(S)
<1>1. Append(s, m) \in Seq(S) /\ Append(s, m) # <<>> OBVIOUS
<1> QED BY <1>1

\* The state the process starts in is well typed, with both loops joining.
LEMMA TypeInit == Init => TypeInv
<1> USE StoreAssumption, PipelineAssumption
<1> SUFFICES ASSUME Init PROVE TypeInv
  OBVIOUS
<1> USE DEF Init, StoreInit, Consumers, NoMsg, NoOffset
<1>1. StoreTypeOK
  BY DEF StoreTypeOK, Record
<1>2. LogTypeOK
  BY DEF LogTypeOK
<1>3. LoopTypeOK
  BY DEF LoopTypeOK, PC
<1>4. OutputTypeOK
  BY DEF OutputTypeOK
<1>5. DelTypeOK
  BY DEF DelTypeOK, NoDelete, DelStep
<1>6. GhostTypeOK
  BY DEF GhostTypeOK
<1>7. CountTypeOK
  BY DEF CountTypeOK
<1>8. LoopOK
  BY DEF LoopOK
<1> QED BY <1>1, <1>2, <1>3, <1>4, <1>5, <1>6, <1>7, <1>8 DEF TypeInv, TypeOK

\* No step of a loop, of the offset timer, of a delete or of a crash breaks a
\* type, or leaves a loop between two calls without a message in hand.
LEMMA TypeStep == TypeInv /\ [Next]_vars => TypeInv'
<1> USE StoreAssumption, PipelineAssumption
<1> SUFFICES ASSUME TypeInv, [Next]_vars PROVE TypeInv'
  OBVIOUS
<1> USE DEF TypeInv, TypeOK, StoreTypeOK, LogTypeOK, LoopTypeOK, OutputTypeOK,
            DelTypeOK, GhostTypeOK, CountTypeOK, LoopOK, Consumers, NoMsg,
            NoOffset, Record, PC, DelStep, storeVars, consumerVars, ghostVars,
            countVars
<1>1. ASSUME NEW m \in Ids, Produce(m) PROVE TypeInv'
  <2>1. StoreTypeOK' BY <1>1 DEF Produce, Partition
  <2>2. LogTypeOK'
    <3>1. Partition(m) \in Partitions BY DEF Partition
    <3>2. Append(log[Partition(m)], m) \in Seq(Ids) BY <3>1
    <3> QED BY <1>1, <3>2 DEF Produce
  <2>3. LoopTypeOK' BY <1>1 DEF Produce, Partition
  <2>4. OutputTypeOK' BY <1>1 DEF Produce, Partition
  <2>5. DelTypeOK' BY <1>1 DEF Produce, Partition
  <2>6. GhostTypeOK' BY <1>1 DEF Produce, Partition
  <2>7. CountTypeOK' BY <1>1 DEF Produce, Partition
  <2>8. LoopOK' BY <1>1 DEF Produce, Partition
  <2> QED BY <2>1, <2>2, <2>3, <2>4, <2>5, <2>6, <2>7, <2>8
<1>2. ASSUME NEW c \in Consumers, Join(c) PROVE TypeInv'
  <2>1. StoreTypeOK' BY <1>2 DEF Join
  <2>2. LogTypeOK' BY <1>2 DEF Join
  <2>3. LoopTypeOK'
    <3> DEFINE start == [p \in Partitions |->
                            IF committed[c][p] # NoOffset THEN committed[c][p]
                            ELSE IF c = "chat" THEN 0 ELSE Len(log[p])]
    <3>1. ASSUME NEW p \in Partitions PROVE start[p] \in Nat
      <4>1. committed[c][p] \in Nat \cup {NoOffset} OBVIOUS
      <4>2. Len(log[p]) \in Nat OBVIOUS
      <4> QED BY <4>1, <4>2
    <3>2. start \in [Partitions -> Nat] BY <3>1
    <3> HIDE DEF start
    <3>3. pos' = [pos EXCEPT ![c] = start] /\ base' = [base EXCEPT ![c] = start]
      BY <1>2 DEF Join, start
    <3>4. pc' \in [Consumers -> PC] /\ cur' = cur BY <1>2 DEF Join
    <3> QED BY <3>2, <3>3, <3>4
  <2>4. OutputTypeOK' BY <1>2 DEF Join
  <2>5. DelTypeOK' BY <1>2 DEF Join
  <2>6. GhostTypeOK' BY <1>2 DEF Join
  <2>7. CountTypeOK' BY <1>2 DEF Join
  <2>8. LoopOK' BY <1>2 DEF Join
  <2> QED BY <2>1, <2>2, <2>3, <2>4, <2>5, <2>6, <2>7, <2>8
<1>3. ASSUME NEW c \in Consumers, NEW p \in Partitions, Poll(c, p) PROVE TypeInv'
  <2>1. StoreTypeOK' BY <1>3 DEF Poll, FirstStep, Handles
  <2>2. LogTypeOK' BY <1>3 DEF Poll, FirstStep, Handles
  <2>0. log[p][pos[c][p] + 1] \in Ids
    <3>1. log[p] \in Seq(Ids) /\ pos[c][p] \in Nat /\ pos[c][p] < Len(log[p])
      BY <1>3 DEF Poll
    <3> QED BY <3>1, SeqElement
  <2>3. LoopTypeOK'
    <3> DEFINE m == log[p][pos[c][p] + 1]
    <3> HIDE DEF m
    <3>0. m \in Ids BY <2>0 DEF m
    <3>1. cur' = [cur EXCEPT ![c] = m] \/ cur' = cur BY <1>3 DEF Poll, m
    <3>2. pc' \in [Consumers -> PC] BY <1>3 DEF Poll, FirstStep
    <3>3. /\ pos' = [pos EXCEPT ![c] = [pos[c] EXCEPT ![p] = pos[c][p] + 1]]
          /\ base' = base
      BY <1>3 DEF Poll
    <3>4. [pos[c] EXCEPT ![p] = pos[c][p] + 1] \in [Partitions -> Nat] OBVIOUS
    <3>5. cur' \in [Consumers -> Ids \cup {NoMsg}] BY <3>0, <3>1
    <3>6. pos' \in [Consumers -> [Partitions -> Nat]] BY <3>3, <3>4
    <3> QED BY <3>2, <3>3, <3>5, <3>6
  <2>4. OutputTypeOK' BY <1>3 DEF Poll, FirstStep, Handles
  <2>5. DelTypeOK' BY <1>3 DEF Poll, FirstStep, Handles
  <2>6. GhostTypeOK' BY <1>3 DEF Poll, FirstStep, Handles
  <2>7. CountTypeOK' BY <1>3 DEF Poll, FirstStep, Handles
  <2>8. LoopOK'
    <3> DEFINE m == log[p][pos[c][p] + 1]
    <3> HIDE DEF m
    <3>1. m \in Ids /\ m # NoMsg BY <2>0 DEF m
    <3>2. CASE Handles(c, m)
      <4>1. cur' = [cur EXCEPT ![c] = m] /\ pc' = [pc EXCEPT ![c] = FirstStep(c)]
        BY <1>3, <3>2 DEF Poll, m
      <4> QED BY <3>1, <3>2, <4>1 DEF FirstStep, Handles, Valid
    <3>3. CASE ~Handles(c, m)
      BY <1>3, <3>3 DEF Poll, Valid, m
    <3> QED BY <3>2, <3>3
  <2> QED BY <2>1, <2>2, <2>3, <2>4, <2>5, <2>6, <2>7, <2>8
<1>4. ASSUME PushWindow PROVE TypeInv'
  <2>1. StoreTypeOK' BY <1>4 DEF PushWindow, Push
  <2>2. LogTypeOK' BY <1>4 DEF PushWindow, Push
  <2>3. LoopTypeOK' BY <1>4 DEF PushWindow, Push
  <2>4. OutputTypeOK'
    <3>1. cur["chat"] \in Ids /\ ChatOf[cur["chat"]] \in Chats
      BY <1>4 DEF PushWindow
    <3>2. ASSUME NEW w \in Seq(Ids) PROVE Push(w, cur["chat"]) \in Seq(Ids)
      BY <3>1, PushType DEF Push
    <3> QED BY <1>4, <3>1, <3>2 DEF PushWindow
  <2>5. DelTypeOK' BY <1>4 DEF PushWindow, Push
  <2>6. GhostTypeOK' BY <1>4 DEF PushWindow, Push
  <2>7. CountTypeOK' BY <1>4 DEF PushWindow, Push
  <2>8. LoopOK' BY <1>4 DEF PushWindow, Push
  <2> QED BY <2>1, <2>2, <2>3, <2>4, <2>5, <2>6, <2>7, <2>8
<1>5. ASSUME NEW c \in Consumers, SavePrimary(c) PROVE TypeInv'
  <2>1. StoreTypeOK' BY <1>5 DEF SavePrimary, PutPrimary
  <2>2. LogTypeOK' BY <1>5 DEF SavePrimary, PutPrimary
  <2>3. LoopTypeOK' BY <1>5 DEF SavePrimary, PutPrimary
  <2>4. OutputTypeOK' BY <1>5 DEF SavePrimary, PutPrimary
  <2>5. DelTypeOK' BY <1>5 DEF SavePrimary, PutPrimary
  <2>6. GhostTypeOK' BY <1>5 DEF SavePrimary, PutPrimary
  <2>7. CountTypeOK' BY <1>5 DEF SavePrimary, PutPrimary
  <2>8. LoopOK' BY <1>5 DEF SavePrimary, PutPrimary
  <2> QED BY <2>1, <2>2, <2>3, <2>4, <2>5, <2>6, <2>7, <2>8
<1>6. ASSUME NEW c \in Consumers, SaveIndex(c) PROVE TypeInv'
  <2>1. StoreTypeOK' BY <1>6 DEF SaveIndex, PutIndex
  <2>2. LogTypeOK' BY <1>6 DEF SaveIndex, PutIndex
  <2>3. LoopTypeOK' BY <1>6 DEF SaveIndex, PutIndex
  <2>4. OutputTypeOK' BY <1>6 DEF SaveIndex, PutIndex
  <2>5. DelTypeOK' BY <1>6 DEF SaveIndex, PutIndex
  <2>6. GhostTypeOK' BY <1>6 DEF SaveIndex, PutIndex
  <2>7. CountTypeOK' BY <1>6 DEF SaveIndex, PutIndex
  <2>8. LoopOK' BY <1>6 DEF SaveIndex, PutIndex
  <2> QED BY <2>1, <2>2, <2>3, <2>4, <2>5, <2>6, <2>7, <2>8
<1>7. ASSUME NEW c \in Consumers, SaveFails(c) PROVE TypeInv'
  <2>1. StoreTypeOK' BY <1>7 DEF SaveFails
  <2>2. LogTypeOK' BY <1>7 DEF SaveFails
  <2>3. LoopTypeOK' BY <1>7 DEF SaveFails
  <2>4. OutputTypeOK' BY <1>7 DEF SaveFails
  <2>5. DelTypeOK' BY <1>7 DEF SaveFails
  <2>6. GhostTypeOK'
    <3>1. cur[c] \in Ids BY <1>7 DEF SaveFails
    <3>2. dropped' \in SUBSET Ids BY <1>7, <3>1 DEF SaveFails
    <3>3. halfSaved' \in SUBSET Ids BY <1>7, <3>1 DEF SaveFails
    <3> QED BY <1>7, <3>2, <3>3 DEF SaveFails
  <2>7. CountTypeOK' BY <1>7 DEF SaveFails
  <2>8. LoopOK' BY <1>7 DEF SaveFails
  <2> QED BY <2>1, <2>2, <2>3, <2>4, <2>5, <2>6, <2>7, <2>8
<1>8. ASSUME NEW c \in Consumers, Publish(c) PROVE TypeInv'
  <2>1. StoreTypeOK' BY <1>8 DEF Publish
  <2>2. LogTypeOK' BY <1>8 DEF Publish
  <2>3. LoopTypeOK' BY <1>8 DEF Publish
  <2>4. OutputTypeOK' BY <1>8 DEF Publish
  <2>5. DelTypeOK' BY <1>8 DEF Publish
  <2>6. GhostTypeOK' BY <1>8 DEF Publish
  <2>7. CountTypeOK' BY <1>8 DEF Publish
  <2>8. LoopOK' BY <1>8 DEF Publish
  <2> QED BY <2>1, <2>2, <2>3, <2>4, <2>5, <2>6, <2>7, <2>8
<1>9. ASSUME NEW c \in Consumers, NEW p \in Partitions, AutoCommit(c, p) PROVE TypeInv'
  <2>1. StoreTypeOK' BY <1>9 DEF AutoCommit
  <2>2. LogTypeOK' BY <1>9 DEF AutoCommit
  <2>3. LoopTypeOK' BY <1>9 DEF AutoCommit
  <2>4. OutputTypeOK' BY <1>9 DEF AutoCommit
  <2>5. DelTypeOK' BY <1>9 DEF AutoCommit
  <2>6. GhostTypeOK' BY <1>9 DEF AutoCommit
  <2>7. CountTypeOK' BY <1>9 DEF AutoCommit
  <2>8. LoopOK' BY <1>9 DEF AutoCommit
  <2> QED BY <2>1, <2>2, <2>3, <2>4, <2>5, <2>6, <2>7, <2>8
<1>10. ASSUME NEW ch \in Chats, DelStart(ch) PROVE TypeInv'
  <2>1. StoreTypeOK' BY <1>10 DEF DelStart
  <2>2. LogTypeOK' BY <1>10 DEF DelStart
  <2>3. LoopTypeOK' BY <1>10 DEF DelStart
  <2>4. OutputTypeOK' BY <1>10 DEF DelStart
  <2>5. DelTypeOK'
    <3>1. Settled(ch) \in BOOLEAN BY DEF Settled
    <3> QED BY <1>10, <3>1 DEF DelStart
  <2>6. GhostTypeOK' BY <1>10 DEF DelStart
  <2>7. CountTypeOK' BY <1>10 DEF DelStart
  <2>8. LoopOK' BY <1>10 DEF DelStart
  <2> QED BY <2>1, <2>2, <2>3, <2>4, <2>5, <2>6, <2>7, <2>8
<1>11. ASSUME DelScanPrimary PROVE TypeInv'
  <2>1. StoreTypeOK' BY <1>11 DEF DelScanPrimary, RecordsOf
  <2>2. LogTypeOK' BY <1>11 DEF DelScanPrimary, RecordsOf
  <2>3. LoopTypeOK' BY <1>11 DEF DelScanPrimary, RecordsOf
  <2>4. OutputTypeOK' BY <1>11 DEF DelScanPrimary, RecordsOf
  <2>5. DelTypeOK' BY <1>11 DEF DelScanPrimary, RecordsOf
  <2>6. GhostTypeOK' BY <1>11 DEF DelScanPrimary, RecordsOf
  <2>7. CountTypeOK' BY <1>11 DEF DelScanPrimary, RecordsOf
  <2>8. LoopOK' BY <1>11 DEF DelScanPrimary, RecordsOf
  <2> QED BY <2>1, <2>2, <2>3, <2>4, <2>5, <2>6, <2>7, <2>8
<1>12. ASSUME DelOpenIndex PROVE TypeInv'
  <2>1. StoreTypeOK' BY <1>12 DEF DelOpenIndex
  <2>2. LogTypeOK' BY <1>12 DEF DelOpenIndex
  <2>3. LoopTypeOK' BY <1>12 DEF DelOpenIndex
  <2>4. OutputTypeOK' BY <1>12 DEF DelOpenIndex
  <2>5. DelTypeOK' BY <1>12 DEF DelOpenIndex
  <2>6. GhostTypeOK' BY <1>12 DEF DelOpenIndex
  <2>7. CountTypeOK' BY <1>12 DEF DelOpenIndex
  <2>8. LoopOK' BY <1>12 DEF DelOpenIndex
  <2> QED BY <2>1, <2>2, <2>3, <2>4, <2>5, <2>6, <2>7, <2>8
<1>13. ASSUME NEW m \in Ids, DelVisit(m) PROVE TypeInv'
  <2>1. StoreTypeOK' BY <1>13 DEF DelVisit
  <2>2. LogTypeOK' BY <1>13 DEF DelVisit
  <2>3. LoopTypeOK' BY <1>13 DEF DelVisit
  <2>4. OutputTypeOK' BY <1>13 DEF DelVisit
  <2>5. DelTypeOK' BY <1>13 DEF DelVisit
  <2>6. GhostTypeOK' BY <1>13 DEF DelVisit
  <2>7. CountTypeOK' BY <1>13 DEF DelVisit
  <2>8. LoopOK' BY <1>13 DEF DelVisit
  <2> QED BY <2>1, <2>2, <2>3, <2>4, <2>5, <2>6, <2>7, <2>8
<1>14. ASSUME DelWrite PROVE TypeInv'
  <2>1. StoreTypeOK' BY <1>14 DEF DelWrite, WriteBatch
  <2>2. LogTypeOK' BY <1>14 DEF DelWrite, WriteBatch
  <2>3. LoopTypeOK' BY <1>14 DEF DelWrite, WriteBatch
  <2>4. OutputTypeOK' BY <1>14 DEF DelWrite, WriteBatch
  <2>5. DelTypeOK' BY <1>14 DEF DelWrite, WriteBatch
  <2>6. GhostTypeOK' BY <1>14 DEF DelWrite, WriteBatch
  <2>7. CountTypeOK' BY <1>14 DEF DelWrite, WriteBatch
  <2>8. LoopOK' BY <1>14 DEF DelWrite, WriteBatch
  <2> QED BY <2>1, <2>2, <2>3, <2>4, <2>5, <2>6, <2>7, <2>8
<1>15. ASSUME DelFails PROVE TypeInv'
  <2>1. StoreTypeOK' BY <1>15 DEF DelFails
  <2>2. LogTypeOK' BY <1>15 DEF DelFails
  <2>3. LoopTypeOK' BY <1>15 DEF DelFails
  <2>4. OutputTypeOK' BY <1>15 DEF DelFails
  <2>5. DelTypeOK' BY <1>15 DEF DelFails
  <2>6. GhostTypeOK' BY <1>15 DEF DelFails
  <2>7. CountTypeOK'
    <3>1. faults < MaxFaults /\ faults' = faults + 1 BY <1>15 DEF DelFails
    <3>2. crashes' = crashes /\ deletes' = deletes BY <1>15 DEF DelFails
    <3> QED BY <3>1, <3>2
  <2>8. LoopOK' BY <1>15 DEF DelFails
  <2> QED BY <2>1, <2>2, <2>3, <2>4, <2>5, <2>6, <2>7, <2>8
<1>16. ASSUME Crash PROVE TypeInv'
  <2>1. StoreTypeOK' BY <1>16 DEF Crash, NoDelete, CommittedTooEarly
  <2>2. LogTypeOK' BY <1>16 DEF Crash, NoDelete, CommittedTooEarly
  <2>3. LoopTypeOK' BY <1>16 DEF Crash, NoDelete, CommittedTooEarly
  <2>4. OutputTypeOK' BY <1>16 DEF Crash, NoDelete, CommittedTooEarly
  <2>5. DelTypeOK' BY <1>16 DEF Crash, NoDelete, CommittedTooEarly
  <2>6. GhostTypeOK'
    <3>1. dropped' \in SUBSET Ids BY <1>16 DEF Crash, CommittedTooEarly
    <3>2. ASSUME NEW c \in Consumers, pc[c] = "index" PROVE cur[c] \in Ids
      BY <3>2
    <3>3. halfSaved' \in SUBSET Ids BY <1>16, <3>2 DEF Crash
    <3> QED BY <1>16, <3>1, <3>3 DEF Crash
  <2>7. CountTypeOK' BY <1>16 DEF Crash, NoDelete, CommittedTooEarly
  <2>8. LoopOK' BY <1>16 DEF Crash, NoDelete, CommittedTooEarly
  <2> QED BY <2>1, <2>2, <2>3, <2>4, <2>5, <2>6, <2>7, <2>8
<1>17. ASSUME UNCHANGED vars PROVE TypeInv'
  BY <1>17 DEF vars
<1> QED
  BY <1>1, <1>2, <1>3, <1>4, <1>5, <1>6, <1>7, <1>8, <1>9, <1>10, <1>11, <1>12, <1>13, <1>14, <1>15, <1>16, <1>17 DEF Next, ConsumerStep, DeleteStep

\* Every variable keeps its type, whatever the interleaving.
THEOREM TypeCorrect == Spec => []TypeOK
<1>1. TypeInv => TypeOK BY DEF TypeInv
<1> QED BY <1>1, TypeInit, TypeStep, PTL DEF Spec
-----------------------------------------------------------------------------
(* Tears.                                                                  *)

\* While a delete stands between its scan and its write, the records of the
\* chat and the keys it has collected are those it saw in the scan, or were
\* saved since.
DeleteOK ==
    /\ del.step = "started" => del.batchI = {}
    /\ del.step \in {"scanned", "visiting"} =>
           \A m \in Ids : m \in RecordsOf(del.chat) \cup del.batchI =>
               m \in del.batchP \cup raced

TearInv == DeleteOK /\ TornIsExplained

\* No step tears a record but for the three reasons TornIsExplained names.
LEMMA TearStep == TypeInv /\ TypeInv' /\ TearInv /\ [Next]_vars => TearInv'
<1> USE StoreAssumption, PipelineAssumption
<1> SUFFICES ASSUME TypeInv, TypeInv', TearInv, [Next]_vars PROVE TearInv'
  OBVIOUS
<1> USE DEF TearInv, DeleteOK, TornIsExplained, RecordsOf, Present,
            TypeInv, TypeOK, StoreTypeOK, LoopTypeOK, DelTypeOK, GhostTypeOK,
            LoopOK, Consumers, NoMsg, storeVars, consumerVars, ghostVars, countVars
<1>1. ASSUME NEW m \in Ids, Produce(m) PROVE TearInv'
  BY <1>1 DEF Produce
<1>2. ASSUME NEW c \in Consumers, Join(c) PROVE TearInv'
  BY <1>2 DEF Join
<1>3. ASSUME NEW c \in Consumers, NEW p \in Partitions, Poll(c, p) PROVE TearInv'
  <2>1. UNCHANGED <<primary, index, halfSaved, raced, del>> BY <1>3 DEF Poll
  <2>2. ASSUME NEW d \in Consumers, pc[d] = "index"
        PROVE  pc'[d] = "index" /\ cur'[d] = cur[d]
    BY <1>3, <2>2 DEF Poll
  <2> QED BY <2>1, <2>2
<1>4. ASSUME PushWindow PROVE TearInv'
  BY <1>4 DEF PushWindow
<1>5. ASSUME NEW c \in Consumers, SavePrimary(c) PROVE TearInv'
  <2>1. DeleteOK' BY <1>5 DEF SavePrimary, PutPrimary, DeleteOverlaps, Record
  <2>2. TornIsExplained' BY <1>5 DEF SavePrimary, PutPrimary, Record
  <2> QED BY <2>1, <2>2
<1>6. ASSUME NEW c \in Consumers, SaveIndex(c) PROVE TearInv'
  <2>1. DeleteOK' BY <1>6 DEF SaveIndex
  <2>2. TornIsExplained' BY <1>6 DEF SaveIndex, PutIndex
  <2> QED BY <2>1, <2>2
<1>7. ASSUME NEW c \in Consumers, SaveFails(c) PROVE TearInv'
  BY <1>7 DEF SaveFails
<1>8. ASSUME NEW c \in Consumers, Publish(c) PROVE TearInv'
  BY <1>8 DEF Publish
<1>9. ASSUME NEW c \in Consumers, NEW p \in Partitions, AutoCommit(c, p) PROVE TearInv'
  BY <1>9 DEF AutoCommit
<1>10. ASSUME NEW ch \in Chats, DelStart(ch) PROVE TearInv'
  BY <1>10 DEF DelStart
<1>11. ASSUME DelScanPrimary PROVE TearInv'
  <2>1. /\ UNCHANGED <<primary, index, pc, cur, halfSaved, raced>>
        /\ del'.chat = del.chat /\ del'.batchI = del.batchI
        /\ del'.batchP = RecordsOf(del.chat)
    BY <1>11 DEF DelScanPrimary
  <2>2. del.batchI = {} BY <1>11 DEF DelScanPrimary
  <2> QED BY <2>1, <2>2
<1>12. ASSUME DelOpenIndex PROVE TearInv'
  BY <1>12 DEF DelOpenIndex
<1>13. ASSUME NEW m \in Ids, DelVisit(m) PROVE TearInv'
  BY <1>13 DEF DelVisit
<1>14. ASSUME DelWrite PROVE TearInv'
  BY <1>14 DEF DelWrite, WriteBatch
<1>15. ASSUME DelFails PROVE TearInv'
  BY <1>15 DEF DelFails
<1>16. ASSUME Crash PROVE TearInv'
  BY <1>16 DEF Crash, NoDelete
<1>17. ASSUME UNCHANGED vars PROVE TearInv'
  BY <1>17 DEF vars
<1> QED
  BY <1>1, <1>2, <1>3, <1>4, <1>5, <1>6, <1>7, <1>8, <1>9, <1>10, <1>11, <1>12,
     <1>13, <1>14, <1>15, <1>16, <1>17 DEF Next, ConsumerStep, DeleteStep

\* A record without a time key has one of three causes, in every run of every
\* instance: a save between its puts, a save cut short, a save that overlapped
\* a delete of its chat.
THEOREM TearsExplained == Spec => []TornIsExplained
<1>1. Init => TearInv
  BY DEF Init, StoreInit, TearInv, DeleteOK, TornIsExplained, Present, NoDelete
<1>2. TearInv => TornIsExplained BY DEF TearInv
<1> QED BY <1>1, <1>2, TypeInit, TypeStep, TearStep, PTL DEF Spec
-----------------------------------------------------------------------------
(* Losses.                                                                 *)

\* Offsets stay within the log, and a commit never runs ahead of the position.
PositionOK ==
    \A c \in Consumers : \A p \in Partitions :
        /\ pos[c][p] <= Len(log[p])
        /\ committed[c][p] <= Len(log[p])
        /\ pc[c] # "joining" => committed[c][p] <= pos[c][p]

\* The key decides the partition.
PlacedOK ==
    \A p \in Partitions : \A i \in 1..Len(log[p]) : Partition(log[p][i]) = p

\* The chat loop holds a message it has not put yet.
BeforePut == pc["chat"] \in {"window", "primary"}

\* Until its first put, the message in hand is the one at the position.
HandedOK ==
    BeforePut =>
        /\ pos["chat"][Partition(cur["chat"])] > 0
        /\ log[Partition(cur["chat"])][pos["chat"][Partition(cur["chat"])]] = cur["chat"]

\* Positions, keys and the message in hand agree.
PlaceInv == PositionOK /\ PlacedOK /\ HandedOK

\* What Append leaves alone and what it adds.
LEMMA AppendFacts ==
    ASSUME NEW S, NEW s \in Seq(S), NEW m \in S
    PROVE  /\ Len(Append(s, m)) = Len(s) + 1
           /\ \A i \in 1..Len(s) : Append(s, m)[i] = s[i]
           /\ Append(s, m)[Len(s) + 1] = m
  OBVIOUS

\* The log only grows: every entry stays where it is.
LEMMA LogGrows ==
    ASSUME TypeOK, NEW m \in Ids, Produce(m), NEW p \in Partitions
    PROVE  /\ Len(log[p]) \in Nat /\ Len(log'[p]) \in Nat
           /\ Len(log[p]) <= Len(log'[p])
           /\ \A i \in 1..Len(log[p]) : log'[p][i] = log[p][i]
           /\ \A i \in 1..Len(log'[p]) :
                 i \in 1..Len(log[p]) \/ (log'[p][i] = m /\ p = Partition(m))
<1>1. log[p] \in Seq(Ids) BY DEF TypeOK, LogTypeOK
<1>2. log'[p] = IF p = Partition(m) THEN Append(log[p], m) ELSE log[p]
  BY DEF TypeOK, LogTypeOK, Produce
<1>3. CASE p = Partition(m)
  <2>1. log'[p] = Append(log[p], m) BY <1>2, <1>3
  <2>2. Len(log'[p]) = Len(log[p]) + 1 BY <1>1, <2>1, AppendFacts
  <2>3. Len(log[p]) \in Nat BY <1>1
  <2>4. \A i \in 1..Len(log[p]) : log'[p][i] = log[p][i] BY <1>1, <2>1, AppendFacts
  <2>5. log'[p][Len(log[p]) + 1] = m BY <1>1, <2>1, AppendFacts
  <2> QED BY <1>3, <2>2, <2>3, <2>4, <2>5
<1>4. CASE p # Partition(m)
  BY <1>1, <1>2, <1>4
<1> QED BY <1>3, <1>4

\* The offsets of a group on a partition, and the partition, are well typed.
LEMMA OffsetTypes ==
    ASSUME TypeInv, NEW c \in Consumers, NEW p \in Partitions
    PROVE  /\ pos[c][p] \in Nat
           /\ committed[c][p] \in Nat \cup {-1}
           /\ log[p] \in Seq(Ids) /\ Len(log[p]) \in Nat
BY DEF TypeInv, TypeOK, LogTypeOK, LoopTypeOK, NoOffset

\* Before its first put the chat loop holds a valid message of some partition.
LEMMA HandedTypes ==
    ASSUME TypeInv, BeforePut
    PROVE  cur["chat"] \in Ids /\ Valid(cur["chat"]) /\ Partition(cur["chat"]) \in Partitions
BY StoreAssumption, PipelineAssumption
   DEF TypeInv, TypeOK, LoopTypeOK, LoopOK, BeforePut, Partition, Consumers, NoMsg

\* A new entry moves no offset and lands in the partition of its key.
LEMMA PlaceProduce ==
    ASSUME TypeInv, PlaceInv, NEW m \in Ids, Produce(m)
    PROVE  PlaceInv'
<1>1. UNCHANGED <<pc, pos, cur, committed>> BY DEF Produce, consumerVars
<1>2. TypeOK BY DEF TypeInv
<1>3. PositionOK'
  <2> SUFFICES ASSUME NEW c \in Consumers, NEW p \in Partitions
      PROVE  /\ pos[c][p] <= Len(log'[p])
             /\ committed[c][p] <= Len(log'[p])
             /\ pc[c] # "joining" => committed[c][p] <= pos[c][p]
    BY <1>1 DEF PositionOK
  <2>1. Len(log'[p]) \in Nat /\ Len(log[p]) <= Len(log'[p])
    BY <1>2, LogGrows
  <2>2. /\ pos[c][p] <= Len(log[p]) /\ committed[c][p] <= Len(log[p])
        /\ pc[c] # "joining" => committed[c][p] <= pos[c][p]
    BY DEF PlaceInv, PositionOK
  <2> QED BY <2>1, <2>2, OffsetTypes
<1>4. PlacedOK'
  <2> SUFFICES ASSUME NEW p \in Partitions, NEW i \in 1..Len(log'[p])
      PROVE  Partition(log'[p][i]) = p
    BY DEF PlacedOK, Partition
  <2>1. \A j \in 1..Len(log'[p]) :
           j \in 1..Len(log[p]) \/ (log'[p][j] = m /\ p = Partition(m))
    BY <1>2, LogGrows
  <2>2. \A j \in 1..Len(log[p]) : log'[p][j] = log[p][j]
    BY <1>2, LogGrows
  <2> QED BY <2>1, <2>2 DEF PlaceInv, PlacedOK
<1>5. HandedOK'
  <2> SUFFICES ASSUME BeforePut PROVE HandedOK'
    BY <1>1 DEF HandedOK, BeforePut
  <2> DEFINE p == Partition(cur["chat"])
             n == pos["chat"][p]
  <2>1. p \in Partitions BY HandedTypes
  <2>2. n \in 1..Len(log[p]) /\ log[p][n] = cur["chat"]
    <3>1. n \in Nat /\ Len(log[p]) \in Nat BY <2>1, OffsetTypes DEF Consumers
    <3>2. n > 0 /\ log[p][n] = cur["chat"] BY DEF PlaceInv, HandedOK
    <3>3. n <= Len(log[p]) BY <2>1 DEF PlaceInv, PositionOK, Consumers
    <3> QED BY <3>1, <3>2, <3>3
  <2>3. log'[p][n] = log[p][n] BY <1>2, <2>1, <2>2, LogGrows
  <2> QED BY <1>1, <2>2, <2>3 DEF HandedOK, Partition
<1> QED BY <1>3, <1>4, <1>5 DEF PlaceInv

\* A poll moves one position by one, and what it hands over is the entry there.
LEMMA PlacePoll ==
    ASSUME TypeInv, PlaceInv, NEW c \in Consumers, NEW p \in Partitions, Poll(c, p)
    PROVE  PlaceInv'
<1> DEFINE m == log[p][pos[c][p] + 1]
<1>1. /\ UNCHANGED <<log, committed>> /\ pc[c] = "poll" /\ pos[c][p] < Len(log[p])
      /\ \A d \in Consumers : d # c => cur'[d] = cur[d] /\ pc'[d] = pc[d]
      /\ pc'[c] # "joining"
      /\ c = "chat" => ~Handles(c, m) \/ cur'[c] = m
      /\ ~Handles(c, m) => pc'[c] = "poll"
  BY DEF Poll, FirstStep, TypeInv, TypeOK, LoopTypeOK
<1>2. \A d \in Consumers : \A q \in Partitions :
         pos'[d][q] = IF d = c /\ q = p THEN pos[d][q] + 1 ELSE pos[d][q]
  BY DEF Poll, TypeInv, TypeOK, LoopTypeOK
<1>3. PositionOK'
  <2> SUFFICES ASSUME NEW d \in Consumers, NEW q \in Partitions
      PROVE  /\ pos'[d][q] <= Len(log[q])
             /\ committed[d][q] <= Len(log[q])
             /\ pc'[d] # "joining" => committed[d][q] <= pos'[d][q]
    BY <1>1 DEF PositionOK
  <2>1. /\ pos[d][q] <= Len(log[q]) /\ committed[d][q] <= Len(log[q])
        /\ pc[d] # "joining" => committed[d][q] <= pos[d][q]
    BY DEF PlaceInv, PositionOK
  <2>2. pc'[d] # "joining" => pc[d] # "joining" BY <1>1
  <2> QED BY <1>1, <1>2, <2>1, <2>2, OffsetTypes
<1>4. PlacedOK' BY <1>1 DEF PlaceInv, PlacedOK, Partition
<1>5. Partition(m) = p
  <2>1. pos[c][p] + 1 \in 1..Len(log[p]) BY <1>1, OffsetTypes
  <2> QED BY <2>1 DEF PlaceInv, PlacedOK
<1>6. HandedOK'
  <2> SUFFICES ASSUME BeforePut' PROVE HandedOK'
    BY DEF HandedOK
  <2>1. CASE c = "chat"
    <3>1. Handles(c, m) /\ cur'["chat"] = m BY <1>1, <2>1 DEF BeforePut
    <3>2. pos'["chat"][p] = pos[c][p] + 1 BY <1>2, <2>1
    <3>3. pos'["chat"][p] > 0 BY <3>2, OffsetTypes
    <3>4. log'[p][pos'["chat"][p]] = m BY <1>1, <3>2
    <3> HIDE DEF m
    <3> QED BY <1>5, <3>1, <3>3, <3>4 DEF HandedOK, Partition
  <2>2. CASE c = "user"
    <3>1. UNCHANGED <<pc["chat"], cur["chat"], log>> BY <1>1, <2>2 DEF Consumers
    <3>2. BeforePut BY <3>1 DEF BeforePut
    <3>3. Partition(cur["chat"]) \in Partitions BY <3>2, HandedTypes
    <3>4. \A q \in Partitions : pos'["chat"][q] = pos["chat"][q]
      BY <1>2, <2>2 DEF Consumers
    <3> QED BY <3>1, <3>2, <3>3, <3>4 DEF PlaceInv, HandedOK, Partition
  <2> QED BY <2>1, <2>2 DEF Consumers
<1> QED BY <1>3, <1>4, <1>6 DEF PlaceInv

\* Every step keeps the offsets within the log, each entry in the partition of
\* its key, and the message in hand at the position of its loop.
LEMMA PlaceStep == TypeInv /\ TypeInv' /\ PlaceInv /\ [Next]_vars => PlaceInv'
<1> USE StoreAssumption, PipelineAssumption
<1> SUFFICES ASSUME TypeInv, TypeInv', PlaceInv, [Next]_vars PROVE PlaceInv'
  OBVIOUS
<1> USE DEF PlaceInv, PositionOK, PlacedOK, HandedOK, BeforePut, TypeInv, TypeOK,
            LogTypeOK, LoopTypeOK, LoopOK, Consumers, NoMsg, NoOffset,
            storeVars, consumerVars, ghostVars, countVars
<1>1. ASSUME NEW m \in Ids, Produce(m) PROVE PlaceInv'
  BY <1>1, PlaceProduce
<1>2. ASSUME NEW c \in Consumers, Join(c) PROVE PlaceInv'
  <2>1. PositionOK' BY <1>2 DEF Join
  <2>2. PlacedOK' BY <1>2 DEF Join, Partition
  <2>3. HandedOK' BY <1>2 DEF Join, Partition
  <2> QED BY <2>1, <2>2, <2>3
<1>3. ASSUME NEW c \in Consumers, NEW p \in Partitions, Poll(c, p) PROVE PlaceInv'
  BY <1>3, PlacePoll
<1>4. ASSUME PushWindow PROVE PlaceInv'
  BY <1>4 DEF PushWindow, Partition
<1>5. ASSUME NEW c \in Consumers, SavePrimary(c) PROVE PlaceInv'
  BY <1>5 DEF SavePrimary, Partition
<1>6. ASSUME NEW c \in Consumers, SaveIndex(c) PROVE PlaceInv'
  BY <1>6 DEF SaveIndex, Partition
<1>7. ASSUME NEW c \in Consumers, SaveFails(c) PROVE PlaceInv'
  BY <1>7 DEF SaveFails, Partition
<1>8. ASSUME NEW c \in Consumers, Publish(c) PROVE PlaceInv'
  BY <1>8 DEF Publish, Partition
<1>9. ASSUME NEW c \in Consumers, NEW p \in Partitions, AutoCommit(c, p) PROVE PlaceInv'
  BY <1>9 DEF AutoCommit, Partition
<1>10. ASSUME NEW ch \in Chats, DelStart(ch) PROVE PlaceInv'
  BY <1>10 DEF DelStart, Partition
<1>11. ASSUME DelScanPrimary \/ DelOpenIndex \/ (\E m \in Ids : DelVisit(m)) \/ DelWrite \/ DelFails
       PROVE PlaceInv'
  BY <1>11 DEF DelScanPrimary, DelOpenIndex, DelVisit, DelWrite, DelFails, Partition
<1>12. ASSUME Crash PROVE PlaceInv'
  BY <1>12 DEF Crash, Partition
<1>13. ASSUME UNCHANGED vars PROVE PlaceInv'
  BY <1>13 DEF vars, Partition
<1> QED
  BY <1>1, <1>2, <1>3, <1>4, <1>5, <1>6, <1>7, <1>8, <1>9, <1>10, <1>11, <1>12,
     <1>13 DEF Next, ConsumerStep, DeleteStep
-----------------------------------------------------------------------------
\* What became of a message of the chat group: stored, deleted by a request,
\* or the price of a failure.
Persisted(m) == Present(m) \/ m \in erased \/ m \in dropped

\* Entry i of partition p is the one the chat consumer has not put yet.
Awaited(p, i) ==
    BeforePut /\ p = Partition(cur["chat"]) /\ i = pos["chat"][p]

\* Position by position, which ConsumedIsPersisted is not: with a second copy
\* of the message in hand earlier in the log, that copy must be accounted for
\* before the crash, not by the message in hand.
HandledOK ==
    \A p \in Partitions : \A i \in 1..Seen("chat", p) : \A m \in Ids :
        log[p][i] = m /\ Valid(m) /\ ~Awaited(p, i) => Persisted(m)

\* The chat group is never past the end of a partition.
LEMMA SeenBounds ==
    ASSUME TypeInv, PlaceInv, NEW p \in Partitions
    PROVE  /\ Seen("chat", p) \in Nat
           /\ Seen("chat", p) <= Len(log[p])
<1>1. "chat" \in Consumers BY DEF Consumers
<1> QED BY <1>1, OffsetTypes DEF PlaceInv, PositionOK, Seen, NoOffset

\* What the chat group is past is an entry of the log, and a message.
LEMMA SeenEntry ==
    ASSUME TypeInv, PlaceInv, NEW p \in Partitions, NEW i \in 1..Seen("chat", p)
    PROVE  i \in 1..Len(log[p]) /\ log[p][i] \in Ids
<1>1. "chat" \in Consumers BY DEF Consumers
<1>2. i \in 1..Len(log[p]) BY <1>1, SeenBounds, OffsetTypes
<1>3. log[p] \in Seq(Ids) BY <1>1, OffsetTypes
<1> QED BY <1>2, <1>3

\* A step that leaves the log, the positions and the loop's place before or
\* after the put alone, and takes nothing away from Persisted.
LEMMA HandledFrame ==
    ASSUME HandledOK, UNCHANGED <<log, pos>>,
           \A p \in Partitions : Seen("chat", p)' = Seen("chat", p),
           BeforePut' <=> BeforePut, BeforePut => UNCHANGED cur["chat"],
           \A m \in Ids : Persisted(m) => Persisted(m)'
    PROVE  HandledOK'
<1> SUFFICES ASSUME NEW p \in Partitions, NEW i \in 1..Seen("chat", p), NEW m \in Ids,
                    log[p][i] = m, Valid(m), ~Awaited(p, i)'
    PROVE  Persisted(m)'
  BY DEF HandledOK, Valid
<1>1. ~Awaited(p, i) BY DEF Awaited, Partition
<1>2. Persisted(m) BY <1>1 DEF HandledOK
<1> QED BY <1>2

\* The put of the message in hand succeeds, or fails and is given up.
LEMMA HandledPut ==
    ASSUME HandledOK, HandedOK, UNCHANGED <<log, pos>>,
           \A p \in Partitions : Seen("chat", p)' = Seen("chat", p),
           BeforePut, ~BeforePut',
           \A m \in Ids : Persisted(m) \/ m = cur["chat"] => Persisted(m)'
    PROVE  HandledOK'
<1> SUFFICES ASSUME NEW p \in Partitions, NEW i \in 1..Seen("chat", p), NEW m \in Ids,
                    log[p][i] = m, Valid(m)
    PROVE  Persisted(m)'
  BY DEF HandledOK, Valid
<1>1. CASE Awaited(p, i)
  <2>1. m = cur["chat"] BY <1>1 DEF Awaited, HandedOK
  <2> QED BY <2>1
<1>2. CASE ~Awaited(p, i)
  <2>1. Persisted(m) BY <1>2 DEF HandledOK
  <2> QED BY <2>1
<1> QED BY <1>1, <1>2

\* The next entry is handed over: awaited, or skipped because it is invalid.
LEMMA HandledPoll ==
    ASSUME TypeInv, PlaceInv, PlaceInv', TypeInv', HandledOK,
           NEW p \in Partitions, Poll("chat", p)
    PROVE  HandledOK'
<1> DEFINE n == pos["chat"][p] + 1
<1>1. /\ UNCHANGED <<log, primary, erased, dropped>>
      /\ pc["chat"] = "poll" /\ pc'["chat"] # "joining"
      /\ \/ ~Handles("chat", log[p][n])
         \/ BeforePut' /\ cur'["chat"] = log[p][n]
  BY DEF Poll, FirstStep, TypeInv, TypeOK, LoopTypeOK, storeVars, ghostVars, Consumers, BeforePut
<1>2. \A q \in Partitions :
         pos'["chat"][q] = IF q = p THEN n ELSE pos["chat"][q]
  BY DEF Poll, TypeInv, TypeOK, LoopTypeOK, Consumers
<1>3. pos["chat"][p] \in Nat /\ n \in 1..Len(log[p])
  <2>1. pos["chat"][p] < Len(log[p]) BY DEF Poll
  <2> QED BY <2>1, OffsetTypes DEF Consumers
<1>4. \A q \in Partitions : Seen("chat", q)' = IF q = p THEN n ELSE Seen("chat", q)
  BY <1>1, <1>2 DEF Seen
<1>5. Seen("chat", p) = pos["chat"][p] BY <1>1 DEF Seen
<1> SUFFICES ASSUME NEW q \in Partitions, NEW i \in 1..Seen("chat", q)', NEW m \in Ids,
                    log[q][i] = m, Valid(m), ~Awaited(q, i)'
    PROVE  Persisted(m)'
  BY <1>1 DEF HandledOK, Valid
<1>6. Persisted(m)' <=> Persisted(m) BY <1>1 DEF Persisted, Present
<1>7. CASE q = p /\ i = n
  <2>1. Handles("chat", log[p][n]) BY <1>7 DEF Handles
  <2>2. BeforePut' /\ cur'["chat"] = m BY <1>1, <1>7, <2>1
  <2>3. Partition(m) = p BY <1>3, <1>7 DEF PlaceInv, PlacedOK
  <2>4. Awaited(q, i)' BY <1>2, <1>7, <2>2, <2>3 DEF Awaited, Partition
  <2> QED BY <2>4
<1>8. CASE ~(q = p /\ i = n)
  <2>1. i \in 1..Seen("chat", q) BY <1>3, <1>4, <1>5, <1>8
  <2>2. ~Awaited(q, i) BY <1>1 DEF Awaited, BeforePut
  <2>3. Persisted(m) BY <2>1, <2>2 DEF HandledOK
  <2> QED BY <1>6, <2>3
<1> QED BY <1>7, <1>8

\* After a crash the group resumes at its committed offsets: what is below
\* them was stored or given up, but for the message in hand, and that one is
\* dropped when its offset had been committed.
LEMMA HandledCrash ==
    ASSUME TypeInv, PlaceInv, HandledOK, Crash
    PROVE  HandledOK'
<1>1. /\ UNCHANGED <<log, primary, erased, committed>>
      /\ pc'["chat"] = "joining"
      /\ dropped' = IF CommittedTooEarly THEN dropped \cup {cur["chat"]} ELSE dropped
  BY DEF Crash, storeVars, Consumers
<1>2. \A q \in Partitions : Seen("chat", q)' =
          IF committed["chat"][q] = NoOffset THEN 0 ELSE committed["chat"][q]
  BY <1>1 DEF Seen
<1> SUFFICES ASSUME NEW p \in Partitions, NEW i \in 1..Seen("chat", p)', NEW m \in Ids,
                    log[p][i] = m, Valid(m)
    PROVE  Persisted(m)'
  BY <1>1 DEF HandledOK, Valid
<1>3. /\ pos["chat"][p] \in Nat /\ committed["chat"][p] \in Nat \cup {-1}
      /\ pc["chat"] # "joining" => committed["chat"][p] <= pos["chat"][p]
  BY OffsetTypes DEF PlaceInv, PositionOK, Consumers
<1>4. i \in 1..Seen("chat", p) /\ (pc["chat"] # "joining" => i <= committed["chat"][p])
  BY <1>2, <1>3 DEF Seen, NoOffset
<1>5. CASE ~Awaited(p, i)
  <2>1. Persisted(m) BY <1>4, <1>5 DEF HandledOK
  <2> QED BY <1>1, <2>1 DEF Persisted, Present
<1>6. CASE Awaited(p, i)
  <2>1. m = cur["chat"] BY <1>6 DEF Awaited, PlaceInv, HandedOK
  <2>2. committed["chat"][p] = pos["chat"][p] BY <1>3, <1>4, <1>6 DEF Awaited, BeforePut
  <2>3. CommittedTooEarly BY <1>6, <2>2 DEF Awaited, BeforePut, CommittedTooEarly
  <2> QED BY <1>1, <2>1, <2>3 DEF Persisted
<1> QED BY <1>5, <1>6

\* A new entry is beyond what the chat group is past.
LEMMA HandledProduce ==
    ASSUME TypeInv, PlaceInv, HandledOK, NEW m \in Ids, Produce(m)
    PROVE  HandledOK'
<1>1. UNCHANGED <<primary, erased, dropped, pc, pos, cur, committed>>
  BY DEF Produce, storeVars, consumerVars, ghostVars
<1> SUFFICES ASSUME NEW p \in Partitions, NEW i \in 1..Seen("chat", p), NEW n \in Ids,
                    log'[p][i] = n, Valid(n), ~Awaited(p, i)
    PROVE  Persisted(n)
  BY <1>1 DEF HandledOK, Valid, Seen, Awaited, BeforePut, Partition, Persisted, Present
<1>2. i \in 1..Len(log[p]) BY SeenEntry
<1>3. log'[p][i] = log[p][i] BY <1>2, LogGrows DEF TypeInv
<1> QED BY <1>3 DEF HandledOK

\* Every step keeps every valid entry the chat group is past persisted, deleted
\* or dropped, the one awaiting its put excepted.
LEMMA HandledStep ==
    TypeInv /\ TypeInv' /\ PlaceInv /\ PlaceInv' /\ HandledOK /\ [Next]_vars => HandledOK'
<1> SUFFICES ASSUME TypeInv, TypeInv', PlaceInv, PlaceInv', HandledOK, [Next]_vars
    PROVE  HandledOK'
  OBVIOUS
<1> USE DEF storeVars, consumerVars, ghostVars
<1> DEFINE SameSeen == \A p \in Partitions : Seen("chat", p)' = Seen("chat", p)
           KeepsAll == \A m \in Ids : Persisted(m) => Persisted(m)'
<1>0. /\ pc \in [Consumers -> PC] /\ cur \in [Consumers -> Ids \cup {NoMsg}]
      /\ pos \in [Consumers -> [Partitions -> Nat]]
      /\ committed \in [Consumers -> [Partitions -> Nat \cup {NoOffset}]]
      /\ primary \in [Ids -> Record]
  BY DEF TypeInv, TypeOK, LoopTypeOK, LogTypeOK, StoreTypeOK
<1>1. ASSUME NEW m \in Ids, Produce(m) PROVE HandledOK'
  BY <1>1, HandledProduce
<1>2. ASSUME NEW c \in Consumers, Join(c) PROVE HandledOK'
  <2>1. SameSeen
    BY <1>0, <1>2 DEF Join, Seen, Consumers, NoOffset
  <2>2. UNCHANGED <<log, primary, erased, dropped, cur>> BY <1>2 DEF Join
  <2>3. CASE c = "chat"
    <3>1. ~BeforePut /\ ~BeforePut' BY <1>0, <1>2, <2>3 DEF Join, BeforePut
    <3> QED BY <2>1, <2>2, <3>1 DEF HandledOK, Awaited, Persisted, Present, Valid
  <2>4. CASE c # "chat"
    <3>1. pc'["chat"] = pc["chat"] /\ pos'["chat"] = pos["chat"]
      BY <1>0, <1>2, <2>4 DEF Join, Consumers
    <3> QED BY <2>1, <2>2, <3>1
            DEF HandledOK, Awaited, BeforePut, Persisted, Present, Valid, Partition
  <2> QED BY <2>3, <2>4
<1>3. ASSUME NEW c \in Consumers, NEW p \in Partitions, Poll(c, p) PROVE HandledOK'
  <2>1. CASE c = "chat" BY <1>3, <2>1, HandledPoll
  <2>2. CASE c # "chat"
    <3>1. pc'["chat"] = pc["chat"] /\ cur'["chat"] = cur["chat"] /\ pos'["chat"] = pos["chat"]
      BY <1>0, <1>3, <2>2 DEF Poll, Consumers
    <3>2. UNCHANGED <<log, primary, erased, dropped, committed>> BY <1>3 DEF Poll
    <3> QED BY <3>1, <3>2
            DEF HandledOK, Seen, Awaited, BeforePut, Persisted, Present, Valid, Partition
  <2> QED BY <2>1, <2>2
<1>4. ASSUME PushWindow PROVE HandledOK'
  <2>1. SameSeen BY <1>0, <1>4 DEF PushWindow, Seen, Consumers
  <2>2. KeepsAll BY <1>4 DEF PushWindow, Persisted, Present
  <2>3. BeforePut' <=> BeforePut BY <1>0, <1>4 DEF PushWindow, BeforePut, Consumers
  <2> QED BY <1>4, <2>1, <2>2, <2>3, HandledFrame DEF PushWindow
<1>5. ASSUME NEW c \in Consumers, SavePrimary(c) PROVE HandledOK'
  <2>1. SameSeen BY <1>0, <1>5 DEF SavePrimary, Seen, Consumers
  <2>2. \A m \in Ids : Persisted(m) \/ m = cur[c] => Persisted(m)'
    BY <1>0, <1>5 DEF SavePrimary, PutPrimary, Persisted, Present, Consumers, Record
  <2>3. CASE c = "chat"
    <3>1. BeforePut /\ ~BeforePut' BY <1>0, <1>5, <2>3 DEF SavePrimary, BeforePut
    <3> QED BY <1>5, <2>1, <2>2, <2>3, <3>1, HandledPut DEF SavePrimary, PlaceInv
  <2>4. CASE c # "chat"
    <3>1. BeforePut' <=> BeforePut BY <1>0, <1>5, <2>4 DEF SavePrimary, BeforePut, Consumers
    <3> QED BY <1>5, <2>1, <2>2, <3>1, HandledFrame DEF SavePrimary
  <2> QED BY <2>3, <2>4
<1>6. ASSUME NEW c \in Consumers, SaveIndex(c) PROVE HandledOK'
  <2>1. SameSeen BY <1>0, <1>6 DEF SaveIndex, Seen, Consumers
  <2>2. KeepsAll BY <1>6 DEF SaveIndex, Persisted, Present
  <2>3. BeforePut' <=> BeforePut BY <1>0, <1>6 DEF SaveIndex, BeforePut, Consumers
  <2> QED BY <1>6, <2>1, <2>2, <2>3, HandledFrame DEF SaveIndex
<1>7. ASSUME NEW c \in Consumers, SaveFails(c) PROVE HandledOK'
  <2>1. SameSeen BY <1>0, <1>7 DEF SaveFails, Seen, Consumers
  <2>2. KeepsAll BY <1>7 DEF SaveFails, Persisted, Present
  <2>3. CASE c = "chat" /\ BeforePut
    <3>1. pc["chat"] = "primary" BY <1>7, <2>3 DEF SaveFails, BeforePut
    <3>2. ~BeforePut' BY <1>0, <1>7, <2>3 DEF SaveFails, BeforePut
    <3>3. Persisted(cur["chat"])'
      BY <1>7, <2>3, <3>1 DEF SaveFails, Persisted
    <3>4. \A m \in Ids : Persisted(m) \/ m = cur["chat"] => Persisted(m)'
      BY <1>7, <2>2, <2>3, <3>1 DEF SaveFails, Persisted
    <3> QED BY <1>7, <2>1, <2>3, <3>2, <3>4, HandledPut DEF SaveFails, PlaceInv
  <2>4. CASE ~(c = "chat" /\ BeforePut)
    <3>1. BeforePut' <=> BeforePut BY <1>0, <1>7, <2>4 DEF SaveFails, BeforePut, Consumers
    <3> QED BY <1>7, <2>1, <2>2, <3>1, HandledFrame DEF SaveFails
  <2> QED BY <2>3, <2>4
<1>8. ASSUME NEW c \in Consumers, Publish(c) PROVE HandledOK'
  <2>1. SameSeen BY <1>0, <1>8 DEF Publish, Seen, Consumers
  <2>2. KeepsAll BY <1>8 DEF Publish, Persisted, Present
  <2>3. BeforePut' <=> BeforePut BY <1>0, <1>8 DEF Publish, BeforePut, Consumers
  <2>4. BeforePut => UNCHANGED cur["chat"] BY <1>0, <1>8 DEF Publish, BeforePut, Consumers
  <2> QED BY <1>8, <2>1, <2>2, <2>3, <2>4, HandledFrame DEF Publish
<1>9. ASSUME NEW c \in Consumers, NEW p \in Partitions, AutoCommit(c, p) PROVE HandledOK'
  <2>1. SameSeen BY <1>0, <1>9 DEF AutoCommit, Seen, Consumers
  <2>2. KeepsAll BY <1>9 DEF AutoCommit, Persisted, Present
  <2> QED BY <1>9, <2>1, <2>2, HandledFrame DEF AutoCommit, BeforePut
<1>10. ASSUME NEW ch \in Chats, DelStart(ch) PROVE HandledOK'
  <2>1. SameSeen BY <1>10 DEF DelStart, Seen
  <2>2. KeepsAll BY <1>10 DEF DelStart, Persisted, Present
  <2> QED BY <1>10, <2>1, <2>2, HandledFrame DEF DelStart, BeforePut
<1>11. ASSUME DelScanPrimary \/ DelOpenIndex \/ (\E m \in Ids : DelVisit(m)) \/ DelWrite \/ DelFails
       PROVE HandledOK'
  <2>1. UNCHANGED <<log, consumerVars>>
    BY <1>11 DEF DelScanPrimary, DelOpenIndex, DelVisit, DelWrite, DelFails
  <2>2. KeepsAll
    <3>1. CASE DelWrite BY <3>1 DEF DelWrite, WriteBatch, Persisted, Present
    <3>2. CASE ~DelWrite
      BY <1>11, <3>2 DEF DelScanPrimary, DelOpenIndex, DelVisit, DelFails, Persisted, Present
    <3> QED BY <3>1, <3>2
  <2>3. SameSeen BY <2>1 DEF Seen
  <2> QED BY <2>1, <2>2, <2>3, HandledFrame DEF BeforePut
<1>12. ASSUME Crash PROVE HandledOK'
  BY <1>12, HandledCrash
<1>13. ASSUME UNCHANGED vars PROVE HandledOK'
  BY <1>13 DEF vars, HandledOK, Seen, Awaited, BeforePut, Persisted, Present, Valid, Partition
<1> QED
  BY <1>1, <1>2, <1>3, <1>4, <1>5, <1>6, <1>7, <1>8, <1>9, <1>10, <1>11, <1>12,
     <1>13 DEF Next, ConsumerStep, DeleteStep
-----------------------------------------------------------------------------
\* The inductive invariant behind Persistence.
PersistInv == TypeInv /\ PlaceInv /\ HandledOK

\* Nothing is consumed in the initial state.
LEMMA PersistInit == Init => PersistInv
<1> SUFFICES ASSUME Init PROVE PersistInv
  OBVIOUS
<1>1. TypeInv BY TypeInit
<1>2. PlaceInv
  BY DEF Init, PlaceInv, PositionOK, PlacedOK, HandedOK, BeforePut, Consumers, NoOffset
<1>3. HandledOK BY DEF Init, HandledOK, Seen, Consumers
<1> QED BY <1>1, <1>2, <1>3 DEF PersistInv

\* The three parts together are inductive.
LEMMA PersistAlways == Spec => []PersistInv
<1>1. PersistInv /\ [Next]_vars => PersistInv'
  BY TypeStep, PlaceStep, HandledStep DEF PersistInv
<1> QED BY <1>1, PersistInit, PTL DEF Spec

\* The inductive invariant implies the property: the entry that awaits its put
\* is one the property calls unstored.
LEMMA PersistImplies == PersistInv => ConsumedIsPersisted
<1> SUFFICES ASSUME PersistInv, NEW p \in Partitions, NEW i \in 1..Seen("chat", p),
                    NEW m, m = log[p][i], Valid(m)
    PROVE  Present(m) \/ m \in erased \/ Unstored(m) \/ m \in dropped
  BY DEF ConsumedIsPersisted
<1>1. m \in Ids BY SeenEntry DEF PersistInv
<1>2. CASE Awaited(p, i)
  BY <1>2 DEF PersistInv, PlaceInv, HandedOK, Awaited, BeforePut, Unstored
<1>3. CASE ~Awaited(p, i)
  BY <1>1, <1>3 DEF PersistInv, HandledOK, Persisted
<1> QED BY <1>2, <1>3

\* Every valid message the chat group has moved past is stored, was deleted by
\* a request, is still before its put, or is one of those a failure cost.
THEOREM Persistence == Spec => []ConsumedIsPersisted
BY PersistAlways, PersistImplies, PTL

\* Every step that drops a message is a crash or a failed put, and drops one.
DropCount == IsFiniteSet(dropped) /\ Cardinality(dropped) <= crashes + faults

\* A bound by a sum survives the growth of either summand.
LEMMA SumGrows ==
    ASSUME NEW n \in Nat, NEW x \in Nat, NEW y \in Nat, NEW u \in Nat, NEW v \in Nat,
           n <= x + y, x <= u, y <= v
    PROVE  n <= u + v
  OBVIOUS

\* Only a crash and a failed put drop a message, one each, and each is counted.
LEMMA DropStep == TypeInv /\ TypeInv' /\ DropCount /\ [Next]_vars => DropCount'
<1> SUFFICES ASSUME TypeInv, TypeInv', DropCount, [Next]_vars PROVE DropCount'
  OBVIOUS
<1>1. crashes \in Nat /\ faults \in Nat
  BY PipelineAssumption DEF TypeInv, TypeOK, CountTypeOK
<1> DEFINE Drops(m) == dropped' = dropped \cup {m} /\ crashes' + faults' = crashes + faults + 1
           Keeps == dropped' = dropped /\ crashes' >= crashes /\ faults' >= faults
<1> USE DEF vars, storeVars, consumerVars, ghostVars, countVars
<1>2. ASSUME NEW c \in Consumers, SaveFails(c) PROVE Keeps \/ Drops(cur[c])
  <2>1. faults' = faults + 1 /\ crashes' = crashes BY <1>2 DEF SaveFails
  <2>2. dropped' = dropped \/ dropped' = dropped \cup {cur[c]} BY <1>2 DEF SaveFails
  <2> QED BY <1>1, <2>1, <2>2
<1>3. ASSUME Crash PROVE Keeps \/ Drops(cur["chat"])
  <2>1. crashes' = crashes + 1 /\ faults' = faults BY <1>3 DEF Crash
  <2>2. dropped' = dropped \/ dropped' = dropped \cup {cur["chat"]} BY <1>3 DEF Crash
  <2> QED BY <1>1, <2>1, <2>2
<1>4. ASSUME DelFails PROVE Keeps
  <2>1. faults' = faults + 1 /\ crashes' = crashes /\ dropped' = dropped
    BY <1>4 DEF DelFails
  <2> QED BY <1>1, <2>1
<1>5. ASSUME UNCHANGED <<dropped, crashes, faults>> PROVE Keeps
  BY <1>1, <1>5
<1>6. Keeps \/ (\E m : Drops(m))
  <2>1. CASE \E c \in Consumers : SaveFails(c) BY <2>1, <1>2
  <2>2. CASE Crash BY <2>2, <1>3
  <2>3. CASE DelFails BY <2>3, <1>4
  <2>4. ASSUME ~(\E c \in Consumers : SaveFails(c)), ~Crash, ~DelFails
        PROVE  UNCHANGED <<dropped, crashes, faults>>
    BY <2>4 DEF Next, ConsumerStep, DeleteStep, Produce, Join, Poll, PushWindow,
         SavePrimary, SaveIndex, Publish, AutoCommit, DelStart,
         DelScanPrimary, DelOpenIndex, DelVisit, DelWrite
  <2> QED BY <2>1, <2>2, <2>3, <2>4, <1>5
<1>7. Cardinality(dropped) \in Nat BY FS_CardinalityType DEF DropCount
<1>8. ASSUME NEW m, Drops(m) PROVE DropCount'
  <2>1. /\ IsFiniteSet(dropped \cup {m})
        /\ Cardinality(dropped \cup {m}) = IF m \in dropped THEN Cardinality(dropped)
                                           ELSE Cardinality(dropped) + 1
    BY FS_AddElement DEF DropCount
  <2>2. Cardinality(dropped \cup {m}) <= crashes' + faults'
    BY <1>1, <1>7, <1>8, <2>1 DEF DropCount
  <2> QED BY <1>8, <2>1, <2>2 DEF DropCount
<1>9. ASSUME Keeps PROVE DropCount'
  <2>1. crashes' \in Nat /\ faults' \in Nat
    BY PipelineAssumption DEF TypeInv, TypeOK, CountTypeOK
  <2>2. Cardinality(dropped) <= crashes' + faults'
    <3>1. Cardinality(dropped) <= crashes + faults BY DEF DropCount
    <3>2. crashes <= crashes' /\ faults <= faults' BY <1>9
    <3> QED BY <1>1, <1>7, <2>1, <3>1, <3>2, SumGrows
  <2> QED BY <1>9, <2>2 DEF DropCount
<1> QED BY <1>6, <1>8, <1>9

\* A message that was consumed and is nowhere is one of those dropped.
LEMMA LostIsDropped == PersistInv => Lost \subseteq dropped
BY PersistImplies DEF ConsumedIsPersisted, Lost

\* However the consumers, the offset timer, the deletes and the failures
\* interleave, no more messages are lost than there were failures.
THEOREM LossBounded == Spec => []LossIsBounded
<1>1. Init => DropCount
  <2> SUFFICES ASSUME Init PROVE DropCount
    OBVIOUS
  <2> QED BY FS_EmptySet DEF Init, DropCount
<1>2. PersistInv /\ DropCount => LossIsBounded
  <2> SUFFICES ASSUME PersistInv, DropCount PROVE LossIsBounded
    OBVIOUS
  <2>1. crashes \in Nat /\ faults \in Nat
    BY PipelineAssumption DEF PersistInv, TypeInv, TypeOK, CountTypeOK
  <2>2. IsFiniteSet(Lost) /\ Cardinality(Lost) <= Cardinality(dropped)
    BY LostIsDropped, FS_Subset DEF DropCount
  <2> QED BY <2>1, <2>2, FS_CardinalityType DEF DropCount, LossIsBounded
<1>3. PersistInv => TypeInv BY DEF PersistInv
<1> QED BY <1>1, <1>2, <1>3, PersistAlways, DropStep, PTL DEF Spec
-----------------------------------------------------------------------------
(* Deletes.                                                                *)

\* The batch a delete writes holds records of its own chat only.
BatchOK == \A m \in del.batchP : ChatOf[m] = del.chat

\* The scan fills the batch, and the request fixes the chat before it.
LEMMA BatchStep == TypeInv /\ BatchOK /\ [Next]_vars => BatchOK'
<1> SUFFICES ASSUME TypeInv, BatchOK, [Next]_vars PROVE BatchOK'
  OBVIOUS
<1> USE DEF BatchOK, TypeInv, TypeOK, DelTypeOK, vars
<1>1. CASE UNCHANGED <<del.batchP, del.chat>>
  BY <1>1
<1>2. CASE DelScanPrimary
  BY <1>2 DEF DelScanPrimary, RecordsOf
<1>3. CASE \E ch \in Chats : DelStart(ch)
  BY <1>3 DEF DelStart
<1>4. CASE Crash
  BY <1>4 DEF Crash, NoDelete
<1>5. ASSUME ~UNCHANGED <<del.batchP, del.chat>>
      PROVE  DelScanPrimary \/ (\E ch \in Chats : DelStart(ch)) \/ Crash
  BY <1>5 DEF Next, ConsumerStep, DeleteStep, Produce, Join, Poll, PushWindow,
       SavePrimary, SaveIndex, SaveFails, Publish, AutoCommit,
       DelOpenIndex, DelVisit, DelWrite, DelFails
<1> QED BY <1>1, <1>2, <1>3, <1>4, <1>5

\* A record leaves messages_by_id in one way only: the batch of a delete of its
\* own chat is written.  No save, failed put or crash removes one.
THEOREM OnlyADeleteErases == Spec => OnlyDeleteErases
<1>1. Init => BatchOK
  BY DEF Init, BatchOK, NoDelete
<1>2. TypeInv /\ BatchOK /\ [Next]_vars =>
          [\A m \in Ids : Present(m) /\ ~Present(m)' =>
              del.step = "visiting" /\ del'.step = "done" /\ ChatOf[m] = del.chat]_vars
  <2> DEFINE Erases == \A m \in Ids : Present(m) /\ ~Present(m)' =>
               del.step = "visiting" /\ del'.step = "done" /\ ChatOf[m] = del.chat
  <2> SUFFICES ASSUME TypeInv, BatchOK, [Next]_vars PROVE Erases \/ UNCHANGED vars
    OBVIOUS
  <2>0. primary \in [Ids -> Record] BY DEF TypeInv, TypeOK, StoreTypeOK
  <2>1. CASE UNCHANGED primary BY <2>1 DEF Present
  <2>2. ASSUME NEW c \in Consumers, SavePrimary(c) PROVE Erases
    BY <2>0, <2>2 DEF SavePrimary, PutPrimary, Present, Consumers, Record
  <2>3. CASE DelWrite
    <3>1. del'.step = "done" /\ del.step = "visiting"
      BY <2>3 DEF DelWrite, TypeInv, TypeOK, DelTypeOK
    <3>2. \A m \in Ids : primary'[m] = IF m \in del.batchP THEN "absent" ELSE primary[m]
      BY <2>3 DEF DelWrite, WriteBatch
    <3> QED BY <3>1, <3>2 DEF BatchOK, Present
  <2>4. ASSUME ~UNCHANGED primary
        PROVE  (\E c \in Consumers : SavePrimary(c)) \/ DelWrite
    BY <2>4 DEF Next, ConsumerStep, DeleteStep, Produce, Join, Poll, PushWindow,
         SaveIndex, SaveFails, Publish, AutoCommit, DelStart, DelScanPrimary,
         DelOpenIndex, DelVisit, DelFails, Crash, vars, storeVars
  <2> QED BY <2>1, <2>2, <2>3, <2>4
<1> QED BY <1>1, <1>2, BatchStep, TypeInit, TypeStep, PTL DEF Spec, OnlyDeleteErases

\* While a delete that started when its chat was settled is not disturbed, the
\* chat stays settled, its window stays empty, the scan misses no record, and
\* nothing is left after the write.
QuietInv ==
    del.quiet =>
        /\ Settled(del.chat)
        /\ window[del.chat] = <<>>
        /\ del.step \in {"scanned", "visiting"} => RecordsOf(del.chat) \subseteq del.batchP
        /\ del.step = "done" => RecordsOf(del.chat) = {}

\* A chat without records has an empty thread.
LEMMA EmptyThread ==
    ASSUME NEW ch, RecordsOf(ch) = {}
    PROVE  LoadThread(ch) = <<>>
<1>1. index \cap RecordsOf(ch) = {} /\ 1..Cardinality({}) = {} BY FS_EmptySet
<1>2. \A s \in [{} -> {}] : s = <<>> OBVIOUS
<1>3. \E s \in [{} -> {}] : \A i, j \in DOMAIN s : i < j => KeyLess(s[i], s[j])
  <2>1. [i \in {} |-> i] \in [{} -> {}] OBVIOUS
  <2> QED BY <2>1
<1> QED BY <1>1, <1>2, <1>3 DEF LoadThread, InOrder

\* What any consumer is past, and the entry a chat is settled at.
LEMMA SeenType ==
    ASSUME TypeInv, NEW c \in Consumers, NEW p \in Partitions
    PROVE  Seen(c, p) \in Nat
BY OffsetTypes DEF Seen, NoOffset

\* The same after a step.
LEMMA SeenTypeNext ==
    ASSUME TypeInv', NEW c \in Consumers, NEW p \in Partitions
    PROVE  Seen(c, p)' \in Nat
BY DEF Seen, NoOffset, TypeInv, TypeOK, LogTypeOK, LoopTypeOK

\* A settled chat stays settled when no loop takes up a message of it, no offset
\* falls, and the entries that are new are of other chats.
LEMMA SettledFrame ==
    ASSUME TypeInv, TypeInv', NEW ch \in Chats, Settled(ch),
           \A c \in Consumers : cur'[c] # NoMsg /\ cur'[c] # cur[c] => ChatOf[cur'[c]] # ch,
           \A c \in Consumers : Seen(c, PartitionOf[ch]) <= Seen(c, PartitionOf[ch])',
           \A i \in 1..Len(log'[PartitionOf[ch]]) :
               \/ i \in 1..Len(log[PartitionOf[ch]]) /\ log'[PartitionOf[ch]][i] = log[PartitionOf[ch]][i]
               \/ ChatOf[log'[PartitionOf[ch]][i]] # ch
    PROVE  Settled(ch)'
<1> DEFINE p == PartitionOf[ch]
<1>0. p \in Partitions BY PipelineAssumption
<1> SUFFICES ASSUME NEW c \in Consumers
    PROVE  /\ cur'[c] # NoMsg => ChatOf[cur'[c]] # ch
           /\ \A i \in 1..Len(log'[p]) : ChatOf[log'[p][i]] = ch => i <= Seen(c, p)'
  BY DEF Settled
<1>1. cur'[c] # NoMsg => ChatOf[cur'[c]] # ch
  BY DEF Settled
<1>2. ASSUME NEW i \in 1..Len(log'[p]), ChatOf[log'[p][i]] = ch
      PROVE  i <= Seen(c, p)'
  <2>1. i \in 1..Len(log[p]) /\ log'[p][i] = log[p][i] BY <1>2
  <2>2. i <= Seen(c, p) BY <1>2, <2>1 DEF Settled
  <2>3. Seen(c, p) \in Nat /\ Seen(c, p)' \in Nat BY <1>0, SeenType, SeenTypeNext
  <2>4. Seen(c, p) <= Seen(c, p)' OBVIOUS
  <2> HIDE DEF p
  <2>5. i \in Nat BY <2>1, <1>0, OffsetTypes DEF Consumers
  <2> QED BY <2>2, <2>3, <2>4, <2>5
<1> QED BY <1>1, <1>2

\* A poll takes up the first entry beyond what the loop is past: of another chat
\* than a settled one.
LEMMA SettledPoll ==
    ASSUME TypeInv, TypeInv', PlaceInv, NEW ch \in Chats, Settled(ch),
           NEW c \in Consumers, NEW p \in Partitions, Poll(c, p)
    PROVE  Settled(ch)'
<1> DEFINE m == log[p][pos[c][p] + 1]
<1>1. /\ UNCHANGED log /\ pc[c] = "poll"
      /\ \A d \in Consumers : cur'[d] # cur[d] => d = c /\ cur'[c] = m
      /\ \A d \in Consumers : pc[d] # "joining" <=> pc'[d] # "joining"
      /\ UNCHANGED committed
  BY DEF Poll, FirstStep, TypeInv, TypeOK, LoopTypeOK, PC
<1>2. \A d \in Consumers : \A q \in Partitions :
         pos'[d][q] = IF d = c /\ q = p THEN pos[d][q] + 1 ELSE pos[d][q]
  BY DEF Poll, TypeInv, TypeOK, LoopTypeOK
<1>3. pos[c][p] \in Nat /\ pos[c][p] + 1 \in 1..Len(log[p])
  <2>1. pos[c][p] < Len(log[p]) BY DEF Poll
  <2> QED BY <2>1, OffsetTypes
<1>4. ChatOf[m] # ch
  <2> SUFFICES ASSUME ChatOf[m] = ch PROVE FALSE
    OBVIOUS
  <2>1. Partition(m) = p BY <1>3 DEF PlaceInv, PlacedOK
  <2>2. p = PartitionOf[ch] BY <2>1 DEF Partition
  <2>3. pos[c][p] + 1 <= Seen(c, p) BY <1>3, <2>2 DEF Settled
  <2>4. Seen(c, p) = pos[c][p] BY <1>1 DEF Seen
  <2> QED BY <1>3, <2>3, <2>4
<1>5. ASSUME NEW d \in Consumers PROVE Seen(d, PartitionOf[ch]) <= Seen(d, PartitionOf[ch])'
  <2> DEFINE q == PartitionOf[ch]
  <2>1. q \in Partitions BY PipelineAssumption
  <2> HIDE DEF q
  <2>2. pos[d][q] \in Nat /\ pos[d][q] <= pos'[d][q] BY <1>2, <2>1, OffsetTypes
  <2>3. Seen(d, q) <= Seen(d, q)'
    <3>1. CASE pc[d] # "joining" BY <1>1, <2>2, <3>1 DEF Seen
    <3>2. CASE pc[d] = "joining"
      <4>1. Seen(d, q)' = Seen(d, q) BY <1>1, <3>2 DEF Seen
      <4> QED BY <2>1, <4>1, SeenType
    <3> QED BY <3>1, <3>2
  <2> QED BY <2>3 DEF q
<1> HIDE DEF m
<1> QED BY <1>1, <1>4, <1>5, SettledFrame

\* A step that moves no loop and no offset leaves a settled chat settled.
LEMMA SettledStays ==
    ASSUME NEW ch, Settled(ch), UNCHANGED <<log, pos, committed>>,
           \A c \in Consumers : cur'[c] = cur[c] \/ cur'[c] = NoMsg,
           \A c \in Consumers : pc[c] # "joining" <=> pc'[c] # "joining"
    PROVE  Settled(ch)'
BY DEF Settled, Seen

\* Joining, a group resumes where it is past already, or, with no offset
\* committed, at the end of the log.
LEMMA SettledJoin ==
    ASSUME TypeInv, TypeInv', NEW ch \in Chats, Settled(ch), NEW c \in Consumers, Join(c)
    PROVE  Settled(ch)'
<1> DEFINE q == PartitionOf[ch]
<1>1. q \in Partitions BY PipelineAssumption
<1>2. /\ UNCHANGED <<log, cur, committed>> /\ pc[c] = "joining"
      /\ \A d \in Consumers : pc'[d] = IF d = c THEN "poll" ELSE pc[d]
      /\ \A d \in Consumers : d # c => pos'[d] = pos[d]
  BY DEF Join, TypeInv, TypeOK, LoopTypeOK
<1>3. pos'[c][q] = IF committed[c][q] # NoOffset THEN committed[c][q]
                   ELSE IF c = "chat" THEN 0 ELSE Len(log[q])
  BY <1>1 DEF Join, TypeInv, TypeOK, LoopTypeOK
<1> HIDE DEF q
<1>4. ASSUME NEW d \in Consumers PROVE Seen(d, q) <= Seen(d, q)'
  <2>0. Seen(d, q) \in Nat /\ Seen(d, q)' \in Nat /\ Len(log[q]) \in Nat
    BY <1>1, SeenType, SeenTypeNext, OffsetTypes
  <2>1. CASE d # c
    <3>1. Seen(d, q)' = Seen(d, q) BY <1>2, <2>1 DEF Seen
    <3> QED BY <2>0, <3>1
  <2>2. CASE d = c
    <3>1. Seen(d, q)' = pos'[c][q] BY <1>2, <2>2 DEF Seen
    <3>2. Seen(d, q) = IF committed[c][q] = NoOffset THEN 0 ELSE committed[c][q]
      BY <1>2, <2>2 DEF Seen
    <3> QED BY <1>3, <2>0, <3>1, <3>2
  <2> QED BY <2>1, <2>2
<1> QED BY <1>2, <1>4, SettledFrame DEF q

\* What the chat's settled state is for: the loops save and push messages of
\* other chats only.
LEMMA QuietFrame ==
    ASSUME QuietInv, TypeInv, UNCHANGED del,
           Settled(del.chat) => Settled(del.chat)',
           window'[del.chat] = window[del.chat],
           RecordsOf(del.chat)' = RecordsOf(del.chat)
    PROVE  QuietInv'
BY DEF QuietInv

\* While a chat is settled, what a consumer holds is of another chat.
LEMMA OtherChat ==
    ASSUME TypeInv, NEW ch, Settled(ch), NEW c \in Consumers,
           pc[c] \in {"window", "primary", "index", "publish"}
    PROVE  cur[c] \in Ids /\ ChatOf[cur[c]] # ch
<1>1. cur[c] # NoMsg BY DEF TypeInv, LoopOK
<1> QED BY <1>1 DEF Settled, TypeInv, TypeOK, LoopTypeOK

\* An undisturbed delete keeps its promise at every step.
LEMMA QuietStep ==
    TypeInv /\ TypeInv' /\ PlaceInv /\ QuietInv /\ [Next]_vars => QuietInv'
<1> SUFFICES ASSUME TypeInv, TypeInv', PlaceInv, QuietInv, [Next]_vars PROVE QuietInv'
  OBVIOUS
<1> DEFINE ch == del.chat
<1> USE DEF storeVars, consumerVars, ghostVars, countVars
<1>0. /\ ch \in Chats /\ del.quiet \in BOOLEAN
      /\ primary \in [Ids -> Record] /\ window \in [Chats -> Seq(Ids)]
      /\ pc \in [Consumers -> PC] /\ cur \in [Consumers -> Ids \cup {NoMsg}]
      /\ del.quiet => Settled(ch)
  BY DEF TypeInv, TypeOK, StoreTypeOK, DelTypeOK, OutputTypeOK, LoopTypeOK, QuietInv
<1> SUFFICES ASSUME del'.quiet PROVE QuietInv'
  BY DEF QuietInv
<1>1. ASSUME NEW m \in Ids, Produce(m) PROVE QuietInv'
  <2>1. /\ UNCHANGED <<primary, window, pc, pos, cur, committed>>
        /\ del' = [del EXCEPT !.quiet = del.quiet /\ del.chat # ChatOf[m]]
    BY <1>1 DEF Produce
  <2>2. /\ del'.chat = ch /\ del'.step = del.step /\ del'.batchP = del.batchP
        /\ del'.quiet = (del.quiet /\ ch # ChatOf[m])
    BY <2>1 DEF TypeInv, TypeOK, DelTypeOK
  <2>3. del.quiet /\ ch # ChatOf[m] BY <2>2
  <2>4. Settled(ch)'
    <3>1. TypeOK /\ PartitionOf[ch] \in Partitions
      BY <1>0, PipelineAssumption DEF TypeInv
    <3>2. \A i \in 1..Len(log'[PartitionOf[ch]]) :
             \/ i \in 1..Len(log[PartitionOf[ch]]) /\ log'[PartitionOf[ch]][i] = log[PartitionOf[ch]][i]
             \/ ChatOf[log'[PartitionOf[ch]][i]] # ch
      BY <1>1, <2>3, <3>1, LogGrows
    <3>3. \A c \in Consumers : /\ Seen(c, PartitionOf[ch]) = Seen(c, PartitionOf[ch])'
                               /\ Seen(c, PartitionOf[ch]) \in Nat
      BY <2>1, <3>1, SeenType DEF Seen
    <3>4. ASSUME NEW x \in Chats, x = ch PROVE Settled(x)'
      <4>1. Settled(x) BY <1>0, <2>3, <3>4
      <4>2. \A c \in Consumers : Seen(c, PartitionOf[x]) <= Seen(c, PartitionOf[x])'
        BY <3>3, <3>4, <2>2
      <4>3. \A c \in Consumers : cur'[c] # NoMsg /\ cur'[c] # cur[c] => ChatOf[cur'[c]] # x
        BY <2>1
      <4> QED BY <3>2, <3>4, <4>1, <4>2, <4>3, SettledFrame
    <3> QED BY <1>0, <2>2, <3>4
  <2> QED BY <2>1, <2>2, <2>3, <2>4 DEF QuietInv, RecordsOf, Present
<1>2. ASSUME NEW c \in Consumers, Join(c) PROVE QuietInv'
  BY <1>0, <1>2, SettledJoin, QuietFrame DEF Join, RecordsOf, Present
<1>3. ASSUME NEW c \in Consumers, NEW p \in Partitions, Poll(c, p) PROVE QuietInv'
  BY <1>0, <1>3, SettledPoll, QuietFrame DEF Poll, RecordsOf, Present
<1>4. ASSUME PushWindow PROVE QuietInv'
  <2>0. "chat" \in Consumers BY DEF Consumers
  <2>1. /\ UNCHANGED <<log, pos, committed, cur, primary, del>> /\ pc["chat"] = "window"
        /\ pc' = [pc EXCEPT !["chat"] = "primary"]
        /\ window' = [window EXCEPT ![ChatOf[cur["chat"]]] = Push(window[ChatOf[cur["chat"]]], cur["chat"])]
    BY <1>4 DEF PushWindow
  <2>2. del.quiet BY <2>1
  <2>3. ChatOf[cur["chat"]] # ch BY <1>0, <2>0, <2>1, <2>2, OtherChat
  <2>4. window'[ch] = window[ch] BY <1>0, <2>1, <2>3
  <2>5. Settled(ch)'
    <3>1. \A c \in Consumers : pc[c] # "joining" <=> pc'[c] # "joining" BY <1>0, <2>1
    <3> QED BY <1>0, <2>1, <2>2, <3>1, SettledStays
  <2> QED BY <2>1, <2>4, <2>5, QuietFrame DEF RecordsOf, Present
<1>5. ASSUME NEW c \in Consumers,
             SavePrimary(c) \/ SaveIndex(c) \/ SaveFails(c) \/ Publish(c)
      PROVE  QuietInv'
  <2>1. /\ UNCHANGED <<log, pos, committed, window, del>>
        /\ \A d \in Consumers : cur'[d] = cur[d] \/ cur'[d] = NoMsg
        /\ \A d \in Consumers : pc[d] # "joining" <=> pc'[d] # "joining"
        /\ pc[c] \in {"window", "primary", "index", "publish"}
    BY <1>0, <1>5 DEF SavePrimary, SaveIndex, SaveFails, Publish
  <2>2. del.quiet BY <2>1
  <2>3. cur[c] \in Ids /\ ChatOf[cur[c]] # ch BY <1>0, <2>1, <2>2, OtherChat
  <2>4. Settled(ch)' BY <1>0, <2>1, <2>2, SettledStays
  <2>5. \A m \in Ids : m = cur[c] \/ primary'[m] = primary[m]
    BY <1>0, <1>5 DEF SavePrimary, SaveIndex, SaveFails, Publish, PutPrimary
  <2>6. RecordsOf(ch)' = RecordsOf(ch) BY <2>1, <2>3, <2>5 DEF RecordsOf, Present
  <2> QED BY <2>1, <2>4, <2>6, QuietFrame
<1>6. ASSUME NEW c \in Consumers, NEW p \in Partitions, AutoCommit(c, p) PROVE QuietInv'
  <2>1. /\ UNCHANGED <<log, pos, pc, cur, window, primary, del>>
        /\ pc[c] # "joining"
        /\ \A d \in Consumers : d # c => committed'[d] = committed[d]
    BY <1>6 DEF AutoCommit, TypeInv, TypeOK, LogTypeOK
  <2>2. Settled(ch) => Settled(ch)' BY <2>1 DEF Settled, Seen
  <2> QED BY <2>1, <2>2, QuietFrame DEF RecordsOf, Present
<1>7. ASSUME NEW c \in Chats, DelStart(c) PROVE QuietInv'
  <2>1. /\ UNCHANGED <<log, pos, pc, cur, committed, primary>> /\ window'[c] = <<>>
        /\ del'.chat = c /\ del'.step = "started" /\ del'.quiet = Settled(c)
    BY <1>0, <1>7 DEF DelStart
  <2> QED BY <2>1 DEF QuietInv, Settled, Seen
<1>8. ASSUME DelScanPrimary \/ DelOpenIndex \/ (\E m \in Ids : DelVisit(m)) \/ DelWrite \/ DelFails
      PROVE  QuietInv'
  <2>1. UNCHANGED <<log, consumerVars>> /\ del'.chat = ch /\ del'.quiet = del.quiet
    BY <1>8 DEF DelScanPrimary, DelOpenIndex, DelVisit, DelWrite, DelFails,
         TypeInv, TypeOK, DelTypeOK
  <2>2. Settled(ch)' /\ window'[ch] = <<>>
    BY <2>1 DEF QuietInv, Settled, Seen
  <2>3. del'.step \in {"scanned", "visiting"} => RecordsOf(ch)' \subseteq del'.batchP
    <3>1. CASE DelScanPrimary
      BY <3>1 DEF DelScanPrimary, RecordsOf, Present, TypeInv, TypeOK, DelTypeOK
    <3>2. CASE DelOpenIndex \/ (\E m \in Ids : DelVisit(m))
      <4>1. del.step \in {"scanned", "visiting"} /\ UNCHANGED primary /\ del'.batchP = del.batchP
        BY <3>2 DEF DelOpenIndex, DelVisit, TypeInv, TypeOK, DelTypeOK
      <4> QED BY <2>1, <4>1 DEF QuietInv, RecordsOf, Present
    <3>3. CASE DelWrite \/ DelFails
      <4>1. del'.step \in {"done", "failed"}
        BY <3>3 DEF DelWrite, DelFails, TypeInv, TypeOK, DelTypeOK
      <4> QED BY <4>1
    <3> QED BY <1>8, <3>1, <3>2, <3>3
  <2>4. del'.step = "done" => RecordsOf(ch)' = {}
    <3>1. CASE DelWrite
      <4>1. RecordsOf(ch) \subseteq del.batchP BY <2>1, <3>1 DEF DelWrite, QuietInv
      <4>2. \A m \in Ids : primary'[m] = IF m \in del.batchP THEN "absent" ELSE primary[m]
        BY <3>1 DEF DelWrite, WriteBatch
      <4> QED BY <2>1, <4>1, <4>2 DEF RecordsOf, Present
    <3>2. CASE ~DelWrite
      BY <1>8, <3>2 DEF DelScanPrimary, DelOpenIndex, DelVisit, DelFails, TypeInv, TypeOK, DelTypeOK
    <3> QED BY <3>1, <3>2
  <2> QED BY <2>1, <2>2, <2>3, <2>4 DEF QuietInv
<1>9. ASSUME Crash PROVE QuietInv'
  BY <1>9 DEF Crash, NoDelete
<1>10. ASSUME UNCHANGED vars PROVE QuietInv'
  BY <1>10 DEF vars, QuietInv, Settled, Seen, RecordsOf, Present
<1> QED
  BY <1>1, <1>2, <1>3, <1>4, <1>5, <1>6, <1>7, <1>8, <1>9, <1>10
     DEF Next, ConsumerStep, DeleteStep

\* A delete that starts when both groups are done with its chat, and that no new
\* message of the chat overtakes, leaves neither a listing nor a thread.
THEOREM QuietDelete == Spec => []QuietDeleteEmpties
<1>1. Init => QuietInv
  BY DEF Init, QuietInv, NoDelete
<1>2. TypeInv /\ QuietInv => QuietDeleteEmpties
  <2> SUFFICES ASSUME TypeInv, QuietInv, del.step = "done", del.quiet
      PROVE  del.chat \notin ListChatIds /\ GetThread(del.chat) = <<>>
    BY DEF QuietDeleteEmpties
  <2>1. window[del.chat] = <<>> /\ RecordsOf(del.chat) = {} BY DEF QuietInv
  <2>2. del.chat \notin ListChatIds BY <2>1 DEF ListChatIds, RecordsOf
  <2>3. GetThread(del.chat) = LoadThread(del.chat) BY <2>1 DEF GetThread
  <2> QED BY <2>1, <2>2, <2>3, EmptyThread
<1>3. PersistInv => TypeInv /\ PlaceInv BY DEF PersistInv
<1> QED BY <1>1, <1>2, <1>3, PersistAlways, QuietStep, PTL DEF Spec

-----------------------------------------------------------------------------
(* The window and the broadcasts.                                          *)

\* The message a loop works on is the last one it was handed in this run.
HeldOK ==
    \A c \in Consumers :
        cur[c] # NoMsg =>
            /\ base[c][Partition(cur[c])] < pos[c][Partition(cur[c])]
            /\ log[Partition(cur[c])][pos[c][Partition(cur[c])]] = cur[c]

\* A run starts where the group joins, with nothing handed over, nothing
\* broadcast and an empty window.
RunOK ==
    /\ \A c \in Consumers : \A p \in Partitions : base[c][p] <= pos[c][p]
    /\ \A c \in Consumers : pc[c] = "joining" =>
           feed[c] = <<>> /\ \A p \in Partitions : base[c][p] = pos[c][p]
    /\ pc["chat"] = "joining" => \A ch \in Chats : window[ch] = <<>>

\* Where a run starts and what its loops hold.
RunInv == HeldOK /\ RunOK

\* A message in hand is of some partition.
LEMMA HeldTypes ==
    ASSUME TypeInv, NEW c \in Consumers, cur[c] # NoMsg
    PROVE  cur[c] \in Ids /\ Partition(cur[c]) \in Partitions /\ pc[c] \notin {"joining", "poll"}
BY StoreAssumption, PipelineAssumption DEF TypeInv, TypeOK, LoopTypeOK, LoopOK, Partition

\* The start of a run is an offset too.
LEMMA BaseType ==
    ASSUME TypeInv, NEW c \in Consumers, NEW p \in Partitions
    PROVE  base[c][p] \in Nat
BY DEF TypeInv, TypeOK, LoopTypeOK

\* A step that leaves the log, the positions and the run alone.
LEMMA RunFrame ==
    ASSUME RunInv, UNCHANGED <<log, pos, base>>,
           \A c \in Consumers : cur'[c] = cur[c] \/ cur'[c] = NoMsg,
           \A c \in Consumers : pc'[c] = "joining" => pc[c] = "joining" /\ feed'[c] = feed[c],
           pc'["chat"] = "joining" => \A ch \in Chats : window'[ch] = window[ch] \/ window'[ch] = <<>>
    PROVE  RunInv'
<1>1. HeldOK' BY DEF RunInv, HeldOK, Partition
<1>2. RunOK' BY DEF RunInv, RunOK, Consumers
<1> QED BY <1>1, <1>2 DEF RunInv

\* A new entry changes nothing a loop has been handed.
LEMMA RunProduce ==
    ASSUME TypeInv, PlaceInv, RunInv, NEW m \in Ids, Produce(m)
    PROVE  RunInv'
<1>1. UNCHANGED <<pc, pos, base, cur, window, feed>> BY DEF Produce, consumerVars
<1>2. HeldOK'
  <2> SUFFICES ASSUME NEW c \in Consumers, cur[c] # NoMsg
      PROVE  log'[Partition(cur[c])][pos[c][Partition(cur[c])]] = cur[c]
    BY <1>1 DEF RunInv, HeldOK, Partition
  <2> DEFINE p == Partition(cur[c])
             n == pos[c][p]
  <2>1. p \in Partitions BY HeldTypes
  <2> HIDE DEF p
  <2>2. n \in 1..Len(log[p])
    <3>1. n \in Nat /\ base[c][p] \in Nat /\ Len(log[p]) \in Nat BY <2>1, OffsetTypes, BaseType
    <3>2. base[c][p] < n BY DEF RunInv, HeldOK, p
    <3>3. n <= Len(log[p]) BY <2>1 DEF PlaceInv, PositionOK
    <3> QED BY <3>1, <3>2, <3>3
  <2>3. log'[p][n] = log[p][n] BY <2>1, <2>2, LogGrows DEF TypeInv
  <2> QED BY <2>3 DEF RunInv, HeldOK, p
<1>3. RunOK' BY <1>1 DEF RunInv, RunOK
<1> QED BY <1>2, <1>3 DEF RunInv

\* A poll hands the loop the entry at its new position.
LEMMA RunPoll ==
    ASSUME TypeInv, PlaceInv, RunInv, NEW c \in Consumers, NEW p \in Partitions, Poll(c, p)
    PROVE  RunInv'
<1> DEFINE m == log[p][pos[c][p] + 1]
<1>1. /\ UNCHANGED <<log, base, window, feed>> /\ pc[c] = "poll"
      /\ \A d \in Consumers : cur'[d] # cur[d] => d = c /\ cur'[c] = m
      /\ \A d \in Consumers : pc'[d] = "joining" => pc[d] = "joining"
  BY DEF Poll, FirstStep, TypeInv, TypeOK, LoopTypeOK, PC
<1>2. \A d \in Consumers : \A q \in Partitions :
         pos'[d][q] = IF d = c /\ q = p THEN pos[d][q] + 1 ELSE pos[d][q]
  BY DEF Poll, TypeInv, TypeOK, LoopTypeOK
<1>3. pos[c][p] \in Nat /\ base[c][p] \in Nat /\ pos[c][p] + 1 \in 1..Len(log[p])
  <2>1. pos[c][p] < Len(log[p]) BY DEF Poll
  <2> QED BY <2>1, OffsetTypes, BaseType
<1>4. Partition(m) = p BY <1>3 DEF PlaceInv, PlacedOK
<1>5. HeldOK'
  <2> SUFFICES ASSUME NEW d \in Consumers, cur'[d] # NoMsg
      PROVE  /\ base[d][Partition(cur'[d])] < pos'[d][Partition(cur'[d])]
             /\ log[Partition(cur'[d])][pos'[d][Partition(cur'[d])]] = cur'[d]
    BY <1>1 DEF HeldOK, Partition
  <2>1. CASE cur'[d] # cur[d]
    <3>1. d = c /\ cur'[d] = m BY <1>1, <2>1
    <3>2. base[c][p] < pos[c][p] + 1 BY <1>3 DEF RunInv, RunOK
    <3>3. pos'[c][p] = pos[c][p] + 1 BY <1>2
    <3>4. log[p][pos'[c][p]] = m BY <3>3
    <3> HIDE DEF m
    <3> QED BY <1>4, <3>1, <3>2, <3>3, <3>4
  <2>2. CASE cur'[d] = cur[d]
    <3>1. d # c /\ Partition(cur[d]) \in Partitions BY <1>1, <2>2, HeldTypes
    <3> QED BY <1>2, <2>2, <3>1 DEF RunInv, HeldOK
  <2> QED BY <2>1, <2>2
<1>6. RunOK'
  <2>1. ASSUME NEW d \in Consumers, NEW q \in Partitions PROVE base'[d][q] <= pos'[d][q]
    <3>1. base[d][q] \in Nat /\ pos[d][q] \in Nat /\ base[d][q] <= pos[d][q]
      BY OffsetTypes, BaseType DEF RunInv, RunOK
    <3>2. pos'[d][q] = pos[d][q] + 1 \/ pos'[d][q] = pos[d][q] BY <1>2
    <3> QED BY <1>1, <3>1, <3>2
  <2>2. ASSUME NEW d \in Consumers, pc'[d] = "joining"
        PROVE  feed'[d] = <<>> /\ \A q \in Partitions : base'[d][q] = pos'[d][q]
    <3>1. pc[d] = "joining" /\ d # c BY <1>1, <2>2
    <3> QED BY <1>1, <1>2, <3>1 DEF RunInv, RunOK
  <2>3. pc'["chat"] = "joining" => \A ch \in Chats : window'[ch] = <<>>
    BY <1>1 DEF RunInv, RunOK, Consumers
  <2> QED BY <2>1, <2>2, <2>3 DEF RunOK
<1> QED BY <1>5, <1>6 DEF RunInv

\* Joining, a group starts its run with nothing in hand.
LEMMA RunJoin ==
    ASSUME TypeInv, TypeInv', RunInv, NEW c \in Consumers, Join(c)
    PROVE  RunInv'
<1>1. /\ UNCHANGED <<log, cur, window, feed>> /\ pc[c] = "joining"
      /\ \A d \in Consumers : pc'[d] = IF d = c THEN "poll" ELSE pc[d]
      /\ \A d \in Consumers : d # c => pos'[d] = pos[d] /\ base'[d] = base[d]
      /\ pos'[c] = base'[c]
  BY DEF Join, TypeInv, TypeOK, LoopTypeOK
<1>2. cur[c] = NoMsg BY <1>1 DEF TypeInv, LoopOK
<1>3. HeldOK' BY <1>1, <1>2 DEF RunInv, HeldOK, Partition
<1>4. RunOK'
  <2>1. \A p \in Partitions : pos'[c][p] \in Nat
    BY DEF TypeInv, TypeOK, LoopTypeOK
  <2>2. \A d \in Consumers : \A p \in Partitions : base'[d][p] <= pos'[d][p]
    BY <1>1, <2>1 DEF RunInv, RunOK
  <2>3. \A d \in Consumers : pc'[d] = "joining" =>
           feed'[d] = <<>> /\ \A p \in Partitions : base'[d][p] = pos'[d][p]
    BY <1>1 DEF RunInv, RunOK
  <2>4. pc'["chat"] = "joining" => \A ch \in Chats : window'[ch] = <<>>
    BY <1>1 DEF RunInv, RunOK, Consumers
  <2> QED BY <2>2, <2>3, <2>4 DEF RunOK
<1> QED BY <1>3, <1>4 DEF RunInv

\* Every step keeps the loops' runs in order.
LEMMA RunStep == TypeInv /\ TypeInv' /\ PlaceInv /\ RunInv /\ [Next]_vars => RunInv'
<1> SUFFICES ASSUME TypeInv, TypeInv', PlaceInv, RunInv, [Next]_vars PROVE RunInv'
  OBVIOUS
<1> USE DEF storeVars, consumerVars, ghostVars, countVars
<1>0. pc \in [Consumers -> PC] /\ cur \in [Consumers -> Ids \cup {NoMsg}]
      /\ feed \in [Consumers -> Seq(Ids)] /\ window \in [Chats -> Seq(Ids)]
  BY DEF TypeInv, TypeOK, LoopTypeOK, OutputTypeOK
<1>1. ASSUME NEW m \in Ids, Produce(m) PROVE RunInv'
  BY <1>1, RunProduce
<1>2. ASSUME NEW c \in Consumers, Join(c) PROVE RunInv'
  BY <1>2, RunJoin
<1>3. ASSUME NEW c \in Consumers, NEW p \in Partitions, Poll(c, p) PROVE RunInv'
  BY <1>3, RunPoll
<1>4. ASSUME PushWindow PROVE RunInv'
  <2>1. /\ UNCHANGED <<log, pos, base, cur, feed>>
        /\ \A c \in Consumers : pc'[c] = "joining" => pc[c] = "joining"
        /\ pc'["chat"] # "joining"
    BY <1>0, <1>4 DEF PushWindow, Consumers
  <2> QED BY <2>1, RunFrame
<1>5. ASSUME NEW c \in Consumers, SavePrimary(c) \/ SaveIndex(c) \/ SaveFails(c) \/ Publish(c)
      PROVE  RunInv'
  <2>1. /\ UNCHANGED <<log, pos, base, window>>
        /\ \A d \in Consumers : cur'[d] = cur[d] \/ cur'[d] = NoMsg
        /\ \A d \in Consumers : pc'[d] = "joining" => pc[d] = "joining" /\ feed'[d] = feed[d]
    BY <1>0, <1>5 DEF SavePrimary, SaveIndex, SaveFails, Publish
  <2> QED BY <2>1, RunFrame
<1>6. ASSUME NEW c \in Consumers, NEW p \in Partitions, AutoCommit(c, p) PROVE RunInv'
  BY <1>6, RunFrame DEF AutoCommit
<1>7. ASSUME NEW ch \in Chats, DelStart(ch) PROVE RunInv'
  <2>1. /\ UNCHANGED <<log, pos, base, pc, cur, feed>>
        /\ \A c \in Chats : window'[c] = window[c] \/ window'[c] = <<>>
    BY <1>0, <1>7 DEF DelStart
  <2> QED BY <2>1, RunFrame
<1>8. ASSUME DelScanPrimary \/ DelOpenIndex \/ (\E m \in Ids : DelVisit(m)) \/ DelWrite \/ DelFails
      PROVE  RunInv'
  <2>1. UNCHANGED <<log, consumerVars>>
    BY <1>8 DEF DelScanPrimary, DelOpenIndex, DelVisit, DelWrite, DelFails
  <2> QED BY <2>1, RunFrame
<1>9. ASSUME Crash PROVE RunInv'
  BY <1>9 DEF Crash, RunInv, HeldOK, RunOK, Consumers
<1>10. ASSUME UNCHANGED vars PROVE RunInv'
  BY <1>10, RunFrame DEF vars
<1> QED
  BY <1>1, <1>2, <1>3, <1>4, <1>5, <1>6, <1>7, <1>8, <1>9, <1>10
     DEF Next, ConsumerStep, DeleteStep

\* Nothing corresponds to nothing.
LEMMA SameEmpty ==
    ASSUME NEW s, NEW t
    PROVE  SameInOrder(s, {}, t, {})
<1>1. [i \in {} |-> i] \in [{} -> {}] OBVIOUS
<1> QED BY <1>1 DEF SameInOrder

\* Only the entries that correspond matter.
LEMMA SameOnEntries ==
    ASSUME NEW s, NEW I, NEW t, NEW u, NEW J, SameInOrder(s, I, t, J),
           \A j \in J : u[j] = t[j]
    PROVE  SameInOrder(s, I, u, J)
<1>1. PICK at \in [I -> J] :
         /\ \A i, j \in I : i < j => at[i] < at[j]
         /\ \A i \in I : s[i] = t[at[i]]
         /\ \A j \in J : \E i \in I : at[i] = j
  BY DEF SameInOrder
<1>2. \A i \in I : s[i] = u[at[i]] BY <1>1
<1> QED BY <1>1, <1>2 DEF SameInOrder

\* An element added at the end corresponds to a position beyond the others.
LEMMA SameExtends ==
    ASSUME NEW S, NEW s \in Seq(S), NEW m \in S, NEW I \in SUBSET (1..Len(s)),
           NEW t, NEW J \in SUBSET Nat, NEW k \in Nat,
           SameInOrder(s, I, t, J), t[k] = m, \A j \in J : j < k
    PROVE  SameInOrder(Append(s, m), I \cup {Len(s) + 1}, t, J \cup {k})
<1> DEFINE n == Len(s) + 1
           r == Append(s, m)
<1>1. PICK at \in [I -> J] :
         /\ \A i, j \in I : i < j => at[i] < at[j]
         /\ \A i \in I : s[i] = t[at[i]]
         /\ \A j \in J : \E i \in I : at[i] = j
  BY DEF SameInOrder
<1>2. Len(s) \in Nat /\ n \in Nat /\ (\A i \in I : i \in Nat /\ i < n) OBVIOUS
<1>3. r[n] = m /\ \A i \in I : r[i] = s[i] BY AppendFacts
<1> DEFINE bt == [i \in I \cup {n} |-> IF i = n THEN k ELSE at[i]]
<1> HIDE DEF n, r
<1>4. /\ bt \in [I \cup {n} -> J \cup {k}]
      /\ bt[n] = k /\ \A i \in I : bt[i] = at[i]
  BY <1>2
<1> HIDE DEF bt
<1>5. ASSUME NEW i \in I \cup {n}, NEW j \in I \cup {n}, i < j PROVE bt[i] < bt[j]
  <2>1. i \in I BY <1>2, <1>5
  <2>2. CASE j \in I BY <1>1, <1>4, <1>5, <2>1, <2>2
  <2>3. CASE j = n BY <1>4, <2>1, <2>3
  <2> QED BY <2>2, <2>3
<1>6. \A i \in I \cup {n} : r[i] = t[bt[i]] BY <1>1, <1>3, <1>4
<1>7. \A j \in J \cup {k} : \E i \in I \cup {n} : bt[i] = j BY <1>1, <1>4
<1>8. SameInOrder(r, I \cup {n}, t, J \cup {k}) BY <1>4, <1>5, <1>6, <1>7 DEF SameInOrder
<1> QED BY <1>8 DEF n, r

\* What Tail takes away and where it moves the rest.
LEMMA TailFacts ==
    ASSUME NEW S, NEW s \in Seq(S), s # <<>>
    PROVE  /\ Tail(s) \in Seq(S) /\ Len(s) \in Nat \ {0}
           /\ Len(Tail(s)) = Len(s) - 1
           /\ \A i \in 1..Len(Tail(s)) : Tail(s)[i] = s[i + 1]
           /\ DOMAIN s = 1..Len(s) /\ DOMAIN Tail(s) = 1..(Len(s) - 1)
  OBVIOUS

\* Without its first element a sequence lacks the least of the positions.
LEMMA SameTail ==
    ASSUME NEW S, NEW s \in Seq(S), s # <<>>, NEW t, NEW J \in SUBSET Nat,
           SameInOrder(s, DOMAIN s, t, J)
    PROVE  \E k \in J : /\ \A j \in J : j # k => k < j
                        /\ SameInOrder(Tail(s), DOMAIN Tail(s), t, J \ {k})
<1> DEFINE n == Len(s)
           r == Tail(s)
<1>1. PICK at \in [DOMAIN s -> J] :
         /\ \A i, j \in DOMAIN s : i < j => at[i] < at[j]
         /\ \A i \in DOMAIN s : s[i] = t[at[i]]
         /\ \A j \in J : \E i \in DOMAIN s : at[i] = j
  BY DEF SameInOrder
<1>2. /\ n \in Nat \ {0} /\ DOMAIN s = 1..n /\ DOMAIN r = 1..(n - 1)
      /\ \A i \in 1..(n - 1) : r[i] = s[i + 1]
  BY TailFacts
<1> HIDE DEF n, r
<1>3. 1 \in DOMAIN s /\ at[1] \in J BY <1>1, <1>2
<1>4. \A i \in DOMAIN s : i # 1 => at[1] < at[i] /\ i - 1 \in DOMAIN r
  BY <1>1, <1>2, <1>3
<1>5. \A j \in J : j # at[1] => at[1] < j BY <1>1, <1>4
<1>6. \A i \in DOMAIN r : i + 1 \in DOMAIN s /\ i + 1 # 1 BY <1>2
<1> DEFINE bt == [i \in DOMAIN r |-> at[i + 1]]
<1>7. ASSUME NEW i \in DOMAIN r PROVE at[i + 1] \in J \ {at[1]}
  <2>1. i + 1 \in DOMAIN s /\ i + 1 # 1 BY <1>6
  <2>2. at[i + 1] \in J /\ at[1] \in Nat /\ at[i + 1] \in Nat BY <1>1, <1>3, <2>1
  <2>3. at[1] < at[i + 1] BY <1>4, <2>1
  <2> QED BY <2>2, <2>3
<1>8. bt \in [DOMAIN r -> J \ {at[1]}] BY <1>7
<1>9. \A i, j \in DOMAIN r : i < j => bt[i] < bt[j]
  <2> SUFFICES ASSUME NEW i \in DOMAIN r, NEW j \in DOMAIN r, i < j PROVE at[i + 1] < at[j + 1]
    OBVIOUS
  <2>1. i + 1 < j + 1 BY <1>2
  <2> QED BY <1>1, <1>6, <2>1
<1>10. \A i \in DOMAIN r : r[i] = t[bt[i]] BY <1>1, <1>2, <1>6
<1>11. \A j \in J \ {at[1]} : \E i \in DOMAIN r : bt[i] = j
  <2> SUFFICES ASSUME NEW j \in J, j # at[1] PROVE \E i \in DOMAIN r : at[i + 1] = j
    OBVIOUS
  <2>1. PICK i \in DOMAIN s : at[i] = j BY <1>1
  <2>2. i - 1 \in DOMAIN r /\ (i - 1) + 1 = i BY <1>2, <1>4, <2>1
  <2> QED BY <2>1, <2>2
<1> HIDE DEF bt
<1>12. SameInOrder(r, DOMAIN r, t, J \ {at[1]}) BY <1>8, <1>9, <1>10, <1>11 DEF SameInOrder
<1> QED BY <1>3, <1>5, <1>12 DEF r

\* FeedFollowsLog for one consumer and partition.
FeedOK(c, p) ==
    SameInOrder(feed[c], {i \in DOMAIN feed[c] : Partition(feed[c][i]) = p},
                log[p], Forwarded(c, p))

\* WindowIsLogTail for one chat.
WindowOK(ch) ==
    /\ Len(window[ch]) <= WindowSize
    /\ \E tail \in SUBSET Pushed(ch) :
          /\ \A i \in tail : \A j \in Pushed(ch) : i < j => j \in tail
          /\ SameInOrder(window[ch], DOMAIN window[ch], log[PartitionOf[ch]], tail)
          /\ deletes = 0 => tail = Pushed(ch) \/ Len(window[ch]) = WindowSize

\* The positions handed over are entries of the log.
LEMMA HandedType ==
    ASSUME TypeInv, PlaceInv, NEW c \in Consumers, NEW p \in Partitions
    PROVE  HandedThisRun(c, p) \subseteq 1..Len(log[p])
<1>1. /\ base[c][p] \in Nat /\ pos[c][p] \in Nat /\ Len(log[p]) \in Nat
      /\ pos[c][p] <= Len(log[p])
  BY OffsetTypes, BaseType DEF PlaceInv, PositionOK
<1> QED BY <1>1 DEF HandedThisRun

\* The broadcasts of a loop, and what should have been broadcast, are left alone.
LEMMA FeedFrame ==
    ASSUME NEW c \in Consumers, NEW p \in Partitions, FeedOK(c, p),
           feed'[c] = feed[c], Forwarded(c, p)' = Forwarded(c, p),
           \A j \in Forwarded(c, p) : log'[p][j] = log[p][j]
    PROVE  FeedOK(c, p)'
<1>1. SameInOrder(feed[c], {i \in DOMAIN feed[c] : Partition(feed[c][i]) = p},
                  log'[p], Forwarded(c, p))
  BY SameOnEntries DEF FeedOK
<1>2. {i \in DOMAIN feed'[c] : Partition(feed'[c][i]) = p}
          = {i \in DOMAIN feed[c] : Partition(feed[c][i]) = p}
  OBVIOUS
<1> QED BY <1>1, <1>2 DEF FeedOK, Partition

\* The window of a chat, and what was pushed into it, are left alone.
LEMMA WindowFrame ==
    ASSUME NEW ch \in Chats, WindowOK(ch),
           window'[ch] = window[ch], Pushed(ch)' = Pushed(ch), deletes' = 0 => deletes = 0,
           \A j \in Pushed(ch) : log'[PartitionOf[ch]][j] = log[PartitionOf[ch]][j]
    PROVE  WindowOK(ch)'
<1>1. PICK tail \in SUBSET Pushed(ch) :
          /\ \A i \in tail : \A j \in Pushed(ch) : i < j => j \in tail
          /\ SameInOrder(window[ch], DOMAIN window[ch], log[PartitionOf[ch]], tail)
          /\ deletes = 0 => tail = Pushed(ch) \/ Len(window[ch]) = WindowSize
  BY DEF WindowOK
<1>2. SameInOrder(window[ch], DOMAIN window[ch], log'[PartitionOf[ch]], tail)
  BY <1>1, SameOnEntries
<1> QED BY <1>1, <1>2 DEF WindowOK

\* What a loop should have broadcast depends on its own run alone.
LEMMA ForwardedFrame ==
    ASSUME NEW c \in Consumers, NEW p \in Partitions,
           log' = log, pos'[c][p] = pos[c][p], base'[c][p] = base[c][p],
           InHand(c, p, pos[c][p])' <=> InHand(c, p, pos[c][p])
    PROVE  Forwarded(c, p)' = Forwarded(c, p)
BY DEF Forwarded, HandedThisRun, InHand, Valid, Forwards

\* So does what it should have pushed.
LEMMA PushedFrame ==
    ASSUME NEW ch \in Chats, log' = log, UNCHANGED <<pos["chat"], base["chat"]>>,
           (pc["chat"] = "window" /\ cur["chat"] # NoMsg /\ Partition(cur["chat"]) = PartitionOf[ch])'
             <=> (pc["chat"] = "window" /\ cur["chat"] # NoMsg /\ Partition(cur["chat"]) = PartitionOf[ch])
    PROVE  Pushed(ch)' = Pushed(ch)
BY DEF Pushed, HandedThisRun, InHand, Valid

\* An interval that grows by one.
LEMMA IntervalGrows ==
    ASSUME NEW b \in Nat, NEW n \in Nat, NEW I, NEW J, I = (b + 1)..n, J = (b + 1)..(n + 1)
    PROVE  /\ \A i : i \in J => i \in I \/ i = n + 1
           /\ \A i \in I : i \in J /\ i # n + 1
  OBVIOUS

\* A poll adds nothing yet: what the loop takes up is in hand, what it skips is
\* not to be forwarded.
LEMMA ForwardedPoll ==
    ASSUME TypeInv, PlaceInv, NEW c \in Consumers, NEW p \in Partitions, Poll(c, p),
           NEW d \in Consumers, NEW q \in Partitions
    PROVE  Forwarded(d, q)' = Forwarded(d, q)
<1> DEFINE m == log[p][pos[c][p] + 1]
<1>1. /\ UNCHANGED <<log, base>> /\ pc[c] = "poll" /\ pos[c][p] < Len(log[p])
      /\ \A e \in Consumers : e # c => cur'[e] = cur[e]
      /\ IF Handles(c, m) THEN cur'[c] = m ELSE cur'[c] = cur[c]
  BY DEF Poll, TypeInv, TypeOK, LoopTypeOK
<1>2. \A e \in Consumers : \A r \in Partitions :
         pos'[e][r] = IF e = c /\ r = p THEN pos[e][r] + 1 ELSE pos[e][r]
  BY DEF Poll, TypeInv, TypeOK, LoopTypeOK
<1>3. cur[c] = NoMsg BY <1>1 DEF TypeInv, LoopOK
<1>4. pos[c][p] \in Nat /\ base[c][p] \in Nat /\ pos[c][p] + 1 \in 1..Len(log[p])
  BY <1>1, OffsetTypes, BaseType
<1>5. Partition(m) = p /\ m \in Ids
  <2>1. log[p] \in Seq(Ids) BY OffsetTypes
  <2> QED BY <1>4, <2>1 DEF PlaceInv, PlacedOK
<1> HIDE DEF m
<1>6. m # NoMsg BY <1>5, StoreAssumption DEF NoMsg
<1>7. CASE d # c
  BY <1>1, <1>2, <1>7, ForwardedFrame DEF InHand, Partition
<1>8. CASE d = c /\ q # p
  <2>1. pos'[c][q] = pos[c][q] BY <1>2, <1>8
  <2>2. ~InHand(c, q, pos[c][q]) BY <1>3 DEF InHand
  <2>3. ~InHand(c, q, pos[c][q])' BY <1>1, <1>3, <1>5, <1>8 DEF InHand, Partition
  <2> QED BY <1>1, <1>8, <2>1, <2>2, <2>3, ForwardedFrame
<1>9. CASE d = c /\ q = p
  <2>1. HandedThisRun(c, p)' = (base[c][p] + 1)..(pos[c][p] + 1)
    BY <1>1, <1>2 DEF HandedThisRun
  <2>0. HandedThisRun(c, p) = (base[c][p] + 1)..pos[c][p] BY DEF HandedThisRun
  <2>2. \A i : i \in HandedThisRun(c, p)' => i \in HandedThisRun(c, p) \/ i = pos[c][p] + 1
    BY <1>4, <2>0, <2>1, IntervalGrows
  <2>3. \A i \in HandedThisRun(c, p) : i \in HandedThisRun(c, p)' /\ i # pos[c][p] + 1
    BY <1>4, <2>0, <2>1, IntervalGrows
  <2>4. \A i \in HandedThisRun(c, p) : ~InHand(c, p, i) /\ ~InHand(c, p, i)'
    BY <1>2, <1>3, <2>3 DEF InHand
  <2>5. pos[c][p] + 1 \notin Forwarded(c, p)'
    <3>1. CASE Handles(c, m)
      <4>1. \A i : i = pos[c][p] + 1 => InHand(c, p, i)'
        BY <1>1, <1>2, <1>5, <1>6, <3>1 DEF InHand, Partition
      <4> QED BY <4>1 DEF Forwarded
    <3>2. CASE ~Handles(c, m)
      <4>1. ~(Valid(m) /\ Forwards(c, m)) BY <3>2 DEF Handles, Forwards, Consumers
      <4> QED BY <1>1, <4>1 DEF Forwarded, Valid, Forwards, m
    <3> QED BY <3>1, <3>2
  <2> QED BY <1>1, <1>9, <2>2, <2>3, <2>4, <2>5 DEF Forwarded, Valid, Forwards
<1> QED BY <1>7, <1>8, <1>9

\* The same for the window: what the chat loop takes up is yet to be pushed.
LEMMA PushedPoll ==
    ASSUME TypeInv, PlaceInv, NEW c \in Consumers, NEW p \in Partitions, Poll(c, p),
           NEW ch \in Chats
    PROVE  Pushed(ch)' = Pushed(ch)
<1> DEFINE m == log[p][pos[c][p] + 1]
           q == PartitionOf[ch]
<1>0. q \in Partitions /\ "chat" \in Consumers BY PipelineAssumption DEF Consumers
<1>1. /\ UNCHANGED <<log, base>> /\ pc[c] = "poll" /\ pos[c][p] < Len(log[p])
      /\ \A e \in Consumers : e # c => cur'[e] = cur[e] /\ pc'[e] = pc[e]
      /\ IF Handles(c, m) THEN cur'[c] = m /\ pc'[c] = FirstStep(c)
                          ELSE cur'[c] = cur[c] /\ pc'[c] = pc[c]
  BY DEF Poll, TypeInv, TypeOK, LoopTypeOK
<1>2. \A e \in Consumers : \A r \in Partitions :
         pos'[e][r] = IF e = c /\ r = p THEN pos[e][r] + 1 ELSE pos[e][r]
  BY DEF Poll, TypeInv, TypeOK, LoopTypeOK
<1>3. cur[c] = NoMsg BY <1>1 DEF TypeInv, LoopOK
<1>4. pos[c][p] \in Nat /\ base[c][p] \in Nat /\ pos[c][p] + 1 \in 1..Len(log[p])
  BY <1>1, OffsetTypes, BaseType
<1>5. Partition(m) = p /\ m \in Ids
  <2>1. log[p] \in Seq(Ids) BY OffsetTypes
  <2> QED BY <1>4, <2>1 DEF PlaceInv, PlacedOK
<1> HIDE DEF m, q
<1>6. m # NoMsg BY <1>5, StoreAssumption DEF NoMsg
<1>7. CASE c # "chat" \/ q # p
  <2>1. pos'["chat"][q] = pos["chat"][q] BY <1>0, <1>2, <1>7
  <2>2. \A i : (pc["chat"] = "window" /\ InHand("chat", q, i))' <=> pc["chat"] = "window" /\ InHand("chat", q, i)
    <3>1. CASE c # "chat" BY <1>0, <1>1, <2>1, <3>1 DEF InHand, Partition
    <3>2. CASE c = "chat"
      <4>1. ~InHand("chat", q, pos["chat"][q]) BY <1>3, <3>2 DEF InHand
      <4>2. \A i : ~InHand("chat", q, i)' BY <1>1, <1>3, <1>5, <1>7, <3>2 DEF InHand, Partition
      <4> QED BY <1>1, <3>2, <4>2
    <3> QED BY <3>1, <3>2
  <2>3. HandedThisRun("chat", q)' = HandedThisRun("chat", q)
    BY <1>1, <2>1 DEF HandedThisRun
  <2> QED BY <1>1, <2>2, <2>3 DEF Pushed, Valid, q
<1>8. CASE c = "chat" /\ q = p
  <2>1. HandedThisRun(c, p)' = (base[c][p] + 1)..(pos[c][p] + 1)
    BY <1>1, <1>2 DEF HandedThisRun
  <2>0. HandedThisRun(c, p) = (base[c][p] + 1)..pos[c][p] BY DEF HandedThisRun
  <2>2. \A i : i \in HandedThisRun(c, p)' => i \in HandedThisRun(c, p) \/ i = pos[c][p] + 1
    BY <1>4, <2>0, <2>1, IntervalGrows
  <2>3. \A i \in HandedThisRun(c, p) : i \in HandedThisRun(c, p)' /\ i # pos[c][p] + 1
    BY <1>4, <2>0, <2>1, IntervalGrows
  <2>4. \A i \in HandedThisRun(c, p) : ~InHand(c, p, i) /\ ~InHand(c, p, i)'
    BY <1>2, <1>3, <2>3 DEF InHand
  <2>5. pos[c][p] + 1 \notin Pushed(ch)'
    <3>1. CASE Handles(c, m)
      <4>1. pc'["chat"] = "window" /\ \A i : i = pos[c][p] + 1 => InHand(c, p, i)'
        BY <1>1, <1>2, <1>5, <1>6, <1>8, <3>1 DEF InHand, Partition, FirstStep
      <4> QED BY <1>8, <4>1 DEF Pushed, q
    <3>2. CASE ~Handles(c, m)
      <4>1. ~Valid(m) BY <1>8, <3>2 DEF Handles
      <4> QED BY <1>1, <1>8, <4>1 DEF Pushed, Valid, m, q
    <3> QED BY <3>1, <3>2
  <2> QED BY <1>1, <1>8, <2>2, <2>3, <2>4, <2>5 DEF Pushed, Valid, q
<1> QED BY <1>7, <1>8

\* Only the indices that correspond matter.
LEMMA SameOnIndices ==
    ASSUME NEW s, NEW r, NEW I, NEW t, NEW J, SameInOrder(s, I, t, J),
           \A i \in I : r[i] = s[i]
    PROVE  SameInOrder(r, I, t, J)
<1>1. PICK at \in [I -> J] :
         /\ \A i, j \in I : i < j => at[i] < at[j]
         /\ \A i \in I : s[i] = t[at[i]]
         /\ \A j \in J : \E i \in I : at[i] = j
  BY DEF SameInOrder
<1>2. \A i \in I : r[i] = t[at[i]] BY <1>1
<1> QED BY <1>1, <1>2 DEF SameInOrder

\* Where the message in hand stands.
LEMMA HeldPlace ==
    ASSUME TypeInv, PlaceInv, RunInv, NEW c \in Consumers, NEW m, m = cur[c], m # NoMsg,
           NEW p, p = Partition(m), NEW k, k = pos[c][p]
    PROVE  /\ m \in Ids /\ Valid(m) /\ p \in Partitions /\ k \in Nat /\ log[p][k] = m
           /\ k \in HandedThisRun(c, p) /\ \A i \in HandedThisRun(c, p) : i \in Nat /\ i <= k
<1>1. m \in Ids /\ p \in Partitions BY HeldTypes
<1>2. Valid(m) BY DEF TypeInv, LoopOK
<1>3. k \in Nat /\ base[c][p] \in Nat BY <1>1, OffsetTypes, BaseType
<1>4. base[c][p] < k /\ log[p][k] = m BY DEF RunInv, HeldOK
<1>5. HandedThisRun(c, p) = (base[c][p] + 1)..k BY DEF HandedThisRun
<1> QED BY <1>1, <1>2, <1>3, <1>4, <1>5

\* A broadcast adds the message in hand, at the position it was handed over.
LEMMA FeedPublish ==
    ASSUME TypeInv, PlaceInv, RunInv, NEW c \in Consumers, Publish(c),
           NEW p \in Partitions, FeedOK(c, p)
    PROVE  FeedOK(c, p)'
<1> DEFINE I == {i \in DOMAIN feed[c] : Partition(feed[c][i]) = p}
           J == Forwarded(c, p)
           s == feed[c]
<1>1. PICK m \in Ids : m = cur[c] /\ m # NoMsg
  BY DEF Publish, TypeInv, TypeOK, LoopTypeOK, LoopOK
<1>2. /\ UNCHANGED <<log, pos, base>> /\ cur'[c] = NoMsg
      /\ feed'[c] = IF Forwards(c, m) THEN Append(s, m) ELSE s
  BY <1>1 DEF Publish, TypeInv, TypeOK, LoopTypeOK, OutputTypeOK
<1>3. s \in Seq(Ids) BY DEF TypeInv, TypeOK, OutputTypeOK
<1>4. SameInOrder(s, I, log[p], J) BY DEF FeedOK
<1>5. DOMAIN s = 1..Len(s) /\ Len(s) \in Nat BY <1>3
<1>6. /\ DOMAIN Append(s, m) = 1..(Len(s) + 1)
      /\ Append(s, m)[Len(s) + 1] = m /\ \A i \in 1..Len(s) : Append(s, m)[i] = s[i]
  BY <1>3, AppendFacts
<1>7. \A i : ~InHand(c, p, i)' BY <1>2 DEF InHand
<1>8. HandedThisRun(c, p)' = HandedThisRun(c, p) BY <1>2 DEF HandedThisRun
<1> DEFINE k == pos[c][Partition(m)]
<1>9. /\ Valid(m) /\ k \in Nat /\ log[Partition(m)][k] = m
      /\ k \in HandedThisRun(c, Partition(m))
      /\ \A i \in HandedThisRun(c, Partition(m)) : i \in Nat /\ i <= k
  BY <1>1, HeldPlace
<1> HIDE DEF I, J, s, k
<1>10. CASE Partition(m) # p
  <2>1. \A i : ~InHand(c, p, i) BY <1>1, <1>10 DEF InHand
  <2>2. Forwarded(c, p)' = J BY <1>2, <1>7, <1>8, <2>1 DEF Forwarded, Valid, Forwards, J
  <2>3. {i \in DOMAIN feed'[c] : Partition(feed'[c][i]) = p} = I
        /\ \A i \in I : feed'[c][i] = s[i]
    BY <1>2, <1>5, <1>6, <1>10 DEF I, s
  <2>4. SameInOrder(feed'[c], I, log'[p], J) BY <1>2, <1>4, <2>3, SameOnIndices
  <2> QED BY <2>2, <2>3, <2>4 DEF FeedOK, Partition
<1>11. CASE Partition(m) = p /\ ~Forwards(c, m)
  <2>1. \A i \in HandedThisRun(c, p) : InHand(c, p, i) => ~Forwards(c, log[p][i])
    BY <1>9, <1>11 DEF InHand, k
  <2>2. Forwarded(c, p)' = J BY <1>2, <1>7, <1>8, <2>1 DEF Forwarded, Valid, Forwards, J
  <2> QED BY <1>2, <1>4, <1>11, <2>2 DEF FeedOK, Partition, I, s
<1>12. CASE Partition(m) = p /\ Forwards(c, m)
  <2>1. \A i \in HandedThisRun(c, p) : InHand(c, p, i) <=> i = k
    BY <1>1, <1>9, <1>12 DEF InHand, k
  <2>2. Forwarded(c, p)' = J \cup {k}
    BY <1>2, <1>7, <1>8, <1>9, <1>12, <2>1 DEF Forwarded, Valid, Forwards, J
  <2>3. J \in SUBSET Nat /\ \A j \in J : j < k
    <3>1. \A j \in J : j \in HandedThisRun(c, p) /\ j # k BY <2>1 DEF J, Forwarded
    <3>2. k \in Nat /\ \A j \in J : j \in Nat /\ j <= k /\ j # k BY <1>9, <1>12, <3>1
    <3> QED BY <3>2
  <2>4. {i \in DOMAIN feed'[c] : Partition(feed'[c][i]) = p} = I \cup {Len(s) + 1}
    BY <1>2, <1>5, <1>6, <1>12 DEF I, s
  <2>5. I \in SUBSET (1..Len(s)) BY <1>5 DEF I, s
  <2>6. SameInOrder(Append(s, m), I \cup {Len(s) + 1}, log[p], J \cup {k})
    BY <1>3, <1>4, <1>9, <1>12, <2>3, <2>5, SameExtends
  <2> QED BY <1>2, <1>12, <2>2, <2>4, <2>6 DEF FeedOK, Partition
<1> QED BY <1>10, <1>11, <1>12

\* A push adds the message in hand to the window of its chat, and when the
\* window is full takes the oldest away.
LEMMA WindowPush ==
    ASSUME TypeInv, PlaceInv, RunInv, PushWindow, NEW ch \in Chats, WindowOK(ch)
    PROVE  WindowOK(ch)'
<1> DEFINE p == PartitionOf[ch]
           w == window[ch]
           J == Pushed(ch)
<1>0. "chat" \in Consumers BY DEF Consumers
<1>1. PICK m \in Ids : m = cur["chat"] /\ m # NoMsg
  BY <1>0 DEF PushWindow, TypeInv, TypeOK, LoopTypeOK, LoopOK
<1>2. /\ UNCHANGED <<log, pos, base, cur, deletes>> /\ pc["chat"] = "window" /\ pc'["chat"] = "primary"
      /\ window'[ch] = IF ch = ChatOf[m] THEN Push(w, m) ELSE w
  BY <1>0, <1>1 DEF PushWindow, TypeInv, TypeOK, LoopTypeOK, OutputTypeOK, countVars
<1>3. HandedThisRun("chat", p)' = HandedThisRun("chat", p) BY <1>2 DEF HandedThisRun
<1> DEFINE k == pos["chat"][Partition(m)]
<1>4. /\ Valid(m) /\ k \in Nat /\ log[Partition(m)][k] = m
      /\ k \in HandedThisRun("chat", Partition(m))
      /\ \A i \in HandedThisRun("chat", Partition(m)) : i \in Nat /\ i <= k
  BY <1>0, <1>1, HeldPlace
<1> HIDE DEF k, J
<1>5. CASE ch # ChatOf[m]
  <2>1. \A i \in HandedThisRun("chat", p) : InHand("chat", p, i) => ChatOf[log[p][i]] # ch
    BY <1>1, <1>4, <1>5 DEF InHand, k
  <2>2. Pushed(ch)' = Pushed(ch)
    BY <1>2, <1>3, <2>1 DEF Pushed, Valid
  <2> QED BY <1>2, <1>5, <2>2, WindowFrame
<1>6. CASE ch = ChatOf[m]
  <2>0. p = Partition(m) BY <1>6 DEF Partition
  <2> HIDE DEF p
  <2>1. \A i \in HandedThisRun("chat", p) : InHand("chat", p, i) <=> i = k
    BY <1>1, <1>4, <2>0 DEF InHand, k
  <2>2. Pushed(ch)' = J \cup {k}
    <3>1. Pushed(ch) = {i \in HandedThisRun("chat", p) :
                           Valid(log[p][i]) /\ ChatOf[log[p][i]] = ch /\ i # k}
      BY <1>2, <2>1 DEF Pushed, p
    <3>2. Pushed(ch)' = {i \in HandedThisRun("chat", p) :
                           Valid(log[p][i]) /\ ChatOf[log[p][i]] = ch}
      BY <1>2, <1>3 DEF Pushed, Valid, p
    <3> QED BY <1>4, <1>6, <2>0, <3>1, <3>2 DEF J
  <2>3. J \in SUBSET Nat /\ \A j \in J : j < k
    <3>1. \A j \in J : j \in HandedThisRun("chat", p) /\ j # k
      BY <1>2, <2>1 DEF J, Pushed, p
    <3>2. k \in Nat /\ \A j \in J : j \in Nat /\ j <= k /\ j # k BY <1>4, <2>0, <3>1
    <3> QED BY <3>2
  <2>4. PICK T \in SUBSET J :
          /\ \A i \in T : \A j \in J : i < j => j \in T
          /\ SameInOrder(w, DOMAIN w, log[p], T)
          /\ deletes = 0 => T = J \/ Len(w) = WindowSize
    BY DEF WindowOK, J, p
  <2>5. w \in Seq(Ids) /\ DOMAIN w = 1..Len(w) /\ Len(w) \in Nat /\ Len(w) <= WindowSize
    BY DEF WindowOK, TypeInv, TypeOK, OutputTypeOK
  <2> DEFINE r == Append(w, m)
  <2>6. r \in Seq(Ids) /\ r # <<>> /\ Len(r) = Len(w) + 1 /\ DOMAIN r = 1..Len(w) \cup {Len(w) + 1}
    BY <2>5, AppendFacts
  <2>7. SameInOrder(r, DOMAIN r, log[p], T \cup {k})
    <3>1. T \in SUBSET Nat /\ \A j \in T : j < k BY <2>3, <2>4
    <3>2. log[p][k] = m BY <1>4, <2>0
    <3>3. SameInOrder(w, 1..Len(w), log[p], T) BY <2>4, <2>5
    <3>4. w \in Seq(Ids) /\ 1..Len(w) \in SUBSET (1..Len(w)) /\ k \in Nat BY <1>4, <2>5
    <3> HIDE DEF w
    <3>5. SameInOrder(Append(w, m), 1..Len(w) \cup {Len(w) + 1}, log[p], T \cup {k})
      BY <3>1, <3>2, <3>3, <3>4, SameExtends
    <3> QED BY <2>6, <3>5
  <2>8. \A i \in T \cup {k} : \A j \in J \cup {k} : i < j => j \in T \cup {k}
    BY <1>4, <2>3, <2>4
  <2>9. window'[ch] = IF Len(w) < WindowSize THEN r ELSE Tail(r) BY <1>2, <1>6 DEF Push
  <2> HIDE DEF w, r
  <2>10. CASE Len(w) < WindowSize
    <3>1. window'[ch] = r /\ Len(r) <= WindowSize
      BY <2>5, <2>6, <2>9, <2>10, PipelineAssumption
    <3>2. deletes' = 0 => T \cup {k} = Pushed(ch)' BY <1>2, <2>2, <2>4, <2>5, <2>10
    <3>3. T \cup {k} \in SUBSET Pushed(ch)' BY <2>2
    <3>4. \A i \in T \cup {k} : \A j \in Pushed(ch)' : i < j => j \in T \cup {k} BY <2>2, <2>8
    <3> QED BY <1>2, <2>7, <3>1, <3>2, <3>3, <3>4 DEF WindowOK, p
  <2>11. CASE ~(Len(w) < WindowSize)
    <3>0. T \cup {k} \in SUBSET Nat BY <1>4, <2>3, <2>4
    <3>1. PICK o \in T \cup {k} :
             /\ \A j \in T \cup {k} : j # o => o < j
             /\ SameInOrder(Tail(r), DOMAIN Tail(r), log[p], (T \cup {k}) \ {o})
      BY <2>6, <2>7, <3>0, SameTail
    <3> DEFINE U == (T \cup {k}) \ {o}
    <3>2. window'[ch] = Tail(r) /\ Len(Tail(r)) = WindowSize
      <4>1. WindowSize \in Nat BY PipelineAssumption
      <4>2. Len(w) \in Nat /\ Len(w) <= WindowSize BY <2>5
      <4>3. ~(Len(w) < WindowSize) BY <2>11
      <4>4. Len(w) = WindowSize BY ONLY <4>1, <4>2, <4>3
      <4>5. Len(Tail(r)) = Len(r) - 1 BY <2>6, TailFacts
      <4> QED BY <2>5, <2>6, <2>9, <2>11, <4>4, <4>5
    <3>3. \A i \in U : \A j \in J \cup {k} : i < j => j \in U
      <4> SUFFICES ASSUME NEW i \in T \cup {k}, i # o, NEW j \in J \cup {k}, i < j
          PROVE  j \in T \cup {k} /\ j # o
        OBVIOUS
      <4>1. j \in T \cup {k} BY <2>8
      <4>2. o < i /\ o \in Nat /\ i \in Nat /\ j \in Nat BY <3>0, <3>1, <4>1
      <4>3. j # o BY <4>2
      <4> QED BY <4>1, <4>3
    <3>4. U \in SUBSET Pushed(ch)' BY <2>2
    <3>5. \A i \in U : \A j \in Pushed(ch)' : i < j => j \in U BY <2>2, <3>3
    <3>6. SameInOrder(window'[ch], DOMAIN window'[ch], log'[p], U) BY <1>2, <3>1, <3>2
    <3>7. Len(window'[ch]) <= WindowSize /\ Len(window'[ch]) = WindowSize
      BY <3>2, PipelineAssumption
    <3> HIDE DEF U
    <3> QED BY <3>4, <3>5, <3>6, <3>7 DEF WindowOK, p
  <2> QED BY <2>10, <2>11
<1> QED BY <1>5, <1>6

\* The broadcasts and the windows both follow the log.
FollowInv ==
    /\ \A c \in Consumers : \A p \in Partitions : FeedOK(c, p)
    /\ \A ch \in Chats : WindowOK(ch)

\* Nothing has been handed over in the initial state.
LEMMA FollowInit == Init => FollowInv /\ RunInv
<1> SUFFICES ASSUME Init PROVE FollowInv /\ RunInv
  OBVIOUS
<1>1. RunInv BY DEF Init, RunInv, HeldOK, RunOK, Consumers
<1>2. \A c \in Consumers : \A p \in Partitions : HandedThisRun(c, p) = {}
  BY DEF Init, HandedThisRun
<1>3. ASSUME NEW c \in Consumers, NEW p \in Partitions PROVE FeedOK(c, p)
  <2>1. feed[c] = <<>> /\ Forwarded(c, p) = {} BY <1>2 DEF Init, Forwarded
  <2>2. {i \in DOMAIN feed[c] : Partition(feed[c][i]) = p} = {} BY <2>1
  <2> QED BY <2>1, <2>2, SameEmpty DEF FeedOK
<1>4. ASSUME NEW ch \in Chats PROVE WindowOK(ch)
  <2>1. window[ch] = <<>> /\ Pushed(ch) = {}
    BY <1>2, PipelineAssumption DEF Init, Pushed, Consumers
  <2>2. /\ SameInOrder(window[ch], DOMAIN window[ch], log[PartitionOf[ch]], {})
        /\ Len(window[ch]) <= WindowSize
    BY <2>1, SameEmpty, PipelineAssumption
  <2> QED BY <2>1, <2>2 DEF WindowOK
<1> QED BY <1>1, <1>3, <1>4 DEF FollowInv

\* A new entry is beyond what any loop was handed.
LEMMA FollowProduce ==
    ASSUME TypeInv, PlaceInv, FollowInv, NEW m \in Ids, Produce(m)
    PROVE  FollowInv'
<1>1. UNCHANGED <<pc, pos, base, cur, window, feed, deletes>> BY DEF Produce, consumerVars, countVars
<1>2. \A p \in Partitions : \A j \in 1..Len(log[p]) : log'[p][j] = log[p][j]
  BY LogGrows DEF TypeInv
<1>3. ASSUME NEW c \in Consumers, NEW p \in Partitions PROVE FeedOK(c, p)'
  <2>1. \A j \in HandedThisRun(c, p) : log'[p][j] = log[p][j] BY <1>2, HandedType
  <2>2. HandedThisRun(c, p)' = HandedThisRun(c, p) /\ \A i : InHand(c, p, i)' <=> InHand(c, p, i)
    BY <1>1 DEF HandedThisRun, InHand, Partition
  <2>3. Forwarded(c, p)' = Forwarded(c, p) BY <2>1, <2>2 DEF Forwarded, Valid, Forwards
  <2>4. \A j \in Forwarded(c, p) : log'[p][j] = log[p][j] BY <2>1 DEF Forwarded
  <2> QED BY <1>1, <2>3, <2>4, FeedFrame DEF FollowInv
<1>4. ASSUME NEW ch \in Chats PROVE WindowOK(ch)'
  <2> DEFINE p == PartitionOf[ch]
  <2>0. p \in Partitions /\ "chat" \in Consumers BY PipelineAssumption DEF Consumers
  <2>1. \A j \in HandedThisRun("chat", p) : log'[p][j] = log[p][j] BY <1>2, <2>0, HandedType
  <2>2. /\ HandedThisRun("chat", p)' = HandedThisRun("chat", p)
        /\ \A i : InHand("chat", p, i)' <=> InHand("chat", p, i)
    BY <1>1 DEF HandedThisRun, InHand, Partition
  <2>3. Pushed(ch)' = Pushed(ch) BY <1>1, <2>1, <2>2 DEF Pushed, Valid
  <2>4. \A j \in Pushed(ch) : log'[p][j] = log[p][j] BY <2>1 DEF Pushed
  <2> QED BY <1>1, <2>3, <2>4, WindowFrame DEF FollowInv
<1> QED BY <1>3, <1>4 DEF FollowInv

\* Joining, a group starts a run: nothing handed over, nothing broadcast.
LEMMA FollowJoin ==
    ASSUME TypeInv, RunInv, RunInv', FollowInv, NEW c \in Consumers, Join(c), TypeInv'
    PROVE  FollowInv'
<1>1. /\ UNCHANGED <<log, cur, window, feed, deletes>> /\ pc[c] = "joining" /\ pc'[c] = "poll"
      /\ \A d \in Consumers : d # c => pos'[d] = pos[d] /\ base'[d] = base[d] /\ pc'[d] = pc[d]
      /\ pos'[c] = base'[c] /\ cur[c] = NoMsg
  BY DEF Join, TypeInv, TypeOK, LoopTypeOK, LoopOK, countVars
<1>2. \A p \in Partitions : HandedThisRun(c, p)' = {}
  <2>1. \A p \in Partitions : base'[c][p] \in Nat BY DEF TypeInv, TypeOK, LoopTypeOK
  <2> QED BY <1>1, <2>1 DEF HandedThisRun
<1>3. ASSUME NEW d \in Consumers, NEW p \in Partitions PROVE FeedOK(d, p)'
  <2>1. CASE d = c
    <3>1. feed'[c] = <<>> BY <1>1 DEF RunInv, RunOK
    <3>2. Forwarded(c, p)' = {} BY <1>2 DEF Forwarded
    <3>3. {i \in DOMAIN feed'[c] : Partition(feed'[c][i]) = p} = {} BY <3>1
    <3> QED BY <2>1, <3>2, <3>3, SameEmpty DEF FeedOK, Partition
  <2>2. CASE d # c
    <3>1. Forwarded(d, p)' = Forwarded(d, p)
      BY <1>1, <2>2 DEF Forwarded, HandedThisRun, InHand, Valid, Forwards, Partition
    <3> QED BY <1>1, <3>1, FeedFrame DEF FollowInv
  <2> QED BY <2>1, <2>2
<1>4. ASSUME NEW ch \in Chats PROVE WindowOK(ch)'
  <2>0. PartitionOf[ch] \in Partitions BY PipelineAssumption
  <2>1. CASE c = "chat"
    <3>1. window'[ch] = <<>> BY <1>1, <2>1 DEF RunInv, RunOK
    <3>2. Pushed(ch)' = {} BY <1>2, <2>0, <2>1 DEF Pushed
    <3>3. /\ SameInOrder(window'[ch], DOMAIN window'[ch], log'[PartitionOf[ch]], {})
          /\ Len(window'[ch]) <= WindowSize
      BY <3>1, SameEmpty, PipelineAssumption
    <3> QED BY <3>2, <3>3 DEF WindowOK
  <2>2. CASE c # "chat"
    <3>1. Pushed(ch)' = Pushed(ch)
      BY <1>1, <2>2 DEF Pushed, HandedThisRun, InHand, Valid, Partition, Consumers
    <3> QED BY <1>1, <3>1, WindowFrame DEF FollowInv
  <2> QED BY <2>1, <2>2
<1> QED BY <1>3, <1>4 DEF FollowInv

\* The steps that hand nothing over, push nothing and broadcast nothing.
LEMMA FollowFrame ==
    ASSUME FollowInv, UNCHANGED <<log, pos, base, window, feed>>,
           deletes' = 0 => deletes = 0,
           \A c \in Consumers : cur'[c] = cur[c],
           pc["chat"] = "window" <=> pc'["chat"] = "window"
    PROVE  FollowInv'
<1>1. ASSUME NEW c \in Consumers, NEW p \in Partitions PROVE FeedOK(c, p)'
  <2>1. Forwarded(c, p)' = Forwarded(c, p)
    BY DEF Forwarded, HandedThisRun, InHand, Valid, Forwards, Partition
  <2> QED BY <2>1, FeedFrame DEF FollowInv
<1>2. ASSUME NEW ch \in Chats PROVE WindowOK(ch)'
  <2>1. Pushed(ch)' = Pushed(ch)
    BY DEF Pushed, HandedThisRun, InHand, Valid, Partition, Consumers
  <2> QED BY <2>1, WindowFrame DEF FollowInv
<1> QED BY <1>1, <1>2 DEF FollowInv

\* After a crash nothing has been handed over in the next run.
LEMMA FollowCrash ==
    ASSUME TypeInv, Crash
    PROVE  FollowInv'
<1>1. \A c \in Consumers : \A p \in Partitions : HandedThisRun(c, p)' = {}
  BY DEF Crash, HandedThisRun
<1>2. ASSUME NEW c \in Consumers, NEW p \in Partitions PROVE FeedOK(c, p)'
  <2>1. feed'[c] = <<>> /\ Forwarded(c, p)' = {} BY <1>1 DEF Crash, Forwarded
  <2>2. {i \in DOMAIN feed'[c] : Partition(feed'[c][i]) = p} = {} BY <2>1
  <2> QED BY <2>1, <2>2, SameEmpty DEF FeedOK, Partition
<1>3. ASSUME NEW ch \in Chats PROVE WindowOK(ch)'
  <2>1. window'[ch] = <<>> /\ Pushed(ch)' = {}
    BY <1>1, PipelineAssumption DEF Crash, Pushed, Consumers
  <2>2. /\ SameInOrder(window'[ch], DOMAIN window'[ch], log'[PartitionOf[ch]], {})
        /\ Len(window'[ch]) <= WindowSize
    BY <2>1, SameEmpty, PipelineAssumption
  <2> QED BY <2>1, <2>2 DEF WindowOK
<1> QED BY <1>2, <1>3 DEF FollowInv

\* A delete empties the window of its chat, and leaves the others alone.
LEMMA FollowDelete ==
    ASSUME TypeInv, FollowInv, NEW ch \in Chats, DelStart(ch)
    PROVE  FollowInv'
<1>1. /\ UNCHANGED <<log, pos, base, feed, cur, pc>> /\ deletes' # 0 /\ window'[ch] = <<>>
      /\ \A c \in Chats : c # ch => window'[c] = window[c]
  BY PipelineAssumption DEF DelStart, TypeInv, TypeOK, OutputTypeOK, CountTypeOK
<1>2. ASSUME NEW c \in Consumers, NEW p \in Partitions PROVE FeedOK(c, p)'
  <2>1. Forwarded(c, p)' = Forwarded(c, p)
    BY <1>1 DEF Forwarded, HandedThisRun, InHand, Valid, Forwards, Partition
  <2> QED BY <1>1, <2>1, FeedFrame DEF FollowInv
<1>3. ASSUME NEW c \in Chats PROVE WindowOK(c)'
  <2>1. Pushed(c)' = Pushed(c)
    BY <1>1 DEF Pushed, HandedThisRun, InHand, Valid, Partition
  <2>2. CASE c # ch BY <1>1, <2>1, <2>2, WindowFrame DEF FollowInv
  <2>3. CASE c = ch
    <3>1. /\ SameInOrder(window'[c], DOMAIN window'[c], log'[PartitionOf[c]], {})
          /\ Len(window'[c]) <= WindowSize
      BY <1>1, <2>3, SameEmpty, PipelineAssumption
    <3> QED BY <1>1, <3>1 DEF WindowOK
  <2> QED BY <2>2, <2>3
<1> QED BY <1>2, <1>3 DEF FollowInv

\* A broadcast of one loop: its own feed grows, the other's and the windows stay.
LEMMA FollowPublish ==
    ASSUME TypeInv, PlaceInv, RunInv, FollowInv, NEW c \in Consumers, Publish(c)
    PROVE  FollowInv'
<1>1. /\ UNCHANGED <<log, pos, base, window, deletes>>
      /\ \A d \in Consumers : d # c => /\ feed'[d] = feed[d] /\ cur'[d] = cur[d]
                                       /\ pc'[d] = pc[d]
      /\ pc[c] = "publish" /\ pc'[c] = "poll"
  BY DEF Publish, TypeInv, TypeOK, LoopTypeOK, OutputTypeOK, countVars
<1>2. ASSUME NEW d \in Consumers, NEW p \in Partitions PROVE FeedOK(d, p)'
  <2>1. CASE d = c BY <2>1, FeedPublish DEF FollowInv
  <2>2. CASE d # c
    <3>1. Forwarded(d, p)' = Forwarded(d, p)
      BY <1>1, <2>2 DEF Forwarded, HandedThisRun, InHand, Valid, Forwards, Partition
    <3> QED BY <1>1, <2>2, <3>1, FeedFrame DEF FollowInv
  <2> QED BY <2>1, <2>2
<1>3. ASSUME NEW ch \in Chats PROVE WindowOK(ch)'
  <2>1. CASE c = "chat"
    <3>1. Pushed(ch)' = Pushed(ch)
      BY <1>1, <2>1 DEF Pushed, HandedThisRun, Valid
    <3> QED BY <1>1, <3>1, WindowFrame DEF FollowInv
  <2>2. CASE c # "chat"
    <3>1. Pushed(ch)' = Pushed(ch)
      BY <1>1, <2>2 DEF Pushed, HandedThisRun, InHand, Valid, Partition, Consumers
    <3> QED BY <1>1, <3>1, WindowFrame DEF FollowInv
  <2> QED BY <2>1, <2>2
<1> QED BY <1>2, <1>3 DEF FollowInv

\* Every step of the two loops, the timer, the deletes and a crash keeps both
\* outputs in step with the log.
LEMMA FollowStep ==
    /\ TypeInv /\ TypeInv' /\ PlaceInv /\ RunInv /\ RunInv' /\ FollowInv /\ [Next]_vars
    => FollowInv'
<1> SUFFICES ASSUME TypeInv, TypeInv', PlaceInv, RunInv, RunInv', FollowInv, [Next]_vars
    PROVE  FollowInv'
  OBVIOUS
<1> USE DEF storeVars, consumerVars, ghostVars, countVars
<1>0. pc \in [Consumers -> PC] /\ window \in [Chats -> Seq(Ids)] /\ "chat" \in Consumers
  BY DEF TypeInv, TypeOK, LoopTypeOK, OutputTypeOK, Consumers
<1>1. ASSUME NEW m \in Ids, Produce(m) PROVE FollowInv'
  BY <1>1, FollowProduce
<1>2. ASSUME NEW c \in Consumers, Join(c) PROVE FollowInv'
  BY <1>2, FollowJoin
<1>3. ASSUME NEW c \in Consumers, NEW p \in Partitions, Poll(c, p) PROVE FollowInv'
  <2>1. UNCHANGED <<log, window, feed, deletes>> BY <1>3 DEF Poll
  <2>2. ASSUME NEW d \in Consumers, NEW q \in Partitions PROVE FeedOK(d, q)'
    BY <1>3, <2>1, ForwardedPoll, FeedFrame DEF FollowInv
  <2>3. ASSUME NEW ch \in Chats PROVE WindowOK(ch)'
    BY <1>3, <2>1, PushedPoll, WindowFrame DEF FollowInv
  <2> QED BY <2>2, <2>3 DEF FollowInv
<1>4. ASSUME PushWindow PROVE FollowInv'
  <2>1. UNCHANGED <<log, pos, base, cur, feed>> BY <1>4 DEF PushWindow
  <2>2. ASSUME NEW c \in Consumers, NEW p \in Partitions PROVE FeedOK(c, p)'
    <3>1. Forwarded(c, p)' = Forwarded(c, p)
      BY <2>1 DEF Forwarded, HandedThisRun, InHand, Valid, Forwards, Partition
    <3> QED BY <2>1, <3>1, FeedFrame DEF FollowInv
  <2>3. ASSUME NEW ch \in Chats PROVE WindowOK(ch)'
    BY <1>4, WindowPush DEF FollowInv
  <2> QED BY <2>2, <2>3 DEF FollowInv
<1>5. ASSUME NEW c \in Consumers, SavePrimary(c) \/ SaveIndex(c) \/ SaveFails(c)
      PROVE  FollowInv'
  <2>1. /\ UNCHANGED <<log, pos, base, window, feed, deletes, cur>>
        /\ pc["chat"] = "window" <=> pc'["chat"] = "window"
    BY <1>0, <1>5 DEF SavePrimary, SaveIndex, SaveFails
  <2> QED BY <2>1, FollowFrame
<1>6. ASSUME NEW c \in Consumers, Publish(c) PROVE FollowInv'
  BY <1>6, FollowPublish
<1>7. ASSUME NEW c \in Consumers, NEW p \in Partitions, AutoCommit(c, p) PROVE FollowInv'
  BY <1>7, FollowFrame DEF AutoCommit
<1>8. ASSUME NEW ch \in Chats, DelStart(ch) PROVE FollowInv'
  BY <1>8, FollowDelete
<1>9. ASSUME DelScanPrimary \/ DelOpenIndex \/ (\E m \in Ids : DelVisit(m)) \/ DelWrite \/ DelFails
      PROVE  FollowInv'
  <2>1. UNCHANGED <<log, consumerVars, pc, cur, deletes>>
    BY <1>9 DEF DelScanPrimary, DelOpenIndex, DelVisit, DelWrite, DelFails
  <2> QED BY <2>1, FollowFrame
<1>10. ASSUME Crash PROVE FollowInv'
  BY <1>10, FollowCrash
<1>11. ASSUME UNCHANGED vars PROVE FollowInv'
  BY <1>11, FollowFrame DEF vars
<1> QED
  BY <1>1, <1>2, <1>3, <1>4, <1>5, <1>6, <1>7, <1>8, <1>9, <1>10, <1>11
     DEF Next, ConsumerStep, DeleteStep

\* The runs and the outputs together are inductive.
LEMMA FollowAlways == Spec => []FollowInv
<1>1. PersistInv => TypeInv /\ PlaceInv BY DEF PersistInv
<1> QED BY <1>1, PersistAlways, FollowInit, RunStep, FollowStep, PTL DEF Spec

\* However puts fail and the loops interleave, each loop has broadcast what it
\* was handed and should forward: once each, in the order of the partition.
THEOREM FeedsFollowTheLog == Spec => []FeedFollowsLog
<1>1. FollowInv => FeedFollowsLog
  BY DEF FollowInv, FeedOK, FeedFollowsLog
<1> QED BY <1>1, FollowAlways, PTL

\* The window of a chat holds the latest messages of the chat that this run was
\* handed, without a gap, and lacks an older one only if it is full or the chat
\* was deleted.
THEOREM WindowsFollowTheLog == Spec => []WindowIsLogTail
<1>1. FollowInv => WindowIsLogTail
  BY DEF FollowInv, WindowOK, WindowIsLogTail
<1> QED BY <1>1, FollowAlways, PTL

=============================================================================
