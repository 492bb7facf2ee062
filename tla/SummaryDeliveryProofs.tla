------------------------ MODULE SummaryDeliveryProofs ------------------------
(***************************************************************************)
(* Machine-checked proofs about SummaryDelivery, for all browsers, devices, *)
(* listeners, summaries, sizes of the ring and numbers of faults.          *)
(***************************************************************************)
EXTENDS SummaryDelivery, SequenceTheorems, WellFoundedInduction, TLAPS

-----------------------------------------------------------------------------
(* The inductive invariant.                                                *)

\* The gateway: Kafka has not decided on a summary that is being sent, ...
SendingIsNew ==
    /\ refused \subseteq ToSet(stamped)
    /\ \A n \in Summaries : Sending(n) => n \notin ToSet(topic) \cup refused

\* ... its event names the device of the requester unless he has moved, ...
EventNamesAsker ==
    \A n \in Summaries : emit[n] # NotYet /\ emit[n].step # "done" =>
        emit[n].of = device[AskerOf[n]] \/ emit[n].crossed

\* ... it is pushed at the end only, and to sockets that have a device.
PushedAtEnd ==
    /\ \A n \in Summaries : shown[n] # {} => emit[n] # NotYet /\ emit[n].step = "done"
    /\ \A n \in Summaries : \A w \in shown[n] : device[w] # NoDevice
    /\ \A w \in moved : device[w] # NoDevice

GatewayInv ==
    /\ GatewayTypeOK /\ SendingIsNew /\ EventNamesAsker /\ PushedAtEnd
    /\ ClientsAreCurrent /\ PushIsForDevice

\* The consumer: what is broadcast was saved, or its save has failed.
SentIsSaved ==
    /\ cpc # "poll" => pos > 0
    /\ cpc = "send" => topic[pos] \in stored \cup dropped
    /\ ToSet(sent) \subseteq stored \cup dropped

\* u is the part of s that follows its first n elements.
PartAt(n, u, s) ==
    /\ n \in Nat /\ n + Len(u) <= Len(s)
    /\ \A i \in 1..Len(u) : u[i] = s[n + i]

\* A handler: the ring holds the last of what was sent; with what the client
\* was given it makes up all that was sent since it subscribed, if no lag is
\* in between.
RingIsTail(l) ==
    Feed!Subscribed(l) =>
        /\ since[l] + Len(unread[l]) <= Len(sent)
        /\ PartAt(Len(sent) - Len(unread[l]), unread[l], sent)
FedIsHead(l) ==
    Feed!Subscribed(l) /\ ~lag[l] /\ ~lagged[l] =>
        /\ since[l] + Len(fed[l]) + Len(unread[l]) = Len(sent)
        /\ PartAt(since[l], fed[l], sent)
StartsEmpty(l) ==
    /\ hpc[l] \in {"none", "upgraded"} =>
          unread[l] = <<>> /\ fed[l] = <<>> /\ ~lag[l] /\ ~lagged[l]
    /\ peer[l] = "away" => hpc[l] = "none" /\ listed[l] = Feed!NotListed

FeedInv ==
    /\ Feed!FeedTypeOK /\ SentIsSaved
    /\ \A l \in Listeners : RingIsTail(l) /\ FedIsHead(l) /\ StartsEmpty(l)

\* What a client was listed covers what was sent when it asked, but for the chats
\* that the list left out; the rest comes on the websocket, but for what is sent
\* before subscribe().
Covers(l, n) == \E m \in listed[l] : ChatOf[m] = ChatOf[n] /\ ~Feed!Older(m, n)
ListCovered(l) ==
    listed[l] # Feed!NotListed =>
        /\ listed[l] \subseteq ToSet(stamped)
        /\ hpc[l] \in {"upgraded", "select", "sending"} =>
              \A k \in DOMAIN sent :
                  \/ Feed!Subscribed(l) /\ k > since[l]
                  \/ sent[k] \in dropped \cup early[l] \cup misread[l]
                  \/ Covers(l, sent[k])
ListCovers == \A l \in Listeners : ListCovered(l)

\* The worker: one question after the other; a summary repeats the last one of
\* its chat that was stored when it was asked for, and all of these are older.
WorkerInOrder ==
    /\ text \in [Summaries -> Nat] /\ known \in [Summaries -> SUBSET Summaries]
    /\ fetchFaults \in 0..MaxFetchFaults
    /\ \A n \in Summaries : text[n] <= n /\ known[n] \subseteq stored
    /\ \A n \in Summaries : text[n] = 0 =>
          known[n] = {} /\ n \notin ToSet(stamped) /\ \A m \in Summaries : m > n => text[m] = 0
TextRepeats ==
    \A n \in Summaries :
        LET same == {m \in known[n] : ChatOf[m] = ChatOf[n]}
        IN  same # {} => \E x \in same : text[n] = text[x] /\ \A m \in same : ~Feed!Older(x, m)
KnownIsOlder ==
    \A j \in DOMAIN stamped : \A m \in known[stamped[j]] : \E i \in DOMAIN stamped :
        i < j /\ stamped[i] = m

WorkerInv == WorkerInOrder /\ TextRepeats /\ KnownIsOlder

DeliveryInv == GatewayInv /\ FeedInv /\ ListCovers /\ WorkerInv

-----------------------------------------------------------------------------
(* Sequences and events.                                                   *)

LEMMA AppendFacts ==
    ASSUME NEW S, NEW s \in Seq(S), NEW x \in S
    PROVE  /\ Append(s, x) \in Seq(S) /\ Len(Append(s, x)) = Len(s) + 1 /\ Len(s) \in Nat
           /\ DOMAIN s = 1..Len(s) /\ DOMAIN Append(s, x) = 1..Len(s) + 1
           /\ \A i \in DOMAIN s : Append(s, x)[i] = s[i]
           /\ Append(s, x)[Len(s) + 1] = x
OBVIOUS

LEMMA AppendSet ==
    ASSUME NEW S, NEW s \in Seq(S), NEW x \in S
    PROVE  ToSet(Append(s, x)) = ToSet(s) \cup {x}
<1> DEFINE more == Append(s, x)
<1>1. /\ Len(s) \in Nat /\ DOMAIN s = 1..Len(s) /\ DOMAIN more = 1..Len(s) + 1
      /\ \A i \in DOMAIN s : more[i] = s[i]
      /\ more[Len(s) + 1] = x
  BY AppendFacts
<1> HIDE DEF more
<1>2. ASSUME NEW y \in ToSet(more) PROVE y \in ToSet(s) \cup {x}
  <2>1. PICK i \in DOMAIN more : y = more[i] BY DEF ToSet
  <2>2. i \in DOMAIN s \/ i = Len(s) + 1 BY <1>1
  <2> QED BY <1>1, <2>1, <2>2 DEF ToSet
<1>3. x \in ToSet(more) BY <1>1 DEF ToSet
<1>4. ASSUME NEW i \in DOMAIN s PROVE s[i] \in ToSet(more)
  <2>1. i \in DOMAIN more /\ more[i] = s[i] BY <1>1
  <2> QED BY <2>1 DEF ToSet
<1>5. ToSet(s) \subseteq ToSet(more) BY <1>4 DEF ToSet
<1> QED BY <1>2, <1>3, <1>5 DEF more

LEMMA AppendInjective1 ==
    ASSUME NEW S, NEW s \in Seq(S), NEW x \in S, IsInjective(s), x \notin ToSet(s)
    PROVE  IsInjective(Append(s, x))
<1> DEFINE more == Append(s, x)
<1>1. /\ Len(s) \in Nat /\ DOMAIN s = 1..Len(s) /\ DOMAIN more = 1..Len(s) + 1
      /\ \A i \in DOMAIN s : more[i] = s[i] /\ more[i] # x
      /\ more[Len(s) + 1] = x
  BY AppendFacts DEF ToSet
<1> HIDE DEF more
<1>2. ASSUME NEW a \in DOMAIN more, NEW b \in DOMAIN more, more[a] = more[b] PROVE a = b
  <2>1. CASE a \in DOMAIN s /\ b \in DOMAIN s BY <1>1, <1>2, <2>1 DEF IsInjective
  <2>2. CASE a \notin DOMAIN s \/ b \notin DOMAIN s BY <1>1, <1>2, <2>2
  <2> QED BY <2>1, <2>2
<1> QED BY <1>2 DEF IsInjective, more

\* A run of emitSummaryBroadcast() goes on and keeps the device it named.
LEMMA EmitGoesOn ==
    ASSUME NEW e \in Emits, NEW step \in {"sending", "answered", "done"}
    PROVE  /\ [e EXCEPT !.step = step] \in Emits
           /\ [e EXCEPT !.step = step].step = step
           /\ [e EXCEPT !.step = step].of = e.of
           /\ [e EXCEPT !.step = step].crossed = e.crossed
BY DEF Emits

LEMMA EmitCrossed ==
    ASSUME NEW e \in Emits
    PROVE  /\ [e EXCEPT !.crossed = TRUE] \in Emits
           /\ [e EXCEPT !.crossed = TRUE].step = e.step
           /\ [e EXCEPT !.crossed = TRUE].of = e.of
           /\ [e EXCEPT !.crossed = TRUE].crossed
BY DEF Emits

LEMMA NotYetIsNone == NotYet \notin Emits /\ \A e \in Emits : e # NotYet
<1>1. ASSUME NotYet \in Emits PROVE FALSE
  <2>1. NotYet.step \in {"sending", "answered", "done"} BY <1>1 DEF Emits
  <2> QED BY <2>1 DEF NotYet
<1> QED BY <1>1

\* The step of one summary: the others stay where they are.
LEMMA EmitStep ==
    ASSUME GatewayTypeOK, NEW n \in Summaries, emit[n] # NotYet,
           NEW step \in {"sending", "answered", "done"},
           emit' = [emit EXCEPT ![n].step = step]
    PROVE  /\ emit' \in [Summaries -> Emits \cup {NotYet}]
           /\ emit'[n] # NotYet /\ emit'[n].step = step
           /\ emit'[n].of = emit[n].of /\ emit'[n].crossed = emit[n].crossed
           /\ \A k \in Summaries : k # n => emit'[k] = emit[k]
<1>1. emit \in [Summaries -> Emits \cup {NotYet}] /\ emit[n] \in Emits
  BY DEF GatewayTypeOK
<1> DEFINE next == [emit[n] EXCEPT !.step = step]
<1>2. /\ next \in Emits /\ next.step = step /\ next.of = emit[n].of
      /\ next.crossed = emit[n].crossed
  BY <1>1, EmitGoesOn
<1>3. emit' = [emit EXCEPT ![n] = next] OBVIOUS
<1> HIDE DEF next
<1>4. emit'[n] = next /\ \A k \in Summaries : k # n => emit'[k] = emit[k] BY <1>1, <1>3
<1>5. emit' \in [Summaries -> Emits \cup {NotYet}] BY <1>1, <1>2, <1>3
<1> QED BY <1>2, <1>4, <1>5, NotYetIsNone

-----------------------------------------------------------------------------
(* The gateway.                                                            *)

LEMMA EmitGateway ==
    ASSUME GatewayInv, NEW n \in Summaries, Emit(n)
    PROVE  GatewayInv' /\ n \notin ToSet(stamped) /\ stamped' = Append(stamped, n) /\ topic' = topic
<1> DEFINE born == [step |-> "sending", of |-> device[AskerOf[n]], crossed |-> FALSE]
<1> USE DEF GatewayInv
<1>1. /\ emit[n] = NotYet /\ emit' = [emit EXCEPT ![n] = born]
      /\ stamped' = Append(stamped, n)
      /\ UNCHANGED <<ready, device, clients, topic, refused, shown, moved, registers>>
  BY DEF Emit
<1>2. AskerOf[n] \in Sockets BY RegistryAssumption
<1>3. born \in Emits BY <1>2 DEF GatewayTypeOK, Emits
<1>4. born # NotYet /\ born.step = "sending" /\ born.of = device[AskerOf[n]]
  BY <1>3, NotYetIsNone
<1> HIDE DEF born
<1>5. /\ emit' \in [Summaries -> Emits \cup {NotYet}] /\ emit'[n] = born
      /\ \A k \in Summaries : k # n => emit'[k] = emit[k]
  BY <1>1, <1>3 DEF GatewayTypeOK
<1>6. n \notin ToSet(stamped) /\ n \notin ToSet(topic) BY <1>1 DEF GatewayTypeOK
<1>7. stamped' \in Seq(Summaries) /\ IsInjective(stamped') /\ ToSet(stamped') = ToSet(stamped) \cup {n}
  BY <1>1, <1>6, AppendFacts, AppendSet, AppendInjective1 DEF GatewayTypeOK
<1>8. ToSet(stamped') = {k \in Summaries : emit'[k] # NotYet}
  BY <1>4, <1>5, <1>7 DEF GatewayTypeOK
<1>9. shown[n] = {} BY <1>1 DEF PushedAtEnd
<1>10. GatewayTypeOK'
  <2>1. ToSet(topic) \subseteq ToSet(stamped') \ refused BY <1>7 DEF GatewayTypeOK
  <2> QED BY <1>1, <1>5, <1>7, <1>8, <2>1 DEF GatewayTypeOK
<1>11. SendingIsNew'
  <2>1. n \notin refused \cup ToSet(topic) BY <1>6 DEF SendingIsNew
  <2> QED BY <1>1, <1>5, <1>7, <2>1 DEF SendingIsNew, Sending
<1>12. EventNamesAsker' BY <1>1, <1>4, <1>5 DEF EventNamesAsker
<1>13. PushedAtEnd' BY <1>1, <1>5, <1>9 DEF PushedAtEnd
<1>14. ClientsAreCurrent' BY <1>1 DEF ClientsAreCurrent
<1>15. PushIsForDevice' BY <1>1, <1>5, <1>9 DEF PushIsForDevice
<1> QED BY <1>1, <1>6, <1>10, <1>11, <1>12, <1>13, <1>14, <1>15

LEMMA KafkaTakesGateway ==
    ASSUME GatewayInv, NEW n \in Summaries, KafkaTakes(n)
    PROVE  GatewayInv' /\ stamped' = stamped /\ topic' = Append(topic, n) /\ n \in ToSet(stamped)
<1> USE DEF GatewayInv
<1>1. /\ emit[n] # NotYet /\ emit[n].step = "sending" /\ topic' = Append(topic, n)
      /\ emit' = [emit EXCEPT ![n].step = "answered"]
      /\ UNCHANGED <<ready, device, clients, stamped, refused, shown, moved, registers>>
  BY DEF KafkaTakes, Sending
<1>2. /\ emit' \in [Summaries -> Emits \cup {NotYet}]
      /\ emit'[n] # NotYet /\ emit'[n].step = "answered"
      /\ emit'[n].of = emit[n].of /\ emit'[n].crossed = emit[n].crossed
      /\ \A k \in Summaries : k # n => emit'[k] = emit[k]
  BY <1>1, EmitStep
<1>3. n \in ToSet(stamped) /\ n \notin ToSet(topic) \cup refused
  BY <1>1 DEF GatewayTypeOK, SendingIsNew, Sending
<1>4. topic' \in Seq(Summaries) /\ IsInjective(topic') /\ ToSet(topic') = ToSet(topic) \cup {n}
  BY <1>1, <1>3, AppendFacts, AppendSet, AppendInjective1 DEF GatewayTypeOK
<1>5. GatewayTypeOK'
  <2>1. ToSet(stamped) = {k \in Summaries : emit'[k] # NotYet}
    BY <1>1, <1>2 DEF GatewayTypeOK
  <2>2. ToSet(topic') \subseteq ToSet(stamped) \ refused BY <1>3, <1>4 DEF GatewayTypeOK
  <2> QED BY <1>1, <1>2, <1>4, <2>1, <2>2 DEF GatewayTypeOK
<1>6. SendingIsNew' BY <1>1, <1>2, <1>4 DEF SendingIsNew, Sending
<1>7. EventNamesAsker' BY <1>1, <1>2 DEF EventNamesAsker
<1>8. PushedAtEnd' BY <1>1, <1>2 DEF PushedAtEnd
<1>9. ClientsAreCurrent' BY <1>1 DEF ClientsAreCurrent
<1>10. PushIsForDevice' BY <1>1, <1>2 DEF PushIsForDevice
<1> QED BY <1>1, <1>3, <1>5, <1>6, <1>7, <1>8, <1>9, <1>10

LEMMA KafkaRefusesGateway ==
    ASSUME GatewayInv, NEW n \in Summaries, KafkaRefuses(n)
    PROVE  GatewayInv' /\ UNCHANGED <<stamped, topic>>
<1> USE DEF GatewayInv
<1>1. /\ emit[n] # NotYet /\ emit[n].step = "sending" /\ refused' = refused \cup {n}
      /\ emit' = [emit EXCEPT ![n].step = "answered"]
      /\ UNCHANGED <<ready, device, clients, stamped, topic, shown, moved, registers>>
  BY DEF KafkaRefuses, Sending
<1>2. /\ emit' \in [Summaries -> Emits \cup {NotYet}]
      /\ emit'[n] # NotYet /\ emit'[n].step = "answered"
      /\ emit'[n].of = emit[n].of /\ emit'[n].crossed = emit[n].crossed
      /\ \A k \in Summaries : k # n => emit'[k] = emit[k]
  BY <1>1, EmitStep
<1>3. n \in ToSet(stamped) /\ n \notin ToSet(topic)
  BY <1>1 DEF GatewayTypeOK, SendingIsNew, Sending
<1>4. GatewayTypeOK'
  <2>1. ToSet(stamped) = {k \in Summaries : emit'[k] # NotYet}
    BY <1>1, <1>2 DEF GatewayTypeOK
  <2>2. ToSet(topic) \subseteq ToSet(stamped) \ refused' BY <1>1, <1>3 DEF GatewayTypeOK
  <2> QED BY <1>1, <1>2, <2>1, <2>2 DEF GatewayTypeOK
<1>5. SendingIsNew' BY <1>1, <1>2, <1>3 DEF SendingIsNew, Sending
<1>6. EventNamesAsker' BY <1>1, <1>2 DEF EventNamesAsker
<1>7. PushedAtEnd' BY <1>1, <1>2 DEF PushedAtEnd
<1>8. ClientsAreCurrent' BY <1>1 DEF ClientsAreCurrent
<1>9. PushIsForDevice' BY <1>1, <1>2 DEF PushIsForDevice
<1> QED BY <1>1, <1>4, <1>5, <1>6, <1>7, <1>8, <1>9

\* The audience is read at the time of the push: sockets of the device that the
\* requester has now.
LEMMA BroadcastGateway ==
    ASSUME GatewayInv, NEW n \in Summaries, Broadcast(n)
    PROVE  GatewayInv' /\ UNCHANGED <<stamped, topic>>
<1> USE DEF GatewayInv
<1> DEFINE d == device[AskerOf[n]]
<1>1. /\ emit[n] # NotYet /\ emit[n].step = "answered" /\ shown' = [shown EXCEPT ![n] = Audience(d)]
      /\ emit' = [emit EXCEPT ![n].step = "done"]
      /\ UNCHANGED <<ready, device, clients, stamped, topic, refused, moved, registers>>
  BY DEF Broadcast
<1>2. /\ emit' \in [Summaries -> Emits \cup {NotYet}]
      /\ emit'[n] # NotYet /\ emit'[n].step = "done"
      /\ emit'[n].of = emit[n].of /\ emit'[n].crossed = emit[n].crossed
      /\ \A k \in Summaries : k # n => emit'[k] = emit[k]
  BY <1>1, EmitStep
<1>3. /\ Audience(d) \subseteq Sockets
      /\ \A w \in Audience(d) : d \in Devices /\ w \in clients[d]
  BY DEF GatewayTypeOK, Audience
<1>4. \A w \in Audience(d) : device[w] = d \/ w \in moved
  BY <1>3 DEF ClientsAreCurrent
<1>5. \A w \in Audience(d) : device[w] # NoDevice
  BY <1>3, <1>4, RegistryAssumption DEF PushedAtEnd
<1> HIDE DEF d
<1>6. /\ shown' \in [Summaries -> SUBSET Sockets] /\ shown'[n] = Audience(d)
      /\ \A k \in Summaries : k # n => shown'[k] = shown[k]
  BY <1>1, <1>3 DEF GatewayTypeOK
<1>7. GatewayTypeOK'
  <2>1. ToSet(stamped) = {k \in Summaries : emit'[k] # NotYet}
    BY <1>1, <1>2 DEF GatewayTypeOK
  <2> QED BY <1>1, <1>2, <1>6, <2>1 DEF GatewayTypeOK
<1>8. SendingIsNew' BY <1>1, <1>2 DEF SendingIsNew, Sending
<1>9. EventNamesAsker' BY <1>1, <1>2 DEF EventNamesAsker
<1>10. PushedAtEnd' BY <1>1, <1>2, <1>5, <1>6 DEF PushedAtEnd
<1>11. ClientsAreCurrent' BY <1>1 DEF ClientsAreCurrent
<1>12. PushIsForDevice'
  <2>1. emit[n].of = d \/ emit[n].crossed BY <1>1 DEF EventNamesAsker, d
  <2>2. \A w \in shown'[n] : device[w] = emit'[n].of \/ emit'[n].crossed \/ w \in moved
    BY <1>2, <1>4, <1>6, <2>1
  <2> QED BY <1>1, <1>2, <1>6, <2>2 DEF PushIsForDevice
<1> QED BY <1>1, <1>7, <1>8, <1>9, <1>10, <1>11, <1>12

\* A registration crosses the emits of its socket that name another device.
LEMMA RegisterEmits ==
    ASSUME GatewayTypeOK, NEW w \in Sockets, NEW d \in Devices, Register(w, d)
    PROVE  /\ emit' \in [Summaries -> Emits \cup {NotYet}]
           /\ \A n \in Summaries :
                 /\ emit'[n] = NotYet <=> emit[n] = NotYet
                 /\ emit[n] # NotYet => /\ emit'[n].step = emit[n].step /\ emit'[n].of = emit[n].of
                                        /\ emit[n].crossed => emit'[n].crossed
                 /\ emit[n] # NotYet /\ AskerOf[n] = w /\ emit[n].step # "done" =>
                       emit'[n].of = d \/ emit'[n].crossed
<1>1. emit' = [n \in Summaries |->
                  IF emit[n] # NotYet /\ AskerOf[n] = w /\ emit[n].step # "done" /\ emit[n].of # d
                  THEN [emit[n] EXCEPT !.crossed = TRUE] ELSE emit[n]]
  BY DEF Register
<1>2. ASSUME NEW n \in Summaries
      PROVE  /\ emit'[n] \in Emits \cup {NotYet}
             /\ emit'[n] = NotYet <=> emit[n] = NotYet
             /\ emit[n] # NotYet => /\ emit'[n].step = emit[n].step /\ emit'[n].of = emit[n].of
                                    /\ emit[n].crossed => emit'[n].crossed
             /\ emit[n] # NotYet /\ AskerOf[n] = w /\ emit[n].step # "done" =>
                   emit'[n].of = d \/ emit'[n].crossed
  <2> DEFINE next == [emit[n] EXCEPT !.crossed = TRUE]
  <2>1. emit[n] \in Emits \cup {NotYet} BY DEF GatewayTypeOK
  <2>2. CASE emit[n] # NotYet /\ AskerOf[n] = w /\ emit[n].step # "done" /\ emit[n].of # d
    <3>1. emit'[n] = next BY <1>1, <2>2
    <3>2. next \in Emits /\ next.step = emit[n].step /\ next.of = emit[n].of /\ next.crossed
      BY <2>1, <2>2, EmitCrossed
    <3> HIDE DEF next
    <3> QED BY <2>2, <3>1, <3>2, NotYetIsNone
  <2>3. CASE ~(emit[n] # NotYet /\ AskerOf[n] = w /\ emit[n].step # "done" /\ emit[n].of # d)
    <3>1. emit'[n] = emit[n] BY <1>1, <2>3
    <3> QED BY <2>1, <2>3, <3>1
  <2> QED BY <2>2, <2>3
<1>3. emit' \in [Summaries -> Emits \cup {NotYet}] BY <1>1, <1>2
<1> QED BY <1>2, <1>3

LEMMA RegisterGateway ==
    ASSUME GatewayInv, NEW w \in Sockets, NEW d \in Devices, Register(w, d)
    PROVE  GatewayInv' /\ UNCHANGED <<stamped, topic>>
<1> USE DEF GatewayInv
<1>1. /\ ready[w] = "open" /\ registers < MaxRegisters /\ registers' = registers + 1
      /\ clients' = [clients EXCEPT ![d] = @ \cup {w}]
      /\ device' = [device EXCEPT ![w] = d]
      /\ moved' = IF device[w] \in {NoDevice, d} THEN moved ELSE moved \cup {w}
      /\ UNCHANGED <<ready, stamped, topic, refused, shown>>
  BY DEF Register
<1>2. /\ emit' \in [Summaries -> Emits \cup {NotYet}]
      /\ \A n \in Summaries :
            /\ emit'[n] = NotYet <=> emit[n] = NotYet
            /\ emit[n] # NotYet => /\ emit'[n].step = emit[n].step /\ emit'[n].of = emit[n].of
                                   /\ emit[n].crossed => emit'[n].crossed
            /\ emit[n] # NotYet /\ AskerOf[n] = w /\ emit[n].step # "done" =>
                  emit'[n].of = d \/ emit'[n].crossed
  BY RegisterEmits
<1>3. /\ device' \in [Sockets -> Devices \cup {NoDevice}] /\ device'[w] = d /\ d # NoDevice
      /\ \A v \in Sockets : v # w => device'[v] = device[v]
      /\ clients' \in [Devices -> SUBSET Sockets] /\ clients'[d] = clients[d] \cup {w}
      /\ \A e \in Devices : e # d => clients'[e] = clients[e]
      /\ moved \subseteq moved' /\ moved' \subseteq moved \cup {w}
      /\ device[w] \notin {NoDevice, d} => w \in moved'
  BY <1>1, RegistryAssumption DEF GatewayTypeOK
<1>4. GatewayTypeOK'
  <2>1. ToSet(stamped) = {k \in Summaries : emit'[k] # NotYet}
    BY <1>2 DEF GatewayTypeOK
  <2>2. moved' \subseteq Sockets BY <1>3 DEF GatewayTypeOK
  <2>3. registers' \in 0..MaxRegisters
    BY <1>1, RegistryAssumption DEF GatewayTypeOK
  <2> QED BY <1>1, <1>2, <1>3, <2>1, <2>2, <2>3 DEF GatewayTypeOK
<1>5. SendingIsNew' BY <1>1, <1>2 DEF SendingIsNew, Sending
<1>6. EventNamesAsker'
  <2> SUFFICES ASSUME NEW n \in Summaries, emit'[n] # NotYet, emit'[n].step # "done"
               PROVE  emit'[n].of = device'[AskerOf[n]] \/ emit'[n].crossed
    BY DEF EventNamesAsker
  <2>1. CASE AskerOf[n] = w BY <1>2, <1>3, <2>1
  <2>2. CASE AskerOf[n] # w
    BY <1>2, <1>3, <2>2, RegistryAssumption DEF EventNamesAsker
  <2> QED BY <2>1, <2>2
<1>7. PushedAtEnd'
  <2>1. \A v \in Sockets : device[v] # NoDevice => device'[v] # NoDevice BY <1>3
  <2>2. \A n \in Summaries : \A v \in shown[n] : device'[v] # NoDevice
    BY <2>1 DEF GatewayTypeOK, PushedAtEnd
  <2>3. \A v \in moved' : device'[v] # NoDevice
    BY <1>3, <2>1 DEF GatewayTypeOK, PushedAtEnd
  <2> QED BY <1>1, <1>2, <2>2, <2>3 DEF PushedAtEnd
<1>8. ClientsAreCurrent'
  <2>1. ASSUME NEW v \in Sockets, ready[v] = "open", device'[v] # NoDevice
        PROVE  v \in clients'[device'[v]]
    <3>1. CASE v = w BY <1>3, <3>1
    <3>2. CASE v # w
      <4>1. device'[v] = device[v] /\ device[v] \in Devices
        BY <1>3, <2>1, <3>2 DEF GatewayTypeOK
      <4>2. v \in clients[device[v]] BY <2>1, <4>1 DEF ClientsAreCurrent
      <4>3. clients[device[v]] \subseteq clients'[device[v]] BY <1>3, <4>1
      <4> QED BY <4>1, <4>2, <4>3
    <3> QED BY <3>1, <3>2
  <2>2. ASSUME NEW v \in Sockets, NEW e \in Devices, v \in clients'[e]
        PROVE  (ready[v] # "closed" /\ device'[v] = e) \/ v \in moved'
    <3>1. CASE v = w /\ e = d BY <1>1, <1>3, <3>1
    <3>2. CASE v = w /\ e # d
      <4>1. v \in clients[e] BY <1>3, <2>2, <3>2
      <4>2. device[w] = e \/ w \in moved BY <3>2, <4>1 DEF ClientsAreCurrent
      <4>3. e \notin {NoDevice, d} BY <3>2, RegistryAssumption
      <4> QED BY <1>3, <3>2, <4>2, <4>3
    <3>3. CASE v # w
      <4>1. v \in clients[e] BY <1>3, <2>2, <3>3
      <4> QED BY <1>3, <3>3, <4>1 DEF ClientsAreCurrent
    <3> QED BY <3>1, <3>2, <3>3
  <2> QED BY <1>1, <2>1, <2>2 DEF ClientsAreCurrent
<1>9. PushIsForDevice'
  <2> SUFFICES ASSUME NEW n \in Summaries, NEW v \in shown[n]
               PROVE  device'[v] = emit'[n].of \/ emit'[n].crossed \/ v \in moved'
    BY <1>1 DEF PushIsForDevice
  <2>1. emit[n] # NotYet /\ device[v] # NoDevice /\ v \in Sockets
    BY DEF PushedAtEnd, GatewayTypeOK
  <2>2. device[v] = emit[n].of \/ emit[n].crossed \/ v \in moved BY DEF PushIsForDevice
  <2> QED BY <1>2, <1>3, <2>1, <2>2
<1> QED BY <1>1, <1>4, <1>5, <1>6, <1>7, <1>8, <1>9

LEMMA LeaveGateway ==
    ASSUME GatewayInv, NEW w \in Sockets, Leave(w)
    PROVE  GatewayInv' /\ UNCHANGED <<stamped, topic>>
<1> USE DEF GatewayInv
<1>1. /\ ready[w] = "open" /\ ready' = [ready EXCEPT ![w] = "closing"]
      /\ UNCHANGED <<device, clients, emit, stamped, topic, refused, shown, moved, registers>>
  BY DEF Leave
<1>2. /\ ready' \in [Sockets -> {"open", "closing", "closed"}] /\ ready'[w] = "closing"
      /\ \A v \in Sockets : v # w => ready'[v] = ready[v]
  BY <1>1 DEF GatewayTypeOK
<1>3. GatewayTypeOK' BY <1>1, <1>2 DEF GatewayTypeOK
<1>4. SendingIsNew' /\ EventNamesAsker' /\ PushedAtEnd' /\ PushIsForDevice'
  BY <1>1 DEF SendingIsNew, Sending, EventNamesAsker, PushedAtEnd, PushIsForDevice
<1>5. ClientsAreCurrent' BY <1>1, <1>2 DEF ClientsAreCurrent
<1> QED BY <1>1, <1>3, <1>4, <1>5

LEMMA CloseEventGateway ==
    ASSUME GatewayInv, NEW w \in Sockets, CloseEvent(w)
    PROVE  GatewayInv' /\ UNCHANGED <<stamped, topic>>
<1> USE DEF GatewayInv
<1>1. /\ ready[w] = "closing" /\ ready' = [ready EXCEPT ![w] = "closed"]
      /\ clients' = [d \in Devices |-> IF d = device[w] THEN clients[d] \ {w} ELSE clients[d]]
      /\ UNCHANGED <<device, emit, stamped, topic, refused, shown, moved, registers>>
  BY DEF CloseEvent
<1>2. /\ ready' \in [Sockets -> {"open", "closing", "closed"}] /\ ready'[w] = "closed"
      /\ \A v \in Sockets : v # w => ready'[v] = ready[v]
  BY <1>1 DEF GatewayTypeOK
<1>3. clients' \in [Devices -> SUBSET Sockets] BY <1>1 DEF GatewayTypeOK
<1>4. GatewayTypeOK' BY <1>1, <1>2, <1>3 DEF GatewayTypeOK
<1>5. SendingIsNew' /\ EventNamesAsker' /\ PushedAtEnd' /\ PushIsForDevice'
  BY <1>1 DEF SendingIsNew, Sending, EventNamesAsker, PushedAtEnd, PushIsForDevice
<1>6. ClientsAreCurrent'
  <2>1. ASSUME NEW v \in Sockets, ready'[v] = "open", device[v] # NoDevice
        PROVE  v \in clients'[device[v]]
    <3>1. v # w /\ device[v] \in Devices BY <1>2, <2>1 DEF GatewayTypeOK
    <3>2. v \in clients[device[v]] BY <1>2, <2>1, <3>1 DEF ClientsAreCurrent
    <3> QED BY <1>1, <3>1, <3>2
  <2>2. ASSUME NEW v \in Sockets, NEW d \in Devices, v \in clients'[d]
        PROVE  (ready'[v] # "closed" /\ device[v] = d) \/ v \in moved
    <3>1. v \in clients[d] /\ (d = device[w] => v # w) BY <1>1, <2>2
    <3>2. device[v] = d \/ v \in moved BY <3>1 DEF ClientsAreCurrent
    <3> QED BY <1>1, <1>2, <3>1, <3>2 DEF ClientsAreCurrent
  <2> QED BY <1>1, <2>1, <2>2 DEF ClientsAreCurrent
<1> QED BY <1>1, <1>4, <1>5, <1>6

LEMMA InitGateway == ASSUME GatewayInit PROVE GatewayInv
<1>1. ToSet(stamped) = {} /\ ToSet(topic) = {} BY DEF GatewayInit, ToSet
<1>2. {n \in Summaries : emit[n] # NotYet} = {} BY DEF GatewayInit
<1>3. IsInjective(stamped) /\ IsInjective(topic) BY DEF GatewayInit, IsInjective
<1>4. /\ device \in [Sockets -> Devices \cup {NoDevice}] /\ clients \in [Devices -> SUBSET Sockets]
      /\ emit \in [Summaries -> Emits \cup {NotYet}] /\ shown \in [Summaries -> SUBSET Sockets]
  BY DEF GatewayInit
<1>5. registers \in 0..MaxRegisters BY RegistryAssumption DEF GatewayInit
<1>6. GatewayTypeOK BY <1>1, <1>2, <1>3, <1>4, <1>5 DEF GatewayInit, GatewayTypeOK
<1>7. SendingIsNew /\ EventNamesAsker BY <1>1, <1>2 DEF GatewayInit, SendingIsNew, Sending, EventNamesAsker
<1>8. PushedAtEnd /\ PushIsForDevice BY DEF GatewayInit, PushedAtEnd, PushIsForDevice
<1>9. ClientsAreCurrent BY DEF GatewayInit, ClientsAreCurrent
<1> QED BY <1>6, <1>7, <1>8, <1>9 DEF GatewayInv

\* What a step of the gateway does to the two logs.
LogStep ==
    \/ UNCHANGED <<stamped, topic>>
    \/ \E n \in Summaries : /\ n \notin ToSet(stamped) /\ text[n] # 0
                            /\ stamped' = Append(stamped, n) /\ topic' = topic
    \/ \E n \in Summaries : stamped' = stamped /\ topic' = Append(topic, n)

LEMMA NextGateway ==
    ASSUME GatewayInv, LineArrives \/ BrowserStep \/ KafkaStep \/ PushStep
    PROVE  GatewayInv' /\ LogStep
<1>1. CASE LineArrives BY <1>1, EmitGateway DEF LineArrives, LogStep
<1>2. CASE BrowserStep
  BY <1>2, RegisterGateway, LeaveGateway, CloseEventGateway DEF BrowserStep, LogStep
<1>3. CASE KafkaStep
  BY <1>3, KafkaTakesGateway, KafkaRefusesGateway DEF KafkaStep, LogStep
<1>4. CASE PushStep BY <1>4, BroadcastGateway DEF PushStep, LogStep
<1> QED BY <1>1, <1>2, <1>3, <1>4

-----------------------------------------------------------------------------
(* The consumer and the handlers of the Rust server.                       *)

\* The operators of the community modules, as the instance has them.
LEMMA SameToSet == \A s : Feed!ToSet(s) = ToSet(s)
BY DEF Feed!ToSet, ToSet

LEMMA PrefixSet ==
    ASSUME NEW S, NEW s \in Seq(S), NEW n \in 0..Len(s)
    PROVE  ToSet(SubSeq(s, 1, n)) = {s[i] : i \in 1..n}
<1>1. Len(s) \in Nat /\ n \in Nat /\ n <= Len(s) OBVIOUS
<1> DEFINE head == SubSeq(s, 1, n)
<1>2. DOMAIN head = 1..n /\ \A i \in 1..n : head[i] = s[i] BY <1>1
<1> HIDE DEF head
<1>3. {head[i] : i \in DOMAIN head} = {s[i] : i \in 1..n} BY <1>2
<1> QED BY <1>3 DEF ToSet, head

\* The events the consumer has taken, by their place in the topic.
Taken == {topic[i] : i \in 1..pos}

LEMMA TakenType ==
    ASSUME GatewayTypeOK, FeedInv
    PROVE  /\ stored \cup dropped \cup ToSet(sent) \subseteq Taken
           /\ pos \in 0..Len(topic) /\ Len(topic) \in Nat /\ DOMAIN topic = 1..Len(topic)
           /\ topic \in Seq(Summaries) /\ Taken \subseteq ToSet(topic)
<1>1. topic \in Seq(Summaries) BY DEF GatewayTypeOK
<1>2. pos \in 0..Len(topic) BY DEF FeedInv, Feed!FeedTypeOK
<1>3. ToSet(SubSeq(topic, 1, pos)) = Taken BY <1>1, <1>2, PrefixSet DEF Taken
<1>4. stored \cup dropped \cup ToSet(sent) \subseteq Taken
  BY <1>3, SameToSet DEF FeedInv, Feed!FeedTypeOK
<1>5. Len(topic) \in Nat /\ DOMAIN topic = 1..Len(topic) BY <1>1
<1>6. Taken \subseteq ToSet(topic) BY <1>2, <1>5 DEF Taken, ToSet
<1> QED BY <1>1, <1>2, <1>4, <1>5, <1>6

\* The topic goes on: what was taken stays taken.
LEMMA TopicFeed ==
    ASSUME GatewayTypeOK, FeedInv, UNCHANGED feedVars,
           topic' = topic \/ \E n \in Summaries : topic' = Append(topic, n)
    PROVE  FeedInv'
<1>1. /\ topic' \in Seq(Summaries) /\ Len(topic) <= Len(topic') /\ Len(topic') \in Nat
      /\ \A i \in 1..Len(topic) : topic'[i] = topic[i]
  BY TakenType, AppendFacts
<1>2. pos' = pos /\ pos \in 0..Len(topic) /\ pos \in 0..Len(topic') /\ Len(topic) \in Nat
  BY <1>1, TakenType DEF feedVars
<1>3. ToSet(SubSeq(topic', 1, pos')) = ToSet(SubSeq(topic, 1, pos))
  <2>1. ToSet(SubSeq(topic', 1, pos)) = {topic'[i] : i \in 1..pos} BY <1>1, <1>2, PrefixSet
  <2>2. ToSet(SubSeq(topic, 1, pos)) = {topic[i] : i \in 1..pos} BY <1>2, TakenType, PrefixSet
  <2>3. \A i \in 1..pos : topic'[i] = topic[i] BY <1>1, <1>2
  <2> QED BY <1>2, <2>1, <2>2, <2>3
<1>4. pos' \in 0..Len(topic') BY <1>1, <1>2
<1>5. Feed!FeedTypeOK' BY <1>3, <1>4, SameToSet DEF FeedInv, Feed!FeedTypeOK, feedVars
<1>6. SentIsSaved' BY <1>1, <1>2 DEF FeedInv, SentIsSaved, feedVars
<1>7. \A l \in Listeners : RingIsTail(l)' /\ FedIsHead(l)' /\ StartsEmpty(l)'
  BY DEF FeedInv, RingIsTail, FedIsHead, StartsEmpty, Feed!Subscribed, feedVars
<1> QED BY <1>5, <1>6, <1>7 DEF FeedInv

\* FeedTypeOK without the topic.
FeedTypes ==
    /\ cpc \in {"poll", "save", "send"} /\ sent \in Seq(Summaries)
    /\ peer \in [Listeners -> {"away", "here", "gone"}]
    /\ hpc \in [Listeners -> {"none", "upgraded", "select", "sending", "closed"}]
    /\ unread \in [Listeners -> Seq(Summaries)] /\ fed \in [Listeners -> Seq(Summaries)]
    /\ since \in [Listeners -> Nat] /\ early \in [Listeners -> SUBSET Summaries]
    /\ \A l \in Listeners : Len(unread[l]) <= Capacity /\ since[l] <= Len(sent)
    /\ lag \in [Listeners -> BOOLEAN] /\ lagged \in [Listeners -> BOOLEAN]
    /\ listed \in [Listeners -> (SUBSET Summaries) \cup {Feed!NotListed}]
    /\ misread \in [Listeners -> SUBSET Summaries]

LEMMA FeedTypeParts ==
    ASSUME GatewayTypeOK
    PROVE  Feed!FeedTypeOK <=> /\ FeedTypes /\ pos \in 0..Len(topic)
                               /\ stored \cup dropped \cup ToSet(sent) \subseteq Taken
<1>1. ASSUME pos \in 0..Len(topic) PROVE Feed!ToSet(SubSeq(topic, 1, pos)) = Taken
  BY <1>1, PrefixSet, SameToSet DEF GatewayTypeOK, Taken
<1> QED BY <1>1, SameToSet DEF Feed!FeedTypeOK, FeedTypes

LEMMA NextTypeParts ==
    ASSUME topic' \in Seq(Summaries), FeedTypes', pos' \in 0..Len(topic'),
           stored' \cup dropped' \cup ToSet(sent') \subseteq Taken'
    PROVE  Feed!FeedTypeOK'
<1>1. ToSet(SubSeq(topic', 1, pos')) = {topic'[i] : i \in 1..pos'} BY PrefixSet
<1>2. ToSet(SubSeq(topic', 1, pos')) = Taken' BY <1>1 DEF Taken
<1> QED BY <1>2, SameToSet DEF Feed!FeedTypeOK, FeedTypes

LEMMA PollFeed ==
    ASSUME GatewayTypeOK, FeedInv, Feed!Poll, topic' = topic, GatewayTypeOK'
    PROVE  FeedInv'
<1>1. /\ cpc = "poll" /\ pos < Len(topic) /\ pos' = pos + 1 /\ cpc' = "save"
      /\ UNCHANGED <<stored, dropped, sent, peer, hpc, since, unread, lag, lagged, fed, early, listed, misread>>
  BY DEF Feed!Poll, Feed!listVars
<1>2. pos' \in 0..Len(topic) /\ pos' > 0 /\ Taken \subseteq Taken'
  <2>1. pos \in Nat /\ Len(topic) \in Nat BY TakenType
  <2>2. 1..pos \subseteq 1..pos' BY <1>1, <2>1
  <2> QED BY <1>1, <2>1, <2>2 DEF Taken
<1>3. FeedTypes' BY <1>1, FeedTypeParts DEF FeedInv, FeedTypes
<1>4. stored \cup dropped \cup ToSet(sent) \subseteq Taken' BY <1>2, TakenType
<1>5. Feed!FeedTypeOK' BY <1>1, <1>2, <1>3, <1>4, TakenType, NextTypeParts
<1> QED BY <1>1, <1>2, <1>5
    DEF FeedInv, SentIsSaved, RingIsTail, FedIsHead, StartsEmpty, Feed!Subscribed

LEMMA SaveFeed ==
    ASSUME GatewayTypeOK, FeedInv, Feed!Save, topic' = topic
    PROVE  FeedInv'
<1>1. /\ cpc = "save" /\ cpc' = "send"
      /\ stored \subseteq stored' /\ dropped \subseteq dropped'
      /\ stored' \cup dropped' = stored \cup dropped \cup {topic[pos]}
      /\ UNCHANGED <<pos, sent, peer, hpc, since, unread, lag, lagged, fed, early, listed, misread>>
  BY DEF Feed!Save, Feed!listVars
<1>2. topic[pos] \in Taken
  <2>1. pos \in 1..pos BY <1>1, TakenType DEF FeedInv, SentIsSaved
  <2> QED BY <2>1 DEF Taken
<1>3. Taken' = Taken BY <1>1 DEF Taken
<1>4. FeedTypes' BY <1>1, FeedTypeParts DEF FeedInv, FeedTypes
<1>5. Feed!FeedTypeOK' BY <1>1, <1>2, <1>3, <1>4, TakenType, NextTypeParts
<1>6. SentIsSaved' BY <1>1 DEF FeedInv, SentIsSaved
<1> QED BY <1>1, <1>5, <1>6 DEF FeedInv, RingIsTail, FedIsHead, StartsEmpty, Feed!Subscribed

\* A part of a sequence stays one when the sequence goes on, ...
LEMMA PartStays ==
    ASSUME NEW S, NEW s \in Seq(S), NEW u \in Seq(S), NEW x \in S, NEW n, PartAt(n, u, s)
    PROVE  PartAt(n, u, Append(s, x))
<1>1. n \in Nat /\ Len(u) \in Nat /\ Len(s) \in Nat /\ n + Len(u) <= Len(s) BY DEF PartAt
<1> DEFINE more == Append(s, x)
<1>2. Len(more) = Len(s) + 1 /\ \A i \in 1..Len(s) : more[i] = s[i] BY AppendFacts
<1> HIDE DEF more
<1>3. \A i \in 1..Len(u) : n + i \in 1..Len(s) BY <1>1
<1>4. \A i \in 1..Len(u) : u[i] = more[n + i] BY <1>2, <1>3 DEF PartAt
<1>5. n + Len(u) <= Len(more) BY <1>1, <1>2
<1> QED BY <1>1, <1>4, <1>5 DEF PartAt, more

\* ... goes on with the element that follows, ...
LEMMA PartTakes ==
    ASSUME NEW S, NEW s \in Seq(S), NEW u \in Seq(S), NEW x \in S, NEW n, PartAt(n, u, s),
           n + Len(u) < Len(s), x = s[n + Len(u) + 1]
    PROVE  PartAt(n, Append(u, x), s)
<1>1. n \in Nat /\ Len(u) \in Nat /\ Len(s) \in Nat BY DEF PartAt
<1> DEFINE more == Append(u, x)
<1>2. /\ Len(more) = Len(u) + 1 /\ more[Len(u) + 1] = x
      /\ \A i \in 1..Len(u) : more[i] = u[i]
  BY AppendFacts
<1> HIDE DEF more
<1>3. n + Len(more) <= Len(s) BY <1>1, <1>2
<1>4. ASSUME NEW i \in 1..Len(more) PROVE more[i] = s[n + i]
  <2>1. i \in 1..Len(u) \/ i = Len(u) + 1 BY <1>1, <1>2
  <2>2. CASE i \in 1..Len(u) BY <1>2, <2>2 DEF PartAt
  <2>3. CASE i = Len(u) + 1
    <3>1. n + i = n + Len(u) + 1 BY <1>1, <2>3
    <3> QED BY <1>2, <2>3, <3>1
  <2> QED BY <2>1, <2>2, <2>3
<1> QED BY <1>1, <1>3, <1>4 DEF PartAt, more

\* ... and without its first element starts one later.
LEMMA PartShifts ==
    ASSUME NEW S, NEW s \in Seq(S), NEW u \in Seq(S), NEW n, PartAt(n, u, s), u # <<>>
    PROVE  /\ PartAt(n + 1, Tail(u), s) /\ Tail(u) \in Seq(S)
           /\ Len(Tail(u)) = Len(u) - 1 /\ Head(u) = s[n + 1] /\ Head(u) \in S
<1>1. n \in Nat /\ Len(u) \in Nat /\ Len(s) \in Nat /\ n + Len(u) <= Len(s) BY DEF PartAt
<1> DEFINE rest == Tail(u)
<1>2. /\ rest \in Seq(S) /\ Len(rest) = Len(u) - 1 /\ Len(u) > 0
      /\ Head(u) = u[1] /\ Head(u) \in S
      /\ \A i \in 1..Len(rest) : rest[i] = u[i + 1]
  BY HeadTailProperties
<1> HIDE DEF rest
<1>3. Head(u) = s[n + 1] BY <1>1, <1>2 DEF PartAt
<1>4. ASSUME NEW i \in 1..Len(rest) PROVE rest[i] = s[n + 1 + i]
  <2>1. i + 1 \in 1..Len(u) /\ n + (i + 1) = n + 1 + i BY <1>1, <1>2
  <2>2. u[i + 1] = s[n + (i + 1)] BY <2>1 DEF PartAt
  <2> QED BY <1>2, <2>1, <2>2
<1>5. n + 1 \in Nat /\ n + 1 + Len(rest) <= Len(s) BY <1>1, <1>2
<1>6. PartAt(n + 1, rest, s) BY <1>4, <1>5 DEF PartAt
<1> QED BY <1>2, <1>3, <1>6 DEF rest

\* tx.send to one receiver: its part of the ring stays the last of what was
\* sent, and without a lag holds one more.
LEMMA SendRing ==
    ASSUME NEW S, NEW s \in Seq(S), NEW u \in Seq(S), NEW x \in S,
           NEW bound \in Nat \ {0}, Len(u) <= bound, PartAt(Len(s) - Len(u), u, s),
           NEW ring, ring = IF Len(u) < bound THEN Append(u, x) ELSE Append(Tail(u), x)
    PROVE  /\ ring \in Seq(S) /\ Len(ring) <= bound
           /\ Len(ring) = IF Len(u) = bound THEN Len(u) ELSE Len(u) + 1
           /\ PartAt(Len(s) + 1 - Len(ring), ring, Append(s, x))
<1>1. Len(u) \in Nat /\ Len(s) \in Nat /\ Len(s) - Len(u) \in Nat BY DEF PartAt
<1> DEFINE more == Append(s, x)
           n == Len(s) - Len(u)
<1>2. more \in Seq(S) /\ Len(more) = Len(s) + 1 /\ more[Len(s) + 1] = x BY AppendFacts
<1>3. PartAt(n, u, more) BY PartStays
<1> HIDE DEF more
<1>4. CASE Len(u) < bound
  <2>1. ring = Append(u, x) BY <1>4
  <2>2. n + Len(u) < Len(more) /\ n + Len(u) + 1 = Len(s) + 1 BY <1>1, <1>2
  <2>3. PartAt(n, ring, more)
    <3> HIDE DEF n
    <3>1. x = more[n + Len(u) + 1] BY <1>2, <2>2
    <3> QED BY <1>2, <1>3, <2>1, <2>2, <3>1, PartTakes
  <2>4. ring \in Seq(S) /\ Len(ring) = Len(u) + 1 BY <2>1, AppendFacts
  <2>5. Len(s) + 1 - Len(ring) = n BY <1>1, <2>4
  <2> QED BY <1>1, <1>4, <2>3, <2>4, <2>5 DEF more
<1>5. CASE Len(u) = bound
  <2> DEFINE rest == Tail(u)
  <2>1. u # <<>> BY <1>5
  <2>2. ring = Append(rest, x) BY <1>1, <1>5
  <2>3. PartAt(n + 1, rest, more) /\ rest \in Seq(S) /\ Len(rest) = Len(u) - 1
    <3> HIDE DEF n
    <3> QED BY <1>2, <1>3, <2>1, PartShifts
  <2> HIDE DEF rest
  <2>4. n + 1 + Len(rest) < Len(more) /\ n + 1 + Len(rest) + 1 = Len(s) + 1
    BY <1>1, <1>2, <2>3
  <2>5. PartAt(n + 1, ring, more)
    <3> HIDE DEF n
    <3>1. x = more[n + 1 + Len(rest) + 1] BY <1>2, <2>4
    <3> QED BY <1>2, <2>2, <2>3, <2>4, <3>1, PartTakes
  <2>6. ring \in Seq(S) /\ Len(ring) = Len(rest) + 1 BY <2>2, <2>3, AppendFacts
  <2>7. Len(ring) = Len(u) BY <1>1, <2>3, <2>6
  <2>8. Len(s) + 1 - Len(ring) = n + 1
    <3>1. \A a, b \in Nat : a + 1 - b = a - b + 1 OBVIOUS
    <3>2. Len(s) + 1 - Len(u) = n + 1 BY ONLY <1>1, <3>1
    <3> QED BY <2>7, <3>2
  <2> QED BY <1>1, <1>5, <2>5, <2>6, <2>7, <2>8 DEF more
<1>6. Len(u) < bound \/ Len(u) = bound BY <1>1
<1> QED BY <1>4, <1>5, <1>6

LEMMA SendFeed ==
    ASSUME GatewayTypeOK, FeedInv, Feed!Send, topic' = topic
    PROVE  FeedInv' /\ sent' = Append(sent, topic[pos]) /\ topic[pos] \in Summaries
<1> DEFINE x == topic[pos]
<1>1. /\ cpc = "send" /\ cpc' = "poll" /\ sent' = Append(sent, x)
      /\ unread' = [l \in Listeners |->
             IF ~Feed!Subscribed(l) THEN <<>>
             ELSE IF Len(unread[l]) < Capacity THEN Append(unread[l], x)
             ELSE Append(Tail(unread[l]), x)]
      /\ lag' = [l \in Listeners |->
                    lag[l] \/ (Feed!Subscribed(l) /\ Len(unread[l]) = Capacity)]
      /\ early' = [l \in Listeners |-> IF hpc[l] = "upgraded" THEN early[l] \cup {x} ELSE early[l]]
      /\ UNCHANGED <<pos, stored, dropped, peer, hpc, since, lagged, fed, listed, misread>>
  BY DEF Feed!Send
<1>2. FeedTypes BY FeedTypeParts DEF FeedInv
<1>3. x \in Taken /\ x \in Summaries /\ x \in stored \cup dropped
  <2>1. pos \in 1..Len(topic) /\ pos \in 1..pos
    BY <1>1, TakenType DEF FeedInv, SentIsSaved
  <2>2. topic[pos] \in Summaries BY <2>1, TakenType
  <2> QED BY <1>1, <2>1, <2>2 DEF Taken, FeedInv, SentIsSaved
<1>4. /\ sent \in Seq(Summaries) /\ sent' \in Seq(Summaries)
      /\ Len(sent') = Len(sent) + 1 /\ Len(sent) \in Nat
      /\ ToSet(sent') = ToSet(sent) \cup {x}
  BY <1>1, <1>2, <1>3, AppendFacts, AppendSet DEF FeedTypes
<1> HIDE DEF x
<1>5. ASSUME NEW l \in Listeners
      PROVE  /\ unread'[l] \in Seq(Summaries) /\ Len(unread'[l]) <= Capacity
             /\ ~Feed!Subscribed(l) => unread'[l] = <<>>
             /\ Feed!Subscribed(l) =>
                   /\ PartAt(Len(sent') - Len(unread'[l]), unread'[l], sent')
                   /\ Len(unread'[l]) = IF Len(unread[l]) = Capacity THEN Len(unread[l])
                                        ELSE Len(unread[l]) + 1
  <2>1. unread[l] \in Seq(Summaries) /\ Len(unread[l]) <= Capacity /\ Capacity \in Nat \ {0}
    BY <1>2, DeliveryAssumption DEF FeedTypes
  <2>2. CASE ~Feed!Subscribed(l)
    <3>1. unread'[l] = <<>> BY <1>1, <2>2
    <3> QED BY <2>1, <2>2, <3>1
  <2>3. CASE Feed!Subscribed(l)
    <3>1. unread'[l] = IF Len(unread[l]) < Capacity THEN Append(unread[l], x)
                       ELSE Append(Tail(unread[l]), x)
      BY <1>1, <2>3
    <3>2. PartAt(Len(sent) - Len(unread[l]), unread[l], sent)
      BY <2>3 DEF FeedInv, RingIsTail
    <3> DEFINE u == unread[l]
               ring == unread'[l]
    <3> HIDE DEF u, ring
    <3>3. /\ ring \in Seq(Summaries) /\ Len(ring) <= Capacity
          /\ Len(ring) = IF Len(u) = Capacity THEN Len(u) ELSE Len(u) + 1
          /\ PartAt(Len(sent) + 1 - Len(ring), ring, Append(sent, x))
      BY <1>3, <1>4, <2>1, <3>1, <3>2, SendRing DEF u, ring
    <3>4. Len(sent') - Len(ring) = Len(sent) + 1 - Len(ring) BY <1>4
    <3>5. PartAt(Len(sent') - Len(ring), ring, sent') BY <1>1, <3>3, <3>4
    <3> QED BY <2>3, <3>3, <3>5 DEF u, ring
  <2> QED BY <2>2, <2>3
<1>6. FeedTypes'
  <2>1. unread' \in [Listeners -> Seq(Summaries)] BY <1>1, <1>5
  <2>2. lag' \in [Listeners -> BOOLEAN]
    <3>1. \A l \in Listeners : lag[l] \in BOOLEAN BY <1>2 DEF FeedTypes
    <3> QED BY <1>1, <3>1
  <2>3. early' \in [Listeners -> SUBSET Summaries] BY <1>1, <1>2, <1>3 DEF FeedTypes
  <2>4. \A l \in Listeners : since[l] <= Len(sent')
    <3>1. \A l \in Listeners : since[l] \in Nat /\ since[l] <= Len(sent)
      BY <1>2 DEF FeedTypes
    <3> QED BY <1>4, <3>1
  <2>5. \A l \in Listeners : Len(unread'[l]) <= Capacity BY <1>5
  <2> QED BY <1>1, <1>2, <1>4, <2>1, <2>2, <2>3, <2>4, <2>5 DEF FeedTypes
<1>7. Feed!FeedTypeOK'
  <2>1. Taken' = Taken BY <1>1 DEF Taken
  <2>2. stored' \cup dropped' \cup ToSet(sent') \subseteq Taken'
    BY <1>1, <1>3, <1>4, <2>1, TakenType
  <2> QED BY <1>1, <1>6, <2>2, TakenType, NextTypeParts
<1>8. SentIsSaved' BY <1>1, <1>3, <1>4 DEF FeedInv, SentIsSaved
<1>9. ASSUME NEW l \in Listeners PROVE RingIsTail(l)' /\ FedIsHead(l)' /\ StartsEmpty(l)'
  <2>1. /\ Len(unread[l]) \in Nat /\ since[l] \in Nat /\ Len(unread[l]) <= Capacity
        /\ fed[l] \in Seq(Summaries) /\ Len(fed[l]) \in Nat /\ Len(unread'[l]) \in Nat
        /\ Capacity \in Nat
    BY <1>2, <1>5, DeliveryAssumption DEF FeedTypes
  <2>2. StartsEmpty(l)' BY <1>1, <1>5 DEF FeedInv, StartsEmpty, Feed!Subscribed
  <2>3. CASE ~Feed!Subscribed(l)
    BY <1>1, <2>2, <2>3 DEF RingIsTail, FedIsHead, Feed!Subscribed
  <2>4. CASE Feed!Subscribed(l)
    <3>1. since[l] + Len(unread[l]) <= Len(sent) BY <2>4 DEF FeedInv, RingIsTail
    <3>2. /\ PartAt(Len(sent') - Len(unread'[l]), unread'[l], sent')
          /\ Len(unread'[l]) = IF Len(unread[l]) = Capacity THEN Len(unread[l])
                               ELSE Len(unread[l]) + 1
      BY <1>5, <2>4
    <3>3. since[l] + Len(unread'[l]) <= Len(sent') BY <1>4, <2>1, <3>1, <3>2
    <3>4. RingIsTail(l)' BY <1>1, <3>2, <3>3 DEF RingIsTail
    <3>5. ASSUME ~lag'[l], ~lagged'[l]
          PROVE  /\ since[l] + Len(fed[l]) + Len(unread'[l]) = Len(sent')
                 /\ PartAt(since[l], fed[l], sent')
      <4>1. ~lag[l] /\ ~lagged[l] /\ Len(unread[l]) # Capacity BY <1>1, <2>4, <3>5
      <4>2. /\ since[l] + Len(fed[l]) + Len(unread[l]) = Len(sent)
            /\ PartAt(since[l], fed[l], sent)
        BY <2>4, <4>1 DEF FeedInv, FedIsHead
      <4>3. PartAt(since[l], fed[l], sent') BY <1>1, <1>3, <1>4, <2>1, <4>2, PartStays
      <4>4. Len(unread'[l]) = Len(unread[l]) + 1 BY <3>2, <4>1
      <4>5. since[l] + Len(fed[l]) + Len(unread'[l]) = Len(sent')
        BY <1>4, <2>1, <4>2, <4>4
      <4> QED BY <4>3, <4>5
    <3>6. FedIsHead(l)' BY <1>1, <3>5 DEF FedIsHead
    <3> QED BY <2>2, <3>4, <3>6
  <2> QED BY <2>3, <2>4
<1> QED BY <1>1, <1>3, <1>7, <1>8, <1>9 DEF FeedInv, x

-----------------------------------------------------------------------------
(* The handlers and the clients.                                           *)

LEMMA OfStored ==
    ASSUME GatewayTypeOK, FeedInv
    PROVE  /\ stored \cup dropped \cup ToSet(sent) \subseteq ToSet(topic)
           /\ ToSet(topic) \subseteq ToSet(stamped) /\ ToSet(stamped) \subseteq Summaries
           /\ Feed!ListLast \subseteq stored
<1>1. stored \cup dropped \cup ToSet(sent) \subseteq ToSet(topic) BY TakenType
<1>2. ToSet(topic) \subseteq ToSet(stamped) /\ ToSet(stamped) \subseteq Summaries
  BY DEF GatewayTypeOK
<1>3. Feed!ListLast \subseteq stored BY DEF Feed!ListLast, Feed!LastSummary, Feed!OfChat
<1> QED BY <1>1, <1>2, <1>3

\* A step of one handler or client leaves the others alone.
AllButOne(l) ==
    /\ UNCHANGED <<pos, cpc, stored, dropped, sent, early>>
    /\ \A k \in Listeners \ {l} :
          /\ peer'[k] = peer[k] /\ hpc'[k] = hpc[k] /\ since'[k] = since[k]
          /\ unread'[k] = unread[k] /\ lag'[k] = lag[k] /\ lagged'[k] = lagged[k]
          /\ fed'[k] = fed[k] /\ listed'[k] = listed[k] /\ misread'[k] = misread[k]

LEMMA OneListener ==
    ASSUME GatewayTypeOK, FeedInv, topic' = topic, NEW l \in Listeners, AllButOne(l),
           FeedTypes', RingIsTail(l)', FedIsHead(l)', StartsEmpty(l)'
    PROVE  FeedInv'
<1>1. Feed!FeedTypeOK'
  <2>1. Taken' = Taken BY DEF Taken, AllButOne
  <2> QED BY <2>1, TakenType, NextTypeParts DEF AllButOne
<1>2. SentIsSaved' BY DEF FeedInv, SentIsSaved, AllButOne
<1>3. ASSUME NEW k \in Listeners PROVE RingIsTail(k)' /\ FedIsHead(k)' /\ StartsEmpty(k)'
  <2>1. CASE k # l
    BY <2>1 DEF FeedInv, AllButOne, RingIsTail, FedIsHead, StartsEmpty, Feed!Subscribed
  <2> QED BY <2>1
<1> QED BY <1>1, <1>2, <1>3 DEF FeedInv

LEMMA OneListenerTypes ==
    ASSUME GatewayTypeOK, FeedInv, NEW l \in Listeners
    PROVE  /\ FeedTypes /\ RingIsTail(l) /\ FedIsHead(l) /\ StartsEmpty(l)
           /\ unread[l] \in Seq(Summaries) /\ fed[l] \in Seq(Summaries)
           /\ sent \in Seq(Summaries) /\ since[l] \in Nat
           /\ Len(unread[l]) \in Nat /\ Len(fed[l]) \in Nat /\ Len(sent) \in Nat
           /\ Len(unread[l]) <= Capacity
BY FeedTypeParts DEF FeedInv, FeedTypes

LEMMA UpgradeFeed ==
    ASSUME GatewayTypeOK, FeedInv, topic' = topic, NEW l \in Listeners, Feed!Upgrade(l)
    PROVE  FeedInv' /\ AllButOne(l)
<1> USE DEF Feed!Upgrade, Feed!Goto, Feed!consumerVars
<1>1. AllButOne(l) BY OneListenerTypes DEF AllButOne, FeedTypes
<1>2. FeedTypes' BY OneListenerTypes DEF FeedTypes
<1>3. hpc'[l] = "upgraded" /\ peer'[l] = "here" BY OneListenerTypes DEF FeedTypes
<1>4. StartsEmpty(l)' BY <1>3, OneListenerTypes DEF StartsEmpty
<1>5. RingIsTail(l)' /\ FedIsHead(l)' BY <1>3 DEF RingIsTail, FedIsHead, Feed!Subscribed
<1> QED BY <1>1, <1>2, <1>4, <1>5, OneListener

LEMMA SubscribeFeed ==
    ASSUME GatewayTypeOK, FeedInv, topic' = topic, NEW l \in Listeners, Feed!Subscribe(l)
    PROVE  FeedInv' /\ AllButOne(l)
<1> USE DEF Feed!Subscribe, Feed!Goto, Feed!consumerVars
<1>1. AllButOne(l) BY OneListenerTypes DEF AllButOne, FeedTypes
<1>2. FeedTypes' BY OneListenerTypes DEF FeedTypes
<1>3. /\ hpc'[l] = "select" /\ peer'[l] = peer[l] /\ peer[l] # "away" /\ since'[l] = Len(sent)
      /\ unread'[l] = <<>> /\ fed'[l] = <<>> /\ sent' = sent
  BY OneListenerTypes DEF FeedTypes, StartsEmpty
<1>4. StartsEmpty(l)' BY <1>3 DEF StartsEmpty
<1>5. PartAt(Len(sent), <<>>, sent) BY OneListenerTypes DEF PartAt
<1>6. /\ since'[l] + Len(unread'[l]) = Len(sent') /\ Len(sent') - Len(unread'[l]) = Len(sent)
      /\ since'[l] + Len(fed'[l]) + Len(unread'[l]) = Len(sent')
  BY <1>3, OneListenerTypes
<1>7. RingIsTail(l)' /\ FedIsHead(l)' BY <1>3, <1>5, <1>6, OneListenerTypes DEF RingIsTail, FedIsHead
<1> QED BY <1>1, <1>2, <1>4, <1>7, OneListener

LEMMA ListFeed ==
    ASSUME GatewayTypeOK, FeedInv, topic' = topic, NEW l \in Listeners, Feed!List(l)
    PROVE  FeedInv' /\ AllButOne(l)
<1> USE DEF Feed!List, Feed!consumerVars
<1>1. AllButOne(l) BY OneListenerTypes DEF AllButOne, FeedTypes
<1>2. FeedTypes' BY OneListenerTypes, OfStored DEF FeedTypes
<1>3. StartsEmpty(l)' BY OneListenerTypes DEF StartsEmpty
<1>4. RingIsTail(l)' /\ FedIsHead(l)' BY OneListenerTypes DEF RingIsTail, FedIsHead, Feed!Subscribed
<1> QED BY <1>1, <1>2, <1>3, <1>4, OneListener

LEMMA PeerLeavesFeed ==
    ASSUME GatewayTypeOK, FeedInv, topic' = topic, NEW l \in Listeners, Feed!PeerLeaves(l)
    PROVE  FeedInv' /\ AllButOne(l)
<1> USE DEF Feed!PeerLeaves, Feed!consumerVars
<1>1. AllButOne(l) BY OneListenerTypes DEF AllButOne, FeedTypes
<1>2. FeedTypes' BY OneListenerTypes DEF FeedTypes
<1>3. peer'[l] = "gone" BY OneListenerTypes DEF FeedTypes
<1>4. StartsEmpty(l)' BY <1>3, OneListenerTypes DEF StartsEmpty
<1>5. RingIsTail(l)' /\ FedIsHead(l)' BY OneListenerTypes DEF RingIsTail, FedIsHead, Feed!Subscribed
<1> QED BY <1>1, <1>2, <1>4, <1>5, OneListener

LEMMA CloseFeed ==
    ASSUME GatewayTypeOK, FeedInv, topic' = topic, NEW l \in Listeners, Feed!Close(l),
           hpc[l] # "none"
    PROVE  FeedInv' /\ AllButOne(l)
<1> USE DEF Feed!Close, Feed!Goto, Feed!consumerVars
<1>1. AllButOne(l) BY OneListenerTypes DEF AllButOne, FeedTypes
<1>2. FeedTypes'
  <2>1. Len(<<>>) <= Capacity /\ <<>> \in Seq(Summaries) BY DeliveryAssumption
  <2> QED BY <2>1, OneListenerTypes DEF FeedTypes
<1>3. hpc'[l] = "closed" /\ peer'[l] = peer[l] BY OneListenerTypes DEF FeedTypes
<1>4. StartsEmpty(l)' BY <1>3, OneListenerTypes DEF StartsEmpty
<1>5. RingIsTail(l)' /\ FedIsHead(l)' BY <1>3 DEF RingIsTail, FedIsHead, Feed!Subscribed
<1> QED BY <1>1, <1>2, <1>4, <1>5, OneListener

LEMMA DeliveredFeed ==
    ASSUME GatewayTypeOK, FeedInv, topic' = topic, NEW l \in Listeners, Feed!Delivered(l)
    PROVE  FeedInv' /\ AllButOne(l)
<1> USE DEF Feed!Delivered, Feed!Goto, Feed!consumerVars
<1>1. AllButOne(l) BY OneListenerTypes DEF AllButOne, FeedTypes
<1>2. FeedTypes' BY OneListenerTypes DEF FeedTypes
<1>3. hpc'[l] = "select" /\ hpc[l] = "sending" BY OneListenerTypes DEF FeedTypes
<1>4. StartsEmpty(l)' BY <1>3, OneListenerTypes DEF StartsEmpty
<1>5. RingIsTail(l)' /\ FedIsHead(l)'
  BY <1>3, OneListenerTypes DEF RingIsTail, FedIsHead, Feed!Subscribed
<1> QED BY <1>1, <1>2, <1>4, <1>5, OneListener

LEMMA RecvLaggedFeed ==
    ASSUME GatewayTypeOK, FeedInv, topic' = topic, NEW l \in Listeners, Feed!RecvLagged(l)
    PROVE  FeedInv' /\ AllButOne(l)
<1> USE DEF Feed!RecvLagged, Feed!consumerVars
<1>1. AllButOne(l) BY OneListenerTypes DEF AllButOne, FeedTypes
<1>2. FeedTypes' BY OneListenerTypes DEF FeedTypes
<1>3. lagged'[l] /\ hpc[l] = "select" BY OneListenerTypes DEF FeedTypes
<1>4. StartsEmpty(l)' BY <1>3, OneListenerTypes DEF StartsEmpty
<1>5. RingIsTail(l)' /\ FedIsHead(l)'
  BY <1>3, OneListenerTypes DEF RingIsTail, FedIsHead, Feed!Subscribed
<1> QED BY <1>1, <1>2, <1>4, <1>5, OneListener

LEMMA RecvFeed ==
    ASSUME GatewayTypeOK, FeedInv, topic' = topic, NEW l \in Listeners, Feed!Recv(l)
    PROVE  FeedInv' /\ AllButOne(l)
<1> USE DEF Feed!Recv, Feed!Goto, Feed!consumerVars
<1> DEFINE u == unread[l]
           f == fed[l]
           rest == Tail(u)
           more == Append(f, Head(u))
           n == Len(sent) - Len(u)
<1>1. /\ hpc[l] = "select" /\ ~lag[l] /\ u # <<>> /\ since[l] + Len(u) <= Len(sent)
      /\ PartAt(n, u, sent) /\ u \in Seq(Summaries) /\ Len(u) <= Capacity
      /\ sent \in Seq(Summaries) /\ Len(u) \in Nat /\ Len(sent) \in Nat /\ Len(f) \in Nat
  BY OneListenerTypes DEF RingIsTail, Feed!Subscribed
<1>2. /\ PartAt(n + 1, rest, sent) /\ rest \in Seq(Summaries) /\ Len(rest) = Len(u) - 1
      /\ Head(u) = sent[n + 1] /\ Head(u) \in Summaries
  <2> HIDE DEF n, u
  <2> QED BY <1>1, PartShifts
<1>3. more \in Seq(Summaries) /\ Len(more) = Len(f) + 1
  BY <1>2, OneListenerTypes, AppendFacts
<1>4. /\ hpc'[l] = "sending" /\ unread'[l] = rest /\ fed'[l] = more /\ since'[l] = since[l]
      /\ sent' = sent /\ lag'[l] = lag[l] /\ lagged'[l] = lagged[l] /\ peer'[l] = peer[l]
  BY OneListenerTypes DEF FeedTypes
<1>5. AllButOne(l) BY OneListenerTypes DEF AllButOne, FeedTypes
<1>6. FeedTypes'
  <2> HIDE DEF rest, more
  <2>1. unread' = [unread EXCEPT ![l] = rest] /\ fed' = [fed EXCEPT ![l] = more]
    BY DEF rest, more
  <2>2. Len(rest) <= Capacity BY <1>1, <1>2, DeliveryAssumption
  <2> QED BY <1>2, <1>3, <2>1, <2>2, OneListenerTypes DEF FeedTypes
<1>7. StartsEmpty(l)' BY <1>1, <1>4, OneListenerTypes DEF StartsEmpty
<1>8. RingIsTail(l)'
  <2> HIDE DEF rest
  <2>1. Len(sent) - Len(rest) = n + 1 /\ since[l] + Len(rest) <= Len(sent)
    BY <1>1, <1>2, OneListenerTypes
  <2> QED BY <1>2, <1>4, <2>1 DEF RingIsTail
<1>9. FedIsHead(l)'
  <2>1. CASE lagged[l] BY <1>4, <2>1 DEF FedIsHead
  <2>2. CASE ~lagged[l]
    <3>1. since[l] + Len(f) + Len(u) = Len(sent) /\ PartAt(since[l], f, sent)
      BY <1>1, <2>2, OneListenerTypes DEF FedIsHead, Feed!Subscribed
    <3> DEFINE from == since[l]
    <3>0. from \in Nat /\ Len(u) > 0 BY <1>1, OneListenerTypes
    <3>2. from + Len(f) < Len(sent) /\ from + Len(f) + 1 = n + 1
      <4>1. \A a, b, c, d \in Nat : a + b + c = d /\ c > 0 =>
               a + b < d /\ a + b + 1 = d - c + 1
        OBVIOUS
      <4>2. from \in Nat /\ Len(f) \in Nat /\ Len(u) \in Nat /\ Len(sent) \in Nat
            /\ from + Len(f) + Len(u) = Len(sent) /\ Len(u) > 0 /\ n = Len(sent) - Len(u)
        BY <1>1, <3>0, <3>1
      <4> HIDE DEF n, u, f, from
      <4> QED BY <4>1, <4>2
    <3>3. PartAt(since[l], more, sent)
      <4> DEFINE next == Head(u)
      <4>1. next = sent[from + Len(f) + 1] BY <1>2, <3>2
      <4>2. PartAt(from, f, sent) /\ from + Len(f) < Len(sent) /\ next \in Summaries
            /\ f \in Seq(Summaries) /\ sent \in Seq(Summaries) /\ more = Append(f, next)
        BY <1>2, <3>1, <3>2, OneListenerTypes
      <4> HIDE DEF from, next, more, f
      <4>3. PartAt(from, more, sent) BY <4>1, <4>2, PartTakes
      <4> QED BY <4>3 DEF from
    <3>4. since[l] + Len(more) + Len(rest) = Len(sent)
      <4>1. /\ from \in Nat /\ Len(f) \in Nat /\ Len(u) \in Nat /\ Len(sent) \in Nat
            /\ Len(rest) \in Nat /\ from + Len(f) + Len(u) = Len(sent)
            /\ Len(rest) = Len(u) - 1 /\ Len(more) = Len(f) + 1 /\ Len(more) \in Nat
        BY <1>1, <1>2, <1>3, <3>0, <3>1
      <4>2. from + Len(more) + Len(rest) = Len(sent)
        <5> HIDE DEF more, rest, u, f, from
        <5> QED BY ONLY <4>1
      <4> QED BY <4>2
    <3> QED BY <1>4, <3>3, <3>4 DEF FedIsHead
  <2> QED BY <2>1, <2>2
<1> QED BY <1>5, <1>6, <1>7, <1>8, <1>9, OneListener

-----------------------------------------------------------------------------
(* What a client was listed.                                               *)

\* The order of the old summaries does not change when one is stamped.
LEMMA OlderStays ==
    ASSUME stamped \in Seq(Summaries), NEW n \in Summaries, n \notin ToSet(stamped),
           stamped' = Append(stamped, n), NEW m, NEW x \in ToSet(stamped)
    PROVE  Feed!Older(m, x)' => Feed!Older(m, x)
<1>1. /\ Len(stamped) \in Nat /\ DOMAIN stamped = 1..Len(stamped)
      /\ DOMAIN stamped' = 1..Len(stamped) + 1 /\ stamped'[Len(stamped) + 1] = n
      /\ \A i \in DOMAIN stamped : stamped'[i] = stamped[i]
  BY AppendFacts
<1> SUFFICES ASSUME NEW i \in DOMAIN stamped', NEW j \in DOMAIN stamped',
                    i < j, stamped'[i] = m, stamped'[j] = x
             PROVE  \E a, b \in DOMAIN stamped : a < b /\ stamped[a] = m /\ stamped[b] = x
  BY DEF Feed!Older
<1>2. x # n BY DEF ToSet
<1>3. j \in DOMAIN stamped BY <1>1, <1>2
<1>4. i \in DOMAIN stamped BY <1>1, <1>3
<1> QED BY <1>1, <1>3, <1>4

LEMMA OlderOrder ==
    ASSUME stamped \in Seq(Summaries), IsInjective(stamped), NEW i \in DOMAIN stamped,
           NEW y, Feed!Older(stamped[i], y)
    PROVE  \E j \in DOMAIN stamped : i < j /\ stamped[j] = y
BY DEF Feed!Older, IsInjective

Below == {nn \in Nat \X Nat : nn[1] < nn[2]}

\* A set of positions has a last one.
LEMMA LastPosition ==
    ASSUME NEW S \in SUBSET Nat, S # {}, NEW bound \in Nat, \A t \in S : t <= bound
    PROVE  \E last \in S : \A t \in S : t <= last
<1> DEFINE Left == {bound - t : t \in S}
<1>1. IsWellFoundedOn(Below, Nat) BY NatLessThanWellFounded DEF OpToRel, Below
<1>2. Left \subseteq Nat /\ Left # {}
  <2>1. \A t \in S : bound - t \in Nat OBVIOUS
  <2> QED BY <2>1
<1>3. PICK least \in Left : \A r \in Left : ~(<<r, least>> \in Below)
  <2> HIDE DEF Left
  <2> QED BY <1>1, <1>2, WFMin
<1>4. PICK last \in S : least = bound - last OBVIOUS
<1>5. ASSUME NEW t \in S PROVE t <= last
  <2>1. bound - t \in Left OBVIOUS
  <2>2. ~(<<bound - t, least>> \in Below) BY <1>3, <2>1
  <2>3. bound - t \in Nat /\ least \in Nat BY <1>2, <2>1
  <2>4. ~(bound - t < least) BY <2>2, <2>3 DEF Below
  <2> QED BY <1>4, <2>4
<1> QED BY <1>5

\* load_last_summary() finds a summary of each chat that has one stored.
LEMMA NewestStored ==
    ASSUME GatewayTypeOK, FeedInv, NEW n \in stored
    PROVE  \E m \in Feed!ListLast : ChatOf[m] = ChatOf[n] /\ ~Feed!Older(m, n)
<1> DEFINE Of == Feed!OfChat(ChatOf[n])
           Places == {i \in DOMAIN stamped : stamped[i] \in Of}
<1>1. stamped \in Seq(Summaries) /\ IsInjective(stamped) BY DEF GatewayTypeOK
<1>2. DOMAIN stamped = 1..Len(stamped) /\ Len(stamped) \in Nat BY <1>1
<1>3. Of \subseteq ToSet(stamped) /\ n \in Of BY OfStored DEF Feed!OfChat
<1>4. Places \subseteq Nat /\ Places # {} /\ \A i \in Places : i <= Len(stamped)
  BY <1>2, <1>3 DEF ToSet
<1>5. PICK last \in Places : \A i \in Places : i <= last
  <2> HIDE DEF Places
  <2> QED BY <1>2, <1>4, LastPosition
<1>6. ASSUME NEW y \in Of, Feed!Older(stamped[last], y) PROVE FALSE
  <2>1. PICK j \in DOMAIN stamped : last < j /\ stamped[j] = y
    BY <1>1, <1>6, OlderOrder
  <2>2. j \in Places BY <2>1
  <2> QED BY <1>2, <1>5, <2>1, <2>2
<1>7. stamped[last] \in Feed!LastSummary(ChatOf[n]) BY <1>6 DEF Feed!LastSummary
<1> QED BY <1>3, <1>6, <1>7 DEF Feed!ListLast, Feed!OfChat

LEMMA GatewayList ==
    ASSUME GatewayTypeOK, FeedInv, ListCovers, LogStep, UNCHANGED feedVars
    PROVE  ListCovers'
<1> SUFFICES ASSUME NEW l \in Listeners PROVE ListCovered(l)' BY DEF ListCovers
<1>1. ListCovered(l) BY DEF ListCovers
<1>2. CASE stamped' = stamped
  BY <1>1, <1>2 DEF ListCovered, Covers, Feed!Older, Feed!Subscribed, feedVars
<1>3. ASSUME NEW n \in Summaries, n \notin ToSet(stamped), stamped' = Append(stamped, n)
      PROVE  ListCovered(l)'
  <2>1. stamped \in Seq(Summaries) BY DEF GatewayTypeOK
  <2>2. ToSet(stamped') = ToSet(stamped) \cup {n} BY <1>3, <2>1, AppendSet
  <2>3. ASSUME NEW k \in DOMAIN sent, Covers(l, sent[k]) PROVE Covers(l, sent[k])'
    <3>1. sent[k] \in ToSet(stamped) BY OfStored DEF ToSet
    <3>2. \A x \in ToSet(stamped) : \A m : Feed!Older(m, x)' => Feed!Older(m, x)
      BY <1>3, <2>1, OlderStays
    <3> QED BY <2>3, <3>1, <3>2 DEF Covers, Feed!Older, feedVars
  <2> QED BY <1>1, <2>2, <2>3 DEF ListCovered, Feed!Subscribed, feedVars
<1> QED BY <1>2, <1>3 DEF LogStep

LEMMA ConsumerList ==
    ASSUME GatewayTypeOK, FeedInv, ListCovers, Feed!ConsumerStep,
           topic' = topic, stamped' = stamped, GatewayTypeOK'
    PROVE  FeedInv' /\ ListCovers'
<1> SUFFICES FeedInv' /\ \A l \in Listeners : ListCovered(l)' BY DEF ListCovers
<1>1. CASE Feed!Poll
  <2>1. FeedInv' BY <1>1, PollFeed
  <2> QED BY <1>1, <2>1
     DEF ListCovers, ListCovered, Covers, Feed!Older, Feed!Subscribed, Feed!Poll, Feed!listVars
<1>2. CASE Feed!Save
  <2>1. FeedInv' BY <1>2, SaveFeed
  <2>2. dropped \subseteq dropped' BY <1>2 DEF Feed!Save
  <2> QED BY <1>2, <2>1, <2>2
     DEF ListCovers, ListCovered, Covers, Feed!Older, Feed!Subscribed, Feed!Save, Feed!listVars
<1>3. CASE Feed!Send
  <2>1. FeedInv' /\ sent' = Append(sent, topic[pos]) /\ topic[pos] \in Summaries
    BY <1>3, SendFeed
  <2>2. ASSUME NEW l \in Listeners PROVE ListCovered(l)'
    <3>1. /\ Len(sent) \in Nat /\ DOMAIN sent = 1..Len(sent) /\ DOMAIN sent' = 1..Len(sent) + 1
          /\ \A k \in DOMAIN sent : sent'[k] = sent[k]
          /\ sent'[Len(sent) + 1] = topic[pos]
      BY <2>1, FeedTypeParts, AppendFacts DEF FeedInv, FeedTypes
    <3>2. /\ UNCHANGED <<hpc, since, dropped, listed, misread>>
          /\ early'[l] = IF hpc[l] = "upgraded" THEN early[l] \cup {topic[pos]} ELSE early[l]
      BY <1>3 DEF Feed!Send
    <3>3. since[l] \in Nat /\ since[l] <= Len(sent)
      BY FeedTypeParts DEF FeedInv, FeedTypes
    <3>4. ListCovered(l) BY DEF ListCovers
    <3>5. ASSUME listed[l] # Feed!NotListed, hpc[l] \in {"upgraded", "select", "sending"},
                 NEW k \in DOMAIN sent'
          PROVE  \/ Feed!Subscribed(l) /\ k > since[l]
                 \/ sent'[k] \in dropped \cup early'[l] \cup misread[l]
                 \/ Covers(l, sent'[k])
      <4>1. CASE k \in DOMAIN sent BY <3>1, <3>2, <3>4, <3>5, <4>1 DEF ListCovered
      <4>2. CASE k = Len(sent) + 1
        BY <3>1, <3>2, <3>3, <3>5, <4>2 DEF Feed!Subscribed
      <4> QED BY <3>1, <4>1, <4>2
    <3>6. \A y : Covers(l, y)' = Covers(l, y) BY <3>2 DEF Covers, Feed!Older
    <3> QED BY <3>2, <3>4, <3>5, <3>6 DEF ListCovered, Feed!Subscribed
  <2> QED BY <2>1, <2>2
<1> QED BY <1>1, <1>2, <1>3 DEF Feed!ConsumerStep

LEMMA OthersList ==
    ASSUME ListCovers, NEW l \in Listeners, AllButOne(l), stamped' = stamped, ListCovered(l)'
    PROVE  ListCovers'
<1> SUFFICES ASSUME NEW k \in Listeners PROVE ListCovered(k)' BY DEF ListCovers
<1>1. CASE k # l
  BY <1>1 DEF ListCovers, ListCovered, Covers, Feed!Older, Feed!Subscribed, AllButOne
<1> QED BY <1>1

\* What a client was listed does not change: the handler only goes on.
LEMMA SameList ==
    ASSUME ListCovers, NEW l \in Listeners, AllButOne(l), stamped' = stamped,
           listed'[l] = listed[l], misread'[l] = misread[l],
           \/ hpc'[l] = "closed"
           \/ /\ hpc[l] \in {"upgraded", "select", "sending"} /\ since'[l] = since[l]
              /\ Feed!Subscribed(l) => Feed!Subscribed(l)'
           \/ ~Feed!Subscribed(l) /\ hpc[l] = "upgraded" /\ since'[l] = Len(sent)
           \/ hpc'[l] = hpc[l] /\ since'[l] = since[l]
    PROVE  ListCovers'
<1>1. ListCovered(l) /\ UNCHANGED <<sent, dropped, early>> BY DEF ListCovers, AllButOne
<1>2. \A y : Covers(l, y)' = Covers(l, y) BY DEF Covers, Feed!Older
<1>3. ListCovered(l)' BY <1>1, <1>2 DEF ListCovered, Feed!Subscribed
<1> QED BY <1>3, OthersList

LEMMA NewList ==
    ASSUME GatewayTypeOK, FeedInv, ListCovers, NEW l \in Listeners, Feed!List(l),
           AllButOne(l), stamped' = stamped
    PROVE  ListCovers'
<1>1. PICK out \in SUBSET {ChatOf[n] : n \in stored} :
         /\ misread' = [misread EXCEPT ![l] = {n \in stored : ChatOf[n] \in out}]
         /\ listed' = [listed EXCEPT ![l] = {n \in Feed!ListLast : ChatOf[n] \notin out}]
  BY DEF Feed!List
<1>2. /\ listed'[l] = {n \in Feed!ListLast : ChatOf[n] \notin out}
      /\ misread'[l] = {n \in stored : ChatOf[n] \in out}
      /\ UNCHANGED <<sent, dropped, early>>
  BY <1>1, OneListenerTypes DEF Feed!List, Feed!consumerVars, FeedTypes
<1>3. listed'[l] \subseteq ToSet(stamped) BY <1>2, OfStored
<1>4. ASSUME NEW k \in DOMAIN sent
      PROVE  sent[k] \in dropped \cup misread'[l] \/ Covers(l, sent[k])'
  <2> DEFINE n == sent[k]
  <2>1. n \in stored \cup dropped BY DEF FeedInv, SentIsSaved, ToSet
  <2>2. CASE n \in stored /\ ChatOf[n] \in out BY <1>2, <2>2
  <2>3. CASE n \in stored /\ ChatOf[n] \notin out
    <3>1. PICK m \in Feed!ListLast : ChatOf[m] = ChatOf[n] /\ ~Feed!Older(m, n)
      BY <2>3, NewestStored
    <3>2. m \in listed'[l] BY <1>2, <2>3, <3>1
    <3> QED BY <1>2, <3>1, <3>2 DEF Covers, Feed!Older
  <2> QED BY <2>1, <2>2, <2>3
<1>5. ListCovered(l)' BY <1>2, <1>3, <1>4 DEF ListCovered
<1> QED BY <1>5, OthersList

LEMMA HandlerFeed ==
    ASSUME GatewayTypeOK, FeedInv, ListCovers, topic' = topic, stamped' = stamped,
           NEW l \in Listeners, Feed!HandlerStep(l) \/ Feed!ClientStep(l)
    PROVE  FeedInv' /\ ListCovers' /\ UNCHANGED <<stored, dropped>>
<1>0. ASSUME AllButOne(l) PROVE UNCHANGED <<stored, dropped>> BY <1>0 DEF AllButOne
<1>1. FeedTypes BY OneListenerTypes
<1>2. CASE Feed!Subscribe(l)
  <2>1. FeedInv' /\ AllButOne(l) BY <1>2, SubscribeFeed
  <2> QED BY <1>0, <1>1, <1>2, <2>1, SameList
     DEF Feed!Subscribe, Feed!Goto, Feed!Subscribed, FeedTypes
<1>3. CASE Feed!Notice(l) \/ Feed!SendFails(l)
  <2>1. Feed!Close(l) /\ hpc[l] # "none" BY <1>3 DEF Feed!Notice, Feed!SendFails
  <2>2. FeedInv' /\ AllButOne(l) BY <2>1, CloseFeed
  <2> QED BY <1>0, <1>1, <2>1, <2>2, SameList DEF Feed!Close, Feed!Goto, FeedTypes
<1>4. CASE Feed!Recv(l)
  <2>1. FeedInv' /\ AllButOne(l) BY <1>4, RecvFeed
  <2> QED BY <1>0, <1>1, <1>4, <2>1, SameList
     DEF Feed!Recv, Feed!Goto, Feed!Subscribed, FeedTypes
<1>5. CASE Feed!RecvLagged(l)
  <2>1. FeedInv' /\ AllButOne(l) BY <1>5, RecvLaggedFeed
  <2> QED BY <1>0, <1>1, <1>5, <2>1, SameList DEF Feed!RecvLagged, FeedTypes
<1>6. CASE Feed!Delivered(l)
  <2>1. FeedInv' /\ AllButOne(l) BY <1>6, DeliveredFeed
  <2> QED BY <1>0, <1>1, <1>6, <2>1, SameList
     DEF Feed!Delivered, Feed!Goto, Feed!Subscribed, FeedTypes
<1>7. CASE Feed!Upgrade(l)
  <2>1. FeedInv' /\ AllButOne(l) BY <1>7, UpgradeFeed
  <2>2. listed'[l] = Feed!NotListed
    BY <1>7 DEF FeedInv, StartsEmpty, Feed!Upgrade
  <2>3. ListCovered(l)' BY <2>2 DEF ListCovered
  <2> QED BY <1>0, <2>1, <2>3, OthersList
<1>8. CASE Feed!List(l)
  <2>1. FeedInv' /\ AllButOne(l) BY <1>8, ListFeed
  <2> QED BY <1>0, <1>8, <2>1, NewList
<1>9. CASE Feed!PeerLeaves(l)
  <2>1. FeedInv' /\ AllButOne(l) BY <1>9, PeerLeavesFeed
  <2> QED BY <1>0, <1>9, <2>1, SameList DEF Feed!PeerLeaves
<1> QED BY <1>2, <1>3, <1>4, <1>5, <1>6, <1>7, <1>8, <1>9 DEF Feed!HandlerStep, Feed!ClientStep

-----------------------------------------------------------------------------
(* The worker.                                                             *)

LEMMA KnownFacts ==
    ASSUME GatewayTypeOK, FeedInv, WorkerInv
    PROVE  /\ Summaries \subseteq Nat \ {0}
           /\ \A m \in stored : m \in Summaries /\ text[m] # 0 /\ m \in ToSet(stamped)
           /\ \A n \in Summaries : known[n] \subseteq stored /\ text[n] \in Nat
<1>1. Summaries \subseteq Nat \ {0} BY RegistryAssumption
<1> QED BY <1>1, OfStored DEF WorkerInv, WorkerInOrder

LEMMA InOrderGoesOn ==
    ASSUME GatewayTypeOK, FeedInv, WorkerInv, NEW n \in Summaries,
           text[n] = 0, \A m \in Summaries : m < n => text[m] # 0,
           NEW t \in Nat \ {0}, t <= n, text' = [text EXCEPT ![n] = t],
           known' = known \/ known' = [known EXCEPT ![n] = stored],
           fetchFaults' \in 0..MaxFetchFaults, UNCHANGED <<stored, stamped>>
    PROVE  WorkerInOrder' /\ KnownIsOlder'
<1>1. Summaries \subseteq Nat /\ stored \subseteq Summaries BY KnownFacts
<1>2. /\ text \in [Summaries -> Nat] /\ known \in [Summaries -> SUBSET Summaries]
      /\ \A k \in Summaries : text[k] <= k /\ known[k] \subseteq stored
      /\ \A k \in Summaries : text[k] = 0 =>
            known[k] = {} /\ k \notin ToSet(stamped) /\ \A m \in Summaries : m > k => text[m] = 0
  BY DEF WorkerInv, WorkerInOrder
<1>3. text' \in [Summaries -> Nat] /\ known' \in [Summaries -> SUBSET Summaries] BY <1>1, <1>2
<1>4. \A k \in Summaries : text'[k] <= k /\ known'[k] \subseteq stored' BY <1>2
<1>5. ASSUME NEW k \in Summaries, text'[k] = 0
      PROVE  known'[k] = {} /\ k \notin ToSet(stamped') /\ \A m \in Summaries : m > k => text'[m] = 0
  <2>1. k # n /\ text[k] = 0 /\ known'[k] = known[k] BY <1>2, <1>5
  <2>2. ASSUME NEW m \in Summaries, m > k PROVE text'[m] = 0
    <3>1. text[m] = 0 BY <1>2, <2>1, <2>2
    <3>2. n # m BY <1>1, <2>1, <2>2
    <3> QED BY <1>2, <3>1, <3>2
  <2> QED BY <1>2, <2>1, <2>2
<1>6. WorkerInOrder' BY <1>3, <1>4, <1>5 DEF WorkerInOrder
<1>7. KnownIsOlder'
  <2>1. n \notin ToSet(stamped) BY <1>2
  <2>2. \A j \in DOMAIN stamped : stamped[j] # n BY <2>1 DEF ToSet
  <2>3. \A j \in DOMAIN stamped : stamped[j] \in Summaries BY DEF GatewayTypeOK
  <2>4. \A j \in DOMAIN stamped : known'[stamped[j]] = known[stamped[j]] BY <1>2, <2>2, <2>3
  <2> QED BY <2>4 DEF WorkerInv, KnownIsOlder
<1> QED BY <1>6, <1>7

LEMMA SummarizeWorker ==
    ASSUME GatewayTypeOK, FeedInv, WorkerInv, NEW n \in Summaries, Summarize(n),
           UNCHANGED <<stored, stamped>>
    PROVE  WorkerInv'
<1> DEFINE found == {m \in Feed!ListLast : ChatOf[m] = ChatOf[n]}
           x == CHOOSE m \in found : TRUE
           t == IF found = {} THEN n ELSE text[x]
<1>1. /\ text[n] = 0 /\ \A m \in Summaries : m < n => text[m] # 0
      /\ known' = [known EXCEPT ![n] = stored] /\ text' = [text EXCEPT ![n] = t]
      /\ fetchFaults' = fetchFaults
  BY DEF Summarize
<1>2. /\ text \in [Summaries -> Nat] /\ known \in [Summaries -> SUBSET Summaries]
      /\ fetchFaults \in 0..MaxFetchFaults
      /\ \A k \in Summaries : text[k] <= k
      /\ \A k \in Summaries : text[k] = 0 => \A m \in Summaries : m > k => text[m] = 0
  BY DEF WorkerInv, WorkerInOrder
<1>3. n \in Nat /\ n # 0 BY KnownFacts
<1>4. ASSUME found # {}
      PROVE  /\ x \in stored /\ x \in Summaries /\ x < n /\ ChatOf[x] = ChatOf[n]
             /\ \A m \in stored : ChatOf[m] = ChatOf[n] => ~Feed!Older(x, m)
  <2>1. x \in found BY <1>4
  <2> HIDE DEF x
  <2>2. x \in stored /\ x \in Summaries /\ text[x] # 0 /\ ChatOf[x] = ChatOf[n]
    BY <2>1, OfStored, KnownFacts
  <2>3. PICK k \in stored : x \in Feed!LastSummary(ChatOf[k]) BY <2>1 DEF Feed!ListLast
  <2>4. ChatOf[k] = ChatOf[n] BY <2>2, <2>3 DEF Feed!LastSummary, Feed!OfChat
  <2>5. \A m \in stored : ChatOf[m] = ChatOf[n] => ~Feed!Older(x, m)
    BY <2>3, <2>4 DEF Feed!LastSummary, Feed!OfChat
  <2>6. x < n BY <1>1, <1>2, <1>3, <2>2, KnownFacts
  <2> QED BY <2>2, <2>5, <2>6
<1>5. ASSUME found = {}, NEW m \in stored PROVE ChatOf[m] # ChatOf[n]
  <2>1. PICK y \in Feed!ListLast : ChatOf[y] = ChatOf[m] BY NewestStored
  <2> QED BY <1>5, <2>1
<1>6. t \in Nat \ {0} /\ t <= n
  <2>1. CASE found = {} BY <1>3, <2>1
  <2>2. CASE found # {}
    <3>1. x \in Summaries /\ x < n /\ text[x] # 0 /\ text[x] <= x /\ text[x] \in Nat /\ x \in Nat
      BY <1>2, <1>4, <2>2, KnownFacts
    <3>2. t = text[x] BY <2>2
    <3> HIDE DEF x, t
    <3> QED BY <1>3, <3>1, <3>2
  <2> QED BY <2>1, <2>2
<1> HIDE DEF x
<1>7. WorkerInOrder' /\ KnownIsOlder'
  <2> HIDE DEF t
  <2> QED BY <1>1, <1>2, <1>6, InOrderGoesOn
<1>8. TextRepeats'
  <2> SUFFICES ASSUME NEW k \in Summaries, {m \in known'[k] : ChatOf[m] = ChatOf[k]} # {}
               PROVE  \E y \in {m \in known'[k] : ChatOf[m] = ChatOf[k]} :
                         /\ text'[k] = text'[y]
                         /\ \A m \in {mm \in known'[k] : ChatOf[mm] = ChatOf[k]} : ~Feed!Older(y, m)
    BY DEF TextRepeats, Feed!Older
  <2>1. CASE k = n
    <3>1. known'[n] = stored /\ text'[n] = t BY <1>1, <1>2
    <3>2. found # {} BY <1>5, <2>1, <3>1
    <3>3. text'[x] = text[x] /\ t = text[x] BY <1>1, <1>2, <1>3, <1>4, <3>2
    <3> QED BY <1>4, <2>1, <3>1, <3>2, <3>3
  <2>2. CASE k # n
    <3>1. known'[k] = known[k] /\ text'[k] = text[k] BY <1>1, <1>2, <2>2
    <3>2. PICK y \in {m \in known[k] : ChatOf[m] = ChatOf[k]} :
             /\ text[k] = text[y]
             /\ \A m \in {mm \in known[k] : ChatOf[mm] = ChatOf[k]} : ~Feed!Older(y, m)
      BY <3>1 DEF WorkerInv, TextRepeats
    <3>3. y \in Summaries /\ text[y] # 0 BY KnownFacts
    <3>4. text'[y] = text[y] BY <1>1, <1>2, <3>3
    <3> QED BY <3>1, <3>2, <3>4
  <2> QED BY <2>1, <2>2
<1> QED BY <1>7, <1>8 DEF WorkerInv

LEMMA SummarizeBlindWorker ==
    ASSUME GatewayTypeOK, FeedInv, WorkerInv, NEW n \in Summaries, SummarizeBlind(n),
           UNCHANGED <<stored, stamped>>
    PROVE  WorkerInv'
<1>1. /\ text[n] = 0 /\ \A m \in Summaries : m < n => text[m] # 0
      /\ fetchFaults < MaxFetchFaults /\ fetchFaults' = fetchFaults + 1
      /\ text' = [text EXCEPT ![n] = n] /\ known' = known
  BY DEF SummarizeBlind
<1>2. /\ text \in [Summaries -> Nat] /\ fetchFaults \in 0..MaxFetchFaults /\ MaxFetchFaults \in Nat
      /\ known[n] = {}
  BY <1>1, DeliveryAssumption DEF WorkerInv, WorkerInOrder
<1>3. n \in Nat \ {0} /\ n <= n BY KnownFacts
<1>4. fetchFaults' \in 0..MaxFetchFaults BY <1>1, <1>2
<1>5. WorkerInOrder' /\ KnownIsOlder' BY <1>1, <1>3, <1>4, InOrderGoesOn
<1>6. TextRepeats'
  <2> SUFFICES ASSUME NEW k \in Summaries, {m \in known[k] : ChatOf[m] = ChatOf[k]} # {}
               PROVE  \E y \in {m \in known[k] : ChatOf[m] = ChatOf[k]} :
                         /\ text'[k] = text'[y]
                         /\ \A m \in {mm \in known[k] : ChatOf[mm] = ChatOf[k]} : ~Feed!Older(y, m)
    BY <1>1 DEF TextRepeats, Feed!Older
  <2>1. k # n BY <1>2
  <2>2. PICK y \in {m \in known[k] : ChatOf[m] = ChatOf[k]} :
           /\ text[k] = text[y]
           /\ \A m \in {mm \in known[k] : ChatOf[mm] = ChatOf[k]} : ~Feed!Older(y, m)
    BY DEF WorkerInv, TextRepeats
  <2>3. y \in Summaries /\ text[y] # 0 BY KnownFacts
  <2> QED BY <1>1, <1>2, <2>1, <2>2, <2>3
<1> QED BY <1>5, <1>6 DEF WorkerInv

LEMMA GatewayWorker ==
    ASSUME GatewayTypeOK, FeedInv, WorkerInv, LogStep, UNCHANGED <<feedVars, workerVars>>
    PROVE  WorkerInv'
<1>1. UNCHANGED <<stored, text, known, fetchFaults>> BY DEF feedVars, workerVars
<1>2. CASE stamped' = stamped
  BY <1>1, <1>2 DEF WorkerInv, WorkerInOrder, TextRepeats, KnownIsOlder, Feed!Older
<1>3. ASSUME NEW n \in Summaries, n \notin ToSet(stamped), text[n] # 0, stamped' = Append(stamped, n)
      PROVE  WorkerInv'
  <2>1. stamped \in Seq(Summaries) BY DEF GatewayTypeOK
  <2>2. ToSet(stamped') = ToSet(stamped) \cup {n} BY <1>3, <2>1, AppendSet
  <2>3. WorkerInOrder' BY <1>1, <1>3, <2>2 DEF WorkerInv, WorkerInOrder
  <2>4. TextRepeats'
    <3>1. \A x \in ToSet(stamped) : \A m : Feed!Older(m, x)' => Feed!Older(m, x)
      BY <1>3, <2>1, OlderStays
    <3>2. \A k \in Summaries : \A m \in known[k] : m \in ToSet(stamped) BY KnownFacts
    <3> QED BY <1>1, <3>1, <3>2 DEF WorkerInv, TextRepeats, Feed!Older
  <2>5. KnownIsOlder'
    <3>1. /\ Len(stamped) \in Nat /\ DOMAIN stamped = 1..Len(stamped)
          /\ DOMAIN stamped' = 1..Len(stamped) + 1 /\ stamped'[Len(stamped) + 1] = n
          /\ \A i \in DOMAIN stamped : stamped'[i] = stamped[i]
      BY <1>3, <2>1, AppendFacts
    <3> SUFFICES ASSUME NEW j \in DOMAIN stamped', NEW m \in known[stamped'[j]]
                 PROVE  \E i \in DOMAIN stamped' : i < j /\ stamped'[i] = m
      BY <1>1 DEF KnownIsOlder
    <3>2. CASE j \in DOMAIN stamped
      <4>1. PICK i \in DOMAIN stamped : i < j /\ stamped[i] = m
        BY <3>1, <3>2 DEF WorkerInv, KnownIsOlder
      <4> QED BY <3>1, <4>1
    <3>3. CASE j = Len(stamped) + 1
      <4>1. m \in ToSet(stamped) BY <3>1, <3>3, KnownFacts
      <4>2. PICK i \in DOMAIN stamped : stamped[i] = m BY <4>1 DEF ToSet
      <4> QED BY <3>1, <3>3, <4>2
    <3> QED BY <3>1, <3>2, <3>3
  <2> QED BY <2>3, <2>4, <2>5 DEF WorkerInv
<1> QED BY <1>2, <1>3 DEF LogStep

LEMMA FeedWorker ==
    ASSUME GatewayTypeOK, FeedInv, WorkerInv, stored \subseteq stored', stamped' = stamped,
           UNCHANGED workerVars
    PROVE  WorkerInv'
<1>1. WorkerInOrder' BY DEF WorkerInv, WorkerInOrder, workerVars
<1>2. TextRepeats' BY DEF WorkerInv, TextRepeats, Feed!Older, workerVars
<1>3. KnownIsOlder' BY DEF WorkerInv, KnownIsOlder, workerVars
<1> QED BY <1>1, <1>2, <1>3 DEF WorkerInv

-----------------------------------------------------------------------------
(* The invariant implies what the runs check.                              *)

LEMMA DueProperties ==
    ASSUME NEW S, NEW s \in Seq(S), NEW from \in Nat, from <= Len(s)
    PROVE  /\ SubSeq(s, from + 1, Len(s)) \in Seq(S)
           /\ Len(SubSeq(s, from + 1, Len(s))) = Len(s) - from
           /\ \A i \in 1..Len(s) - from : SubSeq(s, from + 1, Len(s))[i] = s[from + i]
<1>1. Len(SubSeq(s, from + 1, Len(s))) = Len(s) - from OBVIOUS
<1>2. \A i \in 1..Len(s) - from : SubSeq(s, from + 1, Len(s))[i] = s[from + i] OBVIOUS
<1>3. SubSeq(s, from + 1, Len(s)) \in Seq(S) OBVIOUS
<1> QED BY <1>1, <1>2, <1>3

\* The index form of "unread is a suffix of what is due" ...
LEMMA SuffixOfDue ==
    ASSUME NEW S, NEW s \in Seq(S), NEW u \in Seq(S), NEW from \in Nat,
           from + Len(u) <= Len(s), PartAt(Len(s) - Len(u), u, s)
    PROVE  Feed!IsSuffix(u, SubSeq(s, from + 1, Len(s)))
<1> DEFINE due == SubSeq(s, from + 1, Len(s))
           a == Feed!Reverse(u)
           b == Feed!Reverse(due)
<1>1. Len(s) \in Nat /\ Len(u) \in Nat /\ DOMAIN s = 1..Len(s) /\ DOMAIN u = 1..Len(u) OBVIOUS
<1>2. /\ due \in Seq(S) /\ Len(due) = Len(s) - from
      /\ \A i \in 1..Len(s) - from : due[i] = s[from + i]
  <2>1. from <= Len(s) BY <1>1
  <2> QED BY <2>1, DueProperties
<1> HIDE DEF due
<1>3. /\ a \in Seq(S) /\ Len(a) = Len(u) /\ \A i \in 1..Len(u) : a[i] = u[Len(u) - i + 1]
  BY <1>1 DEF Feed!Reverse
<1>4. /\ b \in Seq(S) /\ Len(b) = Len(due) /\ \A i \in 1..Len(due) : b[i] = due[Len(due) - i + 1]
  BY <1>1, <1>2 DEF Feed!Reverse
<1> HIDE DEF a, b
<1>5. Len(a) <= Len(b) BY <1>1, <1>2, <1>3, <1>4
<1>6. ASSUME NEW i \in 1..Len(u) PROVE a[i] = b[i]
  <2>1. a[i] = u[Len(u) - i + 1] BY <1>3
  <2>2. i \in 1..Len(due) BY <1>1, <1>2
  <2>3. b[i] = due[Len(due) - i + 1] BY <1>4, <2>2
  <2>4. Len(due) - i + 1 \in 1..Len(s) - from BY <1>1, <1>2, <2>2
  <2>5. due[Len(due) - i + 1] = s[from + (Len(due) - i + 1)] BY <1>2, <2>4
  <2>6. Len(u) - i + 1 \in 1..Len(u) BY <1>1
  <2>7. u[Len(u) - i + 1] = s[Len(s) - Len(u) + (Len(u) - i + 1)] BY <2>6 DEF PartAt
  <2>8. from + (Len(due) - i + 1) = Len(s) - Len(u) + (Len(u) - i + 1) BY <1>1, <1>2
  <2> QED BY <2>1, <2>3, <2>5, <2>7, <2>8
<1>7. SubSeq(a, 1, Len(a)) = SubSeq(b, 1, Len(a))
  <2>1. Len(a) \in Nat /\ Len(b) \in Nat BY <1>3, <1>4
  <2>2. \A i \in 1..Len(a) : a[i] \in S /\ b[i] \in S BY <1>3, <1>4, <1>5, <2>1
  <2>3. /\ SubSeq(a, 1, Len(a)) \in Seq(S) /\ SubSeq(b, 1, Len(a)) \in Seq(S)
        /\ Len(SubSeq(a, 1, Len(a))) = Len(a) /\ Len(SubSeq(b, 1, Len(a))) = Len(a)
        /\ \A i \in 1..Len(a) : SubSeq(a, 1, Len(a))[i] = a[i]
        /\ \A i \in 1..Len(a) : SubSeq(b, 1, Len(a))[i] = b[i]
    BY <2>1, <2>2, SubSeqProperties
  <2> DEFINE aa == SubSeq(a, 1, Len(a))
             bb == SubSeq(b, 1, Len(a))
  <2>4. \A i \in 1..Len(a) : aa[i] = bb[i] BY <1>3, <1>6, <2>3
  <2>5. aa \in Seq(S) /\ bb \in Seq(S) /\ Len(aa) = Len(a) /\ Len(bb) = Len(a) BY <2>3
  <2> HIDE DEF aa, bb
  <2>6. aa = bb BY <2>4, <2>5
  <2> QED BY <2>6 DEF aa, bb
<1> QED BY <1>5, <1>7 DEF Feed!IsSuffix, Feed!IsPrefix, a, b, due

\* ... and of "fed and unread are all that is due".
LEMMA AllOfDue ==
    ASSUME NEW S, NEW s \in Seq(S), NEW f \in Seq(S), NEW u \in Seq(S), NEW from \in Nat,
           from + Len(f) + Len(u) = Len(s), PartAt(from, f, s), PartAt(Len(s) - Len(u), u, s)
    PROVE  f \o u = SubSeq(s, from + 1, Len(s))
<1> DEFINE due == SubSeq(s, from + 1, Len(s))
           got == f \o u
<1>1. /\ Len(s) \in Nat /\ Len(u) \in Nat /\ Len(f) \in Nat /\ DOMAIN s = 1..Len(s)
  OBVIOUS
<1>2. /\ got \in Seq(S) /\ Len(got) = Len(f) + Len(u)
      /\ \A i \in 1..Len(f) + Len(u) : got[i] = IF i <= Len(f) THEN f[i] ELSE u[i - Len(f)]
  BY ConcatProperties
<1>3. /\ due \in Seq(S) /\ Len(due) = Len(s) - from
      /\ \A i \in 1..Len(s) - from : due[i] = s[from + i]
  <2>1. from <= Len(s) BY <1>1
  <2> QED BY <2>1, DueProperties
<1> HIDE DEF due, got
<1>4. Len(due) = Len(got) BY <1>1, <1>2, <1>3
<1>5. ASSUME NEW i \in 1..Len(got) PROVE got[i] = due[i]
  <2>1. due[i] = s[from + i] BY <1>1, <1>2, <1>3
  <2>2. CASE i <= Len(f) BY <1>1, <1>2, <2>1, <2>2 DEF PartAt
  <2>3. CASE ~(i <= Len(f))
    <3>1. i - Len(f) \in 1..Len(u) BY <1>1, <1>2, <2>3
    <3>2. got[i] = u[i - Len(f)] BY <1>1, <1>2, <2>3
    <3>3. u[i - Len(f)] = s[Len(s) - Len(u) + (i - Len(f))] BY <3>1 DEF PartAt
    <3>4. Len(s) - Len(u) + (i - Len(f)) = from + i
      <4>1. \A a, b, c \in Nat, d \in Int : (a + b + c) - c + (d - b) = a + d OBVIOUS
      <4>2. i \in Int BY <1>1, <1>2
      <4> QED BY <1>1, <4>1, <4>2
    <3> QED BY <2>1, <3>2, <3>3, <3>4
  <2> QED BY <2>2, <2>3
<1>6. got = due BY <1>2, <1>3, <1>4, <1>5
<1> QED BY <1>6 DEF got, due

LEMMA GaplessFollows == ASSUME DeliveryInv PROVE FeedIsGapless
<1> SUFFICES ASSUME NEW l \in Listeners, Feed!Subscribed(l)
             PROVE  LET due == SubSeq(sent, since[l] + 1, Len(sent))
                    IN  IF lag[l] \/ lagged[l] THEN Feed!IsSuffix(unread[l], due)
                        ELSE fed[l] \o unread[l] = due
  BY DEF FeedIsGapless, Feed!FeedIsGapless
<1>1. /\ unread[l] \in Seq(Summaries) /\ fed[l] \in Seq(Summaries) /\ sent \in Seq(Summaries)
      /\ since[l] \in Nat /\ RingIsTail(l) /\ FedIsHead(l)
  BY OneListenerTypes DEF DeliveryInv, GatewayInv
<1> DEFINE u == unread[l]
           f == fed[l]
           from == since[l]
<1>2. from + Len(u) <= Len(sent) /\ PartAt(Len(sent) - Len(u), u, sent) BY <1>1 DEF RingIsTail
<1>3. Feed!IsSuffix(u, SubSeq(sent, from + 1, Len(sent)))
  <2>1. u \in Seq(Summaries) /\ from \in Nat BY <1>1
  <2> HIDE DEF u, from
  <2> QED BY <1>1, <1>2, <2>1, SuffixOfDue
<1>4. ASSUME ~lag[l], ~lagged[l] PROVE f \o u = SubSeq(sent, from + 1, Len(sent))
  <2>1. from + Len(f) + Len(u) = Len(sent) /\ PartAt(from, f, sent) BY <1>1, <1>4 DEF FedIsHead
  <2>2. u \in Seq(Summaries) /\ f \in Seq(Summaries) /\ from \in Nat BY <1>1
  <2> HIDE DEF u, f, from
  <2> QED BY <1>1, <1>2, <2>1, <2>2, AllOfDue
<1> QED BY <1>3, <1>4

LEMMA NothingMissedFollows == ASSUME DeliveryInv PROVE NothingMissed
<1> SUFFICES ASSUME NEW l \in Listeners, NEW n \in ToSet(sent), Feed!Subscribed(l),
                    listed[l] # Feed!NotListed, ~lag[l], ~lagged[l],
                    n \notin dropped \cup early[l] \cup misread[l], ~Covers(l, n)
             PROVE  n \in ToSet(fed[l] \o unread[l])
  BY SameToSet DEF NothingMissed, Feed!NothingMissed, Covers
<1>1. PICK k \in DOMAIN sent : sent[k] = n BY DEF ToSet
<1>2. k > since[l] BY <1>1 DEF DeliveryInv, ListCovers, ListCovered, Feed!Subscribed
<1>3. /\ unread[l] \in Seq(Summaries) /\ fed[l] \in Seq(Summaries) /\ sent \in Seq(Summaries)
      /\ since[l] \in Nat /\ Len(sent) \in Nat /\ Len(unread[l]) \in Nat /\ Len(fed[l]) \in Nat
      /\ RingIsTail(l) /\ FedIsHead(l)
  BY OneListenerTypes DEF DeliveryInv, GatewayInv
<1>4. /\ PartAt(Len(sent) - Len(unread[l]), unread[l], sent) /\ PartAt(since[l], fed[l], sent)
      /\ since[l] + Len(fed[l]) + Len(unread[l]) = Len(sent)
  BY <1>3 DEF RingIsTail, FedIsHead
<1> DEFINE got == fed[l] \o unread[l]
           i == k - since[l]
<1>5. got = SubSeq(sent, since[l] + 1, Len(sent))
  <2> DEFINE u == unread[l]
             f == fed[l]
             from == since[l]
  <2>1. /\ u \in Seq(Summaries) /\ f \in Seq(Summaries) /\ from \in Nat
        /\ from + Len(f) + Len(u) = Len(sent) /\ PartAt(from, f, sent)
        /\ PartAt(Len(sent) - Len(u), u, sent)
    BY <1>3, <1>4
  <2> HIDE DEF u, f, from
  <2>2. f \o u = SubSeq(sent, from + 1, Len(sent)) BY <1>3, <2>1, AllOfDue
  <2> QED BY <2>2 DEF u, f, from
<1>6. k \in 1..Len(sent) /\ i \in 1..Len(sent) - since[l] /\ since[l] + i = k
  BY <1>1, <1>2, <1>3
<1>7. /\ got \in Seq(Summaries) /\ Len(got) = Len(sent) - since[l]
      /\ \A j \in 1..Len(sent) - since[l] : got[j] = sent[since[l] + j]
  <2>1. since[l] <= Len(sent) BY <1>1, <1>2, <1>3
  <2> QED BY <1>3, <1>5, <2>1, DueProperties
<1> HIDE DEF got
<1>8. got[i] = n BY <1>1, <1>6, <1>7
<1>9. i \in DOMAIN got BY <1>6, <1>7
<1> QED BY <1>8, <1>9 DEF ToSet, got

LEMMA KeptFollows == ASSUME DeliveryInv PROVE SummaryIsKept
<1> USE DEF DeliveryInv, GatewayInv
<1> SUFFICES ASSUME NEW i \in DOMAIN stamped, NEW j \in DOMAIN stamped, i < j,
                    ChatOf[stamped[i]] = ChatOf[stamped[j]], stamped[i] \in known[stamped[j]],
                    \A k \in i+1..j-1 : ChatOf[stamped[k]] # ChatOf[stamped[j]]
             PROVE  text[stamped[j]] = text[stamped[i]]
  BY DEF SummaryIsKept
<1> DEFINE m == stamped[i]
           n == stamped[j]
<1>1. /\ stamped \in Seq(Summaries) /\ IsInjective(stamped) /\ Len(stamped) \in Nat
      /\ DOMAIN stamped = 1..Len(stamped) /\ n \in Summaries
  BY DEF GatewayTypeOK
<1>2. PICK x \in known[n] : ChatOf[x] = ChatOf[n] /\ text[n] = text[x] /\ ~Feed!Older(x, m)
  BY <1>1 DEF WorkerInv, TextRepeats
<1>3. PICK a \in DOMAIN stamped : a < j /\ stamped[a] = x
  BY DEF WorkerInv, KnownIsOlder
<1>4. ~(a < i) BY <1>2, <1>3 DEF Feed!Older
<1>5. ~(a \in i+1..j-1) BY <1>2, <1>3
<1>6. a = i BY <1>1, <1>3, <1>4, <1>5
<1> QED BY <1>2, <1>3, <1>6

-----------------------------------------------------------------------------
(* The invariance.                                                         *)

LEMMA InitDeliveryInv == ASSUME DeliveryInit PROVE DeliveryInv
<1> USE DEF DeliveryInit
<1>1. GatewayInv BY InitGateway
<1>2. /\ pos = 0 /\ cpc = "poll" /\ stored = {} /\ dropped = {} /\ sent = <<>>
      /\ peer \in [Listeners -> {"away", "gone"}]
      /\ hpc = [l \in Listeners |-> IF peer[l] = "gone" THEN "closed" ELSE "none"]
      /\ since = [l \in Listeners |-> 0] /\ unread = [l \in Listeners |-> <<>>]
      /\ lag = [l \in Listeners |-> FALSE] /\ lagged = [l \in Listeners |-> FALSE]
      /\ fed = [l \in Listeners |-> <<>>] /\ early = [l \in Listeners |-> {}]
      /\ listed = [l \in Listeners |-> Feed!NotListed] /\ misread = [l \in Listeners |-> {}]
      /\ stamped = <<>> /\ topic = <<>>
  BY DEF Feed!FeedInit, GatewayInit
<1>3. ToSet(sent) = {} /\ ToSet(stamped) = {} BY <1>2 DEF ToSet
<1>4. FeedTypes
  <2>1. Capacity \in Nat /\ Len(<<>>) <= Capacity /\ Len(sent) = 0 BY <1>2, DeliveryAssumption
  <2>2. \A l \in Listeners : Len(unread[l]) <= Capacity /\ since[l] <= Len(sent) BY <1>2, <2>1
  <2>3. hpc \in [Listeners -> {"none", "upgraded", "select", "sending", "closed"}] BY <1>2
  <2>4. listed \in [Listeners -> (SUBSET Summaries) \cup {Feed!NotListed}]
    <3> DEFINE Lists == (SUBSET Summaries) \cup {Feed!NotListed}
    <3>1. Feed!NotListed \in Lists OBVIOUS
    <3> HIDE DEF Lists
    <3>2. listed \in [Listeners -> Lists] BY <1>2, <3>1
    <3> QED BY <3>2 DEF Lists
  <2> QED BY <1>2, <2>2, <2>3, <2>4 DEF FeedTypes
<1>5. Feed!FeedTypeOK
  <2>1. pos \in 0..Len(topic) BY <1>2
  <2> QED BY <1>1, <1>2, <1>3, <1>4, <2>1, FeedTypeParts DEF GatewayInv
<1>6. SentIsSaved BY <1>2, <1>3 DEF SentIsSaved
<1>7. ASSUME NEW l \in Listeners PROVE RingIsTail(l) /\ FedIsHead(l) /\ StartsEmpty(l)
  BY <1>2 DEF RingIsTail, FedIsHead, StartsEmpty, Feed!Subscribed
<1>8. FeedInv BY <1>5, <1>6, <1>7 DEF FeedInv
<1>9. ListCovers BY <1>2 DEF ListCovers, ListCovered
<1>10. WorkerInv
  <2>1. WorkerInOrder BY <1>2, <1>3, RegistryAssumption, DeliveryAssumption DEF WorkerInOrder
  <2>2. TextRepeats /\ KnownIsOlder BY <1>2 DEF TextRepeats, KnownIsOlder
  <2> QED BY <2>1, <2>2 DEF WorkerInv
<1> QED BY <1>1, <1>8, <1>9, <1>10 DEF DeliveryInv

LEMMA NextDeliveryInv == ASSUME DeliveryInv, [DeliveryNext]_deliveryVars PROVE DeliveryInv'
<1> USE DEF DeliveryInv
<1>0. GatewayTypeOK BY DEF GatewayInv
<1>1. ASSUME UNCHANGED gatewayVars PROVE GatewayInv' /\ stamped' = stamped /\ topic' = topic
  BY <1>1 DEF GatewayInv, gatewayVars, GatewayTypeOK, SendingIsNew, Sending, EventNamesAsker,
              PushedAtEnd, ClientsAreCurrent, PushIsForDevice
<1>2. ASSUME UNCHANGED <<gatewayVars, feedVars>> PROVE FeedInv' /\ ListCovers'
  <2>1. LogStep /\ topic' = topic BY <1>1, <1>2 DEF LogStep
  <2> QED BY <1>0, <1>2, <2>1, TopicFeed, GatewayList
<1>3. CASE WorkerStep /\ UNCHANGED <<gatewayVars, feedVars>>
  <2>1. UNCHANGED <<stored, stamped>> BY <1>1, <1>3 DEF feedVars
  <2>2. WorkerInv' BY <1>0, <1>3, <2>1, SummarizeWorker, SummarizeBlindWorker DEF WorkerStep
  <2> QED BY <1>1, <1>2, <1>3, <2>2
<1>4. CASE /\ LineArrives \/ BrowserStep \/ KafkaStep \/ PushStep
           /\ UNCHANGED <<feedVars, workerVars>>
  <2>1. GatewayInv' /\ LogStep BY <1>4, NextGateway
  <2>2. topic' = topic \/ \E n \in Summaries : topic' = Append(topic, n) BY <2>1 DEF LogStep
  <2>3. FeedInv' BY <1>0, <1>4, <2>2, TopicFeed
  <2>4. ListCovers' BY <1>0, <1>4, <2>1, GatewayList
  <2>5. WorkerInv' BY <1>0, <1>4, <2>1, GatewayWorker
  <2> QED BY <2>1, <2>3, <2>4, <2>5
<1>5. CASE Feed!ConsumerStep /\ UNCHANGED <<gatewayVars, workerVars>>
  <2>1. GatewayInv' /\ stamped' = stamped /\ topic' = topic BY <1>1, <1>5
  <2>2. FeedInv' /\ ListCovers' BY <1>0, <1>5, <2>1, ConsumerList DEF GatewayInv
  <2>3. stored \subseteq stored'
    BY <1>5 DEF Feed!ConsumerStep, Feed!Poll, Feed!Save, Feed!Send
  <2> QED BY <1>0, <1>5, <2>1, <2>2, <2>3, FeedWorker
<1>6. CASE /\ \E l \in Listeners : Feed!HandlerStep(l) \/ Feed!ClientStep(l)
           /\ UNCHANGED <<gatewayVars, workerVars>>
  <2>1. GatewayInv' /\ stamped' = stamped /\ topic' = topic BY <1>1, <1>6
  <2>2. FeedInv' /\ ListCovers' /\ UNCHANGED <<stored, dropped>>
    BY <1>0, <1>6, <2>1, HandlerFeed
  <2> QED BY <1>0, <1>6, <2>1, <2>2, FeedWorker
<1>7. CASE UNCHANGED deliveryVars
  <2>1. UNCHANGED <<gatewayVars, feedVars, workerVars>> BY <1>7 DEF deliveryVars
  <2>2. UNCHANGED stored BY <2>1 DEF feedVars
  <2> QED BY <1>0, <1>1, <1>2, <2>1, <2>2, FeedWorker
<1> QED BY <1>3, <1>4, <1>5, <1>6, <1>7 DEF DeliveryNext

THEOREM DeliveryInvariant == DeliverySpec => []DeliveryInv
<1>1. DeliveryInit => DeliveryInv BY InitDeliveryInv
<1>2. DeliveryInv /\ [DeliveryNext]_deliveryVars => DeliveryInv' BY NextDeliveryInv
<1> QED BY <1>1, <1>2, PTL DEF DeliverySpec

-----------------------------------------------------------------------------
(* What the runs check, for every instance.                                *)

\* Every variable of the worker, the gateway, the consumer and the handlers
\* keeps its type; what is stored or broadcast was taken from the topic.
THEOREM DeliveryTypeCorrect == DeliverySpec => []DeliveryTypeOK
<1>1. DeliveryInv => DeliveryTypeOK
  BY DEF DeliveryInv, GatewayInv, FeedInv, WorkerInv, WorkerInOrder, DeliveryTypeOK
<1> QED BY <1>1, DeliveryInvariant, PTL

\* The sets of deviceClients and the sockets agree, in every order of
\* registrations and closes, but for a socket that registered twice.
THEOREM RegistryIsCurrent == DeliverySpec => []ClientsAreCurrent
<1>1. DeliveryInv => ClientsAreCurrent BY DEF DeliveryInv, GatewayInv
<1> QED BY <1>1, DeliveryInvariant, PTL

\* A summary reaches the sockets of the device its event names, whatever
\* registers or closes during the await of Kafka.
THEOREM PushesGoToDevice == DeliverySpec => []PushIsForDevice
<1>1. DeliveryInv => PushIsForDevice BY DEF DeliveryInv, GatewayInv
<1> QED BY <1>1, DeliveryInvariant, PTL

\* A client of the feed gets all summaries since it subscribed, in order and
\* once, or is told that it lagged and has the last ones, for every ring size.
THEOREM FeedHasNoGap == DeliverySpec => []FeedIsGapless
<1>1. DeliveryInv => FeedIsGapless BY GaplessFollows
<1> QED BY <1>1, DeliveryInvariant, PTL

\* With the list and the feed a client misses no summary that was broadcast, but
\* for a failed save, a lag, the moment before subscribe() and the chats that its
\* list left out because the storage could not be read: any set of chats.
THEOREM ListAndFeedMissNothing == DeliverySpec => []NothingMissed
<1>1. DeliveryInv => NothingMissed BY NothingMissedFollows
<1> QED BY <1>1, DeliveryInvariant, PTL

\* A chat keeps its summary from question to question.
THEOREM ChatKeepsSummary == DeliverySpec => []SummaryIsKept
<1>1. DeliveryInv => SummaryIsKept BY KeptFollows
<1> QED BY <1>1, DeliveryInvariant, PTL
=============================================================================
