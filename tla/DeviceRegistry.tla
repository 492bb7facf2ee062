--------------------------- MODULE DeviceRegistry ---------------------------
(***************************************************************************)
(* The browsers of the gateway and the summaries it pushes to them         *)
(* (websocket.ts, emitSummaryBroadcast() in emitters.ts).                  *)
(*                                                                         *)
(* A browser registers its websocket under a device; a summary goes to     *)
(* Kafka first and then to every websocket of the requester's device.      *)
(* Node runs one handler at a time; the await of Kafka is the only place   *)
(* where registrations and closes come between.                            *)
(***************************************************************************)
EXTENDS Integers, Sequences, FiniteSets, SequencesExt

CONSTANTS
    Sockets, Devices,
    Summaries,      \* ids the gateway draws for the summaries
    AskerOf,        \* the websocket whose question a summary belongs to
    MaxRegisters,   \* bound: "register" messages
    MaxRefusals     \* bound: producer.send() that throws

\* ws.deviceHash is undefined.
NoDevice == "none"

ASSUME RegistryAssumption ==
    /\ NoDevice \notin Devices
    /\ Summaries \subseteq Nat \ {0} /\ IsFiniteSet(Summaries)
    /\ AskerOf \in [Summaries -> Sockets]
    /\ {MaxRegisters, MaxRefusals} \subseteq Nat

VARIABLES
    ready,      \* readyState of each websocket
    device,     \* ws.deviceHash
    clients,    \* deviceClients; a device without a key has no sockets
    emit,       \* the run of emitSummaryBroadcast() for each summary
    stamped,    \* the summaries in the order of their ids and timestamps
    topic,      \* what Kafka has taken
    refused,    \* what it has refused
    shown,      \* the sockets each summary was pushed to
    moved,      \* sockets that registered a second device
    registers

gatewayVars == <<ready, device, clients, emit, stamped, topic, refused, shown,
                 moved, registers>>

NotYet == [step |-> "none"]

\* `of` is the device_hash in the event, read before the await; `crossed` says
\* that the requester has registered another device since.
Emits == [step : {"sending", "answered", "done"},
          of : Devices \cup {NoDevice}, crossed : BOOLEAN]

GatewayTypeOK ==
    /\ ready \in [Sockets -> {"open", "closing", "closed"}]
    /\ device \in [Sockets -> Devices \cup {NoDevice}]
    /\ clients \in [Devices -> SUBSET Sockets]
    /\ emit \in [Summaries -> Emits \cup {NotYet}]
    /\ stamped \in Seq(Summaries) /\ topic \in Seq(Summaries)
    /\ ToSet(stamped) = {n \in Summaries : emit[n] # NotYet}
    /\ ToSet(topic) \subseteq ToSet(stamped) \ refused
    /\ IsInjective(topic) /\ IsInjective(stamped)
    /\ shown \in [Summaries -> SUBSET Sockets]
    /\ refused \subseteq Summaries /\ moved \subseteq Sockets
    /\ registers \in 0..MaxRegisters

\* A socket that is closed from the start is one that never comes.
GatewayInit ==
    /\ ready \in [Sockets -> {"open", "closed"}]
    /\ device = [w \in Sockets |-> NoDevice]
    /\ clients = [d \in Devices |-> {}]
    /\ emit = [n \in Summaries |-> NotYet]
    /\ stamped = <<>> /\ topic = <<>> /\ refused = {}
    /\ shown = [n \in Summaries |-> {}]
    /\ moved = {} /\ registers = 0

-----------------------------------------------------------------------------
(* websocket.ts                                                            *)

\* "register": the socket joins the set of the device; it leaves no other set.
Register(w, d) ==
    /\ ready[w] = "open" /\ registers < MaxRegisters
    /\ registers' = registers + 1
    /\ clients' = [clients EXCEPT ![d] = @ \cup {w}]
    /\ device' = [device EXCEPT ![w] = d]
    /\ moved' = IF device[w] \in {NoDevice, d} THEN moved ELSE moved \cup {w}
    /\ emit' = [n \in Summaries |->
                   IF emit[n] # NotYet /\ AskerOf[n] = w /\ emit[n].step # "done" /\ emit[n].of # d
                   THEN [emit[n] EXCEPT !.crossed = TRUE] ELSE emit[n]]
    /\ UNCHANGED <<ready, stamped, topic, refused, shown>>

\* The connection ends: readyState changes before the "close" handler runs.
Leave(w) ==
    /\ ready[w] = "open"
    /\ ready' = [ready EXCEPT ![w] = "closing"]
    /\ UNCHANGED <<device, clients, emit, stamped, topic, refused, shown, moved, registers>>

\* Faulty variant: the device loses its key, whoever else is in its set.
ForgetDevice(w) ==
    /\ ready[w] = "closing"
    /\ ready' = [ready EXCEPT ![w] = "closed"]
    /\ clients' = [d \in Devices |-> IF d = device[w] THEN {} ELSE clients[d]]
    /\ UNCHANGED <<device, emit, stamped, topic, refused, shown, moved, registers>>

\* "close": the socket leaves the set of the device it registered last.
CloseEvent(w) ==
    /\ ready[w] = "closing"
    /\ ready' = [ready EXCEPT ![w] = "closed"]
    /\ clients' = [d \in Devices |-> IF d = device[w] THEN clients[d] \ {w} ELSE clients[d]]
    /\ UNCHANGED <<device, emit, stamped, topic, refused, shown, moved, registers>>

-----------------------------------------------------------------------------
(* emitSummaryBroadcast()                                                  *)

\* The event gets its id, its timestamp and the device, and is sent.  The worker
\* stream goes on when its browser has left.
Emit(n) ==
    /\ emit[n] = NotYet
    /\ emit' = [emit EXCEPT ![n] =
                   [step |-> "sending", of |-> device[AskerOf[n]], crossed |-> FALSE]]
    /\ stamped' = Append(stamped, n)
    /\ UNCHANGED <<ready, device, clients, topic, refused, shown, moved, registers>>

Sending(n) == emit[n] # NotYet /\ emit[n].step = "sending"

KafkaTakes(n) ==
    /\ Sending(n)
    /\ topic' = Append(topic, n)
    /\ emit' = [emit EXCEPT ![n].step = "answered"]
    /\ UNCHANGED <<ready, device, clients, stamped, refused, shown, moved, registers>>

\* The exception is logged, and the caller does not know.
KafkaRefuses(n) ==
    /\ Sending(n) /\ Cardinality(refused) < MaxRefusals
    /\ refused' = refused \cup {n}
    /\ emit' = [emit EXCEPT ![n].step = "answered"]
    /\ UNCHANGED <<ready, device, clients, stamped, topic, shown, moved, registers>>

Audience(d) == {w \in UNION {clients[e] : e \in Devices \cap {d}} : ready[w] = "open"}

\* Faulty variants: the emit is not awaited; every device gets the summary.
BroadcastAtOnce(n) ==
    /\ emit[n] # NotYet /\ emit[n].step # "done"
    /\ emit' = [emit EXCEPT ![n].step = IF @ = "answered" THEN "done" ELSE @]
    /\ shown' = [shown EXCEPT ![n] = Audience(device[AskerOf[n]])]
    /\ UNCHANGED <<ready, device, clients, stamped, topic, refused, moved, registers>>

BroadcastToAll(n) ==
    /\ emit[n] # NotYet /\ emit[n].step = "answered"
    /\ emit' = [emit EXCEPT ![n].step = "done"]
    /\ shown' = [shown EXCEPT ![n] = UNION {Audience(d) : d \in Devices}]
    /\ UNCHANGED <<ready, device, clients, stamped, topic, refused, moved, registers>>

\* After the await: the device is read again, and its sockets as they are now.
Broadcast(n) ==
    /\ emit[n] # NotYet /\ emit[n].step = "answered"
    /\ emit' = [emit EXCEPT ![n].step = "done"]
    /\ shown' = [shown EXCEPT ![n] = Audience(device[AskerOf[n]])]
    /\ UNCHANGED <<ready, device, clients, stamped, topic, refused, moved, registers>>

BrowserStep ==
    \/ \E w \in Sockets, d \in Devices : Register(w, d)
    \/ \E w \in Sockets : Leave(w) \/ CloseEvent(w)

KafkaStep == \E n \in Summaries : KafkaTakes(n) \/ KafkaRefuses(n)
PushStep == \E n \in Summaries : Broadcast(n)

-----------------------------------------------------------------------------
(* Properties.                                                             *)

\* deviceClients and the sockets agree: an open socket is in the set of its
\* device, and a socket whose close was handled is in none, unless it has
\* registered a second device: then it stays in the set of the first for good.
ClientsAreCurrent ==
    /\ \A w \in Sockets : ready[w] = "open" /\ device[w] # NoDevice => w \in clients[device[w]]
    /\ \A w \in Sockets, d \in Devices :
          w \in clients[d] => (ready[w] # "closed" /\ device[w] = d) \/ w \in moved

\* A summary is shown to sockets of the device its event names in Kafka; the
\* exceptions are a requester that registered during the await, and a socket
\* that registered more than one device, before or after.
PushIsForDevice ==
    \A n \in Summaries : \A w \in shown[n] :
        device[w] = emit[n].of \/ emit[n].crossed \/ w \in moved
=============================================================================
