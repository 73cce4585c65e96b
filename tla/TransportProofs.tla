--------------------------- MODULE TransportProofs ---------------------------
(***************************************************************************)
(* Theorems about ServiceTransport, for any number of requests, restarts   *)
(* and services and any queue limit.                                       *)
(*                                                                         *)
(* One inductive invariant, Inv, carries all of them.  It ties what the    *)
(* worker does next to the descriptor it holds, and what stop() has done   *)
(* so far to the worker: after the join the worker has ended, a worker     *)
(* that has ended saw stopping_ with an empty queue, and stopping_ keeps   *)
(* the queue empty from then on.                                           *)
(***************************************************************************)
EXTENDS ServiceTransport, TLAPS

\* The worker holds a request from the queue until it is finished.
CurrentOK == current = None <=> worker \in {"idle", "ended"}

\* The worker's descriptor: unpublished during the handshake only.
DescriptorOK ==
  /\ connected => connection # None
  /\ worker \in {"spawned", "handshake"} => ~connected
  /\ worker = "handshake" => connection # None

\* How far stop() is, and what that says about the worker.
StopOK ==
  /\ stopping <=> owner # "running"
  /\ worker = "ended" => stopping /\ queue = <<>> /\ ~connected
  /\ owner \in {"closing", "draining", "done"} => worker = "ended"

\* Requests that are waiting and callbacks that have run, together.
InHand == IF current = None THEN 0 ELSE 1
CountOK == Len(replies) + Len(queue) + InHand <= submitted

Inv ==
  /\ TypeOK
  /\ CurrentOK
  /\ DescriptorOK
  /\ StopOK
  /\ CountOK
  /\ SocketInUseIsOpen
  /\ StopWakesWorker

\* A callback is run for a request that has one.
LEMMA ReplyType ==
  ASSUME NEW request \in Request
  PROVE  Reply(request) \in Seq(Nat) /\ Len(Reply(request)) <= 1
BY DEF Reply, Request

\* None is neither a request nor a connection.
LEMMA NoneIsNothing == None \notin Request /\ None \notin Connection
BY TransportAssumption DEF Request, Connection

\* The steps that finish the current request keep the count.
LEMMA AppendReply ==
  ASSUME replies \in Seq(Nat), NEW request \in Request
  PROVE  /\ replies \o Reply(request) \in Seq(Nat)
         /\ Len(replies \o Reply(request)) \in Len(replies)..(Len(replies) + 1)
<1>1. Reply(request) \in Seq(Nat) /\ Len(Reply(request)) <= 1
  BY ReplyType
<1>2. Len(replies \o Reply(request)) = Len(replies) + Len(Reply(request))
  BY <1>1
<1> QED BY <1>1, <1>2

\* The initial states satisfy the invariant.
LEMMA InitInv == Init => Inv
<1> SUFFICES ASSUME Init PROVE Inv
  OBVIOUS
<1> USE NoneIsNothing DEF Init
<1>1. TypeOK
  <2>1. Unborn \in Service /\ [Unborn EXCEPT !.at = "listening"] \in Service
    BY DEF Service, Unborn, Foreign
  <2>2. services \in [1..MaxServices -> Service]
    BY <2>1
  <2>3. replies \in Seq(Nat) /\ Len(replies) <= submitted /\ queue \in Seq(Request)
    OBVIOUS
  <2> QED BY <2>2, <2>3 DEF TypeOK
<1>2. CurrentOK /\ DescriptorOK /\ StopOK /\ SocketInUseIsOpen /\ StopWakesWorker
  BY DEF CurrentOK, DescriptorOK, StopOK, SocketInUseIsOpen, StopWakesWorker
<1>3. CountOK
  BY DEF CountOK, InHand
<1> QED BY <1>1, <1>2, <1>3 DEF Inv

\* A failed request leaves the worker idle and without a descriptor.
LEMMA FailInv ==
  ASSUME Inv, Fail, worker \notin {"idle", "ended"}, backoff' \in BOOLEAN
  PROVE  Inv'
<1> USE DEF Inv
<1>1. current \in Request
  BY DEF TypeOK, CurrentOK
<1>2. replies' \in Seq(Nat) /\ Len(replies') \in Len(replies)..(Len(replies) + 1)
  BY <1>1, AppendReply DEF TypeOK, Fail, Finish
<1>3. CountOK'
  BY <1>1, <1>2, NoneIsNothing DEF CountOK, InHand, TypeOK, Fail, Finish, WorkerOnly
<1>4. TypeOK'
  <2>1. Len(replies') <= submitted'
    BY <1>1, <1>2, NoneIsNothing DEF CountOK, InHand, TypeOK, Fail, Finish, WorkerOnly
  <2> QED BY <1>2, <2>1 DEF TypeOK, Fail, Finish, WorkerOnly
<1>5. CurrentOK' /\ DescriptorOK'
  BY DEF CurrentOK, DescriptorOK, Fail, Finish
<1>6. StopOK'
  BY DEF StopOK, Fail, Finish, WorkerOnly
<1>7. SocketInUseIsOpen' /\ StopWakesWorker'
  BY DEF SocketInUseIsOpen, StopWakesWorker, Fail, Finish
<1> QED BY <1>3, <1>4, <1>5, <1>6, <1>7

\* Callers keep the invariant: a stopped transport rejects, so that its queue
\* stays empty behind the worker.
LEMMA EnqueueInv ==
  ASSUME Inv, NEW kind \in {"call", "record"}, Enqueue(kind)
  PROVE  Inv'
<1> DEFINE request == [id |-> submitted', kind |-> kind]
<1> USE DEF Inv
<1>1. request \in Request /\ submitted' = submitted + 1 /\ submitted' \in Nat
  BY DEF Request, Enqueue, TypeOK
<1>2. UNCHANGED <<stopping, connected, worker, current, connection, backoff, owner,
                  restarting, generation, services>>
  BY DEF Enqueue
<1>3. CASE stopping
  <2>1. queue' = queue /\ replies' = replies \o Reply(request)
    BY <1>3 DEF Enqueue
  <2>2. replies' \in Seq(Nat) /\ Len(replies') \in Len(replies)..(Len(replies) + 1)
    BY <1>1, <2>1, AppendReply DEF TypeOK
  <2>3. CountOK'
    BY <1>1, <1>2, <2>1, <2>2 DEF CountOK, InHand, TypeOK
  <2>4. TypeOK'
    BY <1>1, <1>2, <2>1, <2>2 DEF TypeOK
  <2> QED BY <1>2, <2>1, <2>3, <2>4
          DEF CurrentOK, DescriptorOK, StopOK, SocketInUseIsOpen, StopWakesWorker
<1>4. CASE ~stopping
  <2>1. replies' = replies /\ (queue' = queue \/ queue' = Append(queue, request))
    BY <1>4 DEF Enqueue
  <2>2. queue' \in Seq(Request) /\ Len(queue') <= Len(queue) + 1
    BY <1>1, <2>1, SMTT(20) DEF TypeOK
  <2>3. CountOK'
    BY <1>1, <1>2, <2>1, <2>2 DEF CountOK, InHand, TypeOK
  <2>4. TypeOK'
    BY <1>1, <1>2, <2>1, <2>2 DEF TypeOK
  <2>5. StopOK'
    BY <1>2, <1>4 DEF StopOK
  <2> QED BY <1>2, <2>3, <2>4, <2>5
          DEF CurrentOK, DescriptorOK, SocketInUseIsOpen, StopWakesWorker
<1> QED BY <1>3, <1>4

\* The worker takes requests and ends only in front of an empty queue.
LEMMA QueueEndsInv ==
  ASSUME Inv, Take \/ End
  PROVE  Inv'
<1> USE DEF Inv
<1>1. CASE Take
  <2>1. queue \in Seq(Request) /\ queue # <<>> /\ Head(queue) \in Request
        /\ Tail(queue) \in Seq(Request) /\ Len(Tail(queue)) = Len(queue) - 1
    BY <1>1 DEF Take, TypeOK
  <2>2. TypeOK'
    BY <1>1, <2>1 DEF Take, WorkerOnly, TypeOK
  <2>3. CurrentOK' /\ DescriptorOK' /\ SocketInUseIsOpen' /\ StopWakesWorker'
    BY <1>1, <2>1, NoneIsNothing
    DEF Take, WorkerOnly, CurrentOK, DescriptorOK, SocketInUseIsOpen, StopWakesWorker
  <2>4. StopOK'
    BY <1>1 DEF Take, WorkerOnly, StopOK
  <2>5. CountOK'
    BY <1>1, <2>1, NoneIsNothing DEF Take, WorkerOnly, CountOK, InHand, CurrentOK, TypeOK
  <2> QED BY <2>2, <2>3, <2>4, <2>5
<1>2. CASE End
  <2>1. TypeOK'
    BY <1>2 DEF End, WorkerOnly, TypeOK
  <2>2. CurrentOK' /\ DescriptorOK' /\ SocketInUseIsOpen' /\ StopWakesWorker' /\ StopOK'
    BY <1>2
    DEF End, WorkerOnly, CurrentOK, DescriptorOK, SocketInUseIsOpen, StopWakesWorker, StopOK
  <2>3. CountOK'
    BY <1>2 DEF End, WorkerOnly, CountOK, InHand
  <2> QED BY <2>1, <2>2, <2>3
<1> QED BY <1>1, <1>2

\* Steps on the way to a published descriptor.
LEMMA ConnectInv ==
  ASSUME Inv, Reuse \/ Connect \/ Spawn \/ SpawnedListens \/ Publish
  PROVE  Inv'
<1> USE DEF Inv
<1>1. CASE Reuse
  BY <1>1 DEF Reuse, WorkerOnly, TypeOK, CurrentOK, DescriptorOK, StopOK, CountOK, InHand,
              SocketInUseIsOpen, StopWakesWorker
<1>2. CASE Connect \/ SpawnedListens
  <2>1. Handshake /\ ~connected /\ worker \in {"connecting", "spawned"}
    BY <1>2 DEF Connect, SpawnedListens, DescriptorOK
  <2>2. connection' \in Connection
    BY <2>1 DEF Handshake, Listening, Connection
  <2>3. connection' # None
    BY <2>2, NoneIsNothing
  <2>4. TypeOK'
    BY <2>1, <2>2 DEF Handshake, WorkerOnly, TypeOK
  <2>5. CurrentOK' /\ DescriptorOK' /\ StopOK' /\ SocketInUseIsOpen' /\ StopWakesWorker'
    BY <2>1, <2>3 DEF Handshake, WorkerOnly, CurrentOK, DescriptorOK, StopOK,
                      SocketInUseIsOpen, StopWakesWorker
  <2>6. CountOK'
    BY <2>1 DEF Handshake, WorkerOnly, CountOK, InHand
  <2> QED BY <2>4, <2>5, <2>6
<1>3. CASE Spawn
  <2>1. services' \in [1..MaxServices -> Service]
    <3>1. CASE UNCHANGED services
      BY <3>1 DEF TypeOK
    <3>2. ASSUME NEW s \in 1..MaxServices,
                 services' = [services EXCEPT ![s].at = "starting", ![s].by = generation + 1]
          PROVE  services' \in [1..MaxServices -> Service]
      <4> DEFINE started == [services EXCEPT ![s].at = "starting"]
      <4>1. started \in [1..MaxServices -> Service]
        BY DEF TypeOK, Service
      <4>2. generation + 1 \in Nat
        BY DEF TypeOK
      <4>3. services' = [started EXCEPT ![s].by = generation + 1]
        BY <3>2
      <4> HIDE DEF started
      <4> QED BY <4>1, <4>2, <4>3 DEF Service
    <3> QED BY <1>3, <3>1, <3>2 DEF Spawn
  <2>2. TypeOK'
    BY <1>3, <2>1 DEF Spawn, WorkerOnly, TypeOK
  <2>3. CurrentOK' /\ DescriptorOK' /\ StopOK' /\ SocketInUseIsOpen' /\ StopWakesWorker'
    BY <1>3 DEF Spawn, WorkerOnly, CurrentOK, DescriptorOK, StopOK,
                SocketInUseIsOpen, StopWakesWorker
  <2>4. CountOK'
    BY <1>3 DEF Spawn, WorkerOnly, CountOK, InHand
  <2> QED BY <2>2, <2>3, <2>4
<1>4. CASE Publish
  <2>1. connection \in Connection /\ connection' \in Connection
    BY <1>4 DEF Publish, TypeOK, DescriptorOK, Connection
  <2>2. TypeOK'
    BY <1>4, <2>1 DEF Publish, WorkerOnly, TypeOK
  <2>3. CurrentOK' /\ DescriptorOK' /\ StopOK' /\ SocketInUseIsOpen' /\ StopWakesWorker'
    BY <1>4, <2>1, NoneIsNothing
    DEF Publish, WorkerOnly, CurrentOK, DescriptorOK, StopOK, SocketInUseIsOpen, StopWakesWorker
  <2>4. CountOK'
    BY <1>4 DEF Publish, WorkerOnly, CountOK, InHand
  <2> QED BY <2>2, <2>3, <2>4
<1> QED BY <1>1, <1>2, <1>3, <1>4

\* Steps on a published descriptor.
LEMMA ExchangeInv ==
  ASSUME Inv, Check \/ Send \/ Receive
  PROVE  Inv'
<1> USE DEF Inv
<1>1. CASE Check
  <2>1. CASE stopping
    BY <1>1, <2>1, FailInv DEF Check, TypeOK
  <2>2. CASE ~stopping
    <3>1. owner = "running"
      BY <2>2 DEF StopOK
    <3> QED BY <1>1, <2>2, <3>1
            DEF Check, WorkerOnly, TypeOK, CurrentOK, DescriptorOK, StopOK, CountOK, InHand,
                SocketInUseIsOpen, StopWakesWorker
  <2> QED BY <2>1, <2>2
<1>2. CASE Send
  <2>1. CASE connection.shut \/ PeerGone
    BY <1>2, <2>1, FailInv DEF Send, TypeOK
  <2>2. CASE ~(connection.shut \/ PeerGone)
    <3>1. connection \in Connection /\ connection' \in Connection /\ connection'.shut = connection.shut
      BY <1>2, <2>2 DEF Send, SocketInUseIsOpen, TypeOK, Connection
    <3>2. TypeOK'
      BY <1>2, <2>2, <3>1 DEF Send, WorkerOnly, TypeOK
    <3>3. CurrentOK' /\ DescriptorOK' /\ StopOK' /\ SocketInUseIsOpen' /\ StopWakesWorker'
      BY <1>2, <2>2, <3>1, NoneIsNothing
      DEF Send, WorkerOnly, CurrentOK, DescriptorOK, StopOK, SocketInUseIsOpen, StopWakesWorker
    <3>4. CountOK'
      BY <1>2, <2>2 DEF Send, WorkerOnly, CountOK, InHand
    <3> QED BY <3>2, <3>3, <3>4
  <2> QED BY <2>1, <2>2
<1>3. CASE Receive
  <2>1. CASE Fail /\ UNCHANGED backoff
    BY <1>3, <2>1, FailInv DEF Receive, TypeOK
  <2>2. CASE /\ Finish
             /\ connection' = [connection EXCEPT !.frame = "none"]
             /\ UNCHANGED <<queue, connected, backoff, services>>
    <3>1. current \in Request
      BY <1>3 DEF Receive, TypeOK, CurrentOK
    <3>2. replies' \in Seq(Nat) /\ Len(replies') \in Len(replies)..(Len(replies) + 1)
      BY <2>2, <3>1, AppendReply DEF TypeOK, Finish
    <3>3. connection \in Connection /\ connection' \in Connection
      BY <1>3, <2>2 DEF Receive, SocketInUseIsOpen, TypeOK, Connection
    <3>4. CountOK'
      BY <2>2, <3>1, <3>2, NoneIsNothing DEF CountOK, InHand, TypeOK, Finish, WorkerOnly
    <3>5. TypeOK'
      <4>1. Len(replies') <= submitted'
        BY <2>2, <3>1, <3>2, NoneIsNothing DEF CountOK, InHand, TypeOK, Finish, WorkerOnly
      <4> QED BY <2>2, <3>2, <3>3, <4>1 DEF TypeOK, Finish, WorkerOnly
    <3>6. CurrentOK' /\ DescriptorOK' /\ SocketInUseIsOpen' /\ StopWakesWorker'
      BY <2>2, <3>3, NoneIsNothing
      DEF Finish, WorkerOnly, CurrentOK, DescriptorOK, SocketInUseIsOpen, StopWakesWorker
    <3>7. StopOK'
      BY <1>3, <2>2 DEF Receive, Finish, WorkerOnly, StopOK
    <3> QED BY <3>4, <3>5, <3>6, <3>7
  <2> QED BY <1>3, <2>1, <2>2 DEF Receive
<1> QED BY <1>1, <1>2, <1>3

\* Every step of the worker.
LEMMA WorkerInv ==
  ASSUME Inv, Worker
  PROVE  Inv'
<1>1. CASE Take \/ End
  BY <1>1, QueueEndsInv
<1>2. CASE Reuse \/ Connect \/ Spawn \/ SpawnedListens \/ Publish
  BY <1>2, ConnectInv
<1>3. CASE Check \/ Send \/ Receive
  BY <1>3, ExchangeInv
<1>4. CASE SpawnTimeout
  BY <1>4, FailInv DEF SpawnTimeout
<1>5. CASE Unavailable \/ HandshakeFails \/ ReceiveFails
  BY <1>5, FailInv DEF Unavailable, HandshakeFails, ReceiveFails, Inv, TypeOK
<1> QED BY <1>1, <1>2, <1>3, <1>4, <1>5 DEF Worker

\* Every step of stop() and reconfigure().
LEMMA OwnerInv ==
  ASSUME Inv, Stop \/ Owner
  PROVE  Inv'
<1> USE DEF Inv
<1>1. CASE Stop
  <2>1. TypeOK'
    BY <1>1 DEF Stop, OwnerOnly, TypeOK
  <2>2. CurrentOK' /\ DescriptorOK' /\ StopOK' /\ SocketInUseIsOpen' /\ StopWakesWorker'
    BY <1>1 DEF Stop, OwnerOnly, CurrentOK, DescriptorOK, StopOK, SocketInUseIsOpen, StopWakesWorker
  <2> QED BY <1>1, <2>1, <2>2 DEF Stop, OwnerOnly, CountOK, InHand
<1>2. CASE Wake
  <2>1. connection' \in Connection \cup {None} /\ (connected => connection' \in Connection /\ connection'.shut)
        /\ (~connected => connection' = connection)
    BY <1>2 DEF Wake, TypeOK, DescriptorOK, Connection
  <2>2. TypeOK'
    BY <1>2, <2>1 DEF Wake, OwnerOnly, TypeOK
  <2>3. CurrentOK' /\ DescriptorOK' /\ StopOK' /\ SocketInUseIsOpen' /\ StopWakesWorker'
    BY <1>2, <2>1, NoneIsNothing
    DEF Wake, OwnerOnly, CurrentOK, DescriptorOK, StopOK, SocketInUseIsOpen, StopWakesWorker
  <2> QED BY <1>2, <2>2, <2>3 DEF Wake, OwnerOnly, CountOK, InHand
<1>3. CASE Join
  <2>1. TypeOK'
    BY <1>3 DEF Join, OwnerOnly, TypeOK
  <2>2. CurrentOK' /\ DescriptorOK' /\ StopOK' /\ SocketInUseIsOpen' /\ StopWakesWorker'
    BY <1>3 DEF Join, OwnerOnly, CurrentOK, DescriptorOK, StopOK, SocketInUseIsOpen, StopWakesWorker
  <2> QED BY <1>3, <2>1, <2>2 DEF Join, OwnerOnly, CountOK, InHand
<1>4. CASE AskService
  <2>1. services' \in [1..MaxServices -> Service] /\ owner' \in {"draining", "done"}
    <3>1. /\ UNCHANGED services \/ \E s \in 1..MaxServices : services' = [services EXCEPT ![s].asked = TRUE]
          /\ owner' \in {"draining", "done"}
      BY <1>4 DEF AskService, Listening
    <3> QED BY ZenonT(60), <3>1 DEF TypeOK, Service
  <2>2. TypeOK'
    BY <1>4, <2>1 DEF AskService, shared, OwnerOnly, TypeOK
  <2>3. CurrentOK' /\ DescriptorOK' /\ StopOK' /\ SocketInUseIsOpen' /\ StopWakesWorker'
    BY <1>4, <2>1 DEF AskService, shared, OwnerOnly, CurrentOK, DescriptorOK, StopOK,
                      SocketInUseIsOpen, StopWakesWorker
  <2> QED BY <1>4, <2>2, <2>3 DEF AskService, shared, OwnerOnly, CountOK, InHand
<1>5. CASE Drain
  <2>1. TypeOK'
    BY <1>5 DEF Drain, shared, OwnerOnly, TypeOK
  <2>2. CurrentOK' /\ DescriptorOK' /\ StopOK' /\ SocketInUseIsOpen' /\ StopWakesWorker'
    BY <1>5 DEF Drain, shared, OwnerOnly, CurrentOK, DescriptorOK, StopOK,
                SocketInUseIsOpen, StopWakesWorker
  <2> QED BY <1>5, <2>1, <2>2 DEF Drain, shared, OwnerOnly, CountOK, InHand
<1>6. CASE Restart
  <2>1. worker = "ended" /\ current = None
    BY <1>6 DEF Restart, StopOK, CurrentOK
  <2>2. TypeOK'
    <3>1. generation' \in Nat
      BY <1>6 DEF Restart, TypeOK
    <3> QED BY <1>6, <3>1 DEF Restart, TypeOK
  <2>3. CurrentOK' /\ DescriptorOK' /\ StopOK' /\ SocketInUseIsOpen' /\ StopWakesWorker'
    BY <1>6, <2>1 DEF Restart, CurrentOK, DescriptorOK, StopOK, SocketInUseIsOpen, StopWakesWorker
  <2> QED BY <1>6, <2>2, <2>3 DEF Restart, CountOK, InHand
<1> QED BY <1>1, <1>2, <1>3, <1>4, <1>5, <1>6 DEF Owner

\* What happens outside: services start, die and answer, and time passes.
LEMMA WorldInv ==
  ASSUME Inv,
         BackoffEnds \/ (\E s \in 1..MaxServices : Listen(s) \/ Exit(s)) \/ AnswerStatus \/ AnswerRequest
  PROVE  Inv'
<1> USE DEF Inv
<1>1. CASE BackoffEnds
  BY <1>1 DEF BackoffEnds, shared, TypeOK, CurrentOK, DescriptorOK, StopOK, CountOK, InHand,
              SocketInUseIsOpen, StopWakesWorker
<1>2. ASSUME NEW s \in 1..MaxServices, Listen(s) \/ Exit(s)
      PROVE  Inv'
  <2>1. services' \in [1..MaxServices -> Service] /\ UNCHANGED connection /\ ServiceOnly
    BY SMTT(30), <1>2 DEF Listen, Exit, TypeOK, Service
  <2> QED BY <2>1 DEF ServiceOnly, shared, TypeOK, CurrentOK, DescriptorOK, StopOK, CountOK, InHand,
                      SocketInUseIsOpen, StopWakesWorker
<1>3. CASE AnswerStatus \/ AnswerRequest
  <2>1. Responds
    BY <1>3 DEF AnswerStatus, AnswerRequest
  <2>2. connection \in Connection /\ connection' \in Connection /\ connection'.shut = connection.shut
    BY <2>1 DEF Responds, TypeOK, Connection
  <2>3. TypeOK'
    BY <2>1, <2>2 DEF Responds, ServiceOnly, shared, TypeOK
  <2>4. CurrentOK' /\ DescriptorOK' /\ StopOK' /\ SocketInUseIsOpen' /\ StopWakesWorker'
    BY <2>1, <2>2, NoneIsNothing
    DEF Responds, ServiceOnly, shared, CurrentOK, DescriptorOK, StopOK, SocketInUseIsOpen, StopWakesWorker
  <2> QED BY <2>1, <2>3, <2>4 DEF Responds, ServiceOnly, shared, CountOK, InHand
<1> QED BY <1>1, <1>2, <1>3

\* Every step, and steps that change nothing.
LEMMA NextInv == Inv /\ [Next]_vars => Inv'
<1> SUFFICES ASSUME Inv, [Next]_vars PROVE Inv'
  OBVIOUS
<1>1. ASSUME NEW kind \in {"call", "record"}, Enqueue(kind) PROVE Inv'
  BY <1>1, EnqueueInv
<1>2. CASE Worker
  BY <1>2, WorkerInv
<1>3. CASE Stop \/ Owner
  BY <1>3, OwnerInv
<1>4. CASE BackoffEnds \/ (\E s \in 1..MaxServices : Listen(s) \/ Exit(s)) \/ AnswerStatus \/ AnswerRequest
  BY <1>4, WorldInv
<1>5. CASE UNCHANGED vars
  BY <1>5 DEF vars, Inv, TypeOK, CurrentOK, DescriptorOK, StopOK, CountOK, InHand,
              SocketInUseIsOpen, StopWakesWorker
<1> QED BY <1>1, <1>2, <1>3, <1>4, <1>5 DEF Next

\* The inductive invariant holds of every behaviour, whatever the services do:
\* fairness is not used.
THEOREM TransportInvariant == Spec => []Inv
<1>1. Init => Inv
  BY InitInv
<1>2. Inv /\ [Next]_vars => Inv'
  BY NextInv
<1> QED BY <1>1, <1>2, PTL DEF Spec

\* Types, and no more callbacks than requests.
THEOREM TransportTypes == Spec => []TypeOK
<1>1. Inv => TypeOK
  BY DEF Inv
<1> QED BY <1>1, TransportInvariant, PTL

\* The descriptor the worker uses without the lock is never closed under it.
THEOREM SocketStaysOpen == Spec => []SocketInUseIsOpen
<1>1. Inv => SocketInUseIsOpen
  BY DEF Inv
<1> QED BY <1>1, TransportInvariant, PTL

\* A worker that stop() waits for uses no descriptor that could block it, but
\* for the handshake's.
THEOREM StopReachesWorker == Spec => []StopWakesWorker
<1>1. Inv => StopWakesWorker
  BY DEF Inv
<1> QED BY <1>1, TransportInvariant, PTL

\* No request survives the worker.
THEOREM StoppedIsDrained == Spec => []StopDrains
<1>1. Inv => StopDrains
  BY DEF Inv, StopDrains, StopOK, CurrentOK
<1> QED BY <1>1, TransportInvariant, PTL

-----------------------------------------------------------------------------
(* ServiceTransport implements RequestQueue *)

\* What the queue of requests looks like while the worker has none, or has one.
LEMMA WaitingShape ==
  ASSUME TypeOK
  PROVE  /\ Waiting \in Seq(Request)
         /\ current = None => Waiting = queue
         /\ current # None =>
              Waiting # <<>> /\ Head(Waiting) = current /\ Tail(Waiting) = queue
<1>1. CASE current = None
  BY <1>1 DEF Waiting, TypeOK
<1>2. CASE current # None
  <2>1. current \in Request /\ queue \in Seq(Request) /\ Waiting = <<current>> \o queue
    BY <1>2 DEF Waiting, TypeOK
  <2> QED BY <1>2, <2>1
<1> QED BY <1>1, <1>2

\* The two modules speak of the same requests and callbacks.
LEMMA SameReply == ASSUME NEW request PROVE Queue!Reply(request) = Reply(request)
BY DEF Queue!Reply, Reply

\* A request that is made, is rejected or is dropped.
LEMMA EnqueueRefines ==
  ASSUME Inv, NEW kind \in {"call", "record"}, Enqueue(kind)
  PROVE  Queue!Submit(kind)
<1> DEFINE request == [id |-> submitted', kind |-> kind]
<1>1. request \in Request
  BY DEF Request, Enqueue, Inv, TypeOK
<1>2. CASE stopping
  BY <1>2, SameReply DEF Queue!Submit, Enqueue, Waiting
<1>3. CASE ~stopping
  <2>1. Waiting' = Waiting \/ Waiting' = Append(Waiting, request)
    <3>1. CASE queue' = queue
      BY <3>1 DEF Enqueue, Waiting
    <3>2. CASE queue' = Append(queue, request)
      <4>1. queue \in Seq(Request) /\ current' = current /\ current \in Request \cup {None}
        BY DEF Enqueue, Inv, TypeOK
      <4>2. CASE current = None
        BY <3>2, <4>1, <4>2 DEF Waiting
      <4>3. CASE current # None
        <5>1. <<current>> \o Append(queue, request) = Append(<<current>> \o queue, request)
          BY <1>1, <4>1, <4>3
        <5> QED BY <3>2, <4>1, <4>3, <5>1 DEF Waiting
      <4> QED BY <4>2, <4>3
    <3> QED BY <1>3, <3>1, <3>2 DEF Enqueue
  <2>2. Waiting' = Waiting => kind = "record"
    <3>1. SUFFICES ASSUME kind # "record" PROVE Waiting' # Waiting
      OBVIOUS
    <3>2. queue' = Append(queue, request) /\ current' = current
      BY <1>3, <3>1 DEF Enqueue
    <3>3. queue \in Seq(Request) /\ current \in Request \cup {None}
      BY DEF Inv, TypeOK
    <3>4. Len(queue') # Len(queue)
      BY <1>1, <3>2, <3>3
    <3>5. CASE current = None
      BY <3>2, <3>4, <3>5 DEF Waiting
    <3>6. CASE current # None
      <4>1. Tail(Waiting') = queue' /\ Tail(Waiting) = queue
        BY <1>1, <3>2, <3>3, <3>6 DEF Waiting
      <4> QED BY <3>4, <4>1
    <3> QED BY <3>5, <3>6
  <2> QED BY <1>3, <2>1, <2>2 DEF Queue!Submit, Enqueue
<1> QED BY <1>2, <1>3

\* A step that runs the callback of the request in hand answers the oldest
\* waiting request.
LEMMA FinishRefines ==
  ASSUME Inv, Finish, UNCHANGED queue, worker \notin {"idle", "ended"}
  PROVE  Queue!Answer
<1>1. current # None
  BY DEF Inv, CurrentOK
<1>2. Waiting # <<>> /\ Head(Waiting) = current /\ Tail(Waiting) = queue
  BY <1>1, WaitingShape DEF Inv
<1>3. Waiting' = queue
  <2>1. current' = None /\ queue' = queue /\ queue \in Seq(Request)
    BY DEF Finish, Inv, TypeOK
  <2> QED BY <2>1 DEF Waiting
<1> QED BY <1>2, <1>3, SameReply DEF Queue!Answer, Finish, WorkerOnly

\* Every step is a step of the queue or changes nothing it can see.
LEMMA StepRefines == Inv /\ [Next]_vars => [Queue!Next]_Queue!vars
<1> SUFFICES ASSUME Inv, [Next]_vars PROVE [Queue!Next]_Queue!vars
  OBVIOUS
<1> DEFINE Unseen == UNCHANGED <<queue, current, replies, stopping, submitted>>
<1>1. Unseen => UNCHANGED Queue!vars
  BY DEF Queue!vars, Waiting
<1>2. ASSUME NEW kind \in {"call", "record"}, Enqueue(kind) PROVE [Queue!Next]_Queue!vars
  BY <1>2, EnqueueRefines DEF Queue!Next
<1>3. CASE Take
  <2>1. current = None /\ queue # <<>> /\ queue \in Seq(Request) /\ Head(queue) \in Request
    BY <1>3 DEF Take, Inv, TypeOK, CurrentOK
  <2>2. Waiting' = <<Head(queue)>> \o Tail(queue)
    BY <1>3, <2>1, NoneIsNothing DEF Take, Waiting
  <2>3. Waiting' = Waiting
    <3>1. Waiting = queue
      BY <2>1, WaitingShape DEF Inv
    <3>2. <<Head(queue)>> \o Tail(queue) = queue
      BY <2>1
    <3> QED BY <2>2, <3>1, <3>2
  <2> QED BY <1>3, <2>3 DEF Queue!vars, Take, WorkerOnly
<1>4. ASSUME Fail, worker \notin {"idle", "ended"} PROVE [Queue!Next]_Queue!vars
  BY <1>4, FinishRefines DEF Fail, Queue!Next
<1>5. CASE End \/ Reuse \/ Connect \/ Spawn \/ SpawnedListens \/ Publish
  BY <1>1, <1>5 DEF End, Reuse, Connect, Spawn, SpawnedListens, Handshake, Publish, WorkerOnly
<1>6. CASE SpawnTimeout \/ Unavailable \/ HandshakeFails \/ ReceiveFails
  BY <1>4, <1>6 DEF SpawnTimeout, Unavailable, HandshakeFails, ReceiveFails
<1>7. CASE Check
  BY <1>1, <1>4, <1>7 DEF Check, WorkerOnly
<1>8. CASE Send
  BY <1>1, <1>4, <1>8 DEF Send, WorkerOnly
<1>9. CASE Receive
  <2>1. CASE Fail
    BY <1>4, <1>9, <2>1 DEF Receive
  <2>2. CASE Finish /\ UNCHANGED queue
    BY <1>9, <2>2, FinishRefines DEF Receive, Queue!Next
  <2> QED BY <1>9, <2>1, <2>2 DEF Receive
<1>10. CASE Stop
  <2>1. ~stopping /\ stopping'
    BY <1>10 DEF Stop, Inv, StopOK
  <2>2. UNCHANGED <<Waiting, replies, submitted>>
    BY <1>10 DEF Stop, OwnerOnly, Waiting
  <2> QED BY <2>1, <2>2 DEF Queue!Next, Queue!Close
<1>11. CASE Wake \/ Join \/ AskService \/ Drain
  BY <1>1, <1>11 DEF Wake, Join, AskService, Drain, OwnerOnly, shared
<1>12. CASE Restart
  <2>1. worker = "ended" /\ stopping /\ queue = <<>> /\ current = None
    BY <1>12 DEF Restart, Inv, StopOK, CurrentOK
  <2>2. Waiting = <<>> /\ Waiting' = <<>>
    BY <1>12, <2>1 DEF Restart, Waiting
  <2> QED BY <1>12, <2>1, <2>2 DEF Restart, Queue!Next, Queue!Reopen
<1>13. CASE BackoffEnds \/ (\E s \in 1..MaxServices : Listen(s) \/ Exit(s))
            \/ AnswerStatus \/ AnswerRequest
  BY <1>1, <1>13 DEF BackoffEnds, Listen, Exit, AnswerStatus, AnswerRequest, Responds, ServiceOnly, shared
<1>14. CASE UNCHANGED vars
  BY <1>1, <1>14 DEF vars
<1> QED BY <1>2, <1>3, <1>5, <1>6, <1>7, <1>8, <1>9, <1>10, <1>11, <1>12, <1>13, <1>14
        DEF Next, Worker, Owner

\* Every accepted request is answered at most once and in order, and a transport
\* that is started again owes no answer: ServiceTransport implements
\* RequestQueue.
THEOREM TransportIsAQueue == Spec => ImplementsQueue
<1>1. Init => Queue!Init
  BY DEF Init, Queue!Init, Waiting
<1> QED BY <1>1, StepRefines, TransportInvariant, PTL DEF Spec, ImplementsQueue, Queue!Spec

=============================================================================
