-------------------------- MODULE ServiceTransport --------------------------
(***************************************************************************)
(* The transport between the input method and the prediction service       *)
(* (service_transport.cpp).  Two threads share it: callers put requests    *)
(* into queue_, and the owner stops or reconfigures it; a worker takes     *)
(* one request at a time, connects (starting a service when none listens), *)
(* sends it and waits for the answer.  Services come and go at the socket  *)
(* path on their own.                                                      *)
(*                                                                         *)
(* One step is what a thread does under mutex_, or one blocking call.  The *)
(* worker has at most one descriptor: `connection`, which stop() can see   *)
(* only while `connected` (socket_fd_ >= 0) says it is published.          *)
(***************************************************************************)
EXTENDS Naturals, Sequences

CONSTANTS
  MaxSubmitted,   \* bound on the number of requests
  MaxRestarts,    \* bound on the number of reconfigurations
  MaxServices,    \* bound on the number of service processes
  QueueLimit,     \* queue length from which records are dropped (128)
  AutoStart,      \* options_.auto_start
  None            \* no request, no connection

ASSUME TransportAssumption ==
  /\ MaxSubmitted \in Nat /\ MaxRestarts \in Nat /\ MaxServices \in Nat /\ QueueLimit \in Nat
  /\ AutoStart \in BOOLEAN
  /\ None \notin [id : Nat, kind : {"call", "record"}]
  /\ None \notin [peer : Nat, shut : BOOLEAN, frame : {"none", "sent", "answered"}]

VARIABLES
  \* shared, under mutex_
  stopping, queue, connected,
  \* the worker
  worker,      \* what the worker does next
  current,     \* the request it has taken off the queue
  connection,  \* the descriptor it uses
  backoff,     \* spawn_backoff_until_ lies in the future
  \* the owner
  owner,       \* what stop() does next
  restarting,  \* stop() was called by reconfigure()
  generation,  \* number of reconfigurations so far
  \* the world
  services,    \* the service processes that want the socket path
  \* history
  submitted,   \* number of requests made so far
  replies      \* ids of the requests whose callback has run, in order

shared == <<stopping, queue, connected>>
vars == <<stopping, queue, connected, worker, current, connection, backoff, owner,
          restarting, generation, services, submitted, replies>>

Foreign == 0   \* started by nobody's transport

\* A service process: what it does, the generation of the transport that
\* started it (plus one), and whether a Shutdown request has reached it.
Service == [at : {"none", "starting", "listening", "gone"}, by : Nat, asked : BOOLEAN]
Unborn == [at |-> "none", by |-> Foreign, asked |-> FALSE]

Connection == [peer : 1..MaxServices, shut : BOOLEAN, frame : {"none", "sent", "answered"}]

Request == [id : Nat, kind : {"call", "record"}]
Reply(request) == IF request.kind = "call" THEN <<request.id>> ELSE <<>>

Init ==
  /\ stopping = FALSE /\ queue = <<>> /\ connected = FALSE
  /\ worker = "idle" /\ current = None /\ connection = None /\ backoff = FALSE
  /\ owner = "running" /\ restarting = FALSE /\ generation = 0
  /\ services \in [1..MaxServices -> {Unborn, [Unborn EXCEPT !.at = "listening"]}]
  /\ \A s, t \in 1..MaxServices :
       services[s].at = "listening" /\ services[t].at = "listening" => s = t
  /\ submitted = 0 /\ replies = <<>>

-----------------------------------------------------------------------------
(* Callers: enqueue() *)

\* A stopped transport runs the callback at once with ServiceShuttingDown.
Enqueue(kind) ==
  /\ submitted < MaxSubmitted
  /\ submitted' = submitted + 1
  /\ LET request == [id |-> submitted', kind |-> kind]
     IN  IF stopping
         THEN replies' = replies \o Reply(request) /\ UNCHANGED queue
         ELSE /\ queue' = IF kind = "record" /\ Len(queue) >= QueueLimit THEN queue
                          ELSE Append(queue, request)
              /\ UNCHANGED replies
  /\ UNCHANGED <<stopping, connected, worker, current, connection, backoff, owner,
                 restarting, generation, services>>

-----------------------------------------------------------------------------
(* The worker: run() *)

WorkerOnly == UNCHANGED <<stopping, owner, restarting, generation, submitted>>

\* The service whose socket a connect() reaches.
Listening == {s \in 1..MaxServices : services[s].at = "listening"}

TakeKeepingFront ==
  /\ worker = "idle" /\ queue # <<>>
  /\ worker' = "connecting" /\ current' = Head(queue)
  /\ UNCHANGED <<queue, connected, connection, backoff, services, replies>>
  /\ WorkerOnly
Take ==
  /\ worker = "idle" /\ queue # <<>>
  /\ worker' = "connecting"
  /\ current' = Head(queue)
  /\ queue' = Tail(queue)
  /\ UNCHANGED <<connected, connection, backoff, services, replies>>
  /\ WorkerOnly

\* The loop ends only when the queue is empty, so that the requests run() looks
\* for behind the loop never exist.
End ==
  /\ worker = "idle" /\ stopping /\ queue = <<>>
  /\ worker' = "ended"
  /\ connected' = FALSE /\ connection' = None
  /\ UNCHANGED <<queue, current, backoff, services, replies>>
  /\ WorkerOnly

\* The request is over: its callback runs and the worker returns to the queue.
Finish ==
  /\ worker' = "idle"
  /\ current' = None
  /\ replies' = replies \o Reply(current)
  /\ WorkerOnly

FailLeavingLoop ==
  /\ worker' = "ended" /\ current' = None /\ replies' = replies \o Reply(current) /\ WorkerOnly
  /\ connected' = FALSE /\ connection' = None
  /\ UNCHANGED <<queue, services>>
FailSilently ==
  /\ worker' = "idle" /\ current' = None /\ UNCHANGED replies /\ WorkerOnly
  /\ connected' = FALSE /\ connection' = None
  /\ UNCHANGED <<queue, services>>
\* An exception, or a stop noticed after connecting: disconnect() and fail().
Fail ==
  /\ Finish
  /\ connected' = FALSE /\ connection' = None
  /\ UNCHANGED <<queue, services>>

\* ensure_connected() with a published connection asks nothing.
Reuse ==
  /\ worker = "connecting" /\ connected
  /\ worker' = "check"
  /\ UNCHANGED <<queue, connected, current, connection, backoff, services, replies>>
  /\ WorkerOnly

\* connect() succeeds; the status request is sent on the unpublished descriptor.
Handshake ==
  /\ \E s \in Listening : connection' = [peer |-> s, shut |-> FALSE, frame |-> "sent"]
  /\ worker' = "handshake"
  /\ UNCHANGED <<queue, connected, current, backoff, services, replies>>
  /\ WorkerOnly

Connect == worker = "connecting" /\ ~connected /\ Handshake

\* Nobody listens: fork and wait up to a second for the new service.
Spawn ==
  /\ worker = "connecting" /\ ~connected /\ Listening = {}
  /\ AutoStart /\ ~backoff
  /\ \/ \E s \in 1..MaxServices :
          /\ services[s].at = "none"
          /\ services' = [services EXCEPT ![s].at = "starting", ![s].by = generation + 1]
     \/ UNCHANGED services   \* fork() or execv() failed
  /\ worker' = "spawned"
  /\ UNCHANGED <<queue, connected, current, connection, backoff, replies>>
  /\ WorkerOnly

SpawnedListens == worker = "spawned" /\ Handshake

\* The second is over without a connection: no other spawn for half a minute.
SpawnTimeout ==
  /\ worker = "spawned"
  /\ backoff' = TRUE
  /\ Fail

Unavailable ==
  /\ worker = "connecting" /\ ~connected /\ Listening = {}
  /\ ~AutoStart \/ backoff
  /\ Fail /\ UNCHANGED backoff

BackoffEnds ==
  /\ backoff
  /\ backoff' = FALSE
  /\ UNCHANGED <<shared, worker, current, connection, owner, restarting, generation,
                 services, submitted, replies>>

\* The status response is in: the descriptor is published.
Publish ==
  /\ worker = "handshake" /\ connection.frame = "answered"
  /\ worker' = "check"
  /\ connected' = TRUE
  /\ connection' = [connection EXCEPT !.frame = "none"]
  /\ UNCHANGED <<queue, current, backoff, services, replies>>
  /\ WorkerOnly

PeerGone == services[connection.peer].at = "gone"

\* recv returns when the peer is gone or the descriptor was shut down, unless
\* the answer has already arrived.
EndOfStream == connection.frame # "answered" /\ (PeerGone \/ connection.shut)

\* No answer, or one that is not a status response: the unpublished descriptor
\* is closed.
HandshakeFails ==
  /\ worker = "handshake"
  /\ EndOfStream \/ connection.frame = "answered"
  /\ Fail /\ UNCHANGED backoff

\* The second look at stopping_, after connecting.
CheckingNothing ==
  /\ worker = "check"
  /\ worker' = "sending"
  /\ UNCHANGED <<queue, connected, current, connection, backoff, services, replies>>
  /\ WorkerOnly
Check ==
  /\ worker = "check"
  /\ IF stopping THEN Fail /\ UNCHANGED backoff
     ELSE /\ worker' = "sending"
          /\ UNCHANGED <<queue, connected, current, connection, backoff, services, replies>>
          /\ WorkerOnly

Send ==
  /\ worker = "sending"
  /\ IF connection.shut \/ PeerGone THEN Fail /\ UNCHANGED backoff
     ELSE /\ worker' = "receiving"
          /\ connection' = [connection EXCEPT !.frame = "sent"]
          /\ UNCHANGED <<queue, connected, current, backoff, services, replies>>
          /\ WorkerOnly

\* The answer is the awaited one, or it is a mismatch, which keeps the
\* connection; a frame that cannot be decoded closes it.
Receive ==
  /\ worker = "receiving" /\ connection.frame = "answered"
  /\ \/ /\ Finish
        /\ connection' = [connection EXCEPT !.frame = "none"]
        /\ UNCHANGED <<queue, connected, backoff, services>>
     \/ Fail /\ UNCHANGED backoff

ReceiveFails ==
  /\ worker = "receiving" /\ EndOfStream
  /\ Fail /\ UNCHANGED backoff

Worker ==
  \/ Take \/ End \/ Reuse \/ Connect \/ Spawn \/ SpawnedListens \/ SpawnTimeout \/ Unavailable
  \/ Publish \/ HandshakeFails \/ Check \/ Send \/ Receive \/ ReceiveFails

-----------------------------------------------------------------------------
(* The owner: stop() and reconfigure() *)

OwnerOnly == UNCHANGED <<queue, worker, current, submitted, replies>>

\* The first critical section of stop().
Stop ==
  /\ owner = "running"
  /\ stopping' = TRUE
  /\ owner' = "waking"
  /\ restarting' \in IF generation < MaxRestarts THEN BOOLEAN ELSE {FALSE}
  /\ UNCHANGED <<connected, connection, backoff, generation, services>>
  /\ OwnerOnly

\* Mutant for SocketInUseIsOpen: the descriptor is closed under the worker.
WakeClosing ==
  /\ owner = "waking"
  /\ owner' = "joining"
  /\ connected' = FALSE /\ connection' = IF connected THEN None ELSE connection
  /\ UNCHANGED <<stopping, backoff, restarting, generation, services>>
  /\ OwnerOnly

\* notify_all(), and shutdown() of the published descriptor.
Wake ==
  /\ owner = "waking"
  /\ owner' = "joining"
  /\ connection' = IF connected THEN [connection EXCEPT !.shut = TRUE] ELSE connection
  /\ UNCHANGED <<stopping, connected, backoff, restarting, generation, services>>
  /\ OwnerOnly

\* Mutant for StopDrains: the worker still runs.
JoinNothing ==
  /\ owner = "joining"
  /\ owner' = "closing"
  /\ connected' = FALSE /\ connection' = IF connected THEN None ELSE connection
  /\ UNCHANGED <<stopping, backoff, restarting, generation, services>>
  /\ OwnerOnly

\* The worker has ended, its descriptor is closed.
Join ==
  /\ owner = "joining" /\ worker = "ended"
  /\ owner' = "closing"
  /\ connected' = FALSE /\ connection' = None
  /\ UNCHANGED <<stopping, backoff, restarting, generation, services>>
  /\ OwnerOnly

\* shutdown_service(): whoever listens at the path is asked to shut down ...
AskService ==
  /\ owner = "closing"
  /\ IF AutoStart /\ Listening # {}
     THEN /\ \E s \in Listening : services' = [services EXCEPT ![s].asked = TRUE]
          /\ owner' = "draining"
     ELSE owner' = "done" /\ UNCHANGED services
  /\ UNCHANGED <<shared, connection, backoff, restarting, generation>>
  /\ OwnerOnly

\* ... and its socket is given a second to disappear.
Drain ==
  /\ owner = "draining"
  /\ owner' = "done"
  /\ UNCHANGED <<shared, connection, backoff, restarting, generation, services>>
  /\ OwnerOnly

\* reconfigure() resets the state and starts a new worker.
Restart ==
  /\ owner = "done" /\ restarting
  /\ owner' = "running" /\ restarting' = FALSE /\ generation' = generation + 1
  /\ stopping' = FALSE /\ connected' = FALSE /\ connection' = None /\ backoff' = FALSE
  /\ worker' = "idle"
  /\ UNCHANGED <<queue, current, services, submitted, replies>>

Owner == Wake \/ Join \/ AskService \/ Drain \/ Restart

-----------------------------------------------------------------------------
(* Service processes at the socket path *)

ServiceOnly ==
  UNCHANGED <<shared, worker, current, backoff, owner, restarting, generation, submitted, replies>>

\* A process that finds another one listening gives up.
Listen(s) ==
  /\ services[s].at = "starting"
  /\ services' = [services EXCEPT ![s].at = IF Listening = {} THEN "listening" ELSE "gone"]
  /\ UNCHANGED connection /\ ServiceOnly

\* Crash, idle exit or the end of a shutdown; the kernel closes its connections.
Exit(s) ==
  /\ services[s].at \in {"starting", "listening"}
  /\ services' = [services EXCEPT ![s].at = "gone"]
  /\ UNCHANGED connection /\ ServiceOnly

\* A service answers each frame it receives with one frame.
Responds ==
  /\ connection # None /\ connection.frame = "sent" /\ services[connection.peer].at = "listening"
  /\ ~connection.shut
  /\ connection' = [connection EXCEPT !.frame = "answered"]
  /\ UNCHANGED services /\ ServiceOnly

AnswerStatus == worker = "handshake" /\ Responds
AnswerRequest == worker = "receiving" /\ Responds

-----------------------------------------------------------------------------
Next ==
  \/ \E kind \in {"call", "record"} : Enqueue(kind)
  \/ Worker \/ BackoffEnds
  \/ Stop \/ Owner
  \/ \E s \in 1..MaxServices : Listen(s) \/ Exit(s)
  \/ AnswerStatus \/ AnswerRequest

\* Threads that can run do run: every blocking call of the worker but recv has
\* a timeout, and the owner waits for the worker alone.  That a service answers
\* its requests is not assumed, only that it answers the status request that
\* opens a connection.
ThreadFairness == WF_vars(Worker) /\ WF_vars(Owner)
Fairness == ThreadFairness /\ WF_vars(AnswerStatus)

Spec == Init /\ [][Next]_vars /\ Fairness

\* Without the assumption on services.
UnassistedSpec == Init /\ [][Next]_vars /\ ThreadFairness

-----------------------------------------------------------------------------
(* Properties *)

\* Every variable keeps its type, and no more callbacks have run than requests
\* were made.
TypeOK ==
  /\ stopping \in BOOLEAN /\ connected \in BOOLEAN /\ backoff \in BOOLEAN /\ restarting \in BOOLEAN
  /\ queue \in Seq(Request)
  /\ worker \in {"idle", "connecting", "spawned", "handshake", "check", "sending", "receiving", "ended"}
  /\ current \in Request \cup {None}
  /\ connection \in Connection \cup {None}
  /\ owner \in {"running", "waking", "joining", "closing", "draining", "done"}
  /\ generation \in Nat /\ submitted \in Nat
  /\ services \in [1..MaxServices -> Service]
  /\ replies \in Seq(Nat) /\ Len(replies) <= submitted

\* The worker reads socket_fd_ without the lock while it sends and receives:
\* nobody has closed the descriptor under it, so that its number cannot belong
\* to another file ("without closing/reusing the descriptor underneath the
\* worker" in stop()).
SocketInUseIsOpen ==
  worker \in {"check", "sending", "receiving"} => connected /\ connection # None

\* Once stop() has woken the worker, no request can block it: whatever it is
\* about to send or waits for runs on a descriptor that stop() has shut down.
\* The handshake may publish a descriptor that stop() did not see; the second
\* look at stopping_ keeps the worker from using it.
StopWakesWorker ==
  owner = "joining" /\ worker \in {"sending", "receiving"} => connection.shut

\* When the worker is joined, no request is left that nobody will answer.
StopDrains ==
  owner \in {"closing", "draining", "done"} => queue = <<>> /\ current = None /\ ~connected

\* Every accepted request is answered once, in order, and everything accepted
\* before a restart is answered before it: ServiceTransport implements
\* RequestQueue.  The request in the worker's hands is the oldest one.
Waiting == (IF current = None THEN <<>> ELSE <<current>>) \o queue

Queue == INSTANCE RequestQueue WITH waiting <- Waiting, open <- ~stopping

ImplementsQueue == Queue!Spec

\* stop() returns, however long the service takes over a prediction, as long as
\* a service that accepts a connection answers its status request.
StopReturns == (owner = "waking") ~> (owner \in {"done", "running"})

\* If the services answer requests too, every accepted request is answered; and
\* stop() returns whether they do or not.
EverybodyIsAnswered ==
  /\ StopReturns
  /\ WF_vars(AnswerRequest) =>
       \A id \in 1..MaxSubmitted :
         ((\E k \in DOMAIN Waiting : Waiting[k].id = id)
            ~> (\A k \in DOMAIN Waiting : Waiting[k].id # id))

\* "Wake a blocking recv" in stop(): without any assumption on the service, the
\* owner gets its thread back.
StopAlwaysReturns == (owner = "waking") ~> (owner \in {"done", "running"})

\* reconfigure() "shuts down the service this transport owned": when it is
\* done, every service an earlier generation started is gone or was asked.
OwnedServiceIsShutDown ==
  owner = "running" => \A s \in 1..MaxServices :
    services[s].at \in {"starting", "listening"} /\ services[s].by \in 1..generation
      => services[s].asked

=============================================================================
