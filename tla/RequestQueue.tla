---------------------------- MODULE RequestQueue ----------------------------
(***************************************************************************)
(* What the engine relies on when it talks to the service: an accepted     *)
(* request is answered exactly once and in the order it was accepted,      *)
(* whatever becomes of the service; a stopped transport rejects requests   *)
(* at once; and it is only started again after everything it had accepted  *)
(* was answered.  ServiceTransport implements this specification.          *)
(* Prediction's queue and posted responses are one such queue.             *)
(***************************************************************************)
EXTENDS Naturals, Sequences

CONSTANT MaxSubmitted   \* bound on the number of requests

VARIABLES
  waiting,    \* accepted requests that are not answered, oldest first
  replies,    \* ids of the answered and rejected requests, in order
  open,       \* requests are accepted
  submitted   \* number of requests made so far

vars == <<waiting, replies, open, submitted>>

Request == [id : Nat, kind : {"call", "record"}]

\* A record has no callback: nobody hears of its answer.
Reply(request) == IF request.kind = "call" THEN <<request.id>> ELSE <<>>

Init ==
  /\ waiting = <<>>
  /\ replies = <<>>
  /\ open = TRUE
  /\ submitted = 0

\* A record may be dropped when the queue is long.
Submit(kind) ==
  /\ submitted < MaxSubmitted
  /\ submitted' = submitted + 1
  /\ LET request == [id |-> submitted', kind |-> kind]
     IN  IF open
         THEN /\ \/ waiting' = Append(waiting, request)
                 \/ kind = "record" /\ waiting' = waiting
              /\ UNCHANGED replies
         ELSE /\ replies' = replies \o Reply(request)
              /\ UNCHANGED waiting
  /\ UNCHANGED open

Answer ==
  /\ waiting # <<>>
  /\ waiting' = Tail(waiting)
  /\ replies' = replies \o Reply(Head(waiting))
  /\ UNCHANGED <<open, submitted>>

Close ==
  /\ open
  /\ open' = FALSE
  /\ UNCHANGED <<waiting, replies, submitted>>

Reopen ==
  /\ ~open /\ waiting = <<>>
  /\ open' = TRUE
  /\ UNCHANGED <<waiting, replies, submitted>>

Next ==
  \/ \E kind \in {"call", "record"} : Submit(kind)
  \/ Answer \/ Close \/ Reopen

Spec == Init /\ [][Next]_vars

=============================================================================
