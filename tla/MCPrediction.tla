---------------------------- MODULE MCPrediction ----------------------------
(***************************************************************************)
(* Small instances of Prediction for TLC.  A run of PairedSpec explores    *)
(* two of them, which share no state: one context with two readings, and   *)
(* two contexts with the first reading and one segment each.               *)
(***************************************************************************)
EXTENDS Prediction

CONSTANTS c1, c2, ba, ma

VARIABLE instance

TwoContexts == {c1, c2}
TwoReadings == {ba, ma}
OnePhrase == {<<ba, ba>>}

\* The bounds of the second instance: MaxRevision = 1, MaxSegments = 1.
WideAction(c) ==
  \/ Attach(c) \/ Reset(c) \/ Detach(c)
  \/ /\ buffer[c].revision = 0 /\ UserAction(c)
     /\ Len(buffer'[c].segments) <= 1
     /\ \A i \in DOMAIN buffer'[c].segments : buffer'[c].segments[i].reading # ma

PairedInit == Init /\ instance \in {"deep", "wide"}

PairedNext ==
  /\ \/ instance = "deep" /\ UserAction(c1)
     \/ instance = "wide" /\ \E c \in Contexts : WideAction(c)
     \/ SetConfig \/ SetTransportOptions
     \/ Serve \/ ForgetSessions \/ Deliver
  /\ UNCHANGED instance

PairedSpec == PairedInit /\ [][PairedNext]_<<vars, instance>> /\ Fairness

=============================================================================
