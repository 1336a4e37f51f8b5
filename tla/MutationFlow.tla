----------------------------- MODULE MutationFlow -----------------------------
(***************************************************************************)
(* What happens to the mutations of one vbucket between the DCP stream and *)
(* the events that report their outcome: parts/dcp_nozzle.go (processData),*)
(* parts/router.go (route) and parts/xmem_nozzle.go (batchSetMetaWithRetry,*)
(* receiveResponse).                                                       *)
(*                                                                         *)
(* processData is one goroutine: it raises DataReceived for a mutation and *)
(* forwards it through the router before it takes the next one, so the     *)
(* router's verdicts come in stream order.  The out nozzle takes the       *)
(* mutations of a vbucket in that order too and settles source side        *)
(* conflict resolution as it does, but the target's responses (and so the  *)
(* DataSent events) come in any order.                                     *)
(***************************************************************************)
EXTENDS Naturals

CONSTANT MaxSeqno    \* bound: the vbucket's mutations have seqnos 1..MaxSeqno

ASSUME MaxSeqnoAssumption == MaxSeqno \in Nat

VARIABLES
  outcome,     \* what has become of each seqno
  start_seqno  \* where the DCP stream of this pipeline starts (exclusive)

flowVars == <<outcome, start_seqno>>

Seqno == 1..MaxSeqno

(***************************************************************************)
(* "unstreamed" is a seqno DCP has not delivered: it is still to come, or  *)
(* it was deduplicated at the source and never will be (a gap).            *)
(* "unableToFilter" is one on which the filter failed for good: after a    *)
(* recoverable error the pipeline supervisor restarts the pipeline.        *)
(***************************************************************************)
Outcomes == {"unstreamed", "nozzle", "sent", "failedCR", "filtered", "unableToFilter"}

(* The outcomes whose event reaches the seqno tracker.  The factory        *)
(* registers the tracker's listeners on DataSent, DataFailedCRSource and   *)
(* DataFiltered; DataUnableToFilter has one listener, the pipeline         *)
(* supervisor.                                                             *)
Reportable == {"sent", "failedCR", "filtered"}

Streamed == {s \in Seqno : outcome[s] # "unstreamed"}

FlowTypeOK ==
  /\ outcome \in [Seqno -> Outcomes]
  /\ start_seqno \in 0..MaxSeqno

FlowInit ==
  /\ outcome = [s \in Seqno |-> "unstreamed"]
  /\ start_seqno = 0

(* The checkpoint manager sets the start seqno, at pipeline start and      *)
(* again on a rollback, while the DCP stream is not open.                  *)
StartAt(n) ==
  /\ Streamed = {}
  /\ start_seqno' = n
  /\ UNCHANGED outcome

(* DCP delivers seqno s, later than all before it, and the router decides: *)
(* pass it to the out nozzle, drop it as filtered, or drop it because the  *)
(* filter failed on it.                                                    *)
Receive(s, verdict) ==
  /\ s > start_seqno
  /\ \A t \in Streamed : t < s
  /\ outcome' = [outcome EXCEPT ![s] = verdict]
  /\ UNCHANGED start_seqno

(* The mutation lost conflict resolution on the source: DataFailedCRSource *)
FailCR(s) ==
  /\ outcome[s] = "nozzle"
  /\ \A t \in Seqno : t > s => outcome[t] # "failedCR"
  /\ outcome' = [outcome EXCEPT ![s] = "failedCR"]
  /\ UNCHANGED start_seqno

(* The target confirmed the mutation: DataSent.                            *)
Confirm(s) ==
  /\ outcome[s] = "nozzle"
  /\ outcome' = [outcome EXCEPT ![s] = "sent"]
  /\ UNCHANGED start_seqno

(* A step of the data path, apart from StartAt                             *)
FlowStep ==
  \E s \in Seqno :
    \/ \E verdict \in {"nozzle", "filtered", "unableToFilter"} : Receive(s, verdict)
    \/ FailCR(s)
    \/ Confirm(s)
=============================================================================
