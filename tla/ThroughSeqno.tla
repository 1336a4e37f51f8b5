----------------------------- MODULE ThroughSeqno -----------------------------
(***************************************************************************)
(* What the through-seqno tracker promises to the checkpoint manager and   *)
(* to the statistics manager, without its lists: a seqno that the target   *)
(* may be resumed from.  It only ever moves to a mutation whose outcome    *)
(* has been reported, and only when every mutation DCP streamed before it  *)
(* has been reported too.                                                  *)
(***************************************************************************)
EXTENDS MutationFlow

VARIABLES
  reported,      \* the seqnos whose outcome event the tracker has processed
  through_seqno

absVars == <<outcome, start_seqno, reported, through_seqno>>

Complete(n) == \A s \in Streamed : s <= n => s \in reported

Init ==
  /\ FlowInit
  /\ reported = {}
  /\ through_seqno = 0

Start(n) ==
  /\ StartAt(n)
  /\ through_seqno' = n
  /\ UNCHANGED reported

Flow ==
  /\ FlowStep
  /\ UNCHANGED <<reported, through_seqno>>

Report(s) ==
  /\ outcome[s] \in Reportable
  /\ reported' = reported \union {s}
  /\ UNCHANGED <<outcome, start_seqno, through_seqno>>

Advance(n) ==
  /\ n > through_seqno
  /\ n \in reported
  /\ Complete(n)
  /\ through_seqno' = n
  /\ UNCHANGED <<outcome, start_seqno, reported>>

Next ==
  \/ \E n \in 0..MaxSeqno : Start(n)
  \/ Flow
  \/ \E s \in Seqno : Report(s)
  \/ \E n \in Seqno : Advance(n)

Spec == Init /\ [][Next]_absVars
=============================================================================
