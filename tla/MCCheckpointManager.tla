-------------------------- MODULE MCCheckpointManager --------------------------
EXTENDS CheckpointManager, TLC

(* The first spec drops seqno 1; a re-created one drops nothing.           *)
MCFiltered == [s \in SpecId |-> IF s = 1 THEN {1} ELSE {}]
NoFilter   == [s \in SpecId |-> {}]

Symmetric == Permutations(Goroutines)

(* A shorter way to a long behaviour: the first pipeline has replicated    *)
(* seqnos 1 and 2, took a checkpoint after each, and was stopped.          *)
MCRecord(n) == [seqno |-> n, fuuid |-> 1, opaque |-> 1, tseqno |-> n]

AfterTwoCheckpoints ==
  /\ src = <<1, 1>>
  /\ src_flog = <<[uuid |-> 1, seqno |-> 0]>>
  /\ tgt = [n \in 1..2 |-> [uuid |-> 1, seqno |-> n, xattr |-> TRUE]]
  /\ tgt_flog = <<[uuid |-> 1, seqno |-> 0]>>
  /\ tgt_xattr = TRUE
  /\ doc = [records |-> <<MCRecord(2), MCRecord(1)>>, spec |-> 1, xattr_seqno |-> 2,
            xattr |-> TRUE]
  /\ spec = 1
  /\ mgr = 1
  /\ phase = "down"
  /\ vbts = NewVbts
  /\ base = 0
  /\ acked = {}
  /\ cur = [m \in Manager |-> NewCur]
  /\ ckpt = [g \in Goroutines |-> New]
  /\ straddled = FALSE

ResumedSpec == AfterTwoCheckpoints /\ [][Next]_vars
=============================================================================
