--------------------------- MODULE CheckpointManager ---------------------------
(***************************************************************************)
(* pipeline_svc/checkpoint_manager.go and metadata_svc/                    *)
(* checkpoints_service.go, for one vbucket of one replication: how the     *)
(* start seqno of a pipeline is agreed with the source (DCP) and with the  *)
(* target (_pre_replicate), and how checkpoint records are taken and       *)
(* persisted while mutations are replicated.                               *)
(*                                                                         *)
(* What interleaves: the data path; the goroutine that sets the start      *)
(* seqno; any number of checkpoint goroutines (a periodic one may overlap  *)
(* the next, and CheckpointBeforeStop starts another), which may outlive   *)
(* their pipeline: CheckpointBeforeStop does not wait for one that it      *)
(* timed out, and a checkpointing routine that finds its pipeline no       *)
(* longer running leaves without waiting for its children; failovers on    *)
(* both sides; a crash of the process; failing calls to the target and to  *)
(* metakv; the deletion and re-creation of the replication spec; an        *)
(* upgrade of the target to a version that supports extended attributes.   *)
(*                                                                         *)
(* The seqno of a mutation is its index in src.  Snapshots are left out:   *)
(* they only help DCP to choose a rollback point.                          *)
(***************************************************************************)
EXTENDS Naturals, Sequences, FiniteSets

CONSTANTS
  MaxSeqno,            \* bound on source writes
  MaxPipelines,        \* bound on pipeline starts
  MaxSpecs,            \* bound on re-creations of the spec
  MaxSourceFailovers,
  MaxTargetFailovers,
  MaxIncidents,        \* bound on failovers, re-creations and upgrades together
  MaxRecords,          \* MaxCheckpointRecordsToKeep = MaxCheckpointRecordsToRead
  Goroutines,          \* checkpoint goroutines
  Filtered,            \* per spec, the seqnos that its filter drops
  Xattrs,              \* seqnos of mutations with extended attributes
  OldTarget            \* is the target at first a version without xattr support?

Seqno     == 1..MaxSeqno
SpecId    == 1..MaxSpecs
Manager   == 1..MaxPipelines
Uuid      == 0..(1 + MaxSourceFailovers + MaxTargetFailovers)
NoUuid    == 0

ASSUME CheckpointAssumption ==
  /\ MaxSeqno \in Nat /\ MaxPipelines \in Nat \ {0} /\ MaxSpecs \in Nat \ {0}
  /\ MaxSourceFailovers \in Nat /\ MaxTargetFailovers \in Nat
  /\ MaxIncidents \in Nat /\ MaxRecords \in Nat \ {0}
  /\ Filtered \in [SpecId -> SUBSET Seqno]
  /\ Xattrs \subseteq Seqno
  /\ OldTarget \in BOOLEAN

VARIABLES
  src,        \* source vbucket: the uuid of the branch each seqno was written on
  src_flog,   \* its failover log, newest entry first
  tgt,        \* target vbucket: the mutations it holds, in the order applied
  tgt_flog,   \* its failover log
  tgt_xattr,  \* does the target's version support extended attributes?
  doc,        \* the checkpoint document in metakv
  spec,       \* internal id of the replication spec
  mgr,        \* the checkpoint manager of the latest pipeline, 0 before the first
  phase,      \* how far that pipeline is
  vbts,       \* the start seqno it is about to request, and the search for it
  base,       \* start seqno given to the through-seqno tracker
  acked,      \* seqnos whose outcome the tracker knows
  cur,        \* cur_ckpts of each manager, with what the manager was built with
  ckpt,       \* the checkpoint goroutines
  straddled   \* history: a checkpoint goroutine outlived what it was based on

source == <<src, src_flog>>
target == <<tgt, tgt_flog, tgt_xattr>>
data   == <<base, acked>>
vars   == <<source, target, doc, spec, mgr, phase, vbts, data, cur, ckpt, straddled>>

FailoverEntry == [uuid : Uuid, seqno : 0..MaxSeqno]
Record == [seqno : 0..MaxSeqno, fuuid : Uuid, opaque : Uuid, tseqno : Nat]
NoDoc  == [records |-> <<>>, spec |-> 1, xattr_seqno |-> 0, xattr |-> FALSE]
NewVbts == [doc |-> NoDoc, index |-> 1, agreed |-> 0, max |-> MaxSeqno, seqno |-> 0,
            fuuid |-> NoUuid]
NewCur == [spec |-> 1, xattr |-> FALSE, version |-> 0, flog |-> <<>>,
           rec |-> [seqno |-> 0, fuuid |-> NoUuid, opaque |-> NoUuid, tseqno |-> 0]]
New    == [stage |-> "new",  mgr |-> 0, through |-> 0, high |-> 0, opaque |-> NoUuid,
           version |-> 0, xattr_seqno |-> 0, doc |-> NoDoc]
Done   == [New EXCEPT !.stage = "done"]

DocType == [records : Seq(Record), spec : SpecId, xattr_seqno : 0..MaxSeqno, xattr : BOOLEAN]

TypeOK ==
  /\ src \in Seq(Uuid) /\ Len(src) <= MaxSeqno
  /\ src_flog \in Seq(FailoverEntry)
  /\ tgt \in Seq([uuid : Uuid, seqno : Seqno, xattr : BOOLEAN])
  /\ tgt_flog \in Seq([uuid : Uuid, seqno : Nat])
  /\ tgt_xattr \in BOOLEAN
  /\ doc \in DocType
  /\ Len(doc.records) <= MaxRecords
  /\ spec \in SpecId
  /\ mgr \in 0..MaxPipelines
  /\ phase \in {"down", "starting", "search", "populate", "stamp", "request", "streaming",
                "failed"}
  /\ vbts \in [doc : DocType, index : 1..(MaxRecords + 1), agreed : 0..MaxRecords,
               max : 0..MaxSeqno, seqno : 0..MaxSeqno, fuuid : Uuid]
  /\ base \in 0..MaxSeqno
  /\ acked \subseteq Seqno
  /\ cur \in [Manager -> [spec : SpecId, xattr : BOOLEAN, version : Nat,
                          flog : Seq(FailoverEntry), rec : Record]]
  /\ ckpt \in [Goroutines -> [stage : {"new", "through", "high", "read", "got", "done"},
                              mgr : 0..MaxPipelines, through : 0..MaxSeqno, high : Nat,
                              opaque : Uuid, version : Nat, xattr_seqno : 0..MaxSeqno,
                              doc : DocType]]
  /\ straddled \in BOOLEAN

Init ==
  /\ src = <<>>
  /\ src_flog = <<[uuid |-> 1, seqno |-> 0]>>
  /\ tgt = <<>>
  /\ tgt_flog = <<[uuid |-> 1, seqno |-> 0]>>
  /\ tgt_xattr = ~OldTarget
  /\ doc = NoDoc
  /\ spec = 1
  /\ mgr = 0
  /\ phase = "down"
  /\ vbts = NewVbts
  /\ base = 0
  /\ acked = {}
  /\ cur = [m \in Manager |-> NewCur]
  /\ ckpt = [g \in Goroutines |-> New]
  /\ straddled = FALSE

-----------------------------------------------------------------------------
(***************************************************************************)
(* The two vbuckets.  A failover keeps a prefix of the history and starts  *)
(* a branch with a new uuid.                                               *)
(***************************************************************************)

BranchEnd(flog, len, i) == IF i = 1 THEN len ELSE flog[i - 1].seqno

Incidents ==
  src_flog[1].uuid + tgt_flog[1].uuid + spec - 3 + (IF OldTarget /\ tgt_xattr THEN 1 ELSE 0)

(* Is seqno n a point of the branch with this uuid, as far as it was kept? *)
OnBranch(flog, len, uuid, n) ==
  \E i \in DOMAIN flog : flog[i].uuid = uuid /\ n <= BranchEnd(flog, len, i)

FailedOver(flog, k) ==
  LET Kept(e) == e.seqno <= k
  IN  <<[uuid |-> flog[1].uuid + 1, seqno |-> k]>> \o SelectSeq(flog, Kept)

SourceWrite ==
  /\ Len(src) < MaxSeqno
  /\ src' = Append(src, src_flog[1].uuid)
  /\ UNCHANGED <<src_flog, target, doc, spec, mgr, phase, vbts, data, cur, ckpt, straddled>>

(* The vbucket's stream ends                                               *)
SourceFailover(k) ==
  /\ src_flog[1].uuid <= MaxSourceFailovers /\ Incidents < MaxIncidents
  /\ k \in 0..Len(src)
  /\ src' = SubSeq(src, 1, k)
  /\ src_flog' = FailedOver(src_flog, k)
  /\ phase' = IF phase = "streaming" THEN "failed" ELSE phase
  /\ UNCHANGED <<target, doc, spec, mgr, vbts, data, cur, ckpt, straddled>>

TargetFailover(k) ==
  /\ tgt_flog[1].uuid <= MaxTargetFailovers /\ Incidents < MaxIncidents
  /\ k \in 0..Len(tgt)
  /\ tgt' = SubSeq(tgt, 1, k)
  /\ tgt_flog' = FailedOver(tgt_flog, k)
  /\ UNCHANGED <<source, tgt_xattr, doc, spec, mgr, phase, vbts, data, cur, ckpt, straddled>>

(* Only the start of a pipeline looks at the target's version              *)
TargetUpgrade ==
  /\ phase = "down"
  /\ ~tgt_xattr /\ Incidents < MaxIncidents
  /\ tgt_xattr' = TRUE
  /\ UNCHANGED <<source, tgt, tgt_flog, doc, spec, mgr, phase, vbts, data, cur, ckpt, straddled>>

-----------------------------------------------------------------------------
(***************************************************************************)
(* Starting and stopping a pipeline.                                       *)
(***************************************************************************)

Running(g) == ckpt[g].stage \notin {"new", "done"}
Busy == \E g \in Goroutines : Running(g)

(* What is left of the managers: a stopped one lives on only as long as a  *)
(* checkpoint goroutine refers to it.                                      *)
Reachable ==
  [m \in Manager |-> IF \E g \in Goroutines : Running(g) /\ ckpt[g].mgr = m
                       THEN cur[m] ELSE NewCur]

(* A new manager, built with the target version seen at that time          *)
StartPipeline ==
  /\ phase = "down"
  /\ mgr < MaxPipelines
  /\ mgr' = mgr + 1
  /\ phase' = "starting"
  /\ cur' = [Reachable EXCEPT ![mgr + 1] = [NewCur EXCEPT !.spec = spec, !.xattr = tgt_xattr]]
  /\ straddled' = (straddled \/ (tgt_xattr /\ \E g \in Goroutines : Running(g) /\ ~cur[ckpt[g].mgr].xattr))
  /\ UNCHANGED <<source, target, doc, spec, vbts, data, ckpt>>

(* A checkpoint goroutine that has not noticed goes on                     *)
StopPipeline ==
  /\ phase # "down"
  /\ phase' = "down"
  /\ vbts' = NewVbts
  /\ base' = 0
  /\ acked' = {}
  /\ cur' = Reachable
  /\ UNCHANGED <<source, target, doc, spec, mgr, ckpt, straddled>>

Crash ==
  /\ phase # "down"
  /\ phase' = "down"
  /\ vbts' = NewVbts
  /\ base' = 0
  /\ acked' = {}
  /\ cur' = [m \in Manager |-> NewCur]
  /\ ckpt' = [g \in Goroutines |-> IF Running(g) THEN Done ELSE ckpt[g]]
  /\ UNCHANGED <<source, target, doc, spec, mgr, straddled>>

(* The spec is deleted and created again.  StopPipeline deletes the        *)
(* checkpoint documents of the old spec and ignores the error if it fails. *)
RecreateSpec ==
  /\ phase = "down"
  /\ spec < MaxSpecs /\ Incidents < MaxIncidents
  /\ spec' = spec + 1
  /\ doc' \in {doc, NoDoc}
  /\ straddled' = (straddled \/ Busy)
  /\ UNCHANGED <<source, target, mgr, phase, vbts, data, cur, ckpt>>

-----------------------------------------------------------------------------
(***************************************************************************)
(* SetVBTimestamps and UpdateVBTimestamps: the start seqno.                *)
(***************************************************************************)

(* mutant of MustDelete: a document is only ever deleted for its xattrs    *)
KeepOldSpec(m) ==
  doc.records # <<>> /\ cur[m].xattr /\ ~doc.xattr /\ doc.xattr_seqno > 0

(* Is the document of no use to manager m, so that it must be deleted?     *)
MustDelete(m) ==
  /\ doc.records # <<>>
  /\ IF cur[m].xattr THEN ~doc.xattr /\ doc.xattr_seqno > 0 ELSE doc.spec # cur[m].spec

(* Every record is eligible at first                                       *)
SetVBTimestamps ==
  /\ phase = "starting"
  /\ \/ ~MustDelete(mgr) /\ vbts' = [NewVbts EXCEPT !.doc = doc] /\ phase' = "search"
        /\ UNCHANGED doc
     \/ MustDelete(mgr) /\ doc' = NoDoc /\ vbts' = NewVbts /\ phase' = "search"
     \/ MustDelete(mgr) /\ phase' = "failed" /\ UNCHANGED <<doc, vbts>>  \* metakv fails
  /\ UNCHANGED <<source, target, spec, mgr, data, cur, ckpt, straddled>>

(* Is cur_ckpts held by a goroutine that persists its record?              *)
Locked(m) == \E g \in Goroutines : ckpt[g].stage = "got" /\ ckpt[g].mgr = m

(* The records to offer to the target, newest first: those of the          *)
(* document, or the manager's own if there is no document.                 *)
ckptRecords == IF vbts.doc.records # <<>> THEN vbts.doc.records ELSE <<cur[mgr].rec>>

SkipRecord ==
  /\ phase = "search"
  /\ vbts.index <= Len(ckptRecords)
  /\ ckptRecords[vbts.index].seqno > vbts.max
  /\ vbts' = [vbts EXCEPT !.index = @ + 1]
  /\ UNCHANGED <<source, target, doc, spec, mgr, phase, data, cur, ckpt, straddled>>

TargetAgrees(r) == r.opaque = NoUuid \/ OnBranch(tgt_flog, Len(tgt), r.opaque, r.tseqno)

(* The target answers with its uuid, whether or not it agrees              *)
PreReplicate ==
  /\ phase = "search"
  /\ vbts.index <= Len(ckptRecords)
  /\ LET r == ckptRecords[vbts.index]
     IN  /\ r.seqno <= vbts.max
         /\ ~Locked(mgr)
         /\ cur' = [cur EXCEPT ![mgr].rec.opaque = tgt_flog[1].uuid]
         /\ IF TargetAgrees(r)
              THEN /\ phase' = "populate"
                   /\ vbts' = IF vbts.doc.records # <<>>
                                THEN [vbts EXCEPT !.agreed = vbts.index] ELSE vbts
              ELSE /\ vbts' = [vbts EXCEPT !.index = @ + 1]
                   /\ UNCHANGED phase
  /\ UNCHANGED <<source, target, doc, spec, mgr, data, ckpt, straddled>>

PreReplicateFails ==
  /\ phase = "search"
  /\ phase' = "failed"
  /\ UNCHANGED <<source, target, doc, spec, mgr, vbts, data, cur, ckpt, straddled>>

NoneAgreed ==
  /\ phase = "search"
  /\ vbts.index > Len(ckptRecords)
  /\ phase' = "populate"
  /\ UNCHANGED <<source, target, doc, spec, mgr, vbts, data, cur, ckpt, straddled>>

populateVBTimestamp ==
  /\ phase = "populate"
  /\ ~Locked(mgr)
  /\ IF vbts.agreed # 0
       THEN LET r == vbts.doc.records[vbts.agreed]
            IN  /\ vbts' = [NewVbts EXCEPT !.seqno = r.seqno, !.fuuid = r.fuuid]
                /\ cur' = [cur EXCEPT ![mgr].rec.seqno = r.seqno, ![mgr].rec.fuuid = r.fuuid]
       ELSE vbts' = NewVbts /\ UNCHANGED cur
  /\ phase' = "stamp"
  /\ UNCHANGED <<source, target, doc, spec, mgr, data, ckpt, straddled>>

(* setTimestampForVB: first the tracker, then the DCP nozzle               *)
SetStartSeqno ==
  /\ phase = "stamp"
  /\ base' = vbts.seqno
  /\ phase' = "request"
  /\ UNCHANGED <<source, target, doc, spec, mgr, vbts, acked, cur, ckpt, straddled>>

SourceAgrees(uuid, n) == n = 0 \/ OnBranch(src_flog, Len(src), uuid, n)

(* StreamingStart brings the failover log                                  *)
StreamingStart ==
  /\ phase = "request"
  /\ SourceAgrees(vbts.fuuid, vbts.seqno)
  /\ phase' = "streaming"
  /\ cur' = [cur EXCEPT ![mgr].flog = src_flog]
  /\ vbts' = NewVbts
  /\ UNCHANGED <<source, target, doc, spec, mgr, data, ckpt, straddled>>

(* The seqno up to which the source still has what the stream asks for     *)
RollbackSeqno ==
  LET I == {i \in DOMAIN src_flog : src_flog[i].uuid = vbts.fuuid}
  IN  IF I = {} THEN 0 ELSE BranchEnd(src_flog, Len(src), CHOOSE i \in I : TRUE)

(* mutants of UpdateVBTimestamps: the rollback seqno is exclusive, which   *)
(* wraps around at 0; a rollback to 0 leaves the record that DCP refused   *)
(* eligible                                                                *)
BelowRollback ==
  /\ phase = "request"
  /\ ~SourceAgrees(vbts.fuuid, vbts.seqno)
  /\ phase' = "search"
  /\ vbts' = [NewVbts EXCEPT !.doc = doc, !.max = RollbackSeqno - 1]
  /\ straddled' = (straddled \/ \E g \in Goroutines : Running(g) /\ ckpt[g].mgr = mgr)
  /\ UNCHANGED <<source, target, doc, spec, mgr, data, cur, ckpt>>

RetrySameRecord ==
  /\ phase = "request"
  /\ ~SourceAgrees(vbts.fuuid, vbts.seqno)
  /\ phase' = "search"
  /\ vbts' = [NewVbts EXCEPT
                !.doc = doc,
                !.max = IF RollbackSeqno = 0 THEN vbts.seqno ELSE RollbackSeqno]
  /\ straddled' = (straddled \/ \E g \in Goroutines : Running(g) /\ ckpt[g].mgr = mgr)
  /\ UNCHANGED <<source, target, doc, spec, mgr, data, cur, ckpt>>

(* DCP answers a stream request with a rollback: search the records again, *)
(* up to the rollback seqno or, when that is 0, any older record           *)
UpdateVBTimestamps ==
  /\ phase = "request"
  /\ ~SourceAgrees(vbts.fuuid, vbts.seqno)
  /\ phase' = "search"
  /\ vbts' = [NewVbts EXCEPT
                !.doc = doc,
                !.max = IF RollbackSeqno = 0 THEN vbts.seqno - 1 ELSE RollbackSeqno]
  /\ straddled' = (straddled \/ \E g \in Goroutines : Running(g) /\ ckpt[g].mgr = mgr)
  /\ UNCHANGED <<source, target, doc, spec, mgr, data, cur, ckpt>>

-----------------------------------------------------------------------------
(***************************************************************************)
(* The data path.  Mutations are acknowledged in any order; the target     *)
(* keeps one copy, unless a new one brings extended attributes it lacks.   *)
(***************************************************************************)

OnTarget(n, xattr) ==
  \E i \in DOMAIN tgt : /\ tgt[i].uuid = src[n] /\ tgt[i].seqno = n
                        /\ n \in Xattrs /\ xattr => tgt[i].xattr

Replicate(n) ==
  /\ phase = "streaming"
  /\ n \in (base + 1)..Len(src)
  /\ n \notin acked
  /\ acked' = acked \union {n}
  /\ tgt' = IF n \in Filtered[cur[mgr].spec] \/ OnTarget(n, cur[mgr].xattr) THEN tgt
            ELSE Append(tgt, [uuid |-> src[n], seqno |-> n, xattr |-> cur[mgr].xattr])
  /\ UNCHANGED <<source, tgt_flog, tgt_xattr, doc, spec, mgr, phase, vbts, base, cur, ckpt,
                 straddled>>

(* What the through-seqno tracker promises (module ThroughSeqno)           *)
through_seqno == CHOOSE t \in base..MaxSeqno :
                   (base + 1)..t \subseteq acked /\ t + 1 \notin acked

-----------------------------------------------------------------------------
(***************************************************************************)
(* performCkpt, PerformCkpt and doCheckpoint, one goroutine each.          *)
(***************************************************************************)

(* The first mutation with extended attributes that this pipeline streamed *)
(* at or below the through seqno, 0 if there is none                       *)
XattrSeqno ==
  LET X == {n \in Xattrs : base < n /\ n <= through_seqno}
  IN  IF X = {} THEN 0 ELSE CHOOSE n \in X : \A k \in X : n <= k

(* A tick, or CheckpointBeforeStop.  The xattr seqno is asked for last but *)
(* what counts is known now: a seqno above the through seqno is ignored.   *)
GetThroughSeqnos(g) ==
  /\ ckpt[g].stage = "new"
  /\ phase # "down"
  /\ ckpt' = [ckpt EXCEPT ![g] = [New EXCEPT !.stage = "through", !.mgr = mgr,
                                    !.through = through_seqno, !.xattr_seqno = XattrSeqno]]
  /\ UNCHANGED <<source, target, doc, spec, mgr, phase, vbts, data, cur, straddled>>

getHighSeqnoAndVBUuidFromTarget(g) ==
  /\ ckpt[g].stage = "through"
  /\ ckpt' = [ckpt EXCEPT ![g].stage = "high", ![g].high = Len(tgt),
                          ![g].opaque = tgt_flog[1].uuid]
  /\ UNCHANGED <<source, target, doc, spec, mgr, phase, vbts, data, cur, straddled>>

(* The target does not answer, or the goroutine sees that it is to finish  *)
Abandon(g) ==
  /\ ckpt[g].stage \in {"through", "high"}
  /\ ckpt' = [ckpt EXCEPT ![g] = Done]
  /\ UNCHANGED <<source, target, doc, spec, mgr, phase, vbts, data, cur, straddled>>

(* mutant of ReadCkpt: the uuid of the target is not compared              *)
AnyTargetUuid(g) ==
  LET c == cur[ckpt[g].mgr]
  IN  /\ ckpt[g].stage = "high"
      /\ ~Locked(ckpt[g].mgr)
      /\ IF ckpt[g].through = c.rec.seqno \/ c.rec.opaque = NoUuid
           THEN ckpt' = [ckpt EXCEPT ![g] = Done]
           ELSE ckpt' = [ckpt EXCEPT ![g].stage = "read", ![g].version = c.version,
                                       ![g].opaque = NoUuid]
      /\ UNCHANGED <<source, target, doc, spec, mgr, phase, vbts, data, cur, straddled>>

(* doCheckpoint reads version, seqno and opaque under the record's lock.   *)
(* Nothing to do, or no opaque: done.  Another uuid on the target: ask for *)
(* a restart of the pipeline.                                              *)
ReadCkpt(g) ==
  LET c == cur[ckpt[g].mgr]
  IN  /\ ckpt[g].stage = "high"
      /\ ~Locked(ckpt[g].mgr)
      /\ IF ckpt[g].through = c.rec.seqno \/ c.rec.opaque = NoUuid
           THEN ckpt' = [ckpt EXCEPT ![g] = Done] /\ UNCHANGED phase
         ELSE IF ckpt[g].opaque # c.rec.opaque
           THEN /\ ckpt' = [ckpt EXCEPT ![g] = Done]
                /\ phase' = IF ckpt[g].mgr = mgr /\ phase # "down" THEN "failed" ELSE phase
           ELSE /\ ckpt' = [ckpt EXCEPT ![g].stage = "read", ![g].version = c.version,
                                       ![g].opaque = NoUuid]
                /\ UNCHANGED phase
      /\ UNCHANGED <<source, target, doc, spec, mgr, vbts, data, cur, straddled>>

(* getFailoverUUIDForSeqno: the entries whose branch starts at or below n  *)
FailoverEntries(flog, n) == {i \in DOMAIN flog : n >= flog[i].seqno}

(* updateAndPersist, as far as the read of the document: it holds the lock *)
(* from here on.                                                           *)
UpdateRecord(g) ==
  LET c == cur[ckpt[g].mgr]
      I == FailoverEntries(c.flog, ckpt[g].through)
  IN  /\ ckpt[g].stage = "read"
      /\ ~Locked(ckpt[g].mgr)
      /\ I # {}
      /\ ckpt[g].version = c.version
      /\ cur' = [cur EXCEPT ![ckpt[g].mgr] =
                   [c EXCEPT !.version = @ + 1,
                             !.rec.seqno = ckpt[g].through,
                             !.rec.tseqno = ckpt[g].high,
                             !.rec.fuuid = c.flog[CHOOSE i \in I : \A j \in I : i <= j].uuid]]
      /\ \/ ckpt' = [ckpt EXCEPT ![g] = [New EXCEPT !.stage = "got", !.doc = doc,
                         !.mgr = ckpt[g].mgr, !.xattr_seqno = ckpt[g].xattr_seqno]]
         \/ ckpt' = [ckpt EXCEPT ![g] = Done]                         \* metakv fails
      /\ UNCHANGED <<source, target, doc, spec, mgr, phase, vbts, data, straddled>>

(* No failover log entry for the seqno, or a concurrent goroutine was      *)
(* faster                                                                  *)
Skip(g) ==
  /\ ckpt[g].stage = "read"
  /\ ~Locked(ckpt[g].mgr)
  /\ \/ FailoverEntries(cur[ckpt[g].mgr].flog, ckpt[g].through) = {}
     \/ ckpt[g].version # cur[ckpt[g].mgr].version
  /\ ckpt' = [ckpt EXCEPT ![g] = Done]
  /\ UNCHANGED <<source, target, doc, spec, mgr, phase, vbts, data, cur, straddled>>

(* AddRecord: the newest record first, the oldest dropped                  *)
AddRecord(records, r) ==
  SubSeq(<<r>> \o records, 1,
         IF Len(records) < MaxRecords THEN Len(records) + 1 ELSE MaxRecords)

(* UpsertCheckpoints: document d with the record of manager c added        *)
Upserted(d, c, xattr_seqno) ==
  [records     |-> AddRecord(d.records, c.rec),
   spec        |-> IF d.records = <<>> THEN c.spec ELSE d.spec,
   xattr_seqno |-> IF xattr_seqno > 0 /\ (d.xattr_seqno = 0 \/ d.xattr_seqno > xattr_seqno)
                     THEN xattr_seqno ELSE d.xattr_seqno,
   xattr       |-> d.xattr \/ c.xattr]

(* The document is written back, without a revision check, unless it has   *)
(* the record already; an error is only logged.                            *)
persistCkptRecord(g) ==
  LET d == ckpt[g].doc
      c == cur[ckpt[g].mgr]
  IN  /\ ckpt[g].stage = "got"
      /\ \/ /\ d.records # <<>> => d.records[1] # c.rec
            /\ doc' = Upserted(d, c, ckpt[g].xattr_seqno)
         \/ UNCHANGED doc
      /\ ckpt' = [ckpt EXCEPT ![g] = Done]
      /\ UNCHANGED <<source, target, spec, mgr, phase, vbts, data, cur, straddled>>

Checkpoint(g) ==
  \/ GetThroughSeqnos(g) \/ getHighSeqnoAndVBUuidFromTarget(g) \/ Abandon(g)
  \/ ReadCkpt(g) \/ UpdateRecord(g) \/ Skip(g) \/ persistCkptRecord(g)

StartSeqno ==
  \/ SetVBTimestamps \/ SkipRecord \/ PreReplicate \/ PreReplicateFails \/ NoneAgreed
  \/ populateVBTimestamp \/ SetStartSeqno \/ StreamingStart \/ UpdateVBTimestamps

Environment ==
  \/ SourceWrite
  \/ \E k \in 0..MaxSeqno : SourceFailover(k)
  \/ \E k \in 0..Len(tgt) : TargetFailover(k)
  \/ TargetUpgrade
  \/ Crash
  \/ RecreateSpec

Next ==
  \/ StartPipeline \/ StopPipeline
  \/ StartSeqno
  \/ \E n \in Seqno : Replicate(n)
  \/ \E g \in Goroutines : Checkpoint(g)
  \/ Environment

Spec == Init /\ [][Next]_vars

-----------------------------------------------------------------------------
(***************************************************************************)
(* Properties.                                                             *)
(***************************************************************************)

Delivered(n, s, xattr) == n \in Filtered[s] \/ OnTarget(n, xattr)

(* Would resuming from record r, for spec s, skip only what is on the      *)
(* target?  Only a record that the target and the source both agree to is  *)
(* ever resumed from.                                                      *)
Honest(r, s, xattr) ==
  TargetAgrees(r) /\ SourceAgrees(r.fuuid, r.seqno) =>
    \A n \in 1..r.seqno : n <= Len(src) /\ Delivered(n, s, xattr)

(* Is every record that may still be offered honest?                       *)
OffersHonest ==
  phase = "search" =>
    \A i \in vbts.index..Len(vbts.doc.records) :
      vbts.doc.records[i].seqno <= vbts.max =>
        Honest(vbts.doc.records[i], spec, cur[mgr].xattr)

OwnDocument == phase = "search" /\ vbts.doc.records # <<>> => vbts.doc.spec = spec

(* The promise of a checkpoint: whatever failed over, crashed or was lost  *)
(* since it was taken, nothing below a record that SetVBTimestamps or      *)
(* UpdateVBTimestamps may still offer is missing on the target, if the     *)
(* record is from this spec and no checkpoint goroutine outlived a         *)
(* rollback, a re-creation of the spec or an upgrade of the target.        *)
ResumeHonest == ~straddled /\ OwnDocument => OffersHonest

(* SetVBTimestamps never works with the document of a spec that was        *)
(* deleted, even if its deletion failed at the time, as long as the target *)
(* does not support extended attributes.                                   *)
OldTargetOwnDocument == ~straddled /\ mgr # 0 /\ ~cur[mgr].xattr => OwnDocument

(* A pipeline whose stream request DCP answers with a rollback asks for a  *)
(* lower seqno the next time, so that the exchange of UpdateVBTimestamps   *)
(* with DCP comes to an end.                                               *)
RollbackDescends ==
  [][phase = "stamp" /\ phase' = "request" /\ base > 0 => base' < base]_vars

(* The design's description of a checkpoint: all of the source's history   *)
(* up to the record's seqno was propagated to the target.                  *)
RecordsPropagated == OffersHonest

(* SetVBTimestamps' comment on the spec's internal id: the document of an  *)
(* old replication spec is deleted, not used.                              *)
OldSpecDeleted == OwnDocument

(* doCheckpoint's version number: a goroutine that was overtaken by a more *)
(* recent checkpoint does not replace it by its older one.                 *)
NewestKept ==
  [][doc.records # <<>> /\ doc'.records # <<>> =>
       doc'.records[1].seqno >= doc.records[1].seqno]_vars
=============================================================================
