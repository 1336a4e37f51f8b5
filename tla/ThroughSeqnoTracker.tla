-------------------------- MODULE ThroughSeqnoTracker --------------------------
(***************************************************************************)
(* service_impl/through_seqno_tracker_service.go for one vbucket (every    *)
(* map of the service is keyed by vbucket and no operation reads two       *)
(* entries).                                                               *)
(*                                                                         *)
(* Goroutines that interleave here: the asynchronous listeners that        *)
(* deliver DataReceived, DataSent, DataFiltered and DataFailedCRSource;    *)
(* the caller of GetThroughSeqno, which holds the lock of the through      *)
(* seqno throughout and takes the lock of each list in turn; and the       *)
(* goroutines that GetThroughSeqno leaves behind to truncate the lists,    *)
(* any number of which may still be running when the next call starts.     *)
(*                                                                         *)
(* A listener's queue is not a variable: what has happened (outcome) and   *)
(* what has been delivered (reported, last_seen_seqno) determine it.       *)
(***************************************************************************)
EXTENDS MutationFlow, Sequences, Functions

VARIABLES
  reported,         \* seqnos whose outcome event has been processed
  last_seen_seqno,  \* vb_last_seen_seqno_map: last DataReceived processed
  through_seqno,    \* through_seqno_map
  sent_list,        \* vb_sent_seqno_list_map, sorted only by GetThroughSeqno
  filtered_list,    \* vb_filtered_seqno_list_map
  failed_cr_list,   \* vb_failed_cr_seqno_list_map
  gap_list_1,       \* vb_gap_seqno_list_map: first seqnos of the gap ranges
  gap_list_2,       \*   and last seqnos of the gap ranges
  pc,               \* GetThroughSeqno: the list it reads next, or "scan"
  snap_sent,        \* GetThroughSeqno's copies of the lists
  snap_filtered,
  snap_failed_cr,
  snap_gap_1,
  snap_gap_2,
  iter_seqno,       \* GetThroughSeqno's loop variable
  found_seqno,      \* last iter_seqno that was found in a list, 0 if none
  truncating,       \* truncateSeqnoLists(x): list it truncates next, 0 if none
  panicked

lists == <<sent_list, filtered_list, failed_cr_list, gap_list_1, gap_list_2>>
snaps == <<snap_sent, snap_filtered, snap_failed_cr, snap_gap_1, snap_gap_2>>
scan  == <<iter_seqno, found_seqno>>
vars  == <<flowVars, reported, last_seen_seqno, through_seqno, lists, pc,
           snaps, scan, truncating, panicked>>

SeqnoList == Seq(Seqno)

TypeOK ==
  /\ FlowTypeOK
  /\ reported \subseteq Seqno
  /\ last_seen_seqno \in 0..MaxSeqno
  /\ through_seqno \in 0..MaxSeqno
  /\ sent_list \in SeqnoList
  /\ filtered_list \in SeqnoList
  /\ failed_cr_list \in SeqnoList
  /\ gap_list_1 \in SeqnoList
  /\ gap_list_2 \in SeqnoList
  /\ pc \in {"idle", "filtered", "failedCR", "gap", "scan"}
  /\ snap_sent \in SeqnoList
  /\ snap_filtered \in SeqnoList
  /\ snap_failed_cr \in SeqnoList
  /\ snap_gap_1 \in SeqnoList
  /\ snap_gap_2 \in SeqnoList
  /\ iter_seqno \in 0..MaxSeqno
  /\ found_seqno \in 0..MaxSeqno
  /\ truncating \in [Seqno -> 0..4]
  /\ panicked \in BOOLEAN

Init ==
  /\ FlowInit
  /\ reported = {}
  /\ last_seen_seqno = 0
  /\ through_seqno = 0
  /\ sent_list = <<>>
  /\ filtered_list = <<>>
  /\ failed_cr_list = <<>>
  /\ gap_list_1 = <<>>
  /\ gap_list_2 = <<>>
  /\ pc = "idle"
  /\ snap_sent = <<>>
  /\ snap_filtered = <<>>
  /\ snap_failed_cr = <<>>
  /\ snap_gap_1 = <<>>
  /\ snap_gap_2 = <<>>
  /\ iter_seqno = 0
  /\ found_seqno = 0
  /\ truncating = [s \in Seqno |-> 0]
  /\ panicked = FALSE

-----------------------------------------------------------------------------
(***************************************************************************)
(* The list helpers.                                                       *)
(***************************************************************************)

(* sort.Search needs a sorted list; on any list it returns a place where   *)
(* the predicate list[i] >= seqno turns from false to true.  A list that   *)
(* is being truncated need not be sorted, so every such place is possible. *)
SearchIndexes(list, seqno) ==
  {i \in 1..(Len(list) + 1) :
     /\ i <= Len(list) => list[i] >= seqno
     /\ i > 1 => list[i - 1] < seqno}

Found(list, seqno, i) == i <= Len(list) /\ list[i] = seqno

maxSeqno(list) == IF Len(list) > 0 THEN list[Len(list)] ELSE 0

(* mutant of Lookup: an off-by-one in the test against the last element    *)
LookupBelowMax(list, seqno) ==
  /\ seqno < maxSeqno(list)
  /\ \E i \in SearchIndexes(list, seqno) : Found(list, seqno, i)

(* SearchUint64List behind the test against the list's last element        *)
Lookup(list, seqno) ==
  /\ seqno <= maxSeqno(list)
  /\ \E i \in SearchIndexes(list, seqno) : Found(list, seqno, i)

(* mutant of SortUint64List: the sent list is searched as it is            *)
LeftUnsorted(list) == {list}

SortUint64List(list) ==
  {[i \in DOMAIN list |-> list[p[i]]] :
     p \in {q \in Bijection(DOMAIN list, DOMAIN list) :
              \A i, j \in DOMAIN list : i < j => list[q[i]] <= list[q[j]]}}

(* mutants of Truncated: what the search points at is always, or never,    *)
(* dropped                                                                 *)
TruncatedThrough(list, seqno) ==
  {SubSeq(list, i + 1, Len(list)) : i \in SearchIndexes(list, seqno)}

TruncatedBelow(list, seqno) ==
  {SubSeq(list, i, Len(list)) : i \in SearchIndexes(list, seqno)}

(* truncateSeqnos: what is left of the list                                *)
Truncated(list, seqno) ==
  {SubSeq(list, IF Found(list, seqno, i) THEN i + 1 ELSE i, Len(list)) :
     i \in SearchIndexes(list, seqno)}

(* isSeqnoGapSeqno: the end of the gap range that seqno is in, if any      *)
GapEnds(list_1, list_2, seqno) ==
  {list_2[j] : j \in {j \in DOMAIN list_1 :
     \E i \in SearchIndexes(list_1, seqno) :
       \/ Found(list_1, seqno, i) /\ j = i
       \/ ~Found(list_1, seqno, i) /\ j = i - 1 /\ list_2[j] >= seqno}}

-----------------------------------------------------------------------------
(***************************************************************************)
(* SetStartSeqno, and the data path.                                       *)
(***************************************************************************)

SetStartSeqno(n) ==
  /\ StartAt(n)
  /\ pc = "idle"                                    \* the through seqno's lock
  /\ through_seqno' = n
  /\ UNCHANGED <<reported, last_seen_seqno, lists, pc, snaps, scan, truncating, panicked>>

Flow ==
  /\ FlowStep
  /\ UNCHANGED <<reported, last_seen_seqno, through_seqno, lists, pc, snaps, scan,
                 truncating, panicked>>

-----------------------------------------------------------------------------
(***************************************************************************)
(* ProcessEvent, one action for each event type.                           *)
(***************************************************************************)

(* mutant of processGapSeqnos: the gap range includes its two neighbours   *)
gapsWithNeighbours(s) ==
  LET last == IF last_seen_seqno = 0 THEN through_seqno ELSE last_seen_seqno
  IN  /\ s \in Streamed
      /\ s > last_seen_seqno
      /\ \A t \in Streamed : t > last_seen_seqno => s <= t
      /\ last_seen_seqno = 0 => pc = "idle"
      /\ last_seen_seqno' = s
      /\ IF last + 1 < s
           THEN /\ gap_list_1' = Append(gap_list_1, last)
                /\ gap_list_2' = Append(gap_list_2, s)
           ELSE UNCHANGED <<gap_list_1, gap_list_2>>
      /\ UNCHANGED <<flowVars, reported, through_seqno, sent_list, filtered_list,
                     failed_cr_list, pc, snaps, scan, truncating, panicked>>

(* DataReceived is delivered in stream order.  Until the first one the     *)
(* through seqno stands in for the last seen seqno, and reading it takes   *)
(* its lock.                                                               *)
processGapSeqnos(s) ==
  LET last == IF last_seen_seqno = 0 THEN through_seqno ELSE last_seen_seqno
  IN  /\ s \in Streamed
      /\ s > last_seen_seqno
      /\ \A t \in Streamed : t > last_seen_seqno => s <= t
      /\ last_seen_seqno = 0 => pc = "idle"
      /\ last_seen_seqno' = s
      /\ IF last + 1 < s
           THEN /\ gap_list_1' = Append(gap_list_1, last + 1)
                /\ gap_list_2' = Append(gap_list_2, s - 1)
           ELSE UNCHANGED <<gap_list_1, gap_list_2>>
      /\ UNCHANGED <<flowVars, reported, through_seqno, sent_list, filtered_list,
                     failed_cr_list, pc, snaps, scan, truncating, panicked>>

(* The next outcome event of its type: DataFiltered and DataFailedCRSource *)
(* are raised, and so delivered, in stream order.                          *)
NextEvent(s) ==
  /\ outcome[s] \in Reportable
  /\ s \notin reported
  /\ outcome[s] # "sent" =>
       \A t \in Seqno : t < s /\ outcome[t] = outcome[s] => t \in reported
  /\ reported' = reported \union {s}

addSentSeqno(s) ==
  /\ outcome[s] = "sent"
  /\ NextEvent(s)
  /\ sent_list' = Append(sent_list, s)
  /\ UNCHANGED <<flowVars, last_seen_seqno, through_seqno, filtered_list, failed_cr_list,
                 gap_list_1, gap_list_2, pc, snaps, scan, truncating, panicked>>

addFilteredSeqno(s) ==
  /\ outcome[s] = "filtered"
  /\ NextEvent(s)
  /\ filtered_list' = Append(filtered_list, s)
  /\ UNCHANGED <<flowVars, last_seen_seqno, through_seqno, sent_list, failed_cr_list,
                 gap_list_1, gap_list_2, pc, snaps, scan, truncating, panicked>>

addFailedCRSeqno(s) ==
  /\ outcome[s] = "failedCR"
  /\ NextEvent(s)
  /\ failed_cr_list' = Append(failed_cr_list, s)
  /\ UNCHANGED <<flowVars, last_seen_seqno, through_seqno, sent_list, filtered_list,
                 gap_list_1, gap_list_2, pc, snaps, scan, truncating, panicked>>

-----------------------------------------------------------------------------
(***************************************************************************)
(* GetThroughSeqno: copy the lists one after the other, then walk up from  *)
(* the last through seqno for as long as the copies account for the next   *)
(* seqno.                                                                  *)
(***************************************************************************)

ReadSent ==
  /\ pc = "idle"
  /\ sent_list' \in SortUint64List(sent_list)
  /\ snap_sent' = sent_list'
  /\ iter_seqno' = through_seqno
  /\ pc' = "filtered"
  /\ UNCHANGED <<flowVars, reported, last_seen_seqno, through_seqno, filtered_list,
                 failed_cr_list, gap_list_1, gap_list_2, snap_filtered, snap_failed_cr,
                 snap_gap_1, snap_gap_2, found_seqno, truncating, panicked>>

ReadFiltered ==
  /\ pc = "filtered"
  /\ snap_filtered' = filtered_list
  /\ pc' = "failedCR"
  /\ UNCHANGED <<flowVars, reported, last_seen_seqno, through_seqno, lists, snap_sent,
                 snap_failed_cr, snap_gap_1, snap_gap_2, scan, truncating, panicked>>

ReadFailedCR ==
  /\ pc = "failedCR"
  /\ snap_failed_cr' = failed_cr_list
  /\ pc' = "gap"
  /\ UNCHANGED <<flowVars, reported, last_seen_seqno, through_seqno, lists, snap_sent,
                 snap_filtered, snap_gap_1, snap_gap_2, scan, truncating, panicked>>

(* getSortedSeqnoLists panics when the two lists differ in length          *)
ReadGaps ==
  /\ pc = "gap"
  /\ panicked' = (Len(gap_list_1) # Len(gap_list_2))
  /\ snap_gap_1' = gap_list_1
  /\ snap_gap_2' = gap_list_2
  /\ pc' = "scan"
  /\ UNCHANGED <<flowVars, reported, last_seen_seqno, through_seqno, lists, snap_sent,
                 snap_filtered, snap_failed_cr, scan, truncating>>

InSomeList(n) ==
  Lookup(snap_sent, n) \/ Lookup(snap_filtered, n) \/ Lookup(snap_failed_cr, n)

InGap(n) == n <= maxSeqno(snap_gap_2) /\ GapEnds(snap_gap_1, snap_gap_2, n) # {}

ScanFound ==
  /\ pc = "scan"
  /\ InSomeList(iter_seqno + 1)
  /\ iter_seqno' = iter_seqno + 1
  /\ found_seqno' = iter_seqno + 1
  /\ UNCHANGED <<flowVars, reported, last_seen_seqno, through_seqno, lists, pc, snaps,
                 truncating, panicked>>

ScanGap ==
  /\ pc = "scan"
  /\ ~InSomeList(iter_seqno + 1)
  /\ InGap(iter_seqno + 1)
  /\ iter_seqno' \in GapEnds(snap_gap_1, snap_gap_2, iter_seqno + 1)
  /\ UNCHANGED <<flowVars, reported, last_seen_seqno, through_seqno, lists, pc, snaps,
                 found_seqno, truncating, panicked>>

(* The walk ends                                                           *)
EndScan ==
  /\ pc = "scan"
  /\ ~InSomeList(iter_seqno + 1)
  /\ ~InGap(iter_seqno + 1)
  /\ pc' = "idle"
  /\ snap_sent' = <<>>
  /\ snap_filtered' = <<>>
  /\ snap_failed_cr' = <<>>
  /\ snap_gap_1' = <<>>
  /\ snap_gap_2' = <<>>
  /\ iter_seqno' = 0
  /\ found_seqno' = 0
  /\ UNCHANGED <<flowVars, reported, last_seen_seqno, lists, panicked>>

(* mutants of Return: move to where the walk ended, gap seqno or not; move *)
(* to the seqno found even if none was                                     *)
ReturnIter ==
  /\ EndScan
  /\ IF iter_seqno > through_seqno
       THEN /\ through_seqno' = iter_seqno
            /\ truncating' = [truncating EXCEPT ![iter_seqno] = 1]
       ELSE UNCHANGED <<through_seqno, truncating>>

ReturnUnchecked ==
  /\ EndScan
  /\ through_seqno' = found_seqno
  /\ UNCHANGED truncating

(* Move to the last seqno found in a list, never to a gap seqno, and start *)
(* a goroutine that truncates the lists.                                   *)
Return ==
  /\ EndScan
  /\ IF found_seqno # 0
       THEN /\ through_seqno' = found_seqno
            /\ truncating' = [truncating EXCEPT ![found_seqno] = 1]
       ELSE UNCHANGED <<through_seqno, truncating>>

GetThroughSeqno ==
  ReadSent \/ ReadFiltered \/ ReadFailedCR \/ ReadGaps \/ ScanFound \/ ScanGap \/ Return

-----------------------------------------------------------------------------
(***************************************************************************)
(* truncateSeqnoLists(x), the goroutine that GetThroughSeqno left behind.  *)
(***************************************************************************)

TruncateSent(x) ==
  /\ truncating[x] = 1
  /\ sent_list' \in Truncated(sent_list, x)
  /\ truncating' = [truncating EXCEPT ![x] = 2]
  /\ UNCHANGED <<flowVars, reported, last_seen_seqno, through_seqno, filtered_list,
                 failed_cr_list, gap_list_1, gap_list_2, pc, snaps, scan, panicked>>

TruncateFiltered(x) ==
  /\ truncating[x] = 2
  /\ filtered_list' \in Truncated(filtered_list, x)
  /\ truncating' = [truncating EXCEPT ![x] = 3]
  /\ UNCHANGED <<flowVars, reported, last_seen_seqno, through_seqno, sent_list,
                 failed_cr_list, gap_list_1, gap_list_2, pc, snaps, scan, panicked>>

TruncateFailedCR(x) ==
  /\ truncating[x] = 3
  /\ failed_cr_list' \in Truncated(failed_cr_list, x)
  /\ truncating' = [truncating EXCEPT ![x] = 4]
  /\ UNCHANGED <<flowVars, reported, last_seen_seqno, through_seqno, sent_list,
                 filtered_list, gap_list_1, gap_list_2, pc, snaps, scan, panicked>>

(* truncateGapSeqnoList panics when x is found in either list              *)
TruncateGaps(x) ==
  /\ truncating[x] = 4
  /\ \E i \in SearchIndexes(gap_list_1, x), j \in SearchIndexes(gap_list_2, x) :
       /\ gap_list_1' = SubSeq(gap_list_1, i, Len(gap_list_1))
       /\ gap_list_2' = SubSeq(gap_list_2, j, Len(gap_list_2))
       /\ panicked' = (Found(gap_list_1, x, i) \/ Found(gap_list_2, x, j))
  /\ truncating' = [truncating EXCEPT ![x] = 0]
  /\ UNCHANGED <<flowVars, reported, last_seen_seqno, through_seqno, sent_list,
                 filtered_list, failed_cr_list, pc, snaps, scan>>

truncateSeqnoLists(x) ==
  TruncateSent(x) \/ TruncateFiltered(x) \/ TruncateFailedCR(x) \/ TruncateGaps(x)

ProcessEvent(s) ==
  processGapSeqnos(s) \/ addSentSeqno(s) \/ addFilteredSeqno(s) \/ addFailedCRSeqno(s)

Next ==
  /\ ~panicked
  /\ \/ \E n \in 0..MaxSeqno : SetStartSeqno(n)
     \/ Flow
     \/ \E s \in Seqno : ProcessEvent(s) \/ truncateSeqnoLists(s)
     \/ GetThroughSeqno

Spec == Init /\ [][Next]_vars

(***************************************************************************)
(* Listeners drain their queues, goroutines that were started run, and the *)
(* statistics manager's ticker keeps calling GetThroughSeqno.  The first   *)
(* DataReceived needs strong fairness: it waits for a read lock that       *)
(* GetThroughSeqno takes again and again, and sync.RWMutex admits waiting  *)
(* readers when a writer leaves.  Nothing is assumed of DCP or the target. *)
(***************************************************************************)
Fairness ==
  /\ \A s \in Seqno :
       /\ SF_vars(processGapSeqnos(s))
       /\ WF_vars(addSentSeqno(s) \/ addFilteredSeqno(s) \/ addFailedCRSeqno(s))
       /\ WF_vars(truncateSeqnoLists(s))
  /\ WF_vars(GetThroughSeqno)

FairSpec == Spec /\ Fairness

-----------------------------------------------------------------------------
(***************************************************************************)
(* Properties.                                                             *)
(***************************************************************************)

(* The checkpoint's promise: every mutation that DCP streamed at or below  *)
(* through_seqno, the value GetThroughSeqno returned last, was reported    *)
(* sent, filtered or rejected at the source, whatever the order in which   *)
(* the listeners delivered and however the truncations interleaved.        *)
NothingSkipped ==
  \A s \in Streamed : s <= through_seqno => s \in reported

(* The through seqno is never a gap seqno: it is where the stream started  *)
(* or a mutation that was reported (GetThroughSeqno's stated constraint).  *)
NeverAGap ==
  through_seqno = start_seqno \/ through_seqno \in reported

(* Neither the length check of getSortedSeqnoLists nor the check of        *)
(* truncateGapSeqnoList ever panics.                                       *)
NoPanic == ~panicked

(* A truncation that finishes late, after newer events were appended in    *)
(* any order, drops nothing that GetThroughSeqno still needs: a reported   *)
(* mutation above the through seqno stays in its list, and so does the gap *)
(* range of a seqno that DCP skipped.                                      *)
NothingForgotten ==
  /\ \A s \in reported : s > through_seqno =>
       s \in Range(sent_list) \union Range(filtered_list) \union Range(failed_cr_list)
  /\ \A s \in Seqno \ Streamed : through_seqno < s /\ s < last_seen_seqno =>
       \E i \in DOMAIN gap_list_1 : gap_list_1[i] <= s /\ s <= gap_list_2[i]

(* Once all truncations have run, the lists hold nothing at or below the   *)
(* through seqno: they do not grow without bound.                          *)
ListsShrink ==
  (\A x \in Seqno : truncating[x] = 0) =>
     \A s \in Range(sent_list) \union Range(filtered_list) \union Range(failed_cr_list) :
        s > through_seqno

(* The through seqno moves forward only, except when the checkpoint        *)
(* manager sets the start seqno before the stream opens.                   *)
ForwardOnly == [][start_seqno' = start_seqno => through_seqno' >= through_seqno]_vars

(* The detailed tracker implements the promise of ThroughSeqno.            *)
Promise == INSTANCE ThroughSeqno
RefinesPromise == Promise!Spec

(* When every mutation up to a streamed seqno has an outcome that is       *)
(* reported, the through seqno gets there: no truncation, gap or late      *)
(* event leaves it stuck.                                                  *)
CatchesUp ==
  \A s \in Seqno :
    (s \in Streamed /\ \A t \in Streamed : t <= s => outcome[t] \in Reportable)
      ~> through_seqno >= s

(* The same where the filter failed on a mutation with an error that is    *)
(* not recoverable: ProcessEvent has a case that marks such a mutation     *)
(* filtered.                                                               *)
PassesUnfilterable ==
  \A s \in Seqno :
    (s \in Streamed /\ \A t \in Streamed : t <= s => outcome[t] # "nozzle")
      ~> through_seqno >= s

-----------------------------------------------------------------------------
(***************************************************************************)
(* The inductive invariant behind the safety properties.                   *)
(***************************************************************************)

ReportsOK ==
  /\ \A s \in Streamed : s > start_seqno
  /\ last_seen_seqno = 0 \/ last_seen_seqno \in Streamed
  /\ \A s \in reported : outcome[s] \in Reportable
  /\ \A s \in Seqno, t \in reported :
       s < t /\ outcome[s] = outcome[t] /\ outcome[t] # "sent" => s \in reported

Holds(list, o) == \A i \in DOMAIN list : list[i] \in reported /\ outcome[list[i]] = o

Ascending(list) == \A i, j \in DOMAIN list : i < j => list[i] < list[j]

ListsOK ==
  /\ Holds(sent_list, "sent")         /\ Holds(snap_sent, "sent")
  /\ Holds(filtered_list, "filtered") /\ Holds(snap_filtered, "filtered")
  /\ Holds(failed_cr_list, "failedCR") /\ Holds(snap_failed_cr, "failedCR")
  /\ Ascending(filtered_list)
  /\ Ascending(failed_cr_list)

(* list_1[i]..list_2[i] are disjoint ascending ranges of seqnos that DCP   *)
(* skipped.                                                                *)
GapRanges(list_1, list_2) ==
  /\ Len(list_1) = Len(list_2)
  /\ \A i \in DOMAIN list_1 :
       /\ list_1[i] <= list_2[i]
       /\ list_2[i] < last_seen_seqno
       /\ \A s \in Streamed : s < list_1[i] \/ list_2[i] < s
  /\ \A i, j \in DOMAIN list_1 : i < j => list_2[i] < list_1[j]

GapsOK == GapRanges(gap_list_1, gap_list_2) /\ GapRanges(snap_gap_1, snap_gap_2)

(* The copies account for every streamed seqno that the walk has passed.   *)
ScanOK ==
  /\ pc = "idle" => iter_seqno = 0 /\ found_seqno = 0
  /\ pc \in {"filtered", "failedCR", "gap"} => iter_seqno = through_seqno /\ found_seqno = 0
  /\ pc # "idle" => through_seqno <= iter_seqno
  /\ found_seqno # 0 =>
       /\ found_seqno \in reported
       /\ through_seqno < found_seqno
       /\ found_seqno <= iter_seqno
  /\ iter_seqno <= through_seqno \/ iter_seqno \in Streamed \/ iter_seqno < last_seen_seqno
  /\ \A s \in Streamed : through_seqno < s /\ s <= iter_seqno =>
       s \in Range(snap_sent) \union Range(snap_filtered) \union Range(snap_failed_cr)

(* What a pending truncation of sent_list relies on: the seqnos it is to   *)
(* remove come first, though the rest of the list need not be sorted.      *)
TruncationsOK ==
  /\ \A x \in Seqno : truncating[x] # 0 => x \in reported /\ x <= through_seqno
  /\ \A x \in Seqno : truncating[x] = 1 =>
       \A i, j \in DOMAIN sent_list : i < j /\ sent_list[j] <= x => sent_list[i] <= x
  /\ pc # "idle" =>
       \A i, j \in DOMAIN sent_list : i < j /\ sent_list[j] < sent_list[i] =>
         sent_list[j] > through_seqno /\ sent_list[j] \notin Range(snap_sent)

(* All of it, with the properties it is there to prove.                    *)
IInv ==
  /\ TypeOK
  /\ ReportsOK
  /\ ListsOK
  /\ GapsOK
  /\ ScanOK
  /\ TruncationsOK
  /\ NothingSkipped
  /\ NeverAGap
  /\ NothingForgotten
  /\ NoPanic
=============================================================================
