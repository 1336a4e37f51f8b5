---------------------- MODULE ThroughSeqnoTracker_proofs ----------------------
(***************************************************************************)
(* Proofs about the through-seqno tracker, for every MaxSeqno.             *)
(***************************************************************************)
EXTENDS ThroughSeqnoTracker, SequenceTheorems, TLAPS

-----------------------------------------------------------------------------
(***************************************************************************)
(* What the list helpers do.                                               *)
(***************************************************************************)

(* A list of seqnos is a function on 1..Len(list) into the naturals.       *)
LEMMA ListFacts ==
  ASSUME NEW list \in SeqnoList
  PROVE  /\ Len(list) \in Nat
         /\ DOMAIN list = 1..Len(list)
         /\ \A i \in DOMAIN list : list[i] \in Seqno
         /\ \A i \in DOMAIN list : list[i] \in Nat /\ list[i] > 0
<1>1. Len(list) \in Nat /\ DOMAIN list = 1..Len(list)
  BY DEF SeqnoList
<1>2. \A i \in DOMAIN list : list[i] \in Seqno
  BY DEF SeqnoList
<1>3. \A s \in Seqno : s \in Nat /\ s > 0
  BY MaxSeqnoAssumption DEF Seqno
<1> QED
  BY <1>1, <1>2, <1>3

(* Appending keeps the elements at their places and adds one at the end.   *)
LEMMA AppendFacts ==
  ASSUME NEW list \in SeqnoList, NEW s \in Seqno
  PROVE  /\ Append(list, s) \in SeqnoList
         /\ DOMAIN Append(list, s) = 1..(Len(list) + 1)
         /\ Len(Append(list, s)) = Len(list) + 1
         /\ \A i \in DOMAIN list : i \in DOMAIN Append(list, s) /\ Append(list, s)[i] = list[i]
         /\ Append(list, s)[Len(list) + 1] = s
         /\ \A i \in DOMAIN Append(list, s) : i \in DOMAIN list \/ i = Len(list) + 1
BY DEF SeqnoList

(* getSortedSeqnoList(true): the same elements, in ascending order.        *)
LEMMA SortFacts ==
  ASSUME NEW list \in SeqnoList, NEW l \in SortUint64List(list)
  PROVE  /\ l \in SeqnoList
         /\ Len(l) = Len(list)
         /\ Range(l) = Range(list)
         /\ \A i, j \in DOMAIN l : i < j => l[i] <= l[j]
<1>1. PICK p \in Bijection(DOMAIN list, DOMAIN list) :
        /\ l = [i \in DOMAIN list |-> list[p[i]]]
        /\ \A i, j \in DOMAIN list : i < j => list[p[i]] <= list[p[j]]
  BY DEF SortUint64List
<1>2. /\ p \in [DOMAIN list -> DOMAIN list]
      /\ \A t \in DOMAIN list : \E s \in DOMAIN list : p[s] = t
  BY DEF Bijection, Injection, Surjection
<1>3. DOMAIN l = DOMAIN list /\ DOMAIN list = 1..Len(list) /\ Len(list) \in Nat
  BY <1>1 DEF SeqnoList
<1>4. \A i \in DOMAIN list : list[i] \in Seqno
  BY DEF SeqnoList
<1>5. l \in [1..Len(list) -> Seqno]
  BY <1>1, <1>2, <1>3, <1>4
<1>6. l \in SeqnoList /\ Len(l) = Len(list)
  BY <1>3, <1>5 DEF SeqnoList
<1>7. Range(l) = Range(list)
  BY <1>1, <1>2, <1>3 DEF Range
<1> QED
  BY <1>1, <1>3, <1>6, <1>7

(* Slicing off the first k elements shifts the others down.                *)
LEMMA SuffixFacts ==
  ASSUME NEW S, NEW list \in Seq(S), NEW k \in Nat, k <= Len(list)
  PROVE  /\ SubSeq(list, k + 1, Len(list)) \in Seq(S)
         /\ Len(SubSeq(list, k + 1, Len(list))) = Len(list) - k
         /\ \A i \in 1..(Len(list) - k) :
              /\ i + k \in 1..Len(list)
              /\ SubSeq(list, k + 1, Len(list))[i] = list[i + k]
BY SMT

(* truncateSeqnos: a prefix goes, and its last element is no larger than   *)
(* the seqno the list was truncated at.                                    *)
LEMMA TruncateFacts ==
  ASSUME NEW list \in SeqnoList, NEW x \in Seqno, NEW l \in Truncated(list, x)
  PROVE  \E k \in Nat :
           /\ k <= Len(list)
           /\ l \in SeqnoList
           /\ Len(l) = Len(list) - k
           /\ \A i \in DOMAIN l : i + k \in DOMAIN list /\ l[i] = list[i + k]
           /\ k > 0 => list[k] <= x
<1>1. PICK i \in SearchIndexes(list, x) :
        l = SubSeq(list, IF Found(list, x, i) THEN i + 1 ELSE i, Len(list))
  BY DEF Truncated
<1>2. Len(list) \in Nat /\ DOMAIN list = 1..Len(list) /\ \A j \in DOMAIN list : list[j] \in Nat
  BY ListFacts
<1>3. i \in 1..(Len(list) + 1) /\ (i > 1 => list[i - 1] < x)
  BY DEF SearchIndexes
<1> DEFINE k == IF Found(list, x, i) THEN i ELSE i - 1
<1>4. k \in Nat /\ k <= Len(list) /\ (k > 0 => list[k] <= x) /\ l = SubSeq(list, k + 1, Len(list))
  BY <1>1, <1>2, <1>3 DEF Found, Seqno
<1> HIDE DEF k
<1>5. /\ l \in Seq(Seqno)
      /\ Len(l) = Len(list) - k
      /\ \A j \in 1..(Len(list) - k) : j + k \in 1..Len(list) /\ l[j] = list[j + k]
  BY <1>4, SuffixFacts DEF SeqnoList
<1>6. DOMAIN l = 1..(Len(list) - k)
  BY <1>5
<1> QED
  BY <1>2, <1>4, <1>5, <1>6 DEF SeqnoList

-----------------------------------------------------------------------------
(***************************************************************************)
(* The inductive invariant holds initially and every action preserves it.  *)
(***************************************************************************)

(* A new tracker's lists are empty.                                        *)
LEMMA InitIInv == Init => IInv
<1> SUFFICES ASSUME Init PROVE IInv
  OBVIOUS
<1> USE MaxSeqnoAssumption DEF Init, FlowInit
<1>1. <<>> \in SeqnoList /\ DOMAIN <<>> = {} /\ Len(<<>>) = 0
  BY DEF SeqnoList
<1>2. TypeOK
  <2>1. FlowTypeOK /\ truncating \in [Seqno -> 0..4]
    BY DEF FlowTypeOK, Outcomes
  <2>2. 0 \in 0..MaxSeqno
    OBVIOUS
  <2> QED
    BY <1>1, <2>1, <2>2 DEF TypeOK
<1>3. Streamed = {}
  BY DEF Streamed
<1>4. ReportsOK /\ ScanOK /\ NothingSkipped /\ NeverAGap /\ NoPanic
  BY <1>3 DEF ReportsOK, ScanOK, NothingSkipped, NeverAGap, NoPanic
<1>5. ListsOK
  BY <1>1 DEF ListsOK, Holds, Ascending
<1>6. GapsOK
  BY <1>1 DEF GapsOK, GapRanges
<1>7. TruncationsOK
  BY <1>1 DEF TruncationsOK
<1>8. NothingForgotten
  BY DEF NothingForgotten, Seqno
<1> QED
  BY <1>2, <1>4, <1>5, <1>6, <1>7, <1>8 DEF IInv

(* SetStartSeqno runs before the stream opens, when nothing is reported.   *)
LEMMA SetStartSeqnoStep ==
  ASSUME IInv, NEW n \in 0..MaxSeqno, SetStartSeqno(n)
  PROVE  IInv'
<1> USE MaxSeqnoAssumption DEF IInv, SetStartSeqno, StartAt, lists, snaps, scan
<1>1. Streamed = {} /\ Streamed' = {} /\ reported = {}
  BY DEF Streamed, ReportsOK, Reportable, TypeOK
<1>2. TypeOK'
  BY DEF TypeOK, FlowTypeOK
<1>3. ReportsOK' /\ NothingSkipped' /\ NeverAGap' /\ NoPanic'
  BY <1>1 DEF ReportsOK, NothingSkipped, NeverAGap, NoPanic
<1>4. ListsOK'
  BY DEF ListsOK, Holds, Ascending
<1>5. GapsOK'
  BY <1>1 DEF GapsOK, GapRanges
<1>6. ScanOK'
  BY <1>1 DEF ScanOK, TypeOK
<1>7. TruncationsOK'
  BY <1>1 DEF TruncationsOK
<1>8. NothingForgotten'
  BY <1>1 DEF NothingForgotten, ReportsOK, Seqno, TypeOK
<1> QED
  BY <1>2, <1>3, <1>4, <1>5, <1>6, <1>7, <1>8

(* The data path changes the outcome of unreported mutations only, and     *)
(* what DCP streams next comes after everything it streamed before.        *)
LEMMA FlowFacts ==
  ASSUME IInv, FlowStep
  PROVE  /\ outcome' \in [Seqno -> Outcomes]
         /\ \A t \in reported : outcome'[t] = outcome[t]
         /\ Streamed \subseteq Streamed'
         /\ \A t \in Streamed' \ Streamed : t > start_seqno /\ \A u \in Streamed : u < t
         /\ \A s \in Seqno, t \in reported :
              s < t /\ outcome'[s] = outcome'[t] /\ outcome'[t] # "sent" => s \in reported
<1>1. /\ outcome \in [Seqno -> Outcomes]
      /\ reported \subseteq Seqno
      /\ \A t \in reported : outcome[t] \in Reportable
      /\ \A s \in Seqno, t \in reported :
           s < t /\ outcome[s] = outcome[t] /\ outcome[t] # "sent" => s \in reported
      /\ \A t \in Seqno : t \in Nat
  BY MaxSeqnoAssumption DEF IInv, TypeOK, FlowTypeOK, ReportsOK, Seqno
<1>2. PICK s \in Seqno :
        \/ \E verdict \in {"nozzle", "filtered", "unableToFilter"} : Receive(s, verdict)
        \/ FailCR(s)
        \/ Confirm(s)
  BY DEF FlowStep
<1>3. CASE \E verdict \in {"nozzle", "filtered", "unableToFilter"} : Receive(s, verdict)
  <2>1. PICK verdict \in {"nozzle", "filtered", "unableToFilter"} : Receive(s, verdict)
    BY <1>3
  <2>2. /\ s > start_seqno
        /\ \A t \in Streamed : t < s
        /\ outcome' = [outcome EXCEPT ![s] = verdict]
    BY <2>1 DEF Receive
  <2>3. s \notin Streamed /\ s \notin reported
    BY <1>1, <2>2 DEF Streamed, Reportable
  <2>4. outcome' \in [Seqno -> Outcomes]
    BY <1>1, <2>2 DEF Outcomes
  <2>5. Streamed' = Streamed \union {s}
    BY <1>1, <2>2 DEF Streamed
  <2>6. \A t \in reported : outcome'[t] = outcome[t] /\ t < s
    BY <1>1, <2>2, <2>3 DEF Streamed, Reportable
  <2> QED
    BY <1>1, <2>2, <2>3, <2>4, <2>5, <2>6
<1>4. CASE FailCR(s) \/ Confirm(s)
  <2>1. PICK o \in {"failedCR", "sent"} :
          /\ outcome' = [outcome EXCEPT ![s] = o]
          /\ outcome[s] = "nozzle"
          /\ o = "failedCR" => \A t \in Seqno : t > s => outcome[t] # "failedCR"
    BY <1>4 DEF FailCR, Confirm
  <2>2. s \notin reported
    BY <1>1, <2>1 DEF Reportable
  <2>3. outcome' \in [Seqno -> Outcomes]
    BY <1>1, <2>1 DEF Outcomes
  <2>4. Streamed' = Streamed
    BY <1>1, <2>1 DEF Streamed
  <2>5. \A t \in reported : outcome'[t] = outcome[t]
    BY <1>1, <2>1, <2>2
  <2>6. ASSUME NEW u \in Seqno, NEW t \in reported,
               u < t, outcome'[u] = outcome'[t], outcome'[t] # "sent"
        PROVE  u \in reported
    <3>1. CASE u = s
      BY <1>1, <2>1, <2>5, <2>6, <3>1
    <3>2. CASE u # s
      BY <1>1, <2>1, <2>5, <2>6, <3>2
    <3> QED
      BY <3>1, <3>2
  <2> QED
    BY <2>3, <2>4, <2>5, <2>6
<1> QED
  BY <1>2, <1>3, <1>4

(* The data path leaves the tracker alone; what DCP streams next is above  *)
(* the through seqno, above the walk and above every gap range.            *)
LEMMA FlowPreserves ==
  ASSUME IInv, Flow
  PROVE  IInv'
<1> USE DEF lists, snaps, scan
<1>1. FlowStep /\ start_seqno' = start_seqno
  BY DEF Flow, FlowStep, Receive, FailCR, Confirm
<1>2. /\ outcome' \in [Seqno -> Outcomes]
      /\ \A t \in reported : outcome'[t] = outcome[t]
      /\ Streamed \subseteq Streamed'
      /\ \A t \in Streamed' \ Streamed : t > start_seqno /\ \A u \in Streamed : u < t
      /\ \A s \in Seqno, t \in reported :
           s < t /\ outcome'[s] = outcome'[t] /\ outcome'[t] # "sent" => s \in reported
  BY <1>1, FlowFacts
<1>3. reported \subseteq Streamed
  BY DEF IInv, TypeOK, ReportsOK, Reportable, Streamed
<1>4. /\ \A s \in Seqno : s \in Nat
      /\ through_seqno \in Nat /\ start_seqno \in Nat /\ last_seen_seqno \in Nat
      /\ iter_seqno \in Nat
      /\ Streamed' \subseteq Seqno
  BY MaxSeqnoAssumption DEF IInv, TypeOK, FlowTypeOK, Seqno, Streamed
<1>5. \A t \in Streamed' \ Streamed : t > through_seqno /\ t > last_seen_seqno /\ t > iter_seqno
  BY <1>2, <1>3, <1>4 DEF IInv, ReportsOK, NeverAGap, ScanOK
<1>6. TypeOK'
  BY <1>1, <1>2 DEF IInv, TypeOK, FlowTypeOK, Flow
<1>7. ReportsOK'
  BY <1>1, <1>2 DEF IInv, ReportsOK, Flow
<1>8. ListsOK'
  BY <1>2 DEF IInv, ListsOK, Holds, Ascending, Flow
<1>9. GapsOK'
  <2>1. ASSUME NEW l1 \in SeqnoList, NEW l2 \in SeqnoList, GapRanges(l1, l2)
        PROVE  GapRanges(l1, l2)'
    <3>1. \A i \in DOMAIN l1 : l1[i] \in Nat /\ i \in DOMAIN l2 /\ l2[i] \in Nat
      BY <2>1, ListFacts DEF GapRanges
    <3> QED
      BY <1>4, <1>5, <2>1, <3>1 DEF GapRanges, Flow
  <2> QED
    BY <2>1 DEF IInv, GapsOK, TypeOK, Flow
<1>10. ScanOK'
  BY <1>2, <1>4, <1>5 DEF IInv, ScanOK, Flow
<1>11. TruncationsOK'
  BY DEF IInv, TruncationsOK, Flow
<1>12. NothingSkipped' /\ NeverAGap' /\ NoPanic'
  BY <1>1, <1>4, <1>5 DEF IInv, NothingSkipped, NeverAGap, NoPanic, Flow
<1>13. NothingForgotten'
  BY <1>2 DEF IInv, NothingForgotten, Flow
<1> QED
  BY <1>6, <1>7, <1>8, <1>9, <1>10, <1>11, <1>12, <1>13 DEF IInv

(* The simple consequences of the invariant that most steps use.           *)
LEMMA Basics ==
  ASSUME IInv
  PROVE  /\ \A s \in Seqno : s \in Nat /\ s > 0
         /\ through_seqno \in Nat /\ last_seen_seqno \in Nat /\ iter_seqno \in Nat
         /\ found_seqno \in Nat
         /\ reported \subseteq Streamed /\ Streamed \subseteq Seqno
BY MaxSeqnoAssumption DEF IInv, TypeOK, FlowTypeOK, Seqno, ReportsOK, Reportable, Streamed

(* DataReceived(s): everything between the last seen seqno and s was       *)
(* skipped by DCP, and the new range comes after the recorded ones.        *)
LEMMA ProcessGapSeqnosStep ==
  ASSUME IInv, NEW s \in Seqno, processGapSeqnos(s)
  PROVE  IInv'
<1> USE DEF lists, snaps, scan, flowVars
<1> DEFINE last == IF last_seen_seqno = 0 THEN through_seqno ELSE last_seen_seqno
<1>1. /\ s \in Streamed
      /\ s > last_seen_seqno
      /\ \A t \in Streamed : t > last_seen_seqno => s <= t
      /\ last_seen_seqno' = s
      /\ IF last + 1 < s
           THEN /\ gap_list_1' = Append(gap_list_1, last + 1)
                /\ gap_list_2' = Append(gap_list_2, s - 1)
           ELSE UNCHANGED <<gap_list_1, gap_list_2>>
      /\ UNCHANGED <<outcome, start_seqno, reported, through_seqno, sent_list, filtered_list,
                     failed_cr_list, pc, snaps, scan, truncating, panicked>>
  BY DEF processGapSeqnos
<1>2. /\ \A t \in Seqno : t \in Nat /\ t > 0
      /\ through_seqno \in Nat /\ last_seen_seqno \in Nat /\ iter_seqno \in Nat
      /\ Streamed \subseteq Seqno
  BY Basics
<1>3. Streamed' = Streamed
  BY <1>1 DEF Streamed
<1>4. gap_list_1 \in SeqnoList /\ gap_list_2 \in SeqnoList
  BY DEF IInv, TypeOK
<1>5. last + 1 < s => last + 1 \in Seqno /\ s - 1 \in Seqno
  BY <1>2, MaxSeqnoAssumption DEF Seqno
<1>a. ASSUME last + 1 < s
      PROVE  /\ gap_list_1' \in SeqnoList
             /\ Len(gap_list_1') = Len(gap_list_1) + 1
             /\ DOMAIN gap_list_1' = 1..(Len(gap_list_1) + 1)
             /\ \A i \in DOMAIN gap_list_1 :
                  i \in DOMAIN gap_list_1' /\ gap_list_1'[i] = gap_list_1[i]
             /\ gap_list_1'[Len(gap_list_1) + 1] = last + 1
  <2>1. last + 1 \in Seqno /\ gap_list_1' = Append(gap_list_1, last + 1)
    BY <1>1, <1>5, <1>a
  <2> HIDE DEF last
  <2> QED
    BY <1>4, <2>1, AppendFacts
<1>b. ASSUME last + 1 < s
      PROVE  /\ gap_list_2' \in SeqnoList
             /\ Len(gap_list_2') = Len(gap_list_2) + 1
             /\ \A i \in DOMAIN gap_list_2 : gap_list_2'[i] = gap_list_2[i]
             /\ gap_list_2'[Len(gap_list_2) + 1] = s - 1
  <2>1. s - 1 \in Seqno /\ gap_list_2' = Append(gap_list_2, s - 1)
    BY <1>1, <1>5, <1>b
  <2> QED
    BY <1>4, <2>1, AppendFacts
<1>6. TypeOK'
  <2>1. gap_list_1' \in SeqnoList /\ gap_list_2' \in SeqnoList
    BY <1>1, <1>4, <1>a, <1>b
  <2>2. s \in 0..MaxSeqno
    BY DEF Seqno
  <2> QED
    BY <1>1, <2>1, <2>2 DEF IInv, TypeOK, FlowTypeOK
<1>7. ReportsOK' /\ ListsOK' /\ TruncationsOK' /\ NothingSkipped' /\ NeverAGap' /\ NoPanic'
  BY <1>1, <1>3 DEF IInv, ReportsOK, ListsOK, Holds, Ascending, TruncationsOK, NothingSkipped,
                    NeverAGap, NoPanic
<1>8. ScanOK'
  BY <1>1, <1>2, <1>3 DEF IInv, ScanOK
<1>9. \A t \in Streamed : t <= last_seen_seqno \/ s <= t
  BY <1>1, <1>2
<1>10. GapsOK'
  <2>1. ASSUME NEW l1 \in SeqnoList, NEW l2 \in SeqnoList, GapRanges(l1, l2)
        PROVE  GapRanges(l1, l2)'
    <3>1. \A i \in DOMAIN l1 : i \in DOMAIN l2 /\ l2[i] \in Nat
      BY <2>1, ListFacts DEF GapRanges
    <3> QED
      BY <1>1, <1>2, <1>3, <2>1, <3>1 DEF GapRanges
  <2>2. GapRanges(snap_gap_1, snap_gap_2)'
    BY <1>1, <2>1 DEF IInv, GapsOK, TypeOK
  <2>3. GapRanges(gap_list_1, gap_list_2)'
    <3>1. CASE ~(last + 1 < s)
      BY <1>1, <1>4, <2>1, <3>1 DEF IInv, GapsOK
    <3>2. CASE last + 1 < s
      <4> DEFINE n == Len(gap_list_1)
      <4>1. /\ n \in Nat
            /\ n = Len(gap_list_2)
            /\ DOMAIN gap_list_1 = 1..n
            /\ DOMAIN gap_list_2 = 1..n
            /\ \A i \in 1..n : gap_list_1[i] \in Nat /\ gap_list_2[i] \in Nat /\ gap_list_2[i] > 0
        BY <1>4, ListFacts DEF IInv, GapsOK, GapRanges
      <4>2. /\ Len(gap_list_1') = n + 1
            /\ Len(gap_list_2') = n + 1
            /\ DOMAIN gap_list_1' = 1..(n + 1)
            /\ gap_list_1'[n + 1] = last + 1
            /\ gap_list_2'[n + 1] = s - 1
            /\ \A i \in 1..n : gap_list_1'[i] = gap_list_1[i] /\ gap_list_2'[i] = gap_list_2[i]
        BY <1>a, <1>b, <3>2, <4>1
      <4> HIDE DEF n
      <4>3. \A i \in 1..(n + 1) : i \in 1..n \/ i = n + 1
        BY <4>1
      <4>4. \A i \in 1..n :
              /\ gap_list_1[i] <= gap_list_2[i]
              /\ gap_list_2[i] < last_seen_seqno
              /\ \A t \in Streamed : t < gap_list_1[i] \/ gap_list_2[i] < t
        BY <4>1 DEF IInv, GapsOK, GapRanges
      <4>5. \A i, j \in 1..n : i < j => gap_list_2[i] < gap_list_1[j]
        BY <4>1 DEF IInv, GapsOK, GapRanges
      <4>6. last \in Nat /\ last_seen_seqno <= last /\ s \in Nat
        BY <1>2
      <4>7. \A t \in Streamed : t < last + 1 \/ s - 1 < t
        BY <1>2, <1>9, <4>6
      <4>8. \A i \in 1..n : gap_list_2[i] < last + 1 /\ gap_list_2[i] < s
        BY <1>1, <1>2, <4>1, <4>4, <4>6
      <4> HIDE DEF last
      <4>9. \A i \in DOMAIN gap_list_1' :
              /\ gap_list_1'[i] <= gap_list_2'[i]
              /\ gap_list_2'[i] < s
              /\ \A t \in Streamed : t < gap_list_1'[i] \/ gap_list_2'[i] < t
        BY <3>2, <4>2, <4>3, <4>4, <4>6, <4>7, <4>8
      <4>10. \A i, j \in DOMAIN gap_list_1' : i < j => gap_list_2'[i] < gap_list_1'[j]
        BY <4>1, <4>2, <4>3, <4>5, <4>8
      <4> QED
        BY <1>1, <1>3, <4>2, <4>9, <4>10 DEF GapRanges
    <3> QED
      BY <3>1, <3>2
  <2> QED
    BY <2>2, <2>3 DEF GapsOK
<1>11. NothingForgotten'
  <2>1. ASSUME NEW t \in Seqno \ Streamed, through_seqno < t, t < s
        PROVE  \E i \in DOMAIN gap_list_1' : gap_list_1'[i] <= t /\ t <= gap_list_2'[i]
    <3>1. CASE t < last_seen_seqno
      <4>1. PICK i \in DOMAIN gap_list_1 : gap_list_1[i] <= t /\ t <= gap_list_2[i]
        BY <2>1, <3>1 DEF IInv, NothingForgotten
      <4>2. i \in DOMAIN gap_list_2
        BY <1>4, ListFacts DEF IInv, GapsOK, GapRanges
      <4> QED
        BY <1>1, <1>a, <1>b, <4>1, <4>2
    <3>2. CASE ~(t < last_seen_seqno)
      <4>1. last + 1 <= t /\ t <= s - 1
        BY <1>2, <2>1, <3>2 DEF IInv, ReportsOK
      <4>2. last + 1 <= t /\ t <= s - 1 /\ last + 1 < s
        BY <1>2, <4>1
      <4>3. Len(gap_list_1) = Len(gap_list_2)
        BY DEF IInv, GapsOK, GapRanges
      <4>4. /\ Len(gap_list_1) + 1 \in DOMAIN gap_list_1'
            /\ gap_list_1'[Len(gap_list_1) + 1] = last + 1
            /\ gap_list_2'[Len(gap_list_1) + 1] = s - 1
        <5>1. Len(gap_list_1) \in Nat
          BY <1>4, ListFacts
        <5> QED
          BY <1>a, <1>b, <4>2, <4>3, <5>1
      <4> QED
        BY <4>2, <4>4
    <3> QED
      BY <3>1, <3>2
  <2> QED
    BY <1>1, <1>3, <2>1 DEF IInv, NothingForgotten
<1> QED
  BY <1>6, <1>7, <1>8, <1>10, <1>11 DEF IInv

(* An outcome event is for a mutation above the through seqno, and events  *)
(* of DataFiltered and DataFailedCRSource come in ascending order.         *)
LEMMA NextEventFacts ==
  ASSUME IInv, NEW s \in Seqno, NextEvent(s), UNCHANGED <<outcome, start_seqno, last_seen_seqno>>
  PROVE  /\ s \notin reported
         /\ s > through_seqno
         /\ reported' = reported \union {s}
         /\ reported' \subseteq Seqno
         /\ Streamed' = Streamed
         /\ ReportsOK'
         /\ outcome[s] # "sent" => \A t \in reported : outcome[t] = outcome[s] => t < s
<1>1. /\ \A t \in Seqno : t \in Nat
      /\ through_seqno \in Nat
      /\ reported \subseteq Streamed /\ Streamed \subseteq Seqno
  BY Basics
<1>2. /\ outcome[s] \in Reportable
      /\ s \notin reported
      /\ outcome[s] # "sent" =>
           \A t \in Seqno : t < s /\ outcome[t] = outcome[s] => t \in reported
      /\ reported' = reported \union {s}
  BY DEF NextEvent
<1>3. s \in Streamed /\ Streamed' = Streamed
  BY <1>2 DEF Streamed, Reportable
<1>4. s > through_seqno
  BY <1>1, <1>2, <1>3 DEF IInv, NothingSkipped
<1>5. ReportsOK'
  BY <1>2, <1>3 DEF IInv, ReportsOK
<1>6. outcome[s] # "sent" => \A t \in reported : outcome[t] = outcome[s] => t < s
  BY <1>1, <1>2 DEF IInv, ReportsOK
<1> QED
  BY <1>1, <1>2, <1>3, <1>4, <1>5, <1>6

(* DataSent(s): s goes to the end of the list, which need not be its place *)
(* in the order; it is above every pending truncation.                     *)
LEMMA AddSentStep ==
  ASSUME IInv, NEW s \in Seqno, addSentSeqno(s)
  PROVE  IInv'
<1> USE DEF lists, snaps, scan, flowVars
<1>1. /\ outcome[s] = "sent"
      /\ sent_list' = Append(sent_list, s)
      /\ UNCHANGED <<outcome, start_seqno, last_seen_seqno, through_seqno, filtered_list,
                     failed_cr_list, gap_list_1, gap_list_2, pc, snaps, scan, truncating, panicked>>
  BY DEF addSentSeqno
<1>2. /\ s \notin reported
      /\ s > through_seqno
      /\ reported' = reported \union {s}
      /\ reported' \subseteq Seqno
      /\ Streamed' = Streamed
      /\ ReportsOK'
  BY <1>1, NextEventFacts DEF addSentSeqno
<1>3. sent_list \in SeqnoList
  BY DEF IInv, TypeOK
<1> DEFINE n == Len(sent_list)
<1>4. /\ sent_list' \in SeqnoList
      /\ DOMAIN sent_list' = 1..(n + 1)
      /\ \A i \in 1..n : sent_list'[i] = sent_list[i]
      /\ sent_list'[n + 1] = s
      /\ n \in Nat
      /\ DOMAIN sent_list = 1..n
      /\ \A i \in 1..n : sent_list[i] \in Nat
  BY <1>1, <1>3, AppendFacts, ListFacts
<1> HIDE DEF n
<1>5. \A i \in 1..(n + 1) : i \in 1..n \/ i = n + 1
  BY <1>4
<1>6. TypeOK'
  BY <1>1, <1>2, <1>4 DEF IInv, TypeOK, FlowTypeOK
<1>7. ListsOK'
  <2>1. Holds(sent_list, "sent")'
    BY <1>1, <1>2, <1>4, <1>5 DEF IInv, ListsOK, Holds
  <2> QED
    BY <1>1, <1>2, <2>1 DEF IInv, ListsOK, Holds, Ascending
<1>8. GapsOK' /\ NothingSkipped' /\ NeverAGap' /\ NoPanic' /\ ScanOK'
  BY <1>1, <1>2 DEF IInv, GapsOK, GapRanges, NothingSkipped, NeverAGap, NoPanic, ScanOK
<1>9. TruncationsOK'
  <2>1. \A x \in Seqno : truncating[x] # 0 => x \in reported /\ x <= through_seqno /\ x < s
    <3>1. through_seqno \in Nat /\ \A x \in Seqno : x \in Nat
      BY Basics
    <3> QED
      BY <1>2, <3>1 DEF IInv, TruncationsOK
  <2>2. ASSUME NEW x \in Seqno, truncating[x] = 1,
               NEW i \in 1..(n + 1), NEW j \in 1..(n + 1), i < j, sent_list'[j] <= x
        PROVE  sent_list'[i] <= x
    <3>1. j \in 1..n /\ i \in 1..n
      <4>1. x \in Nat /\ s \in Nat /\ x < s
        BY <2>1, <2>2, Basics
      <4> QED
        BY <1>4, <1>5, <2>2, <4>1
    <3> QED
      BY <1>4, <2>2, <3>1 DEF IInv, TruncationsOK
  <2>3. s \notin Range(snap_sent)
    BY <1>2 DEF IInv, ListsOK, Holds, Range
  <2>4. ASSUME pc # "idle",
               NEW i \in 1..(n + 1), NEW j \in 1..(n + 1), i < j, sent_list'[j] < sent_list'[i]
        PROVE  sent_list'[j] > through_seqno /\ sent_list'[j] \notin Range(snap_sent)
    <3>1. CASE j = n + 1
      BY <1>2, <1>4, <2>3, <3>1
    <3>2. CASE j \in 1..n
      <4>1. i \in 1..n
        BY <1>4, <2>4, <3>2
      <4> QED
        BY <1>4, <2>4, <3>2, <4>1 DEF IInv, TruncationsOK
    <3> QED
      BY <1>5, <3>1, <3>2
  <2> QED
    BY <1>1, <1>2, <1>4, <2>1, <2>2, <2>4 DEF TruncationsOK
<1>10. NothingForgotten'
  <2>1. s \in Range(sent_list') /\ Range(sent_list) \subseteq Range(sent_list')
    BY <1>4, <1>5 DEF Range
  <2> QED
    BY <1>1, <1>2, <2>1 DEF IInv, NothingForgotten
<1> QED
  BY <1>2, <1>6, <1>7, <1>8, <1>9, <1>10 DEF IInv

(* DataFiltered(s): s is the largest of its kind, so the list stays sorted.  *)
LEMMA AddFilteredStep ==
  ASSUME IInv, NEW s \in Seqno, addFilteredSeqno(s)
  PROVE  IInv'
<1> USE DEF lists, snaps, scan, flowVars
<1>1. /\ outcome[s] = "filtered"
      /\ filtered_list' = Append(filtered_list, s)
      /\ UNCHANGED <<outcome, start_seqno, last_seen_seqno, through_seqno, sent_list,
                     failed_cr_list, gap_list_1, gap_list_2, pc, snaps, scan, truncating, panicked>>
  BY DEF addFilteredSeqno
<1>2. /\ s \notin reported
      /\ s > through_seqno
      /\ reported' = reported \union {s}
      /\ reported' \subseteq Seqno
      /\ Streamed' = Streamed
      /\ ReportsOK'
      /\ \A t \in reported : outcome[t] = "filtered" => t < s
  BY <1>1, NextEventFacts DEF addFilteredSeqno
<1>3. filtered_list \in SeqnoList
  BY DEF IInv, TypeOK
<1> DEFINE n == Len(filtered_list)
<1>4. /\ filtered_list' \in SeqnoList
      /\ DOMAIN filtered_list' = 1..(n + 1)
      /\ \A i \in 1..n : filtered_list'[i] = filtered_list[i]
      /\ filtered_list'[n + 1] = s
      /\ n \in Nat
      /\ DOMAIN filtered_list = 1..n
      /\ \A i \in 1..n : filtered_list[i] \in Nat
  BY <1>1, <1>3, AppendFacts, ListFacts
<1> HIDE DEF n
<1>5. \A i \in 1..(n + 1) : i \in 1..n \/ i = n + 1
  BY <1>4
<1>6. TypeOK'
  BY <1>1, <1>2, <1>4 DEF IInv, TypeOK, FlowTypeOK
<1>7. ListsOK'
  <2>1. Holds(filtered_list, "filtered")'
    BY <1>1, <1>2, <1>4, <1>5 DEF IInv, ListsOK, Holds
  <2>2. \A i \in 1..n : filtered_list[i] < s
    BY <1>2, <1>4 DEF IInv, ListsOK, Holds
  <2>3. Ascending(filtered_list)'
    BY <1>4, <1>5, <2>2 DEF IInv, ListsOK, Ascending
  <2> QED
    BY <1>1, <1>2, <2>1, <2>3 DEF IInv, ListsOK, Holds, Ascending
<1>8. GapsOK' /\ NothingSkipped' /\ NeverAGap' /\ NoPanic' /\ ScanOK' /\ TruncationsOK'
  BY <1>1, <1>2 DEF IInv, GapsOK, GapRanges, NothingSkipped, NeverAGap, NoPanic, ScanOK,
                    TruncationsOK
<1>9. NothingForgotten'
  <2>1. s \in Range(filtered_list') /\ Range(filtered_list) \subseteq Range(filtered_list')
    BY <1>4, <1>5 DEF Range
  <2> QED
    BY <1>1, <1>2, <2>1 DEF IInv, NothingForgotten
<1> QED
  BY <1>2, <1>6, <1>7, <1>8, <1>9 DEF IInv

(* DataFailedCRSource(s): s is the largest of its kind, so the list stays sorted.  *)
LEMMA AddFailedCRStep ==
  ASSUME IInv, NEW s \in Seqno, addFailedCRSeqno(s)
  PROVE  IInv'
<1> USE DEF lists, snaps, scan, flowVars
<1>1. /\ outcome[s] = "failedCR"
      /\ failed_cr_list' = Append(failed_cr_list, s)
      /\ UNCHANGED <<outcome, start_seqno, last_seen_seqno, through_seqno, sent_list,
                     filtered_list, gap_list_1, gap_list_2, pc, snaps, scan, truncating, panicked>>
  BY DEF addFailedCRSeqno
<1>2. /\ s \notin reported
      /\ s > through_seqno
      /\ reported' = reported \union {s}
      /\ reported' \subseteq Seqno
      /\ Streamed' = Streamed
      /\ ReportsOK'
      /\ \A t \in reported : outcome[t] = "failedCR" => t < s
  BY <1>1, NextEventFacts DEF addFailedCRSeqno
<1>3. failed_cr_list \in SeqnoList
  BY DEF IInv, TypeOK
<1> DEFINE n == Len(failed_cr_list)
<1>4. /\ failed_cr_list' \in SeqnoList
      /\ DOMAIN failed_cr_list' = 1..(n + 1)
      /\ \A i \in 1..n : failed_cr_list'[i] = failed_cr_list[i]
      /\ failed_cr_list'[n + 1] = s
      /\ n \in Nat
      /\ DOMAIN failed_cr_list = 1..n
      /\ \A i \in 1..n : failed_cr_list[i] \in Nat
  BY <1>1, <1>3, AppendFacts, ListFacts
<1> HIDE DEF n
<1>5. \A i \in 1..(n + 1) : i \in 1..n \/ i = n + 1
  BY <1>4
<1>6. TypeOK'
  BY <1>1, <1>2, <1>4 DEF IInv, TypeOK, FlowTypeOK
<1>7. ListsOK'
  <2>1. Holds(failed_cr_list, "failedCR")'
    BY <1>1, <1>2, <1>4, <1>5 DEF IInv, ListsOK, Holds
  <2>2. \A i \in 1..n : failed_cr_list[i] < s
    BY <1>2, <1>4 DEF IInv, ListsOK, Holds
  <2>3. Ascending(failed_cr_list)'
    BY <1>4, <1>5, <2>2 DEF IInv, ListsOK, Ascending
  <2> QED
    BY <1>1, <1>2, <2>1, <2>3 DEF IInv, ListsOK, Holds, Ascending
<1>8. GapsOK' /\ NothingSkipped' /\ NeverAGap' /\ NoPanic' /\ ScanOK' /\ TruncationsOK'
  BY <1>1, <1>2 DEF IInv, GapsOK, GapRanges, NothingSkipped, NeverAGap, NoPanic, ScanOK,
                    TruncationsOK
<1>9. NothingForgotten'
  <2>1. s \in Range(failed_cr_list') /\ Range(failed_cr_list) \subseteq Range(failed_cr_list')
    BY <1>4, <1>5 DEF Range
  <2> QED
    BY <1>1, <1>2, <2>1 DEF IInv, NothingForgotten
<1> QED
  BY <1>2, <1>6, <1>7, <1>8, <1>9 DEF IInv

(* Sorting sent_list in place leaves no inversions for the truncations.    *)
LEMMA ReadSentStep ==
  ASSUME IInv, ReadSent
  PROVE  IInv'
<1> USE DEF lists, snaps, scan, flowVars
<1>1. /\ pc = "idle" /\ pc' = "filtered"
      /\ sent_list' \in SortUint64List(sent_list)
      /\ snap_sent' = sent_list'
      /\ iter_seqno' = through_seqno
      /\ UNCHANGED <<outcome, start_seqno, reported, last_seen_seqno, through_seqno, filtered_list,
                     failed_cr_list, gap_list_1, gap_list_2, snap_filtered, snap_failed_cr,
                     snap_gap_1, snap_gap_2, found_seqno, truncating, panicked>>
  BY DEF ReadSent
<1>2. /\ sent_list \in SeqnoList
      /\ sent_list' \in SeqnoList
      /\ Range(sent_list') = Range(sent_list)
      /\ \A i, j \in DOMAIN sent_list' : i < j => sent_list'[i] <= sent_list'[j]
      /\ \A i \in DOMAIN sent_list' : sent_list'[i] \in Nat
  BY <1>1, SortFacts, ListFacts DEF IInv, TypeOK
<1>3. Streamed' = Streamed
  BY <1>1 DEF Streamed
<1>4. TypeOK'
  BY <1>1, <1>2 DEF IInv, TypeOK, FlowTypeOK
<1>5. ListsOK'
  <2>1. Holds(sent_list, "sent")' /\ Holds(snap_sent, "sent")'
    BY <1>1, <1>2 DEF IInv, ListsOK, Holds, Range
  <2> QED
    BY <1>1, <2>1 DEF IInv, ListsOK, Holds, Ascending
<1>6. ScanOK'
  <2>1. through_seqno \in Nat /\ \A t \in Streamed : t \in Nat
    BY Basics
  <2> QED
    BY <1>1, <1>3, <2>1 DEF IInv, ScanOK
<1>7. TruncationsOK'
  <2>1. \A x \in Seqno : x \in Nat
    BY Basics
  <2> QED
    BY <1>1, <1>2, <2>1 DEF IInv, TruncationsOK
<1>8. ReportsOK' /\ GapsOK' /\ NothingSkipped' /\ NeverAGap' /\ NoPanic' /\ NothingForgotten'
  BY <1>1, <1>2, <1>3 DEF IInv, ReportsOK, GapsOK, GapRanges, NothingSkipped, NeverAGap, NoPanic,
                    NothingForgotten
<1> QED
  BY <1>4, <1>5, <1>6, <1>7, <1>8 DEF IInv

(* Copying the other lists.                                                *)
LEMMA ReadRestStep ==
  ASSUME IInv, ReadFiltered \/ ReadFailedCR \/ ReadGaps
  PROVE  IInv'
<1> USE DEF lists, snaps, scan, flowVars
<1> DEFINE copied ==
      /\ snap_filtered' \in {snap_filtered, filtered_list}
      /\ snap_failed_cr' \in {snap_failed_cr, failed_cr_list}
      /\ \/ snap_gap_1' = snap_gap_1 /\ snap_gap_2' = snap_gap_2
         \/ snap_gap_1' = gap_list_1 /\ snap_gap_2' = gap_list_2
<1>1. /\ pc \in {"filtered", "failedCR", "gap"} /\ pc' \in {"failedCR", "gap", "scan"}
      /\ copied
      /\ UNCHANGED <<outcome, start_seqno, reported, last_seen_seqno, through_seqno, lists,
                     snap_sent, scan, truncating>>
  BY DEF ReadFiltered, ReadFailedCR, ReadGaps
<1>2. ~panicked' /\ panicked' \in BOOLEAN
  <2>1. Len(gap_list_1) = Len(gap_list_2)
    BY DEF IInv, GapsOK, GapRanges
  <2>2. ~panicked /\ panicked \in BOOLEAN
    BY DEF IInv, NoPanic, TypeOK
  <2>3. CASE ReadGaps
    <3>1. panicked' = (Len(gap_list_1) # Len(gap_list_2))
      BY <2>3 DEF ReadGaps
    <3> QED
      BY <2>1, <3>1, Zenon
  <2>4. CASE ReadFiltered \/ ReadFailedCR
    <3>1. panicked' = panicked
      BY <2>4 DEF ReadFiltered, ReadFailedCR
    <3> QED
      BY <2>2, <3>1, Zenon
  <2> QED
    BY <2>3, <2>4
<1>3. Streamed' = Streamed
  BY <1>1 DEF Streamed
<1>4. TypeOK'
  BY <1>1, <1>2 DEF IInv, TypeOK, FlowTypeOK
<1>5. ListsOK'
  BY <1>1 DEF IInv, ListsOK, Holds, Ascending
<1>6. GapsOK'
  <2>1. GapRanges(gap_list_1, gap_list_2)'
    BY <1>1, <1>3 DEF IInv, GapsOK, GapRanges
  <2>2. GapRanges(snap_gap_1, snap_gap_2)'
    BY <1>1, <1>3 DEF IInv, GapsOK, GapRanges
  <2> QED
    BY <2>1, <2>2 DEF GapsOK
<1>7. ScanOK'
  <2>1. through_seqno \in Nat /\ \A t \in Streamed : t \in Nat
    BY Basics
  <2> QED
    BY <1>1, <1>3, <2>1 DEF IInv, ScanOK
<1>8. ReportsOK' /\ TruncationsOK' /\ NothingSkipped' /\ NeverAGap' /\ NoPanic' /\ NothingForgotten'
  BY <1>1, <1>2, <1>3 DEF IInv, ReportsOK, TruncationsOK, NothingSkipped, NeverAGap, NoPanic,
                    NothingForgotten
<1> QED
  BY <1>4, <1>5, <1>6, <1>7, <1>8 DEF IInv

(* The walk finds in the copies only what was reported.                    *)
LEMMA LookupFacts ==
  ASSUME NEW list \in SeqnoList, NEW n \in Nat, Lookup(list, n)
  PROVE  n \in Range(list)
<1>1. PICK i \in SearchIndexes(list, n) : i <= Len(list) /\ list[i] = n
  BY DEF Lookup, Found
<1>2. i \in DOMAIN list
  BY <1>1, ListFacts DEF SearchIndexes
<1> QED
  BY <1>1, <1>2 DEF Range

(* isSeqnoGapSeqno answers with the end of a range that the seqno is in.   *)
LEMMA GapEndsFacts ==
  ASSUME NEW l1 \in SeqnoList, NEW l2 \in SeqnoList, GapRanges(l1, l2),
         NEW n \in Nat, NEW e \in GapEnds(l1, l2, n)
  PROVE  \E j \in DOMAIN l1 : j \in DOMAIN l2 /\ e = l2[j] /\ l1[j] <= n /\ n <= e
<1>1. PICK j \in DOMAIN l1, i \in SearchIndexes(l1, n) :
        /\ e = l2[j]
        /\ \/ Found(l1, n, i) /\ j = i
           \/ ~Found(l1, n, i) /\ j = i - 1 /\ l2[j] >= n
  BY DEF GapEnds
<1>2. /\ Len(l1) \in Nat /\ DOMAIN l1 = 1..Len(l1) /\ DOMAIN l2 = 1..Len(l1)
      /\ l1[j] \in Nat /\ l2[j] \in Nat
      /\ l1[j] <= l2[j]
  BY ListFacts DEF GapRanges
<1>3. i \in 1..(Len(l1) + 1) /\ (i > 1 => l1[i - 1] < n)
  BY DEF SearchIndexes
<1>4. CASE Found(l1, n, i) /\ j = i
  BY <1>1, <1>2, <1>4 DEF Found
<1>5. CASE ~Found(l1, n, i) /\ j = i - 1 /\ l2[j] >= n
  BY <1>1, <1>2, <1>3, <1>5
<1> QED
  BY <1>1, <1>4, <1>5

(* The walk passes a seqno that is in one of the copies.                   *)
LEMMA ScanFoundStep ==
  ASSUME IInv, ScanFound
  PROVE  IInv'
<1> USE DEF lists, snaps, scan, flowVars
<1> DEFINE n == iter_seqno + 1
<1>1. /\ pc = "scan" /\ InSomeList(n) /\ iter_seqno' = n /\ found_seqno' = n
      /\ UNCHANGED <<outcome, start_seqno, reported, last_seen_seqno, through_seqno, lists, pc,
                     snaps, truncating, panicked>>
  BY DEF ScanFound
<1>2. /\ \A t \in Seqno : t \in Nat
      /\ iter_seqno \in Nat /\ through_seqno \in Nat
      /\ reported \subseteq Streamed /\ Streamed \subseteq Seqno
  BY Basics
<1>3. n \in Range(snap_sent) \union Range(snap_filtered) \union Range(snap_failed_cr)
  <2>1. n \in Nat
    BY <1>2
  <2> HIDE DEF n
  <2> QED
    BY <1>1, <2>1, LookupFacts DEF InSomeList, IInv, TypeOK
<1>4. n \in reported
  <2> HIDE DEF n
  <2> QED
    BY <1>3 DEF IInv, ListsOK, Holds, Range
<1>5. Streamed' = Streamed
  BY <1>1 DEF Streamed
<1>6. TypeOK'
  <2>1. n \in 0..MaxSeqno
    BY <1>2, <1>4 DEF Seqno
  <2> HIDE DEF n
  <2> QED
    BY <1>1, <2>1 DEF IInv, TypeOK, FlowTypeOK
<1>7. ScanOK'
  <2>1. through_seqno <= iter_seqno
    BY <1>1 DEF IInv, ScanOK
  <2>2. \A t \in Streamed : t <= n => t <= iter_seqno \/ t = n
    BY <1>2
  <2>3. through_seqno < n /\ n \in Streamed /\ n <= n /\ through_seqno <= n
    BY <1>2, <1>4, <2>1
  <2> HIDE DEF n
  <2> QED
    BY <1>1, <1>3, <1>4, <1>5, <2>2, <2>3 DEF IInv, ScanOK
<1>8. /\ ReportsOK' /\ ListsOK' /\ GapsOK' /\ TruncationsOK' /\ NothingSkipped' /\ NeverAGap'
      /\ NoPanic' /\ NothingForgotten'
  BY <1>1, <1>5 DEF IInv, ReportsOK, ListsOK, Holds, Ascending, GapsOK, GapRanges, TruncationsOK,
                    NothingSkipped, NeverAGap, NoPanic, NothingForgotten
<1> QED
  BY <1>6, <1>7, <1>8 DEF IInv

(* The walk jumps to the end of a gap range: nothing in between was        *)
(* streamed.                                                               *)
LEMMA ScanGapStep ==
  ASSUME IInv, ScanGap
  PROVE  IInv'
<1> USE DEF lists, snaps, scan, flowVars
<1> DEFINE n == iter_seqno + 1
<1>1. /\ pc = "scan" /\ iter_seqno' \in GapEnds(snap_gap_1, snap_gap_2, n)
      /\ UNCHANGED <<outcome, start_seqno, reported, last_seen_seqno, through_seqno, lists, pc,
                     snaps, found_seqno, truncating, panicked>>
  BY DEF ScanGap
<1>2. /\ \A t \in Seqno : t \in Nat
      /\ iter_seqno \in Nat /\ through_seqno \in Nat /\ n \in Nat /\ found_seqno \in Nat
      /\ Streamed \subseteq Seqno
  BY Basics
<1>3. snap_gap_1 \in SeqnoList /\ snap_gap_2 \in SeqnoList /\ GapRanges(snap_gap_1, snap_gap_2)
  BY DEF IInv, TypeOK, GapsOK
<1>4. PICK j \in DOMAIN snap_gap_1 :
        /\ j \in DOMAIN snap_gap_2
        /\ iter_seqno' = snap_gap_2[j]
        /\ snap_gap_1[j] <= n
        /\ n <= iter_seqno'
  <2> HIDE DEF n
  <2> QED
    BY <1>1, <1>2, <1>3, GapEndsFacts
<1>5. /\ iter_seqno' \in Seqno /\ snap_gap_1[j] \in Nat
      /\ iter_seqno' < last_seen_seqno
      /\ \A t \in Streamed : t < snap_gap_1[j] \/ iter_seqno' < t
  BY <1>3, <1>4, ListFacts DEF GapRanges
<1>6. Streamed' = Streamed
  BY <1>1 DEF Streamed
<1>7. TypeOK'
  <2>1. iter_seqno' \in 0..MaxSeqno
    BY <1>5 DEF Seqno
  <2> QED
    BY <1>1, <2>1 DEF IInv, TypeOK, FlowTypeOK
<1>8. ScanOK'
  <2>1. through_seqno <= iter_seqno /\ iter_seqno <= iter_seqno'
    BY <1>1, <1>2, <1>4, <1>5 DEF IInv, ScanOK
  <2>2. \A t \in Streamed : t <= iter_seqno' => t <= iter_seqno
    BY <1>2, <1>4, <1>5
  <2>3. through_seqno <= iter_seqno' /\ (found_seqno <= iter_seqno => found_seqno <= iter_seqno')
    BY <1>2, <1>5, <2>1
  <2> QED
    BY <1>1, <1>5, <1>6, <2>2, <2>3 DEF IInv, ScanOK
<1>9. /\ ReportsOK' /\ ListsOK' /\ GapsOK' /\ TruncationsOK' /\ NothingSkipped' /\ NeverAGap'
      /\ NoPanic' /\ NothingForgotten'
  BY <1>1, <1>6 DEF IInv, ReportsOK, ListsOK, Holds, Ascending, GapsOK, GapRanges, TruncationsOK,
                    NothingSkipped, NeverAGap, NoPanic, NothingForgotten
<1> QED
  BY <1>7, <1>8, <1>9 DEF IInv

(* What the walk establishes when it ends: every streamed seqno up to the  *)
(* last one found is in a copy, so a mutation reported since then, which   *)
(* is in no copy, is above it.                                             *)
LEMMA WalkFacts ==
  ASSUME IInv, pc = "scan", found_seqno # 0
  PROVE  /\ found_seqno \in reported
         /\ found_seqno \in Seqno
         /\ through_seqno < found_seqno
         /\ \A t \in Streamed : t <= found_seqno => t \in reported
         /\ \A i, j \in DOMAIN sent_list :
              i < j /\ sent_list[j] <= found_seqno => sent_list[i] <= found_seqno
<1>1. /\ \A t \in Seqno : t \in Nat
      /\ iter_seqno \in Nat /\ through_seqno \in Nat /\ found_seqno \in Nat
      /\ reported \subseteq Streamed /\ Streamed \subseteq Seqno
  BY Basics
<1>2. found_seqno \in reported /\ through_seqno < found_seqno /\ found_seqno <= iter_seqno
  BY DEF IInv, ScanOK
<1>3. ASSUME NEW t \in Streamed, through_seqno < t, t <= found_seqno
      PROVE  /\ t \in reported
             /\ outcome[t] = "sent" => t \in Range(snap_sent)
  <2>1. t \in Range(snap_sent) \union Range(snap_filtered) \union Range(snap_failed_cr)
    BY <1>1, <1>2, <1>3 DEF IInv, ScanOK
  <2>2. /\ \A u \in Range(snap_sent) : u \in reported
        /\ \A u \in Range(snap_filtered) : u \in reported /\ outcome[u] = "filtered"
        /\ \A u \in Range(snap_failed_cr) : u \in reported /\ outcome[u] = "failedCR"
    BY DEF IInv, ListsOK, Holds, Range
  <2> QED
    BY <2>1, <2>2
<1>4. \A t \in Streamed : t <= found_seqno => t \in reported
  BY <1>1, <1>3 DEF IInv, NothingSkipped
<1>5. ASSUME NEW i \in DOMAIN sent_list, NEW j \in DOMAIN sent_list,
             i < j, sent_list[j] <= found_seqno
      PROVE  sent_list[i] <= found_seqno
  <2>1. sent_list[i] \in Nat /\ sent_list[j] \in Nat
    BY ListFacts DEF IInv, TypeOK
  <2>2. sent_list[j] \in Streamed /\ outcome[sent_list[j]] = "sent"
    BY <1>1 DEF IInv, ListsOK, Holds
  <2>3. sent_list[j] < sent_list[i] =>
          sent_list[j] > through_seqno /\ sent_list[j] \notin Range(snap_sent)
    BY <1>5 DEF IInv, TruncationsOK
  <2>4. ~(sent_list[j] < sent_list[i])
    BY <1>1, <1>3, <1>5, <2>1, <2>2, <2>3
  <2> QED
    BY <1>1, <1>5, <2>1, <2>4
<1> QED
  BY <1>1, <1>2, <1>4, <1>5

(* GetThroughSeqno moves the through seqno and starts a truncation.        *)
LEMMA ReturnStep ==
  ASSUME IInv, Return
  PROVE  IInv'
<1> USE DEF lists, snaps, scan, flowVars
<1>1. /\ pc = "scan" /\ pc' = "idle"
      /\ snap_sent' = <<>> /\ snap_filtered' = <<>> /\ snap_failed_cr' = <<>>
      /\ snap_gap_1' = <<>> /\ snap_gap_2' = <<>>
      /\ iter_seqno' = 0 /\ found_seqno' = 0
      /\ UNCHANGED <<outcome, start_seqno, reported, last_seen_seqno, lists, panicked>>
  BY DEF Return, EndScan
<1>2. \/ found_seqno # 0 /\ through_seqno' = found_seqno
         /\ truncating' = [truncating EXCEPT ![found_seqno] = 1]
      \/ found_seqno = 0 /\ UNCHANGED <<through_seqno, truncating>>
  BY DEF Return, EndScan
<1>3. /\ \A t \in Seqno : t \in Nat
      /\ through_seqno \in Nat /\ found_seqno \in Nat
  BY Basics
<1>4. Streamed' = Streamed
  BY <1>1 DEF Streamed
<1>5. <<>> \in SeqnoList /\ DOMAIN <<>> = {} /\ Len(<<>>) = 0
  BY DEF SeqnoList
<1>6. through_seqno' \in 0..MaxSeqno /\ through_seqno <= through_seqno'
  BY <1>1, <1>2, <1>3, WalkFacts DEF IInv, TypeOK, Seqno
<1>7. TypeOK'
  <2>1. truncating' \in [Seqno -> 0..4]
    BY <1>2 DEF IInv, TypeOK
  <2>2. 0 \in 0..MaxSeqno
    BY MaxSeqnoAssumption
  <2> QED
    BY <1>1, <1>5, <1>6, <2>1, <2>2 DEF IInv, TypeOK, FlowTypeOK
<1>8. ListsOK'
  <2>1. Holds(snap_sent, "sent")' /\ Holds(snap_filtered, "filtered")'
        /\ Holds(snap_failed_cr, "failedCR")'
    BY <1>1, <1>5 DEF Holds
  <2> QED
    BY <1>1, <2>1 DEF IInv, ListsOK, Holds, Ascending
<1>9. GapsOK'
  <2>1. GapRanges(snap_gap_1, snap_gap_2)'
    BY <1>1, <1>5 DEF GapRanges
  <2> QED
    BY <1>1, <1>4, <2>1 DEF IInv, GapsOK, GapRanges
<1>10. ScanOK'
  <2>1. \A t \in Streamed : ~(t <= 0)
    BY <1>3, Basics DEF Streamed
  <2> QED
    BY <1>1, <1>4, <1>6, <2>1 DEF ScanOK
<1>11. TruncationsOK'
  <2>1. CASE found_seqno = 0
    BY <1>1, <1>2, <2>1 DEF IInv, TruncationsOK
  <2>2. CASE found_seqno # 0
    <3>1. \A x \in Seqno : x # found_seqno => truncating'[x] = truncating[x]
      BY <1>2, <2>2 DEF IInv, TypeOK
    <3>2. \A x \in Seqno : truncating[x] # 0 => x \in reported /\ x <= through_seqno'
      BY <1>3, <1>6, <1>2, <2>2 DEF IInv, TruncationsOK
    <3> QED
      BY <1>1, <1>2, <1>3, <2>2, <3>1, <3>2, WalkFacts DEF IInv, TruncationsOK
  <2> QED
    BY <2>1, <2>2
<1>12. NothingSkipped' /\ NeverAGap'
  BY <1>1, <1>2, <1>4, WalkFacts DEF IInv, NothingSkipped, NeverAGap
<1>13. NothingForgotten'
  <2>1. \A t \in Seqno : t > through_seqno' => t > through_seqno
    BY <1>2, <1>3, <1>6
  <2>2. reported \subseteq Seqno
    BY DEF IInv, TypeOK
  <2>3. \A t \in Seqno : through_seqno' < t => through_seqno < t
    BY <1>2, <1>3, <1>6
  <2> QED
    BY <1>1, <1>4, <2>1, <2>2, <2>3 DEF IInv, NothingForgotten
<1>14. ReportsOK' /\ NoPanic'
  BY <1>1, <1>4 DEF IInv, ReportsOK, NoPanic
<1> QED
  BY <1>7, <1>8, <1>9, <1>10, <1>11, <1>12, <1>13, <1>14 DEF IInv

(* truncateSeqnos on a list whose elements up to x come first removes only *)
(* elements up to x, and keeps the order of the rest.                      *)
LEMMA SafeTruncation ==
  ASSUME NEW list \in SeqnoList, NEW x \in Seqno, NEW l \in Truncated(list, x),
         \A i, j \in DOMAIN list : i < j /\ list[j] <= x => list[i] <= x
  PROVE  /\ l \in SeqnoList
         /\ Range(l) \subseteq Range(list)
         /\ \A u \in Range(list) : u > x => u \in Range(l)
         /\ \E k \in Nat : \A i \in DOMAIN l : i + k \in DOMAIN list /\ l[i] = list[i + k]
         /\ \A i \in DOMAIN l : i \in Nat
<1>1. PICK k \in Nat :
        /\ k <= Len(list)
        /\ l \in SeqnoList
        /\ Len(l) = Len(list) - k
        /\ \A i \in DOMAIN l : i + k \in DOMAIN list /\ l[i] = list[i + k]
        /\ k > 0 => list[k] <= x
  BY TruncateFacts
<1>2. /\ Len(list) \in Nat /\ DOMAIN list = 1..Len(list)
      /\ \A i \in DOMAIN list : list[i] \in Nat
  BY ListFacts
<1>3. x \in Nat
  BY MaxSeqnoAssumption DEF Seqno
<1>4. DOMAIN l = 1..(Len(list) - k)
  BY <1>1, ListFacts
<1>5. ASSUME NEW i \in DOMAIN list, list[i] > x
      PROVE  list[i] \in Range(l)
  <2>1. ~(i <= k)
    <3>1. ASSUME i <= k PROVE FALSE
      <4>1. k \in DOMAIN list /\ list[k] <= x /\ list[k] \in Nat /\ list[i] \in Nat
        BY <1>1, <1>2, <3>1
      <4>2. i = k \/ i < k
        BY <1>2, <3>1
      <4> QED
        BY <1>2, <1>3, <1>5, <4>1, <4>2
    <3> QED
      BY <3>1
  <2>2. i - k \in DOMAIN l /\ (i - k) + k = i
    BY <1>1, <1>2, <1>4, <2>1
  <2> QED
    BY <1>1, <2>2 DEF Range
<1> QED
  BY <1>1, <1>4, <1>5 DEF Range

(* A late truncation of sent_list, which may have been appended to in any  *)
(* order since it was sorted.                                              *)
LEMMA TruncateSentStep ==
  ASSUME IInv, NEW x \in Seqno, TruncateSent(x)
  PROVE  IInv'
<1> USE DEF lists, snaps, scan, flowVars
<1>1. /\ truncating[x] = 1
      /\ sent_list' \in Truncated(sent_list, x)
      /\ truncating' = [truncating EXCEPT ![x] = 2]
      /\ UNCHANGED <<outcome, start_seqno, reported, last_seen_seqno, through_seqno, filtered_list,
                     failed_cr_list, gap_list_1, gap_list_2, pc, snaps, scan, panicked>>
  BY DEF TruncateSent
<1>2. /\ sent_list' \in SeqnoList
      /\ Range(sent_list') \subseteq Range(sent_list)
      /\ \A u \in Range(sent_list) : u > x => u \in Range(sent_list')
      /\ \E k \in Nat : \A i \in DOMAIN sent_list' :
           i + k \in DOMAIN sent_list /\ sent_list'[i] = sent_list[i + k]
      /\ \A i \in DOMAIN sent_list' : i \in Nat
  <2>1. sent_list \in SeqnoList
    BY DEF IInv, TypeOK
  <2>2. \A i, j \in DOMAIN sent_list : i < j /\ sent_list[j] <= x => sent_list[i] <= x
    BY <1>1 DEF IInv, TruncationsOK
  <2> QED
    BY <1>1, <2>1, <2>2, SafeTruncation
<1>3. Streamed' = Streamed
  BY <1>1 DEF Streamed
<1>4. /\ truncating' \in [Seqno -> 0..4]
      /\ \A y \in Seqno : truncating'[y] # 0 => truncating[y] # 0
      /\ \A y \in Seqno : truncating'[y] = 1 => truncating[y] = 1
  BY <1>1 DEF IInv, TypeOK
<1>5. TypeOK'
  BY <1>1, <1>2, <1>4 DEF IInv, TypeOK, FlowTypeOK
<1>6. ListsOK'
  <2>1. Holds(sent_list, "sent")'
    <3>1. Holds(sent_list, "sent")
      BY DEF IInv, ListsOK
    <3>2. PICK k \in Nat : \A i \in DOMAIN sent_list' :
             i + k \in DOMAIN sent_list /\ sent_list'[i] = sent_list[i + k]
      BY <1>2
    <3> QED
      BY <1>1, <3>1, <3>2 DEF Holds
  <2> QED
    BY <1>1, <2>1 DEF IInv, ListsOK, Holds, Ascending
<1>7. TruncationsOK'
  <2>1. PICK k \in Nat : \A i \in DOMAIN sent_list' :
           i + k \in DOMAIN sent_list /\ sent_list'[i] = sent_list[i + k]
    BY <1>2
  <2>2. \A i, j \in DOMAIN sent_list' : i < j => i + k < j + k
    BY <1>2, <2>1
  <2> QED
    BY <1>1, <1>4, <2>1, <2>2 DEF IInv, TruncationsOK
<1>8. NothingForgotten'
  <2>1. \A u \in reported : u > through_seqno => u > x
    BY <1>1, Basics DEF IInv, TruncationsOK
  <2> QED
    BY <1>1, <1>2, <1>3, <2>1 DEF IInv, NothingForgotten
<1>9. ReportsOK' /\ GapsOK' /\ ScanOK' /\ NothingSkipped' /\ NeverAGap' /\ NoPanic'
  BY <1>1, <1>3 DEF IInv, ReportsOK, GapsOK, GapRanges, ScanOK, NothingSkipped, NeverAGap, NoPanic
<1> QED
  BY <1>5, <1>6, <1>7, <1>8, <1>9 DEF IInv

(* Truncating filtered_list, which is always sorted.                    *)
LEMMA TruncateFilteredStep ==
  ASSUME IInv, NEW x \in Seqno, TruncateFiltered(x)
  PROVE  IInv'
<1> USE DEF lists, snaps, scan, flowVars
<1>1. /\ truncating[x] = 2
      /\ filtered_list' \in Truncated(filtered_list, x)
      /\ truncating' = [truncating EXCEPT ![x] = 3]
      /\ UNCHANGED <<outcome, start_seqno, reported, last_seen_seqno, through_seqno, sent_list,
                     failed_cr_list, gap_list_1, gap_list_2, pc, snaps, scan, panicked>>
  BY DEF TruncateFiltered
<1>2. /\ filtered_list' \in SeqnoList
      /\ Range(filtered_list') \subseteq Range(filtered_list)
      /\ \A u \in Range(filtered_list) : u > x => u \in Range(filtered_list')
      /\ \E k \in Nat : \A i \in DOMAIN filtered_list' :
           i + k \in DOMAIN filtered_list /\ filtered_list'[i] = filtered_list[i + k]
      /\ \A i \in DOMAIN filtered_list' : i \in Nat
  <2>1. filtered_list \in SeqnoList
    BY DEF IInv, TypeOK
  <2>2. x \in Nat /\ \A i \in DOMAIN filtered_list : filtered_list[i] \in Nat
    BY <2>1, ListFacts, Basics
  <2>3. \A i, j \in DOMAIN filtered_list : i < j /\ filtered_list[j] <= x => filtered_list[i] <= x
    BY <2>2 DEF IInv, ListsOK, Ascending
  <2> QED
    BY <1>1, <2>1, <2>3, SafeTruncation
<1>3. Streamed' = Streamed
  BY <1>1 DEF Streamed
<1>4. /\ truncating' \in [Seqno -> 0..4]
      /\ \A y \in Seqno : truncating'[y] # 0 => truncating[y] # 0
      /\ \A y \in Seqno : truncating'[y] = 1 => truncating[y] = 1
  BY <1>1 DEF IInv, TypeOK
<1>5. TypeOK'
  BY <1>1, <1>2, <1>4 DEF IInv, TypeOK, FlowTypeOK
<1>6. ListsOK'
  <2>1. Holds(filtered_list, "filtered")'
    <3>1. Holds(filtered_list, "filtered")
      BY DEF IInv, ListsOK
    <3>2. PICK k \in Nat : \A i \in DOMAIN filtered_list' :
             i + k \in DOMAIN filtered_list /\ filtered_list'[i] = filtered_list[i + k]
      BY <1>2
    <3> QED
      BY <1>1, <3>1, <3>2 DEF Holds
  <2>2. Ascending(filtered_list)'
    BY <1>2 DEF IInv, ListsOK, Ascending
  <2> QED
    BY <1>1, <2>1, <2>2 DEF IInv, ListsOK, Holds, Ascending
<1>7. TruncationsOK'
  BY <1>1, <1>4 DEF IInv, TruncationsOK
<1>8. NothingForgotten'
  <2>1. \A u \in reported : u > through_seqno => u > x
    BY <1>1, Basics DEF IInv, TruncationsOK
  <2> QED
    BY <1>1, <1>2, <1>3, <2>1 DEF IInv, NothingForgotten
<1>9. ReportsOK' /\ GapsOK' /\ ScanOK' /\ NothingSkipped' /\ NeverAGap' /\ NoPanic'
  BY <1>1, <1>3 DEF IInv, ReportsOK, GapsOK, GapRanges, ScanOK, NothingSkipped, NeverAGap, NoPanic
<1> QED
  BY <1>5, <1>6, <1>7, <1>8, <1>9 DEF IInv

(* Truncating failed_cr_list, which is always sorted.                   *)
LEMMA TruncateFailedCRStep ==
  ASSUME IInv, NEW x \in Seqno, TruncateFailedCR(x)
  PROVE  IInv'
<1> USE DEF lists, snaps, scan, flowVars
<1>1. /\ truncating[x] = 3
      /\ failed_cr_list' \in Truncated(failed_cr_list, x)
      /\ truncating' = [truncating EXCEPT ![x] = 4]
      /\ UNCHANGED <<outcome, start_seqno, reported, last_seen_seqno, through_seqno, sent_list,
                     filtered_list, gap_list_1, gap_list_2, pc, snaps, scan, panicked>>
  BY DEF TruncateFailedCR
<1>2. /\ failed_cr_list' \in SeqnoList
      /\ Range(failed_cr_list') \subseteq Range(failed_cr_list)
      /\ \A u \in Range(failed_cr_list) : u > x => u \in Range(failed_cr_list')
      /\ \E k \in Nat : \A i \in DOMAIN failed_cr_list' :
           i + k \in DOMAIN failed_cr_list /\ failed_cr_list'[i] = failed_cr_list[i + k]
      /\ \A i \in DOMAIN failed_cr_list' : i \in Nat
  <2>1. failed_cr_list \in SeqnoList
    BY DEF IInv, TypeOK
  <2>2. x \in Nat /\ \A i \in DOMAIN failed_cr_list : failed_cr_list[i] \in Nat
    BY <2>1, ListFacts, Basics
  <2>3. \A i, j \in DOMAIN failed_cr_list : i < j /\ failed_cr_list[j] <= x => failed_cr_list[i] <= x
    BY <2>2 DEF IInv, ListsOK, Ascending
  <2> QED
    BY <1>1, <2>1, <2>3, SafeTruncation
<1>3. Streamed' = Streamed
  BY <1>1 DEF Streamed
<1>4. /\ truncating' \in [Seqno -> 0..4]
      /\ \A y \in Seqno : truncating'[y] # 0 => truncating[y] # 0
      /\ \A y \in Seqno : truncating'[y] = 1 => truncating[y] = 1
  BY <1>1 DEF IInv, TypeOK
<1>5. TypeOK'
  BY <1>1, <1>2, <1>4 DEF IInv, TypeOK, FlowTypeOK
<1>6. ListsOK'
  <2>1. Holds(failed_cr_list, "failedCR")'
    <3>1. Holds(failed_cr_list, "failedCR")
      BY DEF IInv, ListsOK
    <3>2. PICK k \in Nat : \A i \in DOMAIN failed_cr_list' :
             i + k \in DOMAIN failed_cr_list /\ failed_cr_list'[i] = failed_cr_list[i + k]
      BY <1>2
    <3> QED
      BY <1>1, <3>1, <3>2 DEF Holds
  <2>2. Ascending(failed_cr_list)'
    BY <1>2 DEF IInv, ListsOK, Ascending
  <2> QED
    BY <1>1, <2>1, <2>2 DEF IInv, ListsOK, Holds, Ascending
<1>7. TruncationsOK'
  BY <1>1, <1>4 DEF IInv, TruncationsOK
<1>8. NothingForgotten'
  <2>1. \A u \in reported : u > through_seqno => u > x
    BY <1>1, Basics DEF IInv, TruncationsOK
  <2> QED
    BY <1>1, <1>2, <1>3, <2>1 DEF IInv, NothingForgotten
<1>9. ReportsOK' /\ GapsOK' /\ ScanOK' /\ NothingSkipped' /\ NeverAGap' /\ NoPanic'
  BY <1>1, <1>3 DEF IInv, ReportsOK, GapsOK, GapRanges, ScanOK, NothingSkipped, NeverAGap, NoPanic
<1> QED
  BY <1>5, <1>6, <1>7, <1>8, <1>9 DEF IInv

(* The two searches of truncateGapSeqnoList stop at the same index and     *)
(* find nothing, because x was streamed and so is in no gap range.         *)
LEMMA GapSearch ==
  ASSUME NEW l1 \in SeqnoList, NEW l2 \in SeqnoList, GapRanges(l1, l2),
         NEW x \in Seqno, x \in Streamed,
         NEW i \in SearchIndexes(l1, x), NEW j \in SearchIndexes(l2, x)
  PROVE  /\ i = j
         /\ i \in 1..(Len(l1) + 1)
         /\ ~Found(l1, x, i)
         /\ ~Found(l2, x, j)
         /\ \A k \in DOMAIN l1 : k < i => l2[k] < x
<1> DEFINE n == Len(l1)
<1>1. /\ n \in Nat /\ n = Len(l2)
      /\ DOMAIN l1 = 1..n /\ DOMAIN l2 = 1..n
      /\ \A k \in 1..n : l1[k] \in Nat /\ l2[k] \in Nat
      /\ x \in Nat
  BY ListFacts, MaxSeqnoAssumption DEF GapRanges, Seqno
<1>2. /\ i \in 1..(n + 1) /\ (i <= n => l1[i] >= x) /\ (i > 1 => l1[i - 1] < x)
      /\ j \in 1..(n + 1) /\ (j <= n => l2[j] >= x) /\ (j > 1 => l2[j - 1] < x)
  BY <1>1 DEF SearchIndexes
<1>3. /\ \A k \in 1..n : l1[k] <= l2[k] /\ (x < l1[k] \/ l2[k] < x)
      /\ \A k, m \in 1..n : k < m => l2[k] < l1[m]
  BY <1>1 DEF GapRanges
<1> HIDE DEF n
<1>4. \A k, m \in 1..n : k < m => l1[k] < l1[m] /\ l2[k] < l2[m]
  BY <1>1, <1>3
<1>5. ~(j < i)
  <2>1. ASSUME j < i PROVE FALSE
    <3>1. j \in 1..n /\ i - 1 \in 1..n /\ i > 1 /\ (j < i - 1 \/ j = i - 1)
      BY <1>1, <1>2, <2>1
    <3>2. PICK o \in 1..n : l1[o] < x /\ (j < o \/ j = o)
      BY <1>2, <3>1
    <3>3. l1[j] \in Nat /\ l1[o] \in Nat /\ (j < o => l1[j] < l1[o])
      BY <1>1, <1>4, <3>1
    <3>4. l1[j] < x /\ l2[j] >= x
      BY <1>1, <1>2, <3>1, <3>2, <3>3
    <3> QED
      BY <1>1, <1>3, <3>1, <3>4
  <2> QED
    BY <2>1
<1>6. ~(i < j)
  <2>1. ASSUME i < j PROVE FALSE
    <3>1. i \in 1..n /\ j - 1 \in 1..n /\ j > 1 /\ (i < j - 1 \/ i = j - 1)
      BY <1>1, <1>2, <2>1
    <3>2. PICK o \in 1..n : l2[o] < x /\ (i < o \/ i = o)
      BY <1>2, <3>1
    <3>3. l2[i] \in Nat /\ l2[o] \in Nat /\ (i < o => l2[i] < l2[o])
      BY <1>1, <1>4, <3>1
    <3>4. l1[i] >= x /\ l2[i] < x
      BY <1>1, <1>2, <3>1, <3>2, <3>3
    <3> QED
      BY <1>1, <1>3, <3>1, <3>4
  <2> QED
    BY <2>1
<1>7. i = j
  BY <1>1, <1>2, <1>5, <1>6
<1>8. \A k \in 1..n : l1[k] # x /\ l2[k] # x
  BY <1>1, <1>3
<1>9. ~Found(l1, x, i) /\ ~Found(l2, x, j)
  BY <1>1, <1>2, <1>8 DEF Found, n
<1>10. ASSUME NEW k \in 1..n, k < i PROVE l2[k] < x
  <2>1. i > 1 /\ i - 1 \in 1..n /\ (k < i - 1 \/ k = i - 1)
    BY <1>1, <1>2, <1>10
  <2>2. PICK o \in 1..n : l1[o] < x /\ (k < o \/ k = o)
    BY <1>2, <2>1
  <2>3. l1[k] \in Nat /\ l1[o] \in Nat /\ (k < o => l1[k] < l1[o])
    BY <1>1, <1>4
  <2>4. l1[k] < x
    BY <1>1, <2>2, <2>3
  <2> QED
    BY <1>1, <1>3, <2>4
<1> QED
  BY <1>1, <1>2, <1>7, <1>9, <1>10 DEF n

(* A truncation of the gap lists neither panics nor misaligns them.        *)
LEMMA TruncateGapsStep ==
  ASSUME IInv, NEW x \in Seqno, TruncateGaps(x)
  PROVE  IInv'
<1> USE DEF lists, snaps, scan, flowVars
<1>1. /\ truncating[x] = 4
      /\ truncating' = [truncating EXCEPT ![x] = 0]
      /\ UNCHANGED <<outcome, start_seqno, reported, last_seen_seqno, through_seqno, sent_list,
                     filtered_list, failed_cr_list, pc, snaps, scan>>
  BY DEF TruncateGaps
<1>2. PICK i \in SearchIndexes(gap_list_1, x), j \in SearchIndexes(gap_list_2, x) :
        /\ gap_list_1' = SubSeq(gap_list_1, i, Len(gap_list_1))
        /\ gap_list_2' = SubSeq(gap_list_2, j, Len(gap_list_2))
        /\ panicked' = (Found(gap_list_1, x, i) \/ Found(gap_list_2, x, j))
  BY DEF TruncateGaps
<1>3. gap_list_1 \in SeqnoList /\ gap_list_2 \in SeqnoList /\ GapRanges(gap_list_1, gap_list_2)
  BY DEF IInv, TypeOK, GapsOK
<1>4. x \in Streamed /\ x <= through_seqno
  BY <1>1, Basics DEF IInv, TruncationsOK
<1>5. /\ i = j
      /\ i \in 1..(Len(gap_list_1) + 1)
      /\ ~Found(gap_list_1, x, i)
      /\ ~Found(gap_list_2, x, j)
      /\ \A m \in DOMAIN gap_list_1 : m < i => gap_list_2[m] < x
  BY <1>3, <1>4, GapSearch
<1>6. panicked' = FALSE
  BY <1>2, <1>5, Zenon
<1> DEFINE n == Len(gap_list_1)
           k == i - 1
<1>7. /\ n \in Nat /\ n = Len(gap_list_2)
      /\ DOMAIN gap_list_1 = 1..n /\ DOMAIN gap_list_2 = 1..n
      /\ \A m \in 1..n : gap_list_1[m] \in Nat /\ gap_list_2[m] \in Nat
  BY <1>3, ListFacts DEF GapRanges
<1>8. k \in Nat /\ k <= n /\ i = k + 1
  BY <1>5, <1>7
<1> HIDE DEF k
<1>9. /\ gap_list_1' \in Seq(Seqno) /\ Len(gap_list_1') = n - k
      /\ \A m \in 1..(n - k) : m + k \in 1..n /\ gap_list_1'[m] = gap_list_1[m + k]
  BY <1>2, <1>3, <1>8, SuffixFacts DEF SeqnoList
<1>10. /\ gap_list_2' \in Seq(Seqno) /\ Len(gap_list_2') = n - k
       /\ \A m \in 1..(n - k) : m + k \in 1..n /\ gap_list_2'[m] = gap_list_2[m + k]
  <2>1. gap_list_2' = SubSeq(gap_list_2, k + 1, n) /\ gap_list_2 \in Seq(Seqno)
    BY <1>2, <1>3, <1>5, <1>7, <1>8 DEF SeqnoList
  <2>2. k \in Nat /\ k <= Len(gap_list_2) /\ n = Len(gap_list_2)
    BY <1>7, <1>8
  <2> HIDE DEF n
  <2> QED
    BY <2>1, <2>2, SuffixFacts
<1>11. DOMAIN gap_list_1' = 1..(n - k)
  BY <1>9
<1> HIDE DEF n
<1>12. Streamed' = Streamed
  BY <1>1 DEF Streamed
<1>13. /\ truncating' \in [Seqno -> 0..4]
       /\ \A y \in Seqno : truncating'[y] # 0 => truncating[y] # 0 /\ truncating'[y] = truncating[y]
  BY <1>1 DEF IInv, TypeOK
<1>14. TypeOK'
  BY <1>1, <1>6, <1>9, <1>10, <1>13 DEF IInv, TypeOK, FlowTypeOK, SeqnoList
<1>15. GapsOK'
  <2>1. GapRanges(gap_list_1, gap_list_2)'
    <3>1. \A m, o \in 1..(n - k) : m < o => m + k < o + k
      BY <1>7, <1>8
    <3>2. \A m \in 1..(n - k) :
            /\ gap_list_1'[m] <= gap_list_2'[m]
            /\ gap_list_2'[m] < last_seen_seqno
            /\ \A t \in Streamed : t < gap_list_1'[m] \/ gap_list_2'[m] < t
      BY <1>3, <1>7, <1>9, <1>10 DEF GapRanges
    <3>3. \A m, o \in 1..(n - k) : m < o => gap_list_2'[m] < gap_list_1'[o]
      BY <1>3, <1>7, <1>9, <1>10, <3>1 DEF GapRanges
    <3> QED
      BY <1>1, <1>9, <1>10, <1>11, <1>12, <3>2, <3>3 DEF GapRanges
  <2>2. GapRanges(snap_gap_1, snap_gap_2)'
    BY <1>1, <1>12 DEF IInv, GapsOK, GapRanges
  <2> QED
    BY <2>1, <2>2 DEF GapsOK
<1>16. NothingForgotten'
  <2>1. ASSUME NEW t \in Seqno \ Streamed, through_seqno < t, t < last_seen_seqno
        PROVE  \E m \in DOMAIN gap_list_1' : gap_list_1'[m] <= t /\ t <= gap_list_2'[m]
    <3>1. PICK m \in 1..n : gap_list_1[m] <= t /\ t <= gap_list_2[m]
      BY <1>7, <2>1 DEF IInv, NothingForgotten
    <3>2. ~(m < i)
      <4>1. t \in Nat /\ x \in Nat /\ through_seqno \in Nat
        BY Basics
      <4> QED
        BY <1>4, <1>5, <1>7, <2>1, <3>1, <4>1
    <3>3. m - k \in 1..(n - k) /\ (m - k) + k = m
      BY <1>7, <1>8, <3>2
    <3> QED
      BY <1>9, <1>10, <1>11, <3>1, <3>3
  <2> QED
    BY <1>1, <1>12, <2>1 DEF IInv, NothingForgotten
<1>17. ReportsOK' /\ ListsOK' /\ ScanOK' /\ NothingSkipped' /\ NeverAGap'
  BY <1>1, <1>12 DEF IInv, ReportsOK, ListsOK, Holds, Ascending, ScanOK, NothingSkipped, NeverAGap
<1>18. TruncationsOK'
  BY <1>1, <1>13 DEF IInv, TruncationsOK
<1>19. NoPanic'
  BY <1>6 DEF NoPanic
<1> QED
  BY <1>14, <1>15, <1>16, <1>17, <1>18, <1>19 DEF IInv

-----------------------------------------------------------------------------
(***************************************************************************)
(* The theorems.                                                           *)
(***************************************************************************)

(* Every step of the tracker preserves the inductive invariant.            *)
LEMMA NextIInv == IInv /\ [Next]_vars => IInv'
<1> SUFFICES ASSUME IInv, [Next]_vars PROVE IInv'
  OBVIOUS
<1>1. CASE UNCHANGED vars
  <2> USE DEF vars, flowVars, lists, snaps, scan
  <2>1. Streamed' = Streamed
    BY <1>1 DEF Streamed
  <2>2. TypeOK' /\ ReportsOK' /\ ListsOK' /\ NoPanic'
    BY <1>1, <2>1 DEF IInv, TypeOK, FlowTypeOK, ReportsOK, ListsOK, Holds, Ascending, NoPanic
  <2>3. GapsOK' /\ ScanOK' /\ TruncationsOK'
    BY <1>1, <2>1 DEF IInv, GapsOK, GapRanges, ScanOK, TruncationsOK
  <2>4. NothingSkipped' /\ NeverAGap' /\ NothingForgotten'
    BY <1>1, <2>1 DEF IInv, NothingSkipped, NeverAGap, NothingForgotten
  <2> QED
    BY <2>2, <2>3, <2>4 DEF IInv
<1>2. CASE \E n \in 0..MaxSeqno : SetStartSeqno(n)
  BY <1>2, SetStartSeqnoStep
<1>3. CASE Flow
  BY <1>3, FlowPreserves
<1>4. CASE \E s \in Seqno : ProcessEvent(s)
  BY <1>4, ProcessGapSeqnosStep, AddSentStep, AddFilteredStep, AddFailedCRStep DEF ProcessEvent
<1>5. CASE \E s \in Seqno : truncateSeqnoLists(s)
  BY <1>5, TruncateSentStep, TruncateFilteredStep, TruncateFailedCRStep, TruncateGapsStep
     DEF truncateSeqnoLists
<1>6. CASE GetThroughSeqno
  BY <1>6, ReadSentStep, ReadRestStep, ScanFoundStep, ScanGapStep, ReturnStep DEF GetThroughSeqno
<1> QED
  BY <1>1, <1>2, <1>3, <1>4, <1>5, <1>6 DEF Next

(* The inductive invariant holds in every reachable state.                 *)
THEOREM Invariance == Spec => []IInv
  BY InitIInv, NextIInv, PTL DEF Spec

(* The tracker's state always has its type.                                *)
THEOREM TypeCorrect == Spec => []TypeOK
<1>1. IInv => TypeOK
  BY DEF IInv
<1> QED
  BY <1>1, Invariance, PTL

(* Whatever GetThroughSeqno returns, every mutation streamed at or below   *)
(* it has been reported sent, filtered or rejected at the source.          *)
THEOREM ThroughSeqnoSafe == Spec => []NothingSkipped
<1>1. IInv => NothingSkipped
  BY DEF IInv
<1> QED
  BY <1>1, Invariance, PTL

(* GetThroughSeqno never returns a gap seqno.                              *)
THEOREM ThroughSeqnoNotAGap == Spec => []NeverAGap
<1>1. IInv => NeverAGap
  BY DEF IInv
<1> QED
  BY <1>1, Invariance, PTL

(* Neither of the tracker's panics on its gap lists is reachable.          *)
THEOREM GapListsNeverPanic == Spec => []NoPanic
<1>1. IInv => NoPanic
  BY DEF IInv
<1> QED
  BY <1>1, Invariance, PTL

(* However late the truncating goroutines run, they drop nothing that a    *)
(* later GetThroughSeqno needs.                                            *)
THEOREM TruncationIsSafe == Spec => []NothingForgotten
<1>1. IInv => NothingForgotten
  BY DEF IInv
<1> QED
  BY <1>1, Invariance, PTL

(* Each step of the tracker is a step of the abstract ThroughSeqno, or     *)
(* leaves its variables alone.                                             *)
LEMMA StepSimulation == IInv /\ [Next]_vars => [Promise!Next]_(Promise!absVars)
<1> SUFFICES ASSUME IInv, [Next]_vars PROVE [Promise!Next]_(Promise!absVars)
  OBVIOUS
<1> USE DEF Promise!absVars
<1>1. CASE UNCHANGED vars
  BY <1>1 DEF vars, flowVars
<1>2. ASSUME NEW n \in 0..MaxSeqno, SetStartSeqno(n) PROVE Promise!Next
  <2>1. Promise!Start(n)
    BY <1>2 DEF SetStartSeqno, StartAt, Streamed, Seqno,
                Promise!Start, Promise!StartAt, Promise!Streamed, Promise!Seqno
  <2> QED
    BY <2>1 DEF Promise!Next
<1>3. CASE Flow
  <2>1. Promise!Flow
    BY <1>3 DEF Flow, FlowStep, Receive, FailCR, Confirm, Streamed, Seqno, Promise!Flow,
                Promise!FlowStep, Promise!Receive, Promise!FailCR, Promise!Confirm,
                Promise!Streamed, Promise!Seqno
  <2> QED
    BY <2>1 DEF Promise!Next
<1>4. ASSUME NEW s \in Seqno, ProcessEvent(s) PROVE [Promise!Next]_(Promise!absVars)
  <2>1. CASE processGapSeqnos(s)
    BY <2>1 DEF processGapSeqnos, flowVars
  <2>2. CASE addSentSeqno(s) \/ addFilteredSeqno(s) \/ addFailedCRSeqno(s)
    <3>1. Promise!Report(s)
      BY <2>2 DEF addSentSeqno, addFilteredSeqno, addFailedCRSeqno, NextEvent, Reportable, flowVars,
                  Promise!Report, Promise!Reportable
    <3> QED
      BY <3>1 DEF Promise!Next, Promise!Seqno, Seqno
  <2> QED
    BY <1>4, <2>1, <2>2 DEF ProcessEvent
<1>5. ASSUME NEW s \in Seqno, truncateSeqnoLists(s) PROVE UNCHANGED Promise!absVars
  BY <1>5 DEF truncateSeqnoLists, TruncateSent, TruncateFiltered, TruncateFailedCR, TruncateGaps,
              flowVars
<1>6. CASE GetThroughSeqno
  <2>1. CASE Return /\ found_seqno # 0
    <3>1. /\ through_seqno' = found_seqno
          /\ UNCHANGED <<outcome, start_seqno, reported>>
          /\ pc = "scan"
      BY <2>1 DEF Return, EndScan, flowVars
    <3>2. /\ found_seqno \in reported /\ found_seqno \in Seqno
          /\ found_seqno > through_seqno
          /\ \A t \in Streamed : t <= found_seqno => t \in reported
      <4>1. through_seqno < found_seqno => found_seqno > through_seqno
        BY Basics
      <4> QED
        BY <2>1, <3>1, <4>1, WalkFacts
    <3>3. Promise!Advance(found_seqno)
      BY <3>1, <3>2 DEF Promise!Advance, Promise!Complete, Promise!Streamed, Promise!Seqno,
                        Streamed, Seqno
    <3> QED
      BY <3>2, <3>3 DEF Promise!Next, Promise!Seqno, Seqno
  <2>2. CASE Return /\ found_seqno = 0
    BY <2>2 DEF Return, EndScan, flowVars
  <2>3. CASE ReadSent \/ ReadFiltered \/ ReadFailedCR \/ ReadGaps \/ ScanFound \/ ScanGap
    BY <2>3 DEF ReadSent, ReadFiltered, ReadFailedCR, ReadGaps, ScanFound, ScanGap, flowVars
  <2> QED
    BY <1>6, <2>1, <2>2, <2>3 DEF GetThroughSeqno
<1> QED
  BY <1>1, <1>2, <1>3, <1>4, <1>5, <1>6 DEF Next

(* The tracker, with its lists, its interleavings and its truncations,     *)
(* keeps the promise of the abstract ThroughSeqno.                         *)
THEOREM ImplementsPromise == Spec => RefinesPromise
<1>1. Init => Promise!Init
  BY DEF Init, FlowInit, Seqno, Promise!Init, Promise!FlowInit, Promise!Seqno
<1> QED
  BY <1>1, Invariance, StepSimulation, PTL DEF Spec, RefinesPromise, Promise!Spec

(* The through seqno never moves back while a stream is open.              *)
THEOREM NeverBack == Spec => ForwardOnly
<1>1. IInv /\ [Next]_vars =>
        [start_seqno' = start_seqno => through_seqno' >= through_seqno]_vars
  <2> SUFFICES ASSUME IInv, Next, start_seqno' = start_seqno PROVE through_seqno' >= through_seqno
    OBVIOUS
  <2>1. through_seqno \in Nat
    BY Basics
  <2>2. CASE \E n \in 0..MaxSeqno : SetStartSeqno(n)
    <3>1. Streamed = {} /\ through_seqno' = start_seqno'
      BY <2>2 DEF SetStartSeqno, StartAt
    <3>2. through_seqno = start_seqno
      BY <3>1, Basics DEF IInv, NeverAGap
    <3> QED
      BY <2>1, <3>1, <3>2
  <2>3. CASE Return
    <3>1. pc = "scan" /\ (through_seqno' = through_seqno \/ (found_seqno # 0 /\ through_seqno' = found_seqno))
      BY <2>3 DEF Return, EndScan
    <3> QED
      BY <2>1, <3>1, WalkFacts, Basics
  <2>4. CASE through_seqno' = through_seqno
    BY <2>1, <2>4
  <2>5. Flow => through_seqno' = through_seqno
    BY DEF Flow
  <2>6. ASSUME NEW s \in Seqno, ProcessEvent(s) \/ truncateSeqnoLists(s)
        PROVE  through_seqno' = through_seqno
    BY <2>6 DEF ProcessEvent, processGapSeqnos, addSentSeqno, addFilteredSeqno, addFailedCRSeqno,
                truncateSeqnoLists, TruncateSent, TruncateFiltered, TruncateFailedCR, TruncateGaps
  <2>7. ReadSent \/ ReadFiltered \/ ReadFailedCR \/ ReadGaps \/ ScanFound \/ ScanGap
          => through_seqno' = through_seqno
    BY DEF ReadSent, ReadFiltered, ReadFailedCR, ReadGaps, ScanFound, ScanGap
  <2> QED
    BY <2>2, <2>3, <2>4, <2>5, <2>6, <2>7 DEF Next, GetThroughSeqno
<1> QED
  BY <1>1, Invariance, PTL DEF Spec, ForwardOnly
=============================================================================
