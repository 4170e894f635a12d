----------------------- MODULE IngressPipeline_proofs -----------------------
(***************************************************************************)
(* What IngressPipeline guarantees for every number of machines, callback  *)
(* threads, publishers and failures.                                       *)
(***************************************************************************)
EXTENDS IngressPipeline, FiniteSetTheorems, SequenceTheorems, TLAPS

(* Whatever names a journal row names one that exists, and whatever names  *)
(* a machine names a configured one.                                       *)
Rooted ==
  /\ \A s \in Rows : ev[s] \in Event
  /\ job.stage # "free" => job.seq \in Rows
  /\ \A w \in Workers :
       /\ cb[w].pc = "entered" => cb[w].ev \in Event
       /\ cb[w].pc \in {"appended", "dispatching"} => cb[w].seq \in Rows
  /\ rp.pubs \cup rp.csvs \subseteq Rows
  /\ rp.pc \in {"leaving", "retired", "flushed", "pop", "rerouting"}
       => rp.ep \in Endpoints

TypeInv == TypeOK /\ Rooted

-----------------------------------------------------------------------------
(* Sequences of rows                                                       *)

(* A row occurs a natural number of times in a sequence.                   *)
LEMMA OccursNat ==
  ASSUME NEW q \in Seq(Seqs), NEW s
  PROVE  Occurs(s, q) \in Nat
<1>1. IsFiniteSet(1..Len(q))
  BY FS_Interval, LenProperties
<1>2. {i \in DOMAIN q : q[i] = s} \in SUBSET (1..Len(q))
  BY LenProperties
<1> QED
  BY <1>1, <1>2, FS_Subset, FS_CardinalityType DEF Occurs

(* The rows of a sequence of entries are entries.                          *)
LEMMA RowSetSeqs ==
  ASSUME NEW q \in Seq(Seqs)
  PROVE  RowSet(q) \subseteq Seqs
  BY ElementOfSeq, LenProperties DEF RowSet

(* Taking references away leaves a reference count.                        *)
LEMMA UnreferencedType ==
  ASSUME NEW r \in [Seqs -> Nat], NEW q \in Seq(Seqs)
  PROVE  Unreferenced(r, q) \in [Seqs -> Nat]
<1> SUFFICES ASSUME NEW s \in Seqs
             PROVE  (IF Occurs(s, q) >= r[s] THEN 0
                     ELSE r[s] - Occurs(s, q)) \in Nat
  BY DEF Unreferenced
<1>1. Occurs(s, q) \in Nat
  BY OccursNat
<1> QED
  BY <1>1

(* The two ends of the pre-lot rows are sequences of entries.              *)
LEMMA PruneTypes ==
  ASSUME pre \in [Endpoints -> Seq(Seqs)], NEW e \in Endpoints,
         NEW n \in 0..Len(pre[e])
  PROVE  Expired(e, n) \in Seq(Seqs) /\ Surviving(e, n) \in Seq(Seqs)
<1>1. pre[e] \in Seq(Seqs) /\ Len(pre[e]) \in Nat /\ n \in Nat
  BY LenProperties
<1>2. \A i \in 1..Len(pre[e]) : pre[e][i] \in Seqs
  BY <1>1, ElementOfSeq
<1>3. \A i \in 1..n : pre[e][i] \in Seqs
  BY <1>1, <1>2
<1>4. \A i \in (n+1)..Len(pre[e]) : pre[e][i] \in Seqs
  BY <1>1, <1>2
<1>5. SubSeq(pre[e], 1, n) \in Seq(Seqs)
  BY <1>1, <1>3, SubSeqProperties
<1>6. SubSeq(pre[e], n + 1, Len(pre[e])) \in Seq(Seqs)
  BY <1>1, <1>4, SubSeqProperties
<1> QED
  BY <1>5, <1>6 DEF Expired, Surviving

-----------------------------------------------------------------------------
LEMMA TypeInit == Init => TypeInv
<1> SUFFICES ASSUME Init PROVE TypeInv
  OBVIOUS
<1> USE PipelineAssumption DEF Init
<1>1. TypeOK
  BY EmptySeq DEF TypeOK, NoJob, Job, IdleSupervisor, Supervisor,
     IdleCallback, Callback, Budget, Seqs, Sinks
<1>2. Rooted
  BY DEF Rooted, NoJob, IdleSupervisor, IdleCallback, Rows
<1> QED
  BY <1>1, <1>2 DEF TypeInv

(* Journal rows are entries.                                               *)
LEMMA RowsAreSeqs == TypeInv => Rows \subseteq Seqs
  BY PipelineAssumption DEF TypeInv, TypeOK, Rows, Seqs

(* A failure is paid for out of the budget.                                *)
LEMMA FaultType ==
  ASSUME TypeInv, NEW f, Fault(f)
  PROVE  budget' \in Budget
<1>1. budget \in Budget
  BY DEF TypeInv, TypeOK
<1>2. budget.faults - 1 \in 0..MaxFaults
  BY <1>1, PipelineAssumption DEF Fault, Budget
<1> QED
  BY <1>1, <1>2 DEF Fault, Budget

(* One reference more is still a reference count.                          *)
LEMMA ReferencedType ==
  ASSUME NEW r \in [Seqs -> Nat], NEW s \in Seqs
  PROVE  [r EXCEPT ![s] = @ + 1] \in [Seqs -> Nat]
<1>1. r[s] + 1 \in Nat
  OBVIOUS
<1> QED
  BY <1>1

(* Replacing one value of a function by another of the same set.           *)
LEMMA Replaced ==
  ASSUME NEW D, NEW S, NEW f \in [D -> S], NEW d, NEW x \in S
  PROVE  [f EXCEPT ![d] = x] \in [D -> S]
OBVIOUS

(* The machine and the rows a dispatch works on.                           *)
LEMMA JobTypes ==
  ASSUME TypeInv, job.stage # "free"
  PROVE  /\ job.seq \in Seqs /\ JobEvent \in Event /\ JobEp \in Endpoints
         /\ buf[JobEp] \in Seq(Seqs) /\ pre[JobEp] \in Seq(Seqs)
<1>1. job.seq \in Seqs /\ JobEvent \in Event
  BY RowsAreSeqs DEF TypeInv, Rooted, JobEvent
<1>2. JobEp \in Endpoints
  BY <1>1 DEF JobEp, Event
<1> QED
  BY <1>1, <1>2 DEF TypeInv, TypeOK

(* Leaving the dispatch lock keeps every thread's record well formed.      *)
LEMMA UnlockType ==
  ASSUME TypeInv, job.stage # "free", NEW ok \in BOOLEAN, Unlock(ok)
  PROVE  /\ job' \in Job /\ job'.stage = "free"
         /\ cb' \in [Workers -> Callback]
         /\ \A w \in Workers : cb'[w] = cb[w] \/ cb'[w].pc = "idle"
         /\ rp' \in Supervisor /\ rp'.pc = rp.pc /\ rp'.ep = rp.ep
         /\ rp'.pubs \subseteq rp.pubs /\ rp'.csvs \subseteq rp.csvs
<1> USE DEF TypeInv, TypeOK, Rooted, Rows, Unlock
<1>1. job' \in Job /\ job'.stage = "free"
  BY PipelineAssumption DEF Job, NoJob
<1>2. cb' \in [Workers -> Callback]
      /\ \A w \in Workers : cb'[w] = cb[w] \/ cb'[w].pc = "idle"
  <2>1. cb' = cb \/ cb' = [cb EXCEPT ![job.owner] = IdleCallback]
    OBVIOUS
  <2>2. IdleCallback \in Callback /\ IdleCallback.pc = "idle"
    BY PipelineAssumption DEF IdleCallback, Callback
  <2> HIDE DEF Unlock, Rooted
  <2> QED
    BY <2>1, <2>2
<1>3. /\ rp' \in Supervisor /\ rp'.pc = rp.pc /\ rp'.ep = rp.ep
      /\ rp'.pubs \subseteq rp.pubs /\ rp'.csvs \subseteq rp.csvs
  <2>1. JobEp \in Endpoints
    BY JobTypes
  <2>2. rp \in Supervisor
    OBVIOUS
  <2>3. \/ rp' = rp
        \/ rp' = [rp EXCEPT !.pubs = rp.pubs \ {job.seq},
                            !.csvs = rp.csvs \ {job.seq},
                            !.blocked = IF ok THEN rp.blocked
                                        ELSE rp.blocked \cup {JobEp}]
    OBVIOUS
  <2> HIDE DEF Unlock, Rooted, TypeInv, TypeOK
  <2>4. CASE rp' = rp
    BY <2>2, <2>4
  <2>5. ASSUME NEW P \in SUBSET rp.pubs, NEW C \in SUBSET rp.csvs,
               NEW B \in SUBSET Endpoints,
               rp' = [rp EXCEPT !.pubs = P, !.csvs = C, !.blocked = B]
        PROVE  /\ rp' \in Supervisor /\ rp'.pc = rp.pc /\ rp'.ep = rp.ep
               /\ rp'.pubs \subseteq rp.pubs /\ rp'.csvs \subseteq rp.csvs
    BY <2>2, <2>5 DEF Supervisor
  <2>6. /\ rp.pubs \ {job.seq} \in SUBSET rp.pubs
        /\ rp.csvs \ {job.seq} \in SUBSET rp.csvs
        /\ (IF ok THEN rp.blocked ELSE rp.blocked \cup {JobEp})
             \in SUBSET Endpoints
    BY <2>1, <2>2 DEF Supervisor
  <2> QED
    BY <2>3, <2>4, <2>5, <2>6
<1> QED
  BY <1>1, <1>2, <1>3

(* The lot writer's steps keep the types.                                  *)
LEMMA CsvLotChangedType == TypeInv /\ CsvLotChanged => TypeInv'
<1> SUFFICES ASSUME TypeInv, CsvLotChanged PROVE TypeInv'
  OBVIOUS
<1>1. job.stage # "free" /\ JobEp \in Endpoints /\ buf[JobEp] \in Seq(Seqs)
  BY JobTypes DEF CsvLotChanged, CsvLeg
<1>2. RowSet(buf[JobEp]) \subseteq Seqs
  BY <1>1, RowSetSeqs
<1>3. job' \in Job /\ job'.seq = job.seq
  BY DEF CsvLotChanged, CsvEnds, TypeInv, TypeOK, Job
<1>4. budget' \in Budget
  BY FaultType DEF CsvLotChanged, NoFault, TypeInv, TypeOK
<1>5. disk' \subseteq Seqs
  BY <1>2 DEF CsvLotChanged, TypeInv, TypeOK
<1>6. wfail' \in [Endpoints -> BOOLEAN]
  BY DEF CsvLotChanged, TypeInv, TypeOK
<1> QED
  BY <1>1, <1>3, <1>4, <1>5, <1>6 DEF CsvLotChanged, TypeInv, TypeOK, Rooted,
     Rows, journal, outboxes, sessions

LEMMA CsvPreLotType ==
  ASSUME TypeInv, NEW n \in 0..MaxSeq, CsvPreLot(n) PROVE TypeInv'
<1> DEFINE e    == JobEp
           gone == Expired(e, n)
           kept == Append(Surviving(e, n), job.seq)
           left == [Unreferenced(refs, gone) EXCEPT ![job.seq] = @ + 1]
           over == IF Len(kept) > PreLotMax THEN <<Head(kept)>> ELSE <<>>
<1>1. /\ job.stage # "free" /\ e \in Endpoints /\ job.seq \in Seqs
      /\ n \in 0..Len(pre[e])
  BY JobTypes DEF CsvPreLot, CsvLeg, Prune
<1>2. gone \in Seq(Seqs) /\ Surviving(e, n) \in Seq(Seqs)
  BY <1>1, PruneTypes DEF TypeInv, TypeOK
<1>3. kept \in Seq(Seqs) /\ kept # <<>>
  BY <1>1, <1>2, AppendProperties
<1>4. Head(kept) \in Seqs /\ Tail(kept) \in Seq(Seqs)
  BY <1>3, HeadTailProperties
<1>5. over \in Seq(Seqs)
  BY <1>4
<1>6. left \in [Seqs -> Nat]
  <2>1. Unreferenced(refs, gone) \in [Seqs -> Nat]
    BY <1>2, UnreferencedType DEF TypeInv, TypeOK
  <2> HIDE DEF gone
  <2> QED
    BY <1>1, <2>1, ReferencedType
<1>7. refs' \in [Seqs -> Nat]
  BY <1>5, <1>6, UnreferencedType DEF CsvPreLot
<1>8. pre' \in [Endpoints -> Seq(Seqs)]
  BY <1>3, <1>4 DEF CsvPreLot, TypeInv, TypeOK
<1>9. csv' \in [Seqs -> {"absent", "pending", "done", "dropped", "skipped"}]
  BY DEF CsvPreLot, CsvSet, TypeInv, TypeOK
<1>10. dropped' \subseteq Seqs
  <2>1. RowSet(gone) \subseteq Seqs /\ RowSet(over) \subseteq Seqs
    BY <1>2, <1>5, RowSetSeqs
  <2>2. dropped' \subseteq dropped \cup RowSet(gone) \cup RowSet(over)
    BY DEF CsvPreLot
  <2> QED
    BY <2>1, <2>2 DEF TypeInv, TypeOK
<1>11. job' \in Job /\ job'.seq = job.seq
  BY DEF CsvPreLot, CsvEnds, TypeInv, TypeOK, Job
<1>12. budget' \in Budget
  BY FaultType DEF CsvPreLot, Prune, NoFault, TypeInv, TypeOK
<1> QED
  BY <1>1, <1>7, <1>8, <1>9, <1>10, <1>11, <1>12
  DEF CsvPreLot, TypeInv, TypeOK, Rooted, Rows, outboxes, sessions

LEMMA CsvBufferType ==
  ASSUME TypeInv, NEW n \in 0..MaxSeq, CsvBuffer(n) PROVE TypeInv'
<1> DEFINE e     == JobEp
           v     == JobEvent
           gone  == IF Opens(e) THEN Expired(e, n) ELSE <<>>
           rows  == Buffered(e, n)
           left  == [Unreferenced(refs, gone) EXCEPT ![job.seq] = @ + 1]
           stale == LastRows(refs, gone)
           evict == ~v.closes /\ wfail[e] /\ Len(rows) > MaxLotRows
<1>1. /\ job.stage # "free" /\ e \in Endpoints /\ job.seq \in Seqs
      /\ v \in Event /\ buf[e] \in Seq(Seqs)
  BY JobTypes DEF CsvBuffer, CsvLeg
<1>2. Opens(e) => n \in 0..Len(pre[e])
  BY DEF CsvBuffer
<1>3. gone \in Seq(Seqs)
  BY <1>1, <1>2, PruneTypes, EmptySeq DEF TypeInv, TypeOK
<1>4. rows \in Seq(Seqs)
  <2>1. Opens(e) => Surviving(e, n) \in Seq(Seqs)
    BY <1>1, <1>2, PruneTypes DEF TypeInv, TypeOK
  <2> QED
    BY <1>1, <2>1, AppendProperties DEF Buffered, Opens
<1>5. left \in [Seqs -> Nat]
  <2>1. Unreferenced(refs, gone) \in [Seqs -> Nat]
    BY <1>3, UnreferencedType DEF TypeInv, TypeOK
  <2> HIDE DEF gone
  <2> QED
    BY <1>1, <2>1, ReferencedType
<1>6. refs' \in [Seqs -> Nat]
  BY <1>4, <1>5, UnreferencedType DEF CsvBuffer
<1>7. RowSet(rows) \subseteq Seqs /\ RowSet(gone) \subseteq Seqs
  BY <1>3, <1>4, RowSetSeqs
<1>8. dropped' \subseteq Seqs
  <2>1. dropped' \subseteq dropped \cup RowSet(gone)
    BY DEF CsvBuffer
  <2> QED
    BY <1>7, <2>1 DEF TypeInv, TypeOK
<1>9. disk' \subseteq Seqs
  <2>1. disk' \subseteq disk \cup RowSet(rows)
    BY DEF CsvBuffer
  <2> QED
    BY <1>7, <2>1 DEF TypeInv, TypeOK
<1>10. buf' \in [Endpoints -> Seq(Seqs)]
  BY <1>4, EmptySeq DEF CsvBuffer, TypeInv, TypeOK
<1>11. pre' \in [Endpoints -> Seq(Seqs)]
  BY EmptySeq DEF CsvBuffer, TypeInv, TypeOK
<1>12. lotOf' \in [Endpoints -> Lots \cup {NoBuffer}]
  <2>1. Opens(e) => v.lot \in Lots
    BY <1>1 DEF CsvBuffer, Event
  <2>2. lotOf' = [lotOf EXCEPT ![e] = IF evict THEN NoBuffer
                                      ELSE IF Opens(e) THEN v.lot ELSE @]
    BY DEF CsvBuffer
  <2> QED
    BY <2>1, <2>2 DEF TypeInv, TypeOK
<1>13. csv' \in [Seqs -> {"absent", "pending", "done", "dropped", "skipped"}]
  BY DEF CsvBuffer, CsvSet, TypeInv, TypeOK
<1>14. job' \in Job /\ job'.seq = job.seq
  <2>1. \/ job' = [job EXCEPT !.stage = "end", !.csvok = TRUE]
        \/ job' = [job EXCEPT !.stage = "end", !.csvok = FALSE]
        \/ job' = [job EXCEPT !.stage = "release"]
    BY DEF CsvBuffer, CsvEnds
  <2>2. job \in Job
    BY DEF TypeInv, TypeOK
  <2> QED
    BY <2>1, <2>2 DEF Job
<1>15. budget' \in Budget
  BY FaultType DEF CsvBuffer, NoFault, TypeInv, TypeOK
<1>16. wfail' \in [Endpoints -> BOOLEAN]
  BY DEF CsvBuffer, TypeInv, TypeOK
<1> QED
  BY <1>1, <1>6, <1>8, <1>9, <1>10, <1>11, <1>12, <1>13, <1>14, <1>15, <1>16
  DEF CsvBuffer, TypeInv, TypeOK, Rooted, Rows, outboxes, sessions

LEMMA ReleaseType == TypeInv /\ Release => TypeInv'
<1> SUFFICES ASSUME TypeInv, Release PROVE TypeInv'
  OBVIOUS
<1>1. /\ job.stage # "free" /\ JobEp \in Endpoints /\ JobEvent \in Event
      /\ buf[JobEp] \in Seq(Seqs)
  BY JobTypes DEF Release
<1>2. refs' \in [Seqs -> Nat]
  BY <1>1, UnreferencedType DEF Release, TypeInv, TypeOK
<1>3. dropped' \subseteq Seqs
  BY DEF Release, TypeInv, TypeOK
<1>4. csv' \in [Seqs -> {"absent", "pending", "done", "dropped", "skipped"}]
  BY DEF Release, Resolved, CsvSet, TypeInv, TypeOK
<1>5. buf' \in [Endpoints -> Seq(Seqs)]
  <2>1. buf' = buf \/ buf' = [buf EXCEPT ![JobEp] = <<>>]
    BY DEF Release
  <2>2. buf \in [Endpoints -> Seq(Seqs)]
    BY DEF TypeInv, TypeOK
  <2> QED
    BY <2>1, <2>2, EmptySeq
<1>6. lotOf' \in [Endpoints -> Lots \cup {NoBuffer}]
  <2>1. LotChanged(JobEvent) => JobEvent.lot \in Lots
    BY <1>1 DEF LotChanged, Event
  <2> QED
    BY <2>1 DEF Release, TypeInv, TypeOK
<1>7. job' \in Job /\ job'.seq = job.seq
  BY DEF Release, CsvEnds, TypeInv, TypeOK, Job
<1>8. budget' \in Budget
  BY FaultType DEF Release, NoFault, TypeInv, TypeOK
<1> QED
  BY <1>1, <1>2, <1>3, <1>4, <1>5, <1>6, <1>7, <1>8
  DEF Release, TypeInv, TypeOK, Rooted, Rows, outboxes, sessions

LEMMA StopWritesType == TypeInv /\ StopWrites => TypeInv'
<1> SUFFICES ASSUME TypeInv, StopWrites PROVE TypeInv'
  OBVIOUS
<1>1. rp.ep \in Endpoints /\ buf[rp.ep] \in Seq(Seqs)
  BY DEF StopWrites, TypeInv, TypeOK, Rooted
<1>2. disk' \subseteq Seqs
  <2>1. RowSet(buf[rp.ep]) \subseteq Seqs
    BY <1>1, RowSetSeqs
  <2> QED
    BY <2>1 DEF StopWrites, TypeInv, TypeOK
<1>3. wfail' \in [Endpoints -> BOOLEAN]
  BY DEF StopWrites, TypeInv, TypeOK
<1>4. /\ rp' \in Supervisor /\ rp'.pubs = rp.pubs /\ rp'.csvs = rp.csvs
      /\ rp'.pc = "idle" \/ rp'.ep = rp.ep
  BY DEF StopWrites, StopAborts, TypeInv, TypeOK, Supervisor
<1>5. budget' \in Budget
  BY FaultType DEF StopWrites, NoFault, TypeInv, TypeOK
<1> QED
  BY <1>1, <1>2, <1>3, <1>4, <1>5
  DEF StopWrites, TypeInv, TypeOK, Rooted, Rows, journal, outboxes, sessions

LEMMA StopReleasesType == TypeInv /\ StopReleases => TypeInv'
<1> SUFFICES ASSUME TypeInv, StopReleases PROVE TypeInv'
  OBVIOUS
<1>1. /\ rp.ep \in Endpoints /\ buf[rp.ep] \in Seq(Seqs)
      /\ pre[rp.ep] \in Seq(Seqs)
  BY DEF StopReleases, TypeInv, TypeOK, Rooted
<1>2. Unreferenced(refs, buf[rp.ep]) \in [Seqs -> Nat]
  BY <1>1, UnreferencedType DEF TypeInv, TypeOK
<1>3. refs' \in [Seqs -> Nat]
  BY <1>1, <1>2, UnreferencedType DEF StopReleases
<1>4. dropped' \subseteq Seqs
  BY DEF StopReleases, TypeInv, TypeOK
<1>5. csv' \in [Seqs -> {"absent", "pending", "done", "dropped", "skipped"}]
  BY DEF StopReleases, Resolved, CsvSet, TypeInv, TypeOK
<1>6. /\ buf' \in [Endpoints -> Seq(Seqs)] /\ pre' \in [Endpoints -> Seq(Seqs)]
      /\ lotOf' \in [Endpoints -> Lots \cup {NoBuffer}]
  <2>1. /\ buf' = buf \/ buf' = [buf EXCEPT ![rp.ep] = <<>>]
        /\ pre' = pre \/ pre' = [pre EXCEPT ![rp.ep] = <<>>]
        /\ lotOf' = lotOf \/ lotOf' = [lotOf EXCEPT ![rp.ep] = NoBuffer]
    BY DEF StopReleases
  <2>2. /\ buf \in [Endpoints -> Seq(Seqs)] /\ pre \in [Endpoints -> Seq(Seqs)]
        /\ lotOf \in [Endpoints -> Lots \cup {NoBuffer}]
    BY DEF TypeInv, TypeOK
  <2>3. <<>> \in Seq(Seqs)
    BY EmptySeq
  <2>4. NoBuffer \in Lots \cup {NoBuffer}
    OBVIOUS
  <2>5. \A D, S : \A f \in [D -> S], x \in S : \A d :
          [f EXCEPT ![d] = x] \in [D -> S]
    BY Replaced
  <2>6. /\ [buf EXCEPT ![rp.ep] = <<>>] \in [Endpoints -> Seq(Seqs)]
        /\ [pre EXCEPT ![rp.ep] = <<>>] \in [Endpoints -> Seq(Seqs)]
        /\ [lotOf EXCEPT ![rp.ep] = NoBuffer]
             \in [Endpoints -> Lots \cup {NoBuffer}]
    BY <2>2, <2>3, <2>4, <2>5, Zenon
  <2> QED
    BY <2>1, <2>2, <2>6
<1>7. /\ rp' \in Supervisor /\ rp'.pubs = rp.pubs /\ rp'.csvs = rp.csvs
      /\ rp'.pc = "idle" \/ rp'.ep = rp.ep
  BY DEF StopReleases, StopAborts, TypeInv, TypeOK, Supervisor
<1>8. budget' \in Budget
  BY FaultType DEF StopReleases, NoFault, TypeInv, TypeOK
<1> QED
  BY <1>1, <1>3, <1>4, <1>5, <1>6, <1>7, <1>8
  DEF StopReleases, TypeInv, TypeOK, Rooted, Rows, outboxes, sessions

LEMMA CrashType == TypeInv /\ Crash => TypeInv'
<1> SUFFICES ASSUME TypeInv, Crash PROVE TypeInv'
  OBVIOUS
<1>1. job' \in Job /\ job'.stage = "free"
  BY PipelineAssumption DEF Crash, Job, NoJob
<1>2. /\ rp' \in Supervisor /\ rp'.pc = "idle"
      /\ rp'.pubs = {} /\ rp'.csvs = {}
  BY DEF Crash, IdleSupervisor, Supervisor
<1>3. /\ cb' \in [Workers -> Callback]
      /\ \A w \in Workers : cb'[w].pc = "idle"
  BY PipelineAssumption DEF Crash, IdleCallback, Callback
<1>4. /\ buf' \in [Endpoints -> Seq(Seqs)] /\ pre' \in [Endpoints -> Seq(Seqs)]
      /\ lotOf' \in [Endpoints -> Lots \cup {NoBuffer}]
      /\ wfail' \in [Endpoints -> BOOLEAN] /\ refs' \in [Seqs -> Nat]
  BY EmptySeq DEF Crash
<1>5. budget' \in Budget
  <2>1. budget \in Budget
    BY DEF TypeInv, TypeOK
  <2>2. budget.crashes - 1 \in 0..MaxCrashes
    BY <2>1, PipelineAssumption DEF Crash, Budget
  <2>3. budget' = [budget EXCEPT !.crashes = @ - 1]
    BY DEF Crash
  <2> QED
    BY <2>1, <2>2, <2>3 DEF Budget
<1> QED
  BY <1>1, <1>2, <1>3, <1>4, <1>5
  DEF Crash, TypeInv, TypeOK, Rooted, Rows, journal, outboxes

LEMMA TypeStep == TypeInv /\ [Next]_vars => TypeInv'
<1> SUFFICES ASSUME TypeInv, [Next]_vars PROVE TypeInv'
  OBVIOUS
<1> USE DEF TypeInv, TypeOK, Rooted, Rows, journal, outboxes, writer, sessions
<1>1. ASSUME NEW w \in Workers, NEW o \in Offers, Enter(w, o) PROVE TypeInv'
  <2>1. cb' \in [Workers -> Callback] /\ cb'[w].pc = "entered" /\ cb'[w].ev \in Event
        /\ \A x \in Workers : x = w \/ cb'[x] = cb[x]
    BY <1>1, PipelineAssumption DEF Enter, Callback
  <2> QED BY <1>1, <2>1 DEF Enter
<1>2. ASSUME NEW w \in Workers, JournalAppend(w) PROVE TypeInv'
  <2>1. cb' \in [Workers -> Callback] /\ cb'[w].pc = "appended" /\ cb'[w].seq = next + 1
        /\ \A x \in Workers : x = w \/ cb'[x] = cb[x]
    BY <1>2, PipelineAssumption DEF JournalAppend, Callback
  <2>2. next' \in 0..MaxSeq /\ next' = next + 1
    BY <1>2, PipelineAssumption DEF JournalAppend
  <2>3. ev' \in [Seqs -> Event \cup {NoEvent}] /\ \A s \in 1..next' : ev'[s] \in Event
    BY <1>2, <2>2, PipelineAssumption DEF JournalAppend, Seqs
  <2>4. disp' \in [Seqs -> {"absent", "pending", "done", "dropped"}]
        /\ csv' \in [Seqs -> {"absent", "pending", "done", "dropped", "skipped"}]
    BY <1>2 DEF JournalAppend
  <2>5. TypeOK' 
    BY <1>2, <2>1, <2>2, <2>3, <2>4 DEF JournalAppend
  <2>6. \A n \in 1..next : n \in 1..next'
    BY <2>2, PipelineAssumption
  <2>7. next+1 \in 1..next'
    BY <2>2, PipelineAssumption
  <2> QED BY <1>2, <2>1, <2>3, <2>5, <2>6, <2>7 DEF JournalAppend
<1>3. ASSUME NEW w \in Workers, ClaimLive(w) PROVE TypeInv'
  <2>1. job' \in Job /\ job'.seq = cb[w].seq
    BY <1>3, PipelineAssumption
       DEF ClaimLive, Job, NoJob, Callback, OwedPublish, OwedCsv
  <2>2. /\ cb' \in [Workers -> Callback] /\ cb'[w].seq = cb[w].seq
        /\ cb'[w].pc = "dispatching"
        /\ \A x \in Workers : x = w \/ cb'[x] = cb[x]
    BY <1>3 DEF ClaimLive, Callback
  <2> QED
    BY <1>3, <2>1, <2>2 DEF ClaimLive
<1>4. ASSUME NEW k \in Sinks, Enqueue(k) PROVE TypeInv'
  <2>1. job' \in Job /\ job'.seq = job.seq /\ job.stage # "free"
    <3>1. job \in Job /\ k + 1 \in 1..(NumSinks + 1)
      BY PipelineAssumption DEF Sinks
    <3>2. job' = [job EXCEPT !.sink = k + 1] /\ job.stage = "publish"
      BY <1>4 DEF Enqueue, Publishing
    <3> QED
      BY <3>1, <3>2 DEF Job
  <2>2. job.seq \in Seqs
    BY <2>1, PipelineAssumption DEF Seqs
  <2>3. queued' \in [Sinks -> SUBSET Seqs] /\ unsent' \in [Sinks -> SUBSET Seqs]
    BY <1>4, <2>2 DEF Enqueue
  <2> QED
    BY <1>4, <2>1, <2>3 DEF Enqueue
<1>4a. ASSUME NEW k \in Sinks, Divert(k) PROVE TypeInv'
  <2>1. job' \in Job /\ job'.seq = job.seq /\ job.stage # "free"
    <3>1. job \in Job /\ k + 1 \in 1..(NumSinks + 1)
      BY PipelineAssumption DEF Sinks
    <3>2. job' = [job EXCEPT !.sink = k + 1] /\ job.stage = "publish"
      BY <1>4a DEF Divert, Publishing
    <3> QED
      BY <3>1, <3>2 DEF Job
  <2>2. diverted' \subseteq Seqs
    BY <1>4a, <2>1, JobTypes DEF Divert
  <2> QED
    BY <1>4a, <2>1, <2>2 DEF Divert
<1>5. ASSUME NEW k \in Sinks, OutboxFull(k) PROVE TypeInv'
  <2>1. job' \in Job /\ job'.seq = job.seq /\ job.stage # "free"
    BY <1>5 DEF OutboxFull, Publishing, PublishRaised, AfterPublish, Job
  <2> QED
    BY <1>5, <2>1 DEF OutboxFull
<1>6. ASSUME NEW k \in Sinks, SinkRaises(k) PROVE TypeInv'
  <2>1. job' \in Job /\ job'.seq = job.seq /\ job.stage # "free"
    BY <1>6 DEF SinkRaises, Publishing, PublishRaised, AfterPublish, Job
  <2>2. budget' \in Budget
    BY <1>6, FaultType DEF SinkRaises
  <2> QED
    BY <1>6, <2>1, <2>2 DEF SinkRaises
<1>7. CASE NothingToDo
  <2>1. Unlock(TRUE) /\ job.stage # "free"
    BY <1>7 DEF NothingToDo
  <2> QED
    BY <1>7, <2>1, UnlockType DEF NothingToDo
<1>8. CASE DropUnconfigured
  <2>1. /\ disp' \in [Seqs -> {"absent", "pending", "done", "dropped"}]
        /\ csv' \in [Seqs -> {"absent", "pending", "done", "dropped",
                              "skipped"}]
    BY <1>8 DEF DropUnconfigured
  <2>2. Unlock(TRUE) /\ job.stage # "free"
    BY <1>8 DEF DropUnconfigured
  <2> QED
    BY <1>8, <2>1, <2>2, UnlockType DEF DropUnconfigured
<1>9. CASE Begin
  <2>1. job' \in Job /\ job'.seq = job.seq /\ job.stage # "free"
    BY <1>9 DEF Begin, Job, CsvNotHeld
  <2>2. csv' \in [Seqs -> {"absent", "pending", "done", "dropped", "skipped"}]
    BY <1>9 DEF Begin
  <2> QED
    BY <1>9, <2>1, <2>2 DEF Begin
<1>10. CASE MarkDispatched
  <2>1. job' \in Job /\ job'.seq = job.seq /\ job.stage # "free"
    BY <1>10 DEF MarkDispatched, AfterPublish, AllQueued, Job
  <2>2. disp' \in [Seqs -> {"absent", "pending", "done", "dropped"}]
    BY <1>10 DEF MarkDispatched
  <2> QED
    BY <1>10, <2>1, <2>2 DEF MarkDispatched
<1>11. CASE MarkRaises
  <2>1. job' \in Job /\ job'.seq = job.seq /\ job.stage # "free"
    BY <1>11 DEF MarkRaises, AllQueued, Job
  <2>2. budget' \in Budget
    BY <1>11, FaultType DEF MarkRaises
  <2> QED
    BY <1>11, <2>1, <2>2 DEF MarkRaises
<1>12. CASE ShedAlarm
  <2>1. job' \in Job /\ job'.seq = job.seq /\ job.stage # "free"
    BY <1>12 DEF ShedAlarm, Publishing, Job
  <2>2. budget' \in Budget
    BY <1>12, FaultType DEF ShedAlarm
  <2>3. disp' \in [Seqs -> {"absent", "pending", "done", "dropped"}]
    BY <1>12 DEF ShedAlarm
  <2> QED
    BY <1>12, <2>1, <2>2, <2>3 DEF ShedAlarm
<1>13. CASE CsvSkip
  <2>1. job' \in Job /\ job'.seq = job.seq /\ job.stage # "free"
    BY <1>13 DEF CsvSkip, CsvLeg, CsvEnds, Job
  <2>2. csv' \in [Seqs -> {"absent", "pending", "done", "dropped", "skipped"}]
    BY <1>13 DEF CsvSkip, CsvSet
  <2> QED
    BY <1>13, <2>1, <2>2 DEF CsvSkip
<1>14. CASE CsvLotChanged
  BY <1>14, CsvLotChangedType
<1>15. ASSUME NEW n \in 0..MaxSeq, CsvPreLot(n) PROVE TypeInv'
  BY <1>15, CsvPreLotType
<1>16. ASSUME NEW n \in 0..MaxSeq, CsvBuffer(n) PROVE TypeInv'
  BY <1>16, CsvBufferType
<1>17. CASE Release
  BY <1>17, ReleaseType
<1>18. CASE EntryEnds
  <2>1. Unlock(job.error = "no" /\ job.csvok) /\ job.stage # "free"
    BY <1>18 DEF EntryEnds
  <2>2. (job.error = "no" /\ job.csvok) \in BOOLEAN
    OBVIOUS
  <2> QED
    BY <1>18, <2>1, <2>2, UnlockType DEF EntryEnds
<1>19. CASE EntryFails
  <2>1. job' \in Job /\ job'.seq = job.seq /\ job.stage # "free"
    BY <1>19 DEF EntryFails, Job
  <2>2. attempts' \in [Seqs -> Nat]
    <3>1. attempts \in [Seqs -> Nat] /\ job.seq \in Seqs
      BY <2>1, JobTypes
    <3>2. attempts' = [attempts EXCEPT ![job.seq] = @ + 1]
      BY <1>19 DEF EntryFails
    <3> QED
      BY <3>1, <3>2, ReferencedType
  <2> QED
    BY <1>19, <2>1, <2>2 DEF EntryFails
<1>20. CASE EntryJudged
  <2>1. /\ Unlock(attempts[job.seq] >= MaxAttempts) /\ job.stage # "free"
        /\ (attempts[job.seq] >= MaxAttempts) \in BOOLEAN
    BY <1>20 DEF EntryJudged
  <2>2. disp' \in [Seqs -> {"absent", "pending", "done", "dropped"}]
    BY <1>20 DEF EntryJudged
  <2> QED
    BY <1>20, <2>1, <2>2, UnlockType DEF EntryJudged
<1>21. CASE NoticeConfig
  <2>1. /\ rp' \in Supervisor /\ rp'.pc = rp.pc /\ rp'.ep = rp.ep
        /\ rp'.pubs = rp.pubs /\ rp'.csvs = rp.csvs
    BY <1>21 DEF NoticeConfig, Supervisor
  <2> QED
    BY <1>21, <2>1 DEF NoticeConfig
<1>22. ASSUME NEW e \in Endpoints, StartMachine(e) PROVE TypeInv'
  BY <1>22 DEF StartMachine
<1>23. ASSUME NEW e \in Endpoints, StartFails(e) PROVE TypeInv'
  <2>1. /\ rp' \in Supervisor /\ rp'.ep \in Endpoints
        /\ rp'.pubs = rp.pubs /\ rp'.csvs = rp.csvs
    BY <1>23 DEF StartFails, Supervisor
  <2>2. budget' \in Budget
    BY <1>23, FaultType DEF StartFails
  <2> QED
    BY <1>23, <2>1, <2>2 DEF StartFails
<1>24. ASSUME NEW e \in Endpoints, StopRetire(e) PROVE TypeInv'
  <2>1. /\ rp' \in Supervisor /\ rp'.ep \in Endpoints
        /\ rp'.pubs = rp.pubs /\ rp'.csvs = rp.csvs
    BY <1>24 DEF StopRetire, Supervisor
  <2> QED
    BY <1>24, <2>1 DEF StopRetire
<1>24a. CASE StopUnroutes
  <2>1. /\ rp' \in Supervisor /\ rp'.ep = rp.ep
        /\ rp'.pubs = rp.pubs /\ rp'.csvs = rp.csvs
    BY <1>24a DEF StopUnroutes, Supervisor
  <2> QED
    BY <1>24a, <2>1 DEF StopUnroutes
<1>24b. ASSUME NEW e \in Endpoints, RerouteStops(e) PROVE TypeInv'
  <2>1. /\ rp' \in Supervisor /\ rp'.ep \in Endpoints
        /\ rp'.pubs = rp.pubs /\ rp'.csvs = rp.csvs
    BY <1>24b DEF RerouteStops, Supervisor
  <2> QED
    BY <1>24b, <2>1 DEF RerouteStops
<1>24c. CASE RerouteStarts
  <2>1. /\ rp' \in Supervisor /\ rp'.pc = "idle"
        /\ rp'.pubs = rp.pubs /\ rp'.csvs = rp.csvs
    <3>1. rp \in Supervisor /\ rp.pc = "rerouting" /\ rp.ep \in Endpoints
      BY <1>24c DEF RerouteStarts
    <3>2. \/ rp' = [rp EXCEPT !.pc = "idle", !.ep = NoOne]
          \/ rp' = [rp EXCEPT !.pc = "idle", !.ep = NoOne,
                              !.failed = rp.failed \cup {rp.ep}]
      BY <1>24c DEF RerouteStarts
    <3> DEFINE all == rp.failed \cup {rp.ep}
    <3>3. all \in SUBSET Endpoints
      BY <3>1 DEF Supervisor
    <3> HIDE DEF TypeInv, TypeOK, Rooted, all
    <3>4. CASE rp' = [rp EXCEPT !.pc = "idle", !.ep = NoOne]
      BY <3>1, <3>4 DEF Supervisor
    <3>5. CASE rp' = [rp EXCEPT !.pc = "idle", !.ep = NoOne, !.failed = all]
      BY <3>1, <3>3, <3>5 DEF Supervisor
    <3> QED
      BY <3>2, <3>4, <3>5 DEF all
  <2>2. budget' \in Budget
    BY <1>24c, FaultType DEF RerouteStarts, NoFault
  <2>3. http' \subseteq Endpoints /\ rerouted' \subseteq Endpoints
    BY <1>24c DEF RerouteStarts
  <2> QED
    BY <1>24c, <2>1, <2>2, <2>3 DEF RerouteStarts
<1>25. CASE StopWrites
  BY <1>25, StopWritesType
<1>26. CASE StopReleases
  BY <1>26, StopReleasesType
<1>27. CASE StopPops
  <2>1. /\ rp' \in Supervisor /\ rp'.pc = "idle"
        /\ rp'.pubs = rp.pubs /\ rp'.csvs = rp.csvs
    BY <1>27 DEF StopPops, Supervisor
  <2> QED
    BY <1>27, <2>1 DEF StopPops
<1>28. CASE ReplayStart
  <2>1. /\ rp' \in Supervisor /\ rp'.pc = "assemble"
        /\ rp'.pubs \subseteq Rows /\ rp'.csvs = rp.csvs
    BY <1>28, RowsAreSeqs DEF ReplayStart, Supervisor, FirstPending
  <2> QED
    BY <1>28, <2>1 DEF ReplayStart
<1>29. CASE ReplayAssemble
  <2>1. /\ rp' \in Supervisor /\ rp'.pc = "pass"
        /\ rp'.pubs = rp.pubs /\ rp'.csvs \subseteq Rows
    BY <1>29, RowsAreSeqs DEF ReplayAssemble, Supervisor, FirstPending
  <2> QED
    BY <1>29, <2>1 DEF ReplayAssemble
<1>30. CASE ClaimReplay
  <2>1. PICK s \in ToReplay :
          job' = [NoJob EXCEPT !.owner = "replay", !.seq = s,
                               !.stage = "claimed",
                               !.publish = s \in rp.pubs /\ OwedPublish(s),
                               !.csv = s \in rp.csvs /\ OwedCsv(s)]
    BY <1>30 DEF ClaimReplay
  <2>2. s \in Rows /\ s \in 0..MaxSeq
    BY <2>1, RowsAreSeqs DEF ToReplay, Seqs
  <2>3. job' \in Job /\ job'.seq = s
    <3>1. NoJob \in Job
      BY PipelineAssumption DEF Job, NoJob
    <3>2. /\ (s \in rp.pubs /\ OwedPublish(s)) \in BOOLEAN
          /\ (s \in rp.csvs /\ OwedCsv(s)) \in BOOLEAN
      BY DEF OwedPublish, OwedCsv
    <3> HIDE DEF TypeInv, TypeOK, Rooted
    <3> QED
      BY <2>1, <2>2, <3>1, <3>2 DEF Job
  <2> QED
    BY <1>30, <2>2, <2>3 DEF ClaimReplay
<1>31. CASE ReplayEnds
  <2>1. /\ rp' \in Supervisor /\ rp'.pc = "idle"
        /\ rp'.pubs = {} /\ rp'.csvs = {}
    BY <1>31 DEF ReplayEnds, Supervisor
  <2> QED
    BY <1>31, <2>1 DEF ReplayEnds
<1>32. ASSUME NEW k \in Sinks, NEW s \in Seqs, Deliver(k, s) PROVE TypeInv'
  <2>1. unsent' \in [Sinks -> SUBSET Seqs]
    BY <1>32 DEF Deliver
  <2> QED
    BY <1>32, <2>1 DEF Deliver
<1>33. ASSUME NEW e \in Endpoints, EditConfig(e) PROVE TypeInv'
  <2>1. budget' \in Budget
    <3>1. budget \in Budget
      OBVIOUS
    <3>2. budget.edits > 0 /\ budget' = [budget EXCEPT !.edits = @ - 1]
      BY <1>33 DEF EditConfig
    <3> HIDE DEF TypeInv, TypeOK, Rooted
    <3>3. budget.edits - 1 \in 0..MaxEdits
      BY <3>1, <3>2, PipelineAssumption DEF Budget
    <3> QED
      BY <3>1, <3>2, <3>3 DEF Budget
  <2> QED
    BY <1>33, <2>1 DEF EditConfig
<1>33a. ASSUME NEW e \in Endpoints, EditRoute(e) PROVE TypeInv'
  <2>1. budget' \in Budget
    <3>1. budget \in Budget
      OBVIOUS
    <3>2. budget.edits > 0 /\ budget' = [budget EXCEPT !.edits = @ - 1]
      BY <1>33a DEF EditRoute
    <3> HIDE DEF TypeInv, TypeOK, Rooted
    <3>3. budget.edits - 1 \in 0..MaxEdits
      BY <3>1, <3>2, PipelineAssumption DEF Budget
    <3> QED
      BY <3>1, <3>2, <3>3 DEF Budget
  <2>2. /\ rp' \in Supervisor /\ rp'.pc = rp.pc /\ rp'.ep = rp.ep
        /\ rp'.pubs = rp.pubs /\ rp'.csvs = rp.csvs
    BY <1>33a DEF EditRoute, Supervisor
  <2> QED
    BY <1>33a, <2>1, <2>2 DEF EditRoute
<1>34. CASE Crash
  BY <1>34, CrashType
<1>35. CASE UNCHANGED vars
  BY <1>35 DEF vars
<1> QED
  BY <1>1, <1>2, <1>3, <1>4, <1>5, <1>6, <1>7, <1>8, <1>9, <1>10, <1>11,
     <1>12, <1>13, <1>14, <1>15, <1>16, <1>17, <1>18, <1>19, <1>20, <1>21,
     <1>22, <1>23, <1>24, <1>25, <1>26, <1>27, <1>28, <1>29, <1>30, <1>31,
     <1>32, <1>33, <1>34, <1>35, <1>4a, <1>24a, <1>24b, <1>24c, <1>33a
  DEF Next, DispatchStep, SupervisorStep, Publish

(* Every variable keeps its type, and every row and machine that a thread  *)
(* works on exists: the middleware's bookkeeping is never dangling.        *)
THEOREM TypeCorrect == Spec => []TypeOK
<1>1. Init => TypeInv
  BY TypeInit
<1>2. TypeInv /\ [Next]_vars => TypeInv'
  BY TypeStep
<1>3. TypeInv => TypeOK
  BY DEF TypeInv
<1> QED
  BY <1>1, <1>2, <1>3, PTL DEF Spec

-----------------------------------------------------------------------------
(* The journal lets go of nothing before it is somewhere else: a row of    *)
(* the lot files before it is on disk, an event before every publisher has *)
(* it; under crashes, edits of the configuration and failures, those of    *)
(* the journal included.                                                   *)

-----------------------------------------------------------------------------
(* Lot files                                                               *)

(* CsvDoneMeansOnDisk is not inductive: _release marks the rows of a       *)
(* buffer, so between the write and the release the buffer must hold       *)
(* nothing the write has not put on disk.                                  *)
WrittenBeforeReleased ==
  /\ CsvDoneMeansOnDisk
  /\ job.stage = "release" => RowSet(buf[JobEp]) \subseteq disk
  /\ rp.pc = "flushed" => RowSet(buf[rp.ep]) \subseteq disk

(* A step that neither touches the buffers nor resolves a row nor ends a   *)
(* write.                                                                  *)
LEMMA Undisturbed ==
  ASSUME WrittenBeforeReleased,
         buf' = buf, disk \subseteq disk',
         job'.stage = "release" =>
           job.stage = "release" /\ ev'[job'.seq] = ev[job.seq],
         rp'.pc = "flushed" => rp.pc = "flushed" /\ rp'.ep = rp.ep,
         \A s \in Seqs : csv'[s] = "done" => csv[s] = "done"
  PROVE  WrittenBeforeReleased'
BY DEF WrittenBeforeReleased, CsvDoneMeansOnDisk, RowSet, JobEp, JobEvent

(* Leaving the dispatch lock.                                              *)
LEMMA UnlockedFlush ==
  ASSUME TypeInv, NEW ok \in BOOLEAN, Unlock(ok)
  PROVE  job'.stage = "free" /\ rp'.pc = rp.pc /\ rp'.ep = rp.ep
<1>1. rp \in Supervisor
  BY DEF TypeInv, TypeOK
<1> QED
  BY <1>1 DEF Unlock, NoJob, Supervisor

(* The rows _release resolves are rows of the buffer.                      *)
LEMMA ResolvedRows ==
  ASSUME TypeInv, NEW q, RowSet(q) \subseteq disk, CsvDoneMeansOnDisk,
         NEW s \in Seqs, Resolved(q)[s] = "done"
  PROVE  s \in disk
BY DEF Resolved, LastRows, CsvDoneMeansOnDisk

LEMMA WrittenInit == Init => WrittenBeforeReleased
BY DEF Init, WrittenBeforeReleased, CsvDoneMeansOnDisk, NoJob, IdleSupervisor

(* The appender's row is new; the row a dispatch works on is not.          *)
LEMMA WrittenAppend ==
  ASSUME TypeInv, WrittenBeforeReleased, NEW w \in Workers, JournalAppend(w)
  PROVE  WrittenBeforeReleased'
<1>1. job.stage = "release" => job.seq \in 1..next
  BY DEF TypeInv, Rooted, Rows
<1>2. ev' = [ev EXCEPT ![next + 1] = cb[w].ev] /\ next \in Nat
  BY PipelineAssumption DEF JournalAppend, TypeInv, TypeOK
<1>3. job.stage = "release" => ev'[job.seq] = ev[job.seq]
  BY <1>1, <1>2
<1>4. \A s \in Seqs : csv'[s] = "done" => csv[s] = "done"
  BY DEF JournalAppend, TypeInv, TypeOK
<1> QED
  BY <1>3, <1>4, Undisturbed DEF JournalAppend, writer

LEMMA WrittenPreLot ==
  ASSUME TypeInv, WrittenBeforeReleased, NEW n \in 0..MaxSeq, CsvPreLot(n)
  PROVE  WrittenBeforeReleased'
<1>1. job'.stage # "release" /\ rp.pc # "flushed"
  BY DEF CsvPreLot, CsvEnds, CsvLeg, WriterFree, TypeInv, TypeOK, Job
<1>2. \A s \in Seqs : csv'[s] = "done" => csv[s] = "done"
  BY DEF CsvPreLot, CsvSet
<1> QED
  BY <1>1, <1>2, Undisturbed DEF CsvPreLot

(* The writer's lock is free, so no stop is between its write and its      *)
(* release while the buffer grows.                                         *)
LEMMA WrittenBuffer ==
  ASSUME TypeInv, WrittenBeforeReleased, NEW n \in 0..MaxSeq, CsvBuffer(n)
  PROVE  WrittenBeforeReleased'
<1> DEFINE rows  == Buffered(JobEp, n)
           evict == ~JobEvent.closes /\ wfail[JobEp]
                      /\ Len(rows) > MaxLotRows
<1>1. /\ rp'.pc # "flushed" /\ JobEp \in Endpoints /\ ev' = ev
      /\ job.stage = "csv" /\ job \in Job
      /\ buf \in [Endpoints -> Seq(Seqs)]
  BY JobTypes DEF CsvBuffer, CsvLeg, WriterFree, TypeInv, TypeOK
<1>2. CsvDoneMeansOnDisk'
  <2>1. disk \subseteq disk'
    BY DEF CsvBuffer
  <2>2. \A s \in Seqs : csv'[s] = "done" => csv[s] = "done"
    BY DEF CsvBuffer, CsvSet
  <2> QED
    BY <2>1, <2>2 DEF WrittenBeforeReleased, CsvDoneMeansOnDisk
<1>3. ASSUME job'.stage = "release"
      PROVE  RowSet(buf'[JobEp']) \subseteq disk'
  <2>1. /\ JobEvent.closes
        /\ disk' = disk \cup RowSet(rows)
        /\ job'.seq = job.seq
    BY <1>1, <1>3 DEF CsvBuffer, CsvEnds, Job
  <2>2. buf' = [buf EXCEPT ![JobEp] = rows]
    BY <2>1 DEF CsvBuffer
  <2>3. JobEp' = JobEp
    BY <1>1, <2>1 DEF JobEp, JobEvent
  <2>4. buf'[JobEp] = rows
    BY <1>1, <2>2
  <2> QED
    BY <2>1, <2>3, <2>4
<1> QED
  BY <1>1, <1>2, <1>3 DEF WrittenBeforeReleased

LEMMA WrittenLotChanged ==
  ASSUME TypeInv, WrittenBeforeReleased, CsvLotChanged
  PROVE  WrittenBeforeReleased'
<1>1. /\ rp'.pc # "flushed" /\ ev' = ev /\ buf' = buf /\ csv' = csv
      /\ job.stage = "csv" /\ job \in Job /\ disk \subseteq disk'
  BY DEF CsvLotChanged, CsvLeg, WriterFree, TypeInv, TypeOK, journal
<1>2. ASSUME job'.stage = "release"
      PROVE  RowSet(buf'[JobEp']) \subseteq disk'
  <2>1. disk' = disk \cup RowSet(buf[JobEp]) /\ job'.seq = job.seq
    BY <1>1, <1>2 DEF CsvLotChanged, CsvEnds, Job
  <2> QED
    BY <1>1, <2>1 DEF RowSet, JobEp, JobEvent
<1> QED
  BY <1>1, <1>2 DEF WrittenBeforeReleased, CsvDoneMeansOnDisk

LEMMA WrittenRelease ==
  ASSUME TypeInv, WrittenBeforeReleased, Release
  PROVE  WrittenBeforeReleased'
<1>1. /\ JobEp \in Endpoints /\ RowSet(buf[JobEp]) \subseteq disk
      /\ buf \in [Endpoints -> Seq(Seqs)]
  BY JobTypes DEF Release, WrittenBeforeReleased, TypeInv, TypeOK
<1>2. job'.stage # "release" /\ rp' = rp /\ disk' = disk
  BY DEF Release, CsvEnds, TypeInv, TypeOK, Job
<1>3. CsvDoneMeansOnDisk'
  <2>1. CASE csv' = Resolved(buf[JobEp])
    BY <1>1, <1>2, <2>1, ResolvedRows
    DEF CsvDoneMeansOnDisk, WrittenBeforeReleased
  <2>2. CASE csv' = CsvSet(LastRows(refs, buf[JobEp]) \cap dropped, "dropped")
    BY <1>2, <2>2 DEF CsvSet, CsvDoneMeansOnDisk, WrittenBeforeReleased
  <2> QED
    BY <2>1, <2>2 DEF Release
<1>4. rp.pc = "flushed" => RowSet(buf'[rp.ep]) \subseteq disk
  <2>1. buf' = buf \/ buf' = [buf EXCEPT ![JobEp] = <<>>]
    BY DEF Release
  <2>2. RowSet(<<>>) = {}
    BY DEF RowSet
  <2>3. rp.pc = "flushed" => rp.ep \in Endpoints
    BY DEF TypeInv, Rooted
  <2>4. rp.pc = "flushed" =>
          buf'[rp.ep] = buf[rp.ep] \/ buf'[rp.ep] = <<>>
    BY <1>1, <2>1, <2>3
  <2> QED
    BY <2>2, <2>4 DEF WrittenBeforeReleased
<1> QED
  BY <1>2, <1>3, <1>4 DEF WrittenBeforeReleased

LEMMA WrittenStop ==
  ASSUME TypeInv, WrittenBeforeReleased, StopWrites \/ StopReleases
  PROVE  WrittenBeforeReleased'
<1>1. CASE StopWrites
  <2>1. /\ job' = job /\ buf' = buf /\ ev' = ev /\ csv' = csv
        /\ rp \in Supervisor /\ disk \subseteq disk'
    BY <1>1 DEF StopWrites, journal, TypeInv, TypeOK
  <2>2. rp'.pc = "flushed" => disk' = disk \cup RowSet(buf[rp.ep])
                              /\ rp'.ep = rp.ep
    BY <1>1, <2>1 DEF StopWrites, StopAborts, Supervisor
  <2>3. JobEp' = JobEp
    BY <2>1 DEF JobEp, JobEvent
  <2> QED
    BY <2>1, <2>2, <2>3 DEF WrittenBeforeReleased, CsvDoneMeansOnDisk, RowSet
<1>2. CASE StopReleases
  <2>1. /\ job' = job /\ ev' = ev /\ disk' = disk /\ rp \in Supervisor
        /\ rp.pc = "flushed" /\ rp.ep \in Endpoints
        /\ buf \in [Endpoints -> Seq(Seqs)]
    BY <1>2 DEF StopReleases, TypeInv, TypeOK, Rooted
  <2>2. rp'.pc # "flushed"
    BY <1>2, <2>1 DEF StopReleases, StopAborts, Supervisor
  <2>3. CsvDoneMeansOnDisk'
    <3>1. CASE csv' = Resolved(buf[rp.ep])
      BY <2>1, <3>1, ResolvedRows
      DEF CsvDoneMeansOnDisk, WrittenBeforeReleased
    <3>2. CASE csv' = CsvSet(LastRows(refs, buf[rp.ep]) \cap dropped,
                             "dropped")
      BY <2>1, <3>2 DEF CsvSet, CsvDoneMeansOnDisk, WrittenBeforeReleased
    <3> QED
      BY <1>2, <3>1, <3>2 DEF StopReleases
  <2>4. job.stage = "release" => RowSet(buf'[JobEp]) \subseteq disk
    <3>1. buf' = buf \/ buf' = [buf EXCEPT ![rp.ep] = <<>>]
      BY <1>2 DEF StopReleases
    <3>2. RowSet(<<>>) = {}
      BY DEF RowSet
    <3>3. job.stage = "release" => JobEp \in Endpoints
      BY JobTypes
    <3>4. job.stage = "release" =>
            buf'[JobEp] = buf[JobEp] \/ buf'[JobEp] = <<>>
      BY <2>1, <3>1, <3>3
    <3> QED
      BY <3>2, <3>4 DEF WrittenBeforeReleased
  <2>5. JobEp' = JobEp
    BY <2>1 DEF JobEp, JobEvent
  <2> QED
    BY <2>1, <2>2, <2>3, <2>4, <2>5 DEF WrittenBeforeReleased
<1> QED
  BY <1>1, <1>2

LEMMA WrittenCrash ==
  ASSUME WrittenBeforeReleased, Crash
  PROVE  WrittenBeforeReleased'
BY DEF Crash, NoJob, IdleSupervisor, WrittenBeforeReleased,
   CsvDoneMeansOnDisk, journal

LEMMA WrittenStep ==
  TypeInv /\ WrittenBeforeReleased /\ [Next]_vars => WrittenBeforeReleased'
<1> SUFFICES ASSUME TypeInv, WrittenBeforeReleased, [Next]_vars
             PROVE  WrittenBeforeReleased'
  OBVIOUS
<1> USE DEF journal, outboxes, writer, sessions
<1>1. ASSUME NEW w \in Workers, NEW o \in Offers, Enter(w, o)
      PROVE  WrittenBeforeReleased'
  BY <1>1, Undisturbed DEF Enter
<1>2. ASSUME NEW w \in Workers, JournalAppend(w)
      PROVE  WrittenBeforeReleased'
  BY <1>2, WrittenAppend
<1>3. ASSUME NEW w \in Workers, ClaimLive(w) PROVE WrittenBeforeReleased'
  <2>1. job'.stage = "claimed"
    BY <1>3 DEF ClaimLive, NoJob
  <2> QED
    BY <1>3, <2>1, Undisturbed DEF ClaimLive
<1>4. ASSUME NEW k \in Sinks, Publish(k) PROVE WrittenBeforeReleased'
  <2>1. job'.stage # "release"
    BY <1>4 DEF Publish, Enqueue, Divert, OutboxFull, SinkRaises, Publishing,
       PublishRaised, AfterPublish, TypeInv, TypeOK, Job
  <2> QED
    BY <1>4, <2>1, Undisturbed DEF Publish, Enqueue, Divert, OutboxFull, SinkRaises
<1>5. CASE NothingToDo \/ EntryEnds \/ EntryJudged
  <2>1. PICK ok \in BOOLEAN : Unlock(ok)
    <3>1. (job.error = "no" /\ job.csvok) \in BOOLEAN
          /\ (attempts[job.seq] >= MaxAttempts) \in BOOLEAN
      OBVIOUS
    <3> QED
      BY <1>5, <3>1 DEF NothingToDo, EntryEnds, EntryJudged
  <2>2. job'.stage = "free" /\ rp'.pc = rp.pc /\ rp'.ep = rp.ep
    BY <2>1, UnlockedFlush
  <2> QED
    BY <1>5, <2>2, Undisturbed DEF NothingToDo, EntryEnds, EntryJudged
<1>6. CASE DropUnconfigured
  <2>1. /\ job'.stage = "free" /\ rp'.pc = rp.pc /\ rp'.ep = rp.ep
    BY <1>6, UnlockedFlush DEF DropUnconfigured
  <2>2. \A s \in Seqs : csv'[s] = "done" => csv[s] = "done"
    BY <1>6 DEF DropUnconfigured, TypeInv, TypeOK
  <2> QED
    BY <1>6, <2>1, <2>2, Undisturbed DEF DropUnconfigured
<1>7. CASE Begin
  <2>1. job'.stage # "release"
    BY <1>7 DEF Begin, TypeInv, TypeOK, Job
  <2>2. \A s \in Seqs : csv'[s] = "done" => csv[s] = "done"
    BY <1>7 DEF Begin, TypeInv, TypeOK
  <2> QED
    BY <1>7, <2>1, <2>2, Undisturbed DEF Begin
<1>8. CASE MarkDispatched \/ MarkRaises \/ ShedAlarm \/ EntryFails
  <2>1. job'.stage # "release"
    BY <1>8 DEF MarkDispatched, MarkRaises, ShedAlarm, EntryFails,
       AfterPublish, TypeInv, TypeOK, Job
  <2> QED
    BY <1>8, <2>1, Undisturbed
    DEF MarkDispatched, MarkRaises, ShedAlarm, EntryFails
<1>9. CASE CsvSkip
  <2>1. job'.stage # "release"
    BY <1>9 DEF CsvSkip, CsvEnds, TypeInv, TypeOK, Job
  <2>2. \A s \in Seqs : csv'[s] = "done" => csv[s] = "done"
    BY <1>9 DEF CsvSkip, CsvSet
  <2> QED
    BY <1>9, <2>1, <2>2, Undisturbed DEF CsvSkip
<1>10. CASE CsvLotChanged
  BY <1>10, WrittenLotChanged
<1>11. ASSUME NEW n \in 0..MaxSeq, CsvPreLot(n) \/ CsvBuffer(n)
       PROVE  WrittenBeforeReleased'
  BY <1>11, WrittenPreLot, WrittenBuffer
<1>12. CASE Release
  BY <1>12, WrittenRelease
<1>13. CASE StopWrites \/ StopReleases
  BY <1>13, WrittenStop
<1>14. CASE NoticeConfig \/ StopPops \/ ReplayStart \/ ReplayAssemble
              \/ ReplayEnds \/ StopUnroutes \/ RerouteStarts
  <2>1. rp'.pc = "flushed" => rp.pc = "flushed" /\ rp'.ep = rp.ep
    BY <1>14 DEF NoticeConfig, StopPops, ReplayStart, ReplayAssemble,
       ReplayEnds, StopUnroutes, RerouteStarts, TypeInv, TypeOK, Supervisor
  <2> QED
    BY <1>14, <2>1, Undisturbed
    DEF NoticeConfig, StopPops, ReplayStart, ReplayAssemble, ReplayEnds,
        StopUnroutes, RerouteStarts
<1>15. ASSUME NEW e \in Endpoints,
              \/ StartMachine(e) \/ StartFails(e) \/ StopRetire(e)
              \/ RerouteStops(e) \/ EditRoute(e)
       PROVE  WrittenBeforeReleased'
  <2>1. rp'.pc = "flushed" => rp.pc = "flushed" /\ rp'.ep = rp.ep
    BY <1>15 DEF StartMachine, StartFails, StopRetire, RerouteStops, EditRoute,
       TypeInv, TypeOK, Supervisor
  <2> QED
    BY <1>15, <2>1, Undisturbed
    DEF StartMachine, StartFails, StopRetire, RerouteStops, EditRoute
<1>16. CASE ClaimReplay
  <2>1. job'.stage = "claimed"
    BY <1>16 DEF ClaimReplay, NoJob
  <2> QED
    BY <1>16, <2>1, Undisturbed DEF ClaimReplay
<1>17. ASSUME NEW k \in Sinks, NEW s \in Seqs, Deliver(k, s)
       PROVE  WrittenBeforeReleased'
  BY <1>17, Undisturbed DEF Deliver
<1>18. ASSUME NEW e \in Endpoints, EditConfig(e)
       PROVE  WrittenBeforeReleased'
  BY <1>18, Undisturbed DEF EditConfig
<1>19. CASE Crash
  BY <1>19, WrittenCrash
<1>20. CASE UNCHANGED vars
  BY <1>20, Undisturbed DEF vars
<1> QED
  BY <1>1, <1>2, <1>3, <1>4, <1>5, <1>6, <1>7, <1>8, <1>9, <1>10, <1>11,
     <1>12, <1>13, <1>14, <1>15, <1>16, <1>17, <1>18, <1>19, <1>20
  DEF Next, DispatchStep, SupervisorStep

(* A row the journal holds as written is in a lot file: no crash, failed   *)
(* write, stop of a machine or refusal of the journal between              *)
(* csv_store.py:426 and :478 loses a row the journal has let go of.        *)
THEOREM CsvDoneCorrect == Spec => []CsvDoneMeansOnDisk
<1>1. Init => TypeInv /\ WrittenBeforeReleased
  BY TypeInit, WrittenInit
<1>2. TypeInv /\ WrittenBeforeReleased /\ [Next]_vars
        => (TypeInv /\ WrittenBeforeReleased)'
  BY TypeStep, WrittenStep
<1>3. WrittenBeforeReleased => CsvDoneMeansOnDisk
  BY DEF WrittenBeforeReleased
<1> QED
  BY <1>1, <1>2, <1>3, PTL DEF Spec

-----------------------------------------------------------------------------
(* Outboxes                                                                *)

(* Publisher k, or the one in its place, was given entry s.                *)
Given(k, s) == s \in queued[k] \/ (k = HttpSink /\ s \in diverted)

(* What is marked dispatched was given to every publisher, and so was the  *)
(* entry being dispatched to those the publish leg has behind it.          *)
QueuedBehind ==
  /\ \A s \in Seqs : disp[s] = "done" =>
       \A k \in Sinks : k <= SinkCount(ev[s].kind) => Given(k, s)
  /\ job.stage \in {"free", "claimed"} => job.sink = 1
  /\ job.stage = "publish" =>
       \A k \in Sinks : k < job.sink => Given(k, job.seq)

(* A step that marks nothing dispatched and starts no publish leg.         *)
LEMMA NothingMarked ==
  ASSUME QueuedBehind, \A k \in Sinks : queued[k] \subseteq queued'[k],
         diverted \subseteq diverted',
         \A s \in Seqs : disp'[s] = "done" =>
           disp[s] = "done" /\ ev'[s].kind = ev[s].kind,
         job'.stage \in {"free", "claimed"} => job'.sink = 1,
         job'.stage # "publish" \/ job'.sink = 1
           \/ (job.stage = "publish" /\ job'.seq = job.seq
                 /\ job'.sink = job.sink)
  PROVE  QueuedBehind'
<1>1. ASSUME NEW k \in Sinks PROVE ~(k < 1)
  BY DEF Sinks
<1> QED
  BY <1>1 DEF QueuedBehind, Given, SinkCount

LEMMA QueuedInit == Init => QueuedBehind
BY DEF Init, QueuedBehind, NoJob

LEMMA QueuedEnqueue ==
  ASSUME TypeInv, QueuedBehind, NEW k \in Sinks, Enqueue(k)
  PROVE  QueuedBehind'
<1>1. /\ job \in Job /\ job.stage = "publish" /\ job.sink = k
      /\ job' = [job EXCEPT !.sink = k + 1] /\ disp' = disp /\ ev' = ev
      /\ queued \in [Sinks -> SUBSET Seqs]
      /\ queued' = [queued EXCEPT ![k] = queued[k] \cup {job.seq}]
      /\ diverted' = diverted
  BY DEF Enqueue, Publishing, TypeInv, TypeOK, journal
<1>2. /\ job'.stage = "publish" /\ job'.sink = k + 1 /\ job'.seq = job.seq
  BY <1>1 DEF Job
<1>3. \A i \in Sinks : queued[i] \subseteq queued'[i]
  BY <1>1
<1>4. ASSUME NEW i \in Sinks, i < k + 1 PROVE Given(i, job.seq)'
  <2>1. i = k \/ i < k
    BY <1>4, PipelineAssumption DEF Sinks
  <2> QED
    BY <1>1, <1>2, <1>3, <2>1 DEF QueuedBehind, Given
<1> QED
  BY <1>1, <1>2, <1>3, <1>4 DEF QueuedBehind, Given

LEMMA QueuedDivert ==
  ASSUME TypeInv, QueuedBehind, NEW k \in Sinks, Divert(k)
  PROVE  QueuedBehind'
<1>1. /\ job \in Job /\ job.stage = "publish" /\ job.sink = k /\ k = HttpSink
      /\ job' = [job EXCEPT !.sink = k + 1] /\ disp' = disp /\ ev' = ev
      /\ queued' = queued /\ diverted' = diverted \cup {job.seq}
  BY DEF Divert, Diverts, Publishing, TypeInv, TypeOK, journal
<1>2. /\ job'.stage = "publish" /\ job'.sink = k + 1 /\ job'.seq = job.seq
  BY <1>1 DEF Job
<1>3. ASSUME NEW i \in Sinks, i < k + 1 PROVE Given(i, job.seq)'
  <2>1. i = k \/ i < k
    BY <1>3, PipelineAssumption DEF Sinks
  <2> QED
    BY <1>1, <1>2, <2>1 DEF QueuedBehind, Given
<1> QED
  BY <1>1, <1>2, <1>3 DEF QueuedBehind, Given

LEMMA QueuedMark ==
  ASSUME TypeInv, QueuedBehind, MarkDispatched
  PROVE  QueuedBehind'
<1>1. /\ job \in Job /\ job.stage = "publish" /\ ev' = ev /\ queued' = queued
      /\ diverted' = diverted
      /\ job.sink > SinkCount(ev[job.seq].kind)
      /\ disp' = [disp EXCEPT ![job.seq] = "done"]
      /\ disp \in [Seqs -> {"absent", "pending", "done", "dropped"}]
  BY DEF MarkDispatched, AllQueued, JobEvent, outboxes, TypeInv, TypeOK
<1>2. job'.stage \in {"csv", "end"}
  BY <1>1 DEF MarkDispatched, AfterPublish, Job
<1>3. SinkCount(ev[job.seq].kind) \in Int /\ job.sink \in Int
  BY <1>1, PipelineAssumption DEF SinkCount, Job
<1>4. ASSUME NEW k \in Sinks, k <= SinkCount(ev[job.seq].kind)
      PROVE  Given(k, job.seq)
  BY <1>1, <1>3, <1>4, PipelineAssumption DEF QueuedBehind, Sinks
<1> QED
  BY <1>1, <1>2, <1>4 DEF QueuedBehind, Given

LEMMA QueuedStep ==
  TypeInv /\ QueuedBehind /\ [Next]_vars => QueuedBehind'
<1> SUFFICES ASSUME TypeInv, QueuedBehind, [Next]_vars PROVE QueuedBehind'
  OBVIOUS
<1> USE DEF journal, outboxes, writer, sessions
<1>1. ASSUME NEW w \in Workers, NEW o \in Offers, Enter(w, o)
      PROVE  QueuedBehind'
  BY <1>1, NothingMarked DEF Enter, QueuedBehind
<1>2. ASSUME NEW w \in Workers, JournalAppend(w) PROVE QueuedBehind'
  <2>1. \A s \in Seqs : disp'[s] = "done" =>
          disp[s] = "done" /\ ev'[s].kind = ev[s].kind
    BY <1>2 DEF JournalAppend, TypeInv, TypeOK
  <2> QED
    BY <1>2, <2>1, NothingMarked DEF JournalAppend, QueuedBehind
<1>3. CASE ClaimReplay \/ \E w \in Workers : ClaimLive(w)
  <2>1. job'.stage = "claimed" /\ job'.sink = 1
    BY <1>3 DEF ClaimLive, ClaimReplay, NoJob
  <2> QED
    BY <1>3, <2>1, NothingMarked DEF ClaimLive, ClaimReplay
<1>4. ASSUME NEW k \in Sinks, Publish(k) PROVE QueuedBehind'
  <2>1. CASE Enqueue(k)
    BY <2>1, QueuedEnqueue
  <2>a. CASE Divert(k)
    BY <2>a, QueuedDivert
  <2>2. CASE OutboxFull(k) \/ SinkRaises(k)
    <3>1. job'.stage \in {"csv", "end"}
      BY <2>2 DEF OutboxFull, SinkRaises, PublishRaised, AfterPublish,
         TypeInv, TypeOK, Job
    <3> QED
      BY <2>2, <3>1, NothingMarked DEF OutboxFull, SinkRaises
  <2> QED
    BY <1>4, <2>1, <2>2, <2>a DEF Publish
<1>5. CASE NothingToDo \/ EntryEnds \/ EntryJudged \/ DropUnconfigured
  <2>1. job'.stage = "free" /\ job'.sink = 1
    BY <1>5 DEF NothingToDo, EntryEnds, EntryJudged, DropUnconfigured,
       Unlock, NoJob
  <2>2. \A s \in Seqs : disp'[s] = "done" => disp[s] = "done"
    BY <1>5 DEF NothingToDo, EntryEnds, EntryJudged, DropUnconfigured,
       TypeInv, TypeOK
  <2> QED
    BY <1>5, <2>1, <2>2, NothingMarked
    DEF NothingToDo, EntryEnds, EntryJudged, DropUnconfigured
<1>6. CASE Begin
  <2>1. job'.sink = 1 /\ job'.stage \in {"publish", "csv", "end"}
    BY <1>6 DEF Begin, QueuedBehind, TypeInv, TypeOK, Job
  <2> QED
    BY <1>6, <2>1, NothingMarked DEF Begin
<1>7. CASE MarkDispatched
  BY <1>7, QueuedMark
<1>8. CASE MarkRaises \/ ShedAlarm \/ CsvSkip \/ CsvLotChanged \/ Release
             \/ EntryFails
  <2>1. job'.stage \in {"release", "csv", "end", "failed"}
    BY <1>8 DEF MarkRaises, ShedAlarm, CsvSkip, CsvLotChanged, Release,
       EntryFails, CsvEnds, TypeInv, TypeOK, Job
  <2>2. \A s \in Seqs : disp'[s] = "done" => disp[s] = "done"
    BY <1>8 DEF MarkRaises, ShedAlarm, CsvSkip, CsvLotChanged, Release,
       EntryFails, TypeInv, TypeOK
  <2>3. UNCHANGED <<queued, diverted, ev>>
    BY <1>8 DEF MarkRaises, ShedAlarm, CsvSkip, CsvLotChanged, Release,
       EntryFails
  <2> QED
    BY <2>1, <2>2, <2>3, NothingMarked
<1>9. ASSUME NEW n \in 0..MaxSeq, CsvPreLot(n) \/ CsvBuffer(n)
      PROVE  QueuedBehind'
  <2>1. job'.stage \in {"release", "end"}
    <3>1. \/ job' = [job EXCEPT !.stage = "end", !.csvok = TRUE]
          \/ job' = [job EXCEPT !.stage = "end", !.csvok = FALSE]
          \/ job' = [job EXCEPT !.stage = "release"]
      BY <1>9 DEF CsvPreLot, CsvBuffer, CsvEnds
    <3>2. job \in Job
      BY DEF TypeInv, TypeOK
    <3> QED
      BY <3>1, <3>2 DEF Job
  <2>2. disp' = disp /\ UNCHANGED <<queued, diverted, ev>>
    BY <1>9 DEF CsvPreLot, CsvBuffer
  <2> QED
    BY <2>1, <2>2, NothingMarked
<1>10. CASE StopWrites \/ StopReleases
  <2>1. disp' = disp /\ UNCHANGED <<queued, diverted, ev>> /\ job' = job
    BY <1>10 DEF StopWrites, StopReleases
  <2> QED
    BY <2>1, NothingMarked DEF QueuedBehind
<1>11. CASE NoticeConfig \/ StopPops \/ ReplayStart \/ ReplayAssemble
              \/ ReplayEnds \/ StopUnroutes \/ RerouteStarts
  <2>1. disp' = disp /\ UNCHANGED <<queued, diverted, ev>> /\ job' = job
    BY <1>11 DEF NoticeConfig, StopPops, ReplayStart, ReplayAssemble,
       ReplayEnds, StopUnroutes, RerouteStarts
  <2> QED
    BY <2>1, NothingMarked DEF QueuedBehind
<1>12. ASSUME NEW e \in Endpoints,
              \/ StartMachine(e) \/ StartFails(e) \/ StopRetire(e)
              \/ EditConfig(e) \/ RerouteStops(e) \/ EditRoute(e)
       PROVE  QueuedBehind'
  <2>1. disp' = disp /\ UNCHANGED <<queued, diverted, ev>> /\ job' = job
    BY <1>12 DEF StartMachine, StartFails, StopRetire, EditConfig, RerouteStops,
       EditRoute
  <2> QED
    BY <2>1, NothingMarked DEF QueuedBehind
<1>13. ASSUME NEW k \in Sinks, NEW s \in Seqs, Deliver(k, s)
       PROVE  QueuedBehind'
  BY <1>13, NothingMarked DEF Deliver, QueuedBehind
<1>14. CASE Crash
  <2>1. job'.stage = "free" /\ job'.sink = 1
    BY <1>14 DEF Crash, NoJob
  <2> QED
    BY <1>14, <2>1, NothingMarked DEF Crash
<1>15. CASE UNCHANGED vars
  BY <1>15, NothingMarked DEF vars, QueuedBehind
<1> QED
  BY <1>1, <1>2, <1>3, <1>4, <1>5, <1>6, <1>7, <1>8, <1>9, <1>10, <1>11,
     <1>12, <1>13, <1>14, <1>15
  DEF Next, DispatchStep, SupervisorStep

(* A machine with a live session has its HTTP publisher, unless another     *)
(* route has been given to it in the configuration.                        *)
RoutedBehind ==
  /\ active \subseteq configured /\ active \subseteq http \cup rerouted
  /\ rp.pc \in {"leaving", "retired", "flushed", "pop"} => rp.ep \notin active
  /\ rp.pc = "rerouting" => rp.ep \in rerouted

LEMMA RoutedInit == Init => RoutedBehind
BY DEF Init, RoutedBehind, IdleSupervisor

LEMMA RoutedKept ==
  ASSUME RoutedBehind, UNCHANGED <<configured, active, http, rerouted>>,
         \/ rp'.pc = rp.pc /\ rp'.ep = rp.ep
         \/ rp'.pc \in {"idle", "assemble", "pass"}
         \/ /\ rp.pc \in {"leaving", "retired", "flushed", "pop"}
            /\ rp'.pc \in {"retired", "flushed", "pop"} /\ rp'.ep = rp.ep
  PROVE  RoutedBehind'
BY DEF RoutedBehind

LEMMA RoutedUnlock ==
  ASSUME TypeInv, NEW ok, Unlock(ok)
  PROVE  rp'.pc = rp.pc /\ rp'.ep = rp.ep
BY DEF Unlock, TypeInv, TypeOK, Supervisor

LEMMA RoutedStep ==
  TypeInv /\ RoutedBehind /\ [Next]_vars => RoutedBehind'
<1> SUFFICES ASSUME TypeInv, RoutedBehind, [Next]_vars PROVE RoutedBehind'
  OBVIOUS
<1> USE DEF sessions
<1>r. rp \in Supervisor
  BY DEF TypeInv, TypeOK
<1>1. ASSUME NEW w \in Workers, (\E o \in Offers : Enter(w, o))
                                  \/ JournalAppend(w) \/ ClaimLive(w)
      PROVE  RoutedBehind'
  BY <1>1, RoutedKept DEF Enter, JournalAppend, ClaimLive
<1>2. ASSUME NEW k \in Sinks, Publish(k) PROVE RoutedBehind'
  BY <1>2, RoutedKept DEF Publish, Enqueue, Divert, OutboxFull, SinkRaises
<1>3. CASE NothingToDo \/ EntryEnds \/ EntryJudged \/ DropUnconfigured
  <2>1. PICK ok : Unlock(ok)
    BY <1>3 DEF NothingToDo, EntryEnds, EntryJudged, DropUnconfigured
  <2>2. rp'.pc = rp.pc /\ rp'.ep = rp.ep
    BY <2>1, RoutedUnlock
  <2> QED
    BY <1>3, <2>2, RoutedKept
    DEF NothingToDo, EntryEnds, EntryJudged, DropUnconfigured
<1>4. CASE \/ Begin \/ MarkDispatched \/ MarkRaises \/ ShedAlarm \/ CsvSkip
           \/ CsvLotChanged \/ Release \/ EntryFails \/ ClaimReplay
  BY <1>4, RoutedKept
  DEF Begin, MarkDispatched, MarkRaises, ShedAlarm, CsvSkip, CsvLotChanged,
      Release, EntryFails, ClaimReplay
<1>5. ASSUME NEW n \in 0..MaxSeq, CsvPreLot(n) \/ CsvBuffer(n)
      PROVE  RoutedBehind'
  BY <1>5, RoutedKept DEF CsvPreLot, CsvBuffer
<1>6. CASE \/ StopWrites \/ StopReleases \/ NoticeConfig \/ ReplayStart
           \/ ReplayAssemble \/ ReplayEnds
  <2>1. \/ rp'.pc = rp.pc /\ rp'.ep = rp.ep
        \/ rp'.pc \in {"idle", "assemble", "pass"}
        \/ /\ rp.pc \in {"leaving", "retired", "flushed", "pop"}
           /\ rp'.pc \in {"retired", "flushed", "pop"} /\ rp'.ep = rp.ep
    BY <1>6, <1>r DEF StopWrites, StopReleases, StopAborts, NoticeConfig,
       ReplayStart, ReplayAssemble, ReplayEnds, Supervisor
  <2> QED
    BY <1>6, <2>1, RoutedKept DEF StopWrites, StopReleases, NoticeConfig,
       ReplayStart, ReplayAssemble, ReplayEnds
<1>7. ASSUME NEW e \in Endpoints, StartMachine(e) PROVE RoutedBehind'
  BY <1>7 DEF StartMachine, RoutedBehind
<1>8. ASSUME NEW e \in Endpoints, StartFails(e) PROVE RoutedBehind'
  <2>1. rp'.pc = "leaving" /\ rp'.ep = e
    BY <1>8, <1>r DEF StartFails, Supervisor
  <2>2. e \notin configured
    BY <1>8 DEF StartFails, ToStart
  <2> QED
    BY <1>8, <2>1, <2>2 DEF StartFails, RoutedBehind
<1>9. ASSUME NEW e \in Endpoints, StopRetire(e) PROVE RoutedBehind'
  <2>1. rp'.pc = "leaving" /\ rp'.ep = e
    BY <1>9, <1>r DEF StopRetire, Supervisor
  <2> QED
    BY <1>9, <2>1 DEF StopRetire, RoutedBehind
<1>10. CASE StopUnroutes
  <2>1. rp'.pc = "retired" /\ rp'.ep = rp.ep
    BY <1>10, <1>r DEF StopUnroutes, Supervisor
  <2> QED
    BY <1>10, <2>1 DEF StopUnroutes, RoutedBehind
<1>11. CASE StopPops
  <2>1. rp'.pc = "idle"
    BY <1>11, <1>r DEF StopPops, Supervisor
  <2> QED
    BY <1>11, <2>1 DEF StopPops, RoutedBehind
<1>12. ASSUME NEW e \in Endpoints, RerouteStops(e) PROVE RoutedBehind'
  <2>1. rp'.pc = "rerouting" /\ rp'.ep = e
    BY <1>12, <1>r DEF RerouteStops, Supervisor
  <2> QED
    BY <1>12, <2>1 DEF RerouteStops, ToReroute, RoutedBehind
<1>13. CASE RerouteStarts
  <2>1. rp'.pc = "idle"
    BY <1>13, <1>r DEF RerouteStarts, Supervisor
  <2> QED
    BY <1>13, <2>1 DEF RerouteStarts, RoutedBehind
<1>14. ASSUME NEW e \in Endpoints, EditRoute(e) PROVE RoutedBehind'
  <2>1. rp'.pc = rp.pc /\ rp'.ep = rp.ep
    BY <1>14, <1>r DEF EditRoute, Supervisor
  <2> QED
    BY <1>14, <2>1 DEF EditRoute, RoutedBehind
<1>15. ASSUME NEW e \in Endpoints, EditConfig(e) PROVE RoutedBehind'
  BY <1>15, RoutedKept DEF EditConfig
<1>16. ASSUME NEW k \in Sinks, NEW s \in Seqs, Deliver(k, s)
       PROVE  RoutedBehind'
  BY <1>16, RoutedKept DEF Deliver
<1>17. CASE Crash
  BY <1>17 DEF Crash, RoutedBehind, IdleSupervisor
<1>18. CASE UNCHANGED vars
  BY <1>18, RoutedKept DEF vars
<1> QED
  BY <1>1, <1>2, <1>3, <1>4, <1>5, <1>6, <1>7, <1>8, <1>9, <1>10, <1>11,
     <1>12, <1>13, <1>14, <1>15, <1>16, <1>17, <1>18
  DEF Next, DispatchStep, SupervisorStep

(* An entry the journal will never offer again was queued at every         *)
(* publisher it goes to (dispatch.py:335-339), whatever crashed or failed  *)
(* between two of the enqueues, except at a machine's HTTP publisher while *)
(* that one is not there; and it is not there only for a machine without a *)
(* live session, or one whose route is being changed.                      *)
THEOREM DispatchedCorrect == Spec => []DispatchedMeansQueued
<1>1. Init => TypeInv /\ QueuedBehind /\ RoutedBehind
  BY TypeInit, QueuedInit, RoutedInit
<1>2. TypeInv /\ QueuedBehind /\ RoutedBehind /\ [Next]_vars
        => (TypeInv /\ QueuedBehind /\ RoutedBehind)'
  BY TypeStep, QueuedStep, RoutedStep
<1>3. QueuedBehind /\ RoutedBehind => DispatchedMeansQueued
  BY DEF QueuedBehind, RoutedBehind, Given, DispatchedMeansQueued
<1> QED
  BY <1>1, <1>2, <1>3, PTL DEF Spec

-----------------------------------------------------------------------------
(* The rows in memory                                                      *)

(* A row has one reference at most; one that has a reference is in memory; *)
(* and the row a dispatch is about to write has none: holds() was asked    *)
(* under the dispatch lock, and without that lock references only go.      *)
Writing == \/ job.stage = "publish" /\ job.csv
           \/ job.stage = "csv"
           \/ job.stage = "release" /\ LotChanged(JobEvent)

InMemory(s, e) == s \in RowSet(buf[e]) \cup RowSet(pre[e])

Referenced ==
  /\ refs \in [Seqs -> {0, 1}] /\ dropped = {}
  /\ \A s \in Seqs : refs[s] = 1 => s \in Rows /\ InMemory(s, ev[s].ep)
  /\ \A e \in Endpoints : /\ lotOf[e] = NoBuffer => buf[e] = <<>>
                          /\ lotOf[e] # NoBuffer => pre[e] = <<>>
  /\ Writing => refs[job.seq] = 0

LEMMA OccursSome ==
  ASSUME NEW q \in Seq(Seqs), NEW s
  PROVE  /\ Occurs(s, q) \in Nat
         /\ Occurs(s, q) = 0 <=> s \notin RowSet(q)
<1>1. Occurs(s, q) \in Nat
  BY OccursNat
<1>2. IsFiniteSet({i \in DOMAIN q : q[i] = s})
  <2>1. IsFiniteSet(1..Len(q))
    BY FS_Interval, LenProperties
  <2>2. {i \in DOMAIN q : q[i] = s} \in SUBSET (1..Len(q))
    BY LenProperties
  <2> QED
    BY <2>1, <2>2, FS_Subset
<1>3. Occurs(s, q) = 0 <=> {i \in DOMAIN q : q[i] = s} = {}
  BY <1>2, FS_EmptySet DEF Occurs
<1> QED
  BY <1>1, <1>3 DEF RowSet

LEMMA RowsOfNone == RowSet(<<>>) = {}
  BY DEF RowSet

LEMMA RowsOfAppend ==
  ASSUME NEW q \in Seq(Seqs), NEW s \in Seqs
  PROVE  Append(q, s) \in Seq(Seqs) /\ RowSet(Append(q, s)) = RowSet(q) \cup {s}
<1> DEFINE a == Append(q, s)
<1>1. /\ a \in Seq(Seqs) /\ Len(a) = Len(q) + 1
      /\ \A i \in 1..Len(q) : a[i] = q[i]
      /\ a[Len(q) + 1] = s
  BY AppendProperties
<1>2. DOMAIN a = 1..(Len(q) + 1) /\ DOMAIN q = 1..Len(q) /\ Len(q) \in Nat
  BY <1>1, LenProperties
<1> HIDE DEF a
<1>3. \A i \in 1..(Len(q) + 1) : i \in 1..Len(q) \/ i = Len(q) + 1
  BY <1>2
<1>4. RowSet(a) \subseteq RowSet(q) \cup {s}
  BY <1>1, <1>2, <1>3 DEF RowSet
<1>5. RowSet(q) \cup {s} \subseteq RowSet(a)
  <2>1. \A i \in 1..Len(q) : i \in 1..(Len(q) + 1)
    BY <1>2
  <2>2. Len(q) + 1 \in 1..(Len(q) + 1)
    BY <1>2
  <2> QED
    BY <1>1, <1>2, <2>1, <2>2 DEF RowSet
<1> QED
  BY <1>1, <1>4, <1>5 DEF a

(* The rows of a sequence that is cut in two.                              *)
LEMMA RowsOfCut ==
  ASSUME NEW q \in Seq(Seqs), NEW n \in 0..Len(q)
  PROVE  /\ SubSeq(q, 1, n) \in Seq(Seqs) /\ SubSeq(q, n + 1, Len(q)) \in Seq(Seqs)
         /\ RowSet(q) = RowSet(SubSeq(q, 1, n)) \cup RowSet(SubSeq(q, n + 1, Len(q)))
<1> DEFINE l == Len(q)
           a == SubSeq(q, 1, n)
           b == SubSeq(q, n + 1, l)
<1>1. l \in Nat /\ n \in Nat /\ n <= l /\ DOMAIN q = 1..l /\ \A i \in 1..l : q[i] \in Seqs
  BY LenProperties, ElementOfSeq
<1> HIDE DEF l
<1>2. /\ a \in Seq(Seqs) /\ Len(a) = n /\ \A i \in 1..n : a[i] = q[i]
  <2>1. \A i \in 1..n : q[i] \in Seqs
    BY <1>1
  <2>2. /\ a \in Seq(Seqs) /\ Len(a) = (IF 1 <= n THEN n - 1 + 1 ELSE 0)
        /\ \A i \in 1..(n - 1 + 1) : a[i] = q[1 + i - 1]
    BY <1>1, <2>1, SubSeqProperties
  <2> HIDE DEF a
  <2>3. Len(a) = n
    BY <1>1, <2>2
  <2>4. ASSUME NEW i \in 1..n PROVE a[i] = q[i]
    <3>1. i \in 1..(n - 1 + 1) /\ 1 + i - 1 = i
      BY <1>1
    <3> QED
      BY <2>2, <3>1
  <2> QED
    BY <2>2, <2>3, <2>4
<1>3. /\ b \in Seq(Seqs) /\ Len(b) = l - n /\ \A i \in 1..(l - n) : b[i] = q[n + i]
  <2>1. \A i \in (n + 1)..l : q[i] \in Seqs
    BY <1>1
  <2>2. /\ b \in Seq(Seqs) /\ Len(b) = (IF n + 1 <= l THEN l - (n + 1) + 1 ELSE 0)
        /\ \A i \in 1..(l - (n + 1) + 1) : b[i] = q[(n + 1) + i - 1]
    BY <1>1, <2>1, SubSeqProperties
  <2> HIDE DEF b
  <2>3. Len(b) = l - n
    BY <1>1, <2>2
  <2>4. ASSUME NEW i \in 1..(l - n) PROVE b[i] = q[n + i]
    <3>1. i \in 1..(l - (n + 1) + 1) /\ (n + 1) + i - 1 = n + i
      BY <1>1
    <3> QED
      BY <2>2, <3>1
  <2> QED
    BY <2>2, <2>3, <2>4
<1> HIDE DEF a, b
<1>4. DOMAIN a = 1..n /\ DOMAIN b = 1..(l - n)
  BY <1>2, <1>3, LenProperties
<1>5. RowSet(q) \subseteq RowSet(a) \cup RowSet(b)
  <2>1. ASSUME NEW i \in 1..l PROVE q[i] \in RowSet(a) \cup RowSet(b)
    <3>1. CASE i <= n
      <4>1. i \in 1..n
        BY <1>1, <3>1
      <4> QED
        BY <1>2, <1>4, <4>1 DEF RowSet
    <3>2. CASE i > n
      <4>1. i - n \in 1..(l - n) /\ n + (i - n) = i
        BY <1>1, <3>2
      <4> QED
        BY <1>3, <1>4, <4>1 DEF RowSet
    <3> QED
      BY <1>1, <3>1, <3>2
  <2> QED
    BY <1>1, <2>1 DEF RowSet
<1>6. RowSet(a) \cup RowSet(b) \subseteq RowSet(q)
  <2>1. \A i \in 1..n : i \in 1..l
    BY <1>1
  <2>2. \A i \in 1..(l - n) : n + i \in 1..l
    BY <1>1
  <2>3. RowSet(a) \subseteq RowSet(q)
    BY <1>1, <1>2, <1>4, <2>1 DEF RowSet
  <2>4. RowSet(b) \subseteq RowSet(q)
    BY <1>1, <1>3, <1>4, <2>2 DEF RowSet
  <2> QED
    BY <2>3, <2>4
<1> QED
  BY <1>2, <1>3, <1>5, <1>6 DEF a, b, l

LEMMA RowsOfTail ==
  ASSUME NEW q \in Seq(Seqs), q # <<>>
  PROVE  /\ Head(q) \in Seqs /\ Tail(q) \in Seq(Seqs)
         /\ RowSet(q) = {Head(q)} \cup RowSet(Tail(q))
         /\ <<Head(q)>> \in Seq(Seqs) /\ RowSet(<<Head(q)>>) = {Head(q)}
<1>1. /\ Head(q) \in Seqs /\ Tail(q) \in Seq(Seqs) /\ Len(Tail(q)) = Len(q) - 1
      /\ \A i \in 1..Len(Tail(q)) : Tail(q)[i] = q[i + 1]
  BY HeadTailProperties
<1>2. Len(q) \in Nat \ {0} /\ DOMAIN q = 1..Len(q) /\ Head(q) = q[1]
  BY LenProperties, EmptySeq
<1>3. DOMAIN Tail(q) = 1..(Len(q) - 1)
  BY <1>1, LenProperties
<1>4. RowSet(q) \subseteq {Head(q)} \cup RowSet(Tail(q))
  <2>1. ASSUME NEW i \in 1..Len(q) PROVE q[i] \in {Head(q)} \cup RowSet(Tail(q))
    <3>1. CASE i = 1
      BY <1>2, <3>1
    <3>2. CASE i # 1
      <4>1. i - 1 \in 1..(Len(q) - 1) /\ (i - 1) + 1 = i
        BY <1>2, <3>2
      <4>2. Tail(q)[i - 1] = q[i]
        BY <1>1, <4>1
      <4> QED
        BY <1>3, <4>1, <4>2 DEF RowSet
    <3> QED
      BY <3>1, <3>2
  <2> QED
    BY <1>2, <2>1 DEF RowSet
<1>5. {Head(q)} \cup RowSet(Tail(q)) \subseteq RowSet(q)
  <2>1. 1 \in 1..Len(q) /\ \A i \in 1..(Len(q) - 1) : i + 1 \in 1..Len(q)
    BY <1>2
  <2> QED
    BY <1>1, <1>2, <1>3, <2>1 DEF RowSet
<1>6. <<Head(q)>> \in Seq(Seqs) /\ RowSet(<<Head(q)>>) = {Head(q)}
  BY <1>1 DEF RowSet
<1> QED
  BY <1>1, <1>4, <1>5, <1>6

(* While no row has two references, taking the rows of q away takes their  *)
(* references away, and each was the last.                                 *)
LEMMA UnreferencedOnce ==
  ASSUME NEW r \in [Seqs -> {0, 1}], NEW q \in Seq(Seqs)
  PROVE  /\ Unreferenced(r, q) = [s \in Seqs |-> IF s \in RowSet(q) THEN 0 ELSE r[s]]
         /\ Unreferenced(r, q) \in [Seqs -> {0, 1}]
         /\ LastRows(r, q) = RowSet(q)
<1>1. ASSUME NEW s \in Seqs
      PROVE  /\ (IF Occurs(s, q) >= r[s] THEN 0 ELSE r[s] - Occurs(s, q))
                  = IF s \in RowSet(q) THEN 0 ELSE r[s]
             /\ s \in RowSet(q) => Occurs(s, q) >= r[s]
  <2>1. Occurs(s, q) \in Nat /\ (Occurs(s, q) = 0 <=> s \notin RowSet(q))
    BY OccursSome
  <2>2. r[s] \in {0, 1}
    OBVIOUS
  <2> QED
    BY <2>1, <2>2
<1>2. RowSet(q) \subseteq Seqs
  BY RowSetSeqs
<1>3. Unreferenced(r, q) = [s \in Seqs |-> IF s \in RowSet(q) THEN 0 ELSE r[s]]
  BY <1>1 DEF Unreferenced
<1>4. LastRows(r, q) = RowSet(q)
  BY <1>1, <1>2 DEF LastRows
<1>5. Unreferenced(r, q) \in [Seqs -> {0, 1}]
  BY <1>3
<1> QED
  BY <1>3, <1>4, <1>5

LEMMA ReferencedInit == Init => Referenced
<1> SUFFICES ASSUME Init PROVE Referenced
  OBVIOUS
<1>1. /\ refs = [s \in Seqs |-> 0] /\ dropped = {} /\ job.stage = "free"
      /\ buf = [e \in Endpoints |-> <<>>] /\ pre = [e \in Endpoints |-> <<>>]
      /\ lotOf = [e \in Endpoints |-> NoBuffer]
  BY DEF Init, NoJob
<1> QED
  BY <1>1 DEF Referenced, Writing

(* A step that leaves what the lot writer has, and starts the writing of a *)
(* row without a reference only.                                           *)
LEMMA ReferencedKept ==
  ASSUME TypeInv, Referenced, UNCHANGED <<buf, pre, refs, dropped, lotOf>>,
         Rows \subseteq Rows', \A s \in Rows : ev'[s] = ev[s],
         Writing' => refs[job'.seq] = 0
  PROVE  Referenced'
<1>1. \A s \in Seqs : refs'[s] = 1 => s \in Rows' /\ InMemory(s, ev[s].ep) /\ s \in Rows
  BY DEF Referenced
<1>2. \A s \in Seqs : refs'[s] = 1 => s \in Rows' /\ InMemory(s, ev[s].ep)'
  BY <1>1 DEF InMemory, RowSet
<1> QED
  BY <1>2 DEF Referenced

(* A step of the dispatch that neither begins the writing of a row nor     *)
(* touches what the writer has.                                            *)
LEMMA NotWriting ==
  ASSUME TypeInv, Referenced, UNCHANGED <<buf, pre, refs, dropped, lotOf, next, ev>>,
         job'.stage \in {"free", "claimed", "end", "failed"}
  PROVE  Referenced'
<1>1. ~Writing'
  BY DEF Writing
<1> QED
  BY <1>1, ReferencedKept DEF Rows

(* ... or goes on with the same row.                                       *)
LEMMA StillWriting ==
  ASSUME TypeInv, Referenced, UNCHANGED <<buf, pre, refs, dropped, lotOf>>,
         Rows \subseteq Rows', \A s \in Rows : ev'[s] = ev[s], job' = job
  PROVE  Referenced'
<1>1. Writing' => Writing
  <2>1. ASSUME job.stage = "release", LotChanged(JobEvent)' PROVE LotChanged(JobEvent)
    <3>1. job.seq \in Rows
      BY <2>1 DEF TypeInv, Rooted
    <3> QED
      BY <2>1, <3>1 DEF LotChanged, JobEvent
  <2> QED
    BY <2>1 DEF Writing
<1>2. Writing' => refs[job'.seq] = 0
  BY <1>1 DEF Referenced
<1> QED
  BY <1>2, ReferencedKept

LEMMA ReferencedPreLot ==
  ASSUME TypeInv, Referenced, NEW n \in 0..MaxSeq, CsvPreLot(n) PROVE Referenced'
<1> DEFINE e    == JobEp
           x    == job.seq
           gone == Expired(e, n)
           kept == Append(Surviving(e, n), job.seq)
           left == [Unreferenced(refs, gone) EXCEPT ![job.seq] = @ + 1]
           over == IF Len(kept) > PreLotMax THEN <<Head(kept)>> ELSE <<>>
           ended == LastRows(refs, gone) \cup LastRows(left, over)
<1>1. /\ job.stage = "csv" /\ e \in Endpoints /\ x \in Seqs /\ x \in Rows
      /\ ev[x].ep = e
      /\ n \in 0..Len(pre[e]) /\ pre[e] \in Seq(Seqs) /\ pre \in [Endpoints -> Seq(Seqs)]
  BY JobTypes DEF CsvPreLot, CsvLeg, Prune, TypeInv, TypeOK, Rooted, JobEp, JobEvent
<1>2. /\ refs \in [Seqs -> {0, 1}] /\ dropped = {} /\ refs[x] = 0
      /\ \A s \in Seqs : refs[s] = 1 => s \in Rows /\ InMemory(s, ev[s].ep)
  BY <1>1 DEF Referenced, Writing
<1>3. /\ lotOf[e] = NoBuffer /\ lotOf' = lotOf /\ buf' = buf /\ ev' = ev /\ next' = next
      /\ pre' = [pre EXCEPT ![e] = IF over = <<>> THEN kept ELSE Tail(kept)]
      /\ refs' = Unreferenced(left, over)
      /\ dropped' = (dropped \cup RowSet(gone) \cup RowSet(over)) \ ended
      /\ job'.stage = "end"
  BY DEF CsvPreLot, CsvEnds, TypeInv, TypeOK, Job
<1>4. /\ gone \in Seq(Seqs) /\ Surviving(e, n) \in Seq(Seqs)
      /\ RowSet(pre[e]) = RowSet(gone) \cup RowSet(Surviving(e, n))
  BY <1>1, RowsOfCut DEF Expired, Surviving
<1>5. /\ kept \in Seq(Seqs) /\ RowSet(kept) = RowSet(Surviving(e, n)) \cup {x}
  BY <1>1, <1>4, RowsOfAppend
<1>6. /\ over \in Seq(Seqs)
      /\ RowSet(kept) \subseteq RowSet(over) \cup RowSet(pre'[e])
      /\ \A d \in Endpoints \ {e} : pre'[d] = pre[d]
  <2>1. kept # <<>>
    BY <1>5, RowsOfNone
  <2>2. /\ Tail(kept) \in Seq(Seqs) /\ <<Head(kept)>> \in Seq(Seqs)
        /\ RowSet(kept) = {Head(kept)} \cup RowSet(Tail(kept))
        /\ RowSet(<<Head(kept)>>) = {Head(kept)}
    BY <1>5, <2>1, RowsOfTail
  <2> HIDE DEF kept, e
  <2>3. CASE Len(kept) > PreLotMax
    <3>1. over = <<Head(kept)>> /\ over # <<>>
      BY <2>3
    <3>2. pre'[e] = Tail(kept)
      BY <1>1, <1>3, <3>1
    <3> QED
      BY <1>1, <1>3, <2>2, <3>1, <3>2
  <2>4. CASE ~(Len(kept) > PreLotMax)
    <3>1. over = <<>>
      BY <2>4
    <3>2. pre'[e] = kept
      BY <1>1, <1>3, <3>1
    <3>3. over \in Seq(Seqs)
      BY <3>1, EmptySeq
    <3> QED
      BY <1>1, <1>3, <3>2, <3>3
  <2> QED
    BY <2>3, <2>4
<1> HIDE DEF kept, over, gone, e, x
<1>7. /\ left = [s \in Seqs |-> IF s = x THEN 1 ELSE IF s \in RowSet(gone) THEN 0 ELSE refs[s]]
      /\ left \in [Seqs -> {0, 1}] /\ LastRows(refs, gone) = RowSet(gone)
  <2>1. /\ Unreferenced(refs, gone)
             = [s \in Seqs |-> IF s \in RowSet(gone) THEN 0 ELSE refs[s]]
        /\ LastRows(refs, gone) = RowSet(gone)
    BY <1>2, <1>4, UnreferencedOnce
  <2>2. Unreferenced(refs, gone)[x] = 0
    BY <1>1, <1>2, <2>1
  <2>3. left = [Unreferenced(refs, gone) EXCEPT ![x] = 1]
    BY <2>2 DEF x
  <2>4. left = [s \in Seqs |-> IF s = x THEN 1 ELSE IF s \in RowSet(gone) THEN 0 ELSE refs[s]]
    BY <1>1, <2>1, <2>3
  <2> HIDE DEF left
  <2> QED
    BY <1>2, <2>1, <2>4
<1> HIDE DEF left
<1>8. /\ refs' = [s \in Seqs |-> IF s \in RowSet(over) THEN 0 ELSE left[s]]
      /\ refs' \in [Seqs -> {0, 1}] /\ LastRows(left, over) = RowSet(over)
  BY <1>3, <1>6, <1>7, UnreferencedOnce
<1>9. dropped' = {}
  BY <1>2, <1>3, <1>7, <1>8
<1>10. ASSUME NEW s \in Seqs, refs'[s] = 1
       PROVE  s \in Rows' /\ InMemory(s, ev[s].ep)'
  <2>1. s \notin RowSet(over) /\ left[s] = 1
    BY <1>8, <1>10
  <2>2. CASE s = x
    <3>1. s \in RowSet(pre'[e])
      BY <1>5, <1>6, <2>1, <2>2
    <3> QED
      BY <1>1, <1>3, <2>2, <3>1 DEF InMemory, Rows
  <2>3. CASE s # x
    <3>1. s \notin RowSet(gone) /\ s \in Rows /\ InMemory(s, ev[s].ep)
      BY <1>2, <1>7, <2>1, <2>3
    <3>2. ev[s].ep \in Endpoints
      BY <3>1 DEF TypeInv, Rooted, Event
    <3>3. ASSUME s \in RowSet(pre[ev[s].ep]) PROVE s \in RowSet(pre'[ev[s].ep])
      <4>1. CASE ev[s].ep = e
        BY <1>4, <1>5, <1>6, <2>1, <3>1, <3>3, <4>1
      <4>2. CASE ev[s].ep # e
        BY <1>6, <3>2, <3>3, <4>2
      <4> QED
        BY <4>1, <4>2
    <3>4. s \in Rows'
      BY <1>3, <3>1 DEF Rows
    <3> QED
      BY <1>3, <3>1, <3>3, <3>4 DEF InMemory
  <2> QED
    BY <2>2, <2>3
<1>11. \A d \in Endpoints : /\ lotOf'[d] = NoBuffer => buf'[d] = <<>>
                            /\ lotOf'[d] # NoBuffer => pre'[d] = <<>>
  <2>1. \A d \in Endpoints : d = e \/ pre'[d] = pre[d]
    BY <1>6
  <2> QED
    BY <1>3, <2>1 DEF Referenced
<1>12. ~Writing'
  BY <1>3 DEF Writing
<1> QED
  BY <1>3, <1>8, <1>9, <1>10, <1>11, <1>12 DEF Referenced

LEMMA ReferencedBuffer ==
  ASSUME TypeInv, Referenced, NEW n \in 0..MaxSeq, CsvBuffer(n) PROVE Referenced'
<1> DEFINE e     == JobEp
           v     == JobEvent
           x     == job.seq
           gone  == IF Opens(e) THEN Expired(e, n) ELSE <<>>
           rows  == Buffered(e, n)
           left  == [Unreferenced(refs, gone) EXCEPT ![job.seq] = @ + 1]
           stale == LastRows(refs, gone)
           evict == ~v.closes /\ wfail[e] /\ Len(rows) > MaxLotRows
<1>1. /\ job.stage = "csv" /\ e \in Endpoints /\ x \in Seqs /\ x \in Rows
      /\ ev[x].ep = e /\ v = ev[x] /\ v \in Event
      /\ pre[e] \in Seq(Seqs) /\ pre \in [Endpoints -> Seq(Seqs)]
      /\ buf[e] \in Seq(Seqs) /\ buf \in [Endpoints -> Seq(Seqs)]
      /\ lotOf \in [Endpoints -> Lots \cup {NoBuffer}]
      /\ Opens(e) => n \in 0..Len(pre[e])
  BY JobTypes DEF CsvBuffer, CsvLeg, TypeInv, TypeOK, Rooted, JobEp, JobEvent
<1>2. /\ refs \in [Seqs -> {0, 1}] /\ dropped = {} /\ refs[x] = 0
      /\ \A s \in Seqs : refs[s] = 1 => s \in Rows /\ InMemory(s, ev[s].ep)
      /\ Opens(e) => buf[e] = <<>>
      /\ ~Opens(e) => pre[e] = <<>>
  BY <1>1 DEF Referenced, Writing, Opens
<1>3. /\ ev' = ev /\ next' = next
      /\ ~LotChanged(v) /\ ~(v.lot = NoLot /\ Opens(e))
      /\ pre' = [pre EXCEPT ![e] = IF Opens(e) THEN <<>> ELSE pre[e]]
      /\ buf' = [buf EXCEPT ![e] = IF evict THEN <<>> ELSE rows]
      /\ lotOf' = [lotOf EXCEPT ![e] = IF evict THEN NoBuffer
                                       ELSE IF Opens(e) THEN v.lot ELSE lotOf[e]]
      /\ refs' = IF evict THEN Unreferenced(left, rows) ELSE left
      /\ dropped' = ((dropped \cup RowSet(gone)) \ stale)
                      \ (IF evict THEN LastRows(left, rows) ELSE {})
  BY DEF CsvBuffer
<1>4. /\ job'.stage \in {"end", "release"} /\ job'.seq = x
      /\ job'.stage = "release" => ~evict
  BY <1>1 DEF CsvBuffer, CsvEnds, TypeInv, TypeOK, Job
<1>5. /\ gone \in Seq(Seqs) /\ rows \in Seq(Seqs)
      /\ RowSet(buf[e]) \cup RowSet(pre[e]) \subseteq RowSet(gone) \cup RowSet(rows)
      /\ x \in RowSet(rows)
  <2>1. CASE Opens(e)
    <3>1. /\ gone = Expired(e, n) /\ Surviving(e, n) \in Seq(Seqs) /\ gone \in Seq(Seqs)
          /\ RowSet(pre[e]) = RowSet(gone) \cup RowSet(Surviving(e, n))
      BY <1>1, <2>1, RowsOfCut DEF Expired, Surviving
    <3>2. rows = Append(Surviving(e, n), x)
      BY <2>1 DEF Buffered, Opens
    <3>3. rows \in Seq(Seqs) /\ RowSet(rows) = RowSet(Surviving(e, n)) \cup {x}
      BY <1>1, <3>1, <3>2, RowsOfAppend
    <3>4. RowSet(buf[e]) = {}
      BY <1>2, <2>1, RowsOfNone
    <3> HIDE DEF gone, rows
    <3> QED
      BY <3>1, <3>3, <3>4
  <2>2. CASE ~Opens(e)
    <3>1. gone = <<>> /\ rows = Append(buf[e], x)
      BY <2>2 DEF Buffered, Opens
    <3>2. rows \in Seq(Seqs) /\ RowSet(rows) = RowSet(buf[e]) \cup {x}
      BY <1>1, <3>1, RowsOfAppend
    <3>3. RowSet(pre[e]) = {} /\ gone \in Seq(Seqs)
      BY <1>2, <2>2, <3>1, RowsOfNone, EmptySeq
    <3> HIDE DEF gone, rows
    <3> QED
      BY <3>2, <3>3
  <2> QED
    BY <2>1, <2>2
<1>6. NoLot \notin Lots /\ NoBuffer \notin Lots /\ (v.lot = NoLot \/ v.lot \in Lots)
  BY <1>1, PipelineAssumption DEF Event
<1>7. ~Opens(e) => v.lot = NoLot \/ lotOf[e] = v.lot
  BY <1>1, <1>3 DEF LotChanged, Opens, e, v, JobEp
<1> HIDE DEF gone, rows, e, v, x
<1> HIDE DEF stale, evict
<1>8. /\ left = [s \in Seqs |-> IF s = x THEN 1 ELSE IF s \in RowSet(gone) THEN 0 ELSE refs[s]]
      /\ left \in [Seqs -> {0, 1}] /\ stale = RowSet(gone)
  <2>1. /\ Unreferenced(refs, gone)
             = [s \in Seqs |-> IF s \in RowSet(gone) THEN 0 ELSE refs[s]]
        /\ stale = RowSet(gone)
    BY <1>2, <1>5, UnreferencedOnce DEF stale
  <2>2. Unreferenced(refs, gone)[x] = 0
    BY <1>1, <1>2, <2>1
  <2>3. left = [Unreferenced(refs, gone) EXCEPT ![x] = 1]
    BY <2>2 DEF x
  <2>4. left = [s \in Seqs |-> IF s = x THEN 1 ELSE IF s \in RowSet(gone) THEN 0 ELSE refs[s]]
    BY <1>1, <2>1, <2>3
  <2> HIDE DEF left
  <2> QED
    BY <1>2, <2>1, <2>4
<1> HIDE DEF left
<1>9. /\ refs' \in [Seqs -> {0, 1}]
      /\ \A s \in Seqs : refs'[s] = 1 => left[s] = 1 /\ (evict => s \notin RowSet(rows))
  <2>1. CASE evict
    <3>1. /\ refs' = [s \in Seqs |-> IF s \in RowSet(rows) THEN 0 ELSE left[s]]
          /\ refs' \in [Seqs -> {0, 1}]
      BY <1>3, <1>5, <1>8, <2>1, UnreferencedOnce
    <3> QED
      BY <3>1
  <2>2. CASE ~evict
    BY <1>3, <1>8, <2>2
  <2> QED
    BY <2>1, <2>2
<1>10. dropped' = {}
  BY <1>2, <1>3, <1>8
<1>11. \A d \in Endpoints \ {e} : pre'[d] = pre[d] /\ buf'[d] = buf[d] /\ lotOf'[d] = lotOf[d]
  BY <1>1, <1>3
<1>12. /\ pre'[e] = IF Opens(e) THEN <<>> ELSE pre[e]
       /\ buf'[e] = IF evict THEN <<>> ELSE rows
       /\ lotOf'[e] = IF evict THEN NoBuffer ELSE IF Opens(e) THEN v.lot ELSE lotOf[e]
  BY <1>1, <1>3
<1>13. ASSUME NEW s \in Seqs, refs'[s] = 1
       PROVE  s \in Rows' /\ InMemory(s, ev[s].ep)'
  <2>1. left[s] = 1 /\ (evict => s \notin RowSet(rows))
    BY <1>9, <1>13
  <2>2. CASE s = x
    <3>1. s \in RowSet(buf'[e])
      BY <1>5, <1>12, <2>1, <2>2
    <3> QED
      BY <1>1, <1>3, <2>2, <3>1 DEF InMemory, Rows
  <2>3. CASE s # x
    <3>1. s \notin RowSet(gone) /\ s \in Rows /\ InMemory(s, ev[s].ep)
      BY <1>2, <1>8, <2>1, <2>3
    <3>2. ev[s].ep \in Endpoints
      BY <3>1 DEF TypeInv, Rooted, Event
    <3>3. InMemory(s, ev[s].ep)'
      <4>1. CASE ev[s].ep = e
        <5>1. s \in RowSet(rows)
          BY <1>5, <3>1, <4>1 DEF InMemory
        <5>2. s \in RowSet(buf'[e])
          BY <1>12, <2>1, <5>1
        <5> QED
          BY <1>3, <4>1, <5>2 DEF InMemory
      <4>2. CASE ev[s].ep # e
        BY <1>3, <1>11, <3>1, <3>2, <4>2 DEF InMemory
      <4> QED
        BY <4>1, <4>2
    <3> QED
      BY <1>3, <3>1, <3>3 DEF Rows
  <2> QED
    BY <2>2, <2>3
<1>14. ASSUME NEW d \in Endpoints
       PROVE  /\ lotOf'[d] = NoBuffer => buf'[d] = <<>>
              /\ lotOf'[d] # NoBuffer => pre'[d] = <<>>
  <2>1. CASE d = e
    BY <1>2, <1>3, <1>6, <1>12, <2>1 DEF Opens
  <2>2. CASE d # e
    BY <1>11, <2>2 DEF Referenced
  <2> QED
    BY <2>1, <2>2
<1>15. ~Writing'
  <2>1. CASE job'.stage = "end"
    BY <2>1 DEF Writing
  <2>2. CASE job'.stage = "release"
    <3>1. lotOf'[e] = IF Opens(e) THEN v.lot ELSE lotOf[e]
      BY <1>4, <1>12, <2>2
    <3>2. v.lot = NoLot \/ lotOf'[e] = v.lot
      BY <1>7, <3>1
    <3>3. JobEvent' = v /\ v.ep = e
      BY <1>1, <1>3, <1>4 DEF JobEvent
    <3>4. ~LotChanged(JobEvent)'
      BY <3>2, <3>3 DEF LotChanged
    <3> QED
      BY <2>2, <3>4 DEF Writing
  <2> QED
    BY <1>4, <2>1, <2>2
<1> QED
  BY <1>9, <1>10, <1>13, <1>14, <1>15 DEF Referenced

(* The rows of one buffer leave memory, or keep their place without their  *)
(* references.                                                             *)
LEMMA ReferencedLess ==
  ASSUME TypeInv, Referenced, NEW e \in Endpoints, NEW gone,
         refs' = [s \in Seqs |-> IF s \in gone THEN 0 ELSE refs[s]],
         dropped' \subseteq dropped,
         RowSet(buf[e]) \cup RowSet(pre[e])
           \subseteq gone \cup RowSet(buf'[e]) \cup RowSet(pre'[e]),
         \A d \in Endpoints \ {e} : buf'[d] = buf[d] /\ pre'[d] = pre[d] /\ lotOf'[d] = lotOf[d],
         lotOf'[e] = NoBuffer => buf'[e] = <<>>,
         lotOf'[e] # NoBuffer => pre'[e] = <<>>,
         UNCHANGED <<next, ev>>,
         Writing' => Writing /\ job'.seq = job.seq
  PROVE  Referenced'
<1>1. /\ refs \in [Seqs -> {0, 1}] /\ dropped = {}
      /\ \A s \in Seqs : refs[s] = 1 => s \in Rows /\ InMemory(s, ev[s].ep)
  BY DEF Referenced
<1>2. refs' \in [Seqs -> {0, 1}] /\ dropped' = {}
  BY <1>1
<1>3. ASSUME NEW s \in Seqs, refs'[s] = 1
      PROVE  s \in Rows' /\ InMemory(s, ev[s].ep)'
  <2>1. s \notin gone /\ s \in Rows /\ InMemory(s, ev[s].ep)
    BY <1>1, <1>3
  <2>2. ev[s].ep \in Endpoints
    BY <2>1 DEF TypeInv, Rooted, Event
  <2>3. CASE ev[s].ep = e
    BY <2>1, <2>3 DEF InMemory, Rows
  <2>4. CASE ev[s].ep # e
    BY <2>1, <2>2, <2>4 DEF InMemory, Rows
  <2> QED
    BY <2>3, <2>4
<1>4. ASSUME NEW d \in Endpoints
      PROVE  /\ lotOf'[d] = NoBuffer => buf'[d] = <<>>
             /\ lotOf'[d] # NoBuffer => pre'[d] = <<>>
  <2>1. CASE d = e
    BY <2>1
  <2>2. CASE d # e
    BY <2>2 DEF Referenced
  <2> QED
    BY <2>1, <2>2
<1>5. Writing' => refs'[job'.seq] = 0
  <2> SUFFICES ASSUME Writing' PROVE refs'[job'.seq] = 0
    OBVIOUS
  <2>1. refs[job.seq] = 0 /\ job'.seq = job.seq
    BY DEF Referenced
  <2>2. job.stage # "free"
    BY DEF Writing
  <2>3. job.seq \in Seqs
    BY <2>2, JobTypes
  <2> QED
    BY <2>1, <2>3
<1> QED
  BY <1>2, <1>3, <1>4, <1>5 DEF Referenced


LEMMA ReferencedRelease ==
  ASSUME TypeInv, Referenced, Release PROVE Referenced'
<1> DEFINE e == JobEp
           q == buf[e]
           changed == LotChanged(JobEvent)
<1>1. /\ job.stage = "release" /\ e \in Endpoints /\ q \in Seq(Seqs) /\ job \in Job
      /\ buf \in [Endpoints -> Seq(Seqs)]
      /\ lotOf \in [Endpoints -> Lots \cup {NoBuffer}]
      /\ JobEvent \in Event /\ JobEvent.ep = e
  BY JobTypes DEF Release, TypeInv, TypeOK, Rooted, JobEp, JobEvent
<1>2. refs \in [Seqs -> {0, 1}] /\ dropped = {}
  BY DEF Referenced
<1>3. /\ refs' = Unreferenced(refs, q) /\ dropped' = dropped \ LastRows(refs, q)
      /\ next' = next /\ ev' = ev /\ pre' = pre
  BY DEF Release
<1>4. refs' = [s \in Seqs |-> IF s \in RowSet(q) THEN 0 ELSE refs[s]]
  BY <1>1, <1>2, <1>3, UnreferencedOnce
<1>5. NoLot \notin Lots /\ NoBuffer \notin Lots
  BY PipelineAssumption
<1>6. \/ /\ buf' = [buf EXCEPT ![e] = <<>>]
         /\ lotOf' = [lotOf EXCEPT ![e] = IF changed THEN JobEvent.lot ELSE NoBuffer]
         /\ job' = [job EXCEPT !.stage = IF changed THEN "csv" ELSE "end"]
      \/ job' = [job EXCEPT !.stage = "end", !.csvok = FALSE] /\ buf' = buf /\ lotOf' = lotOf
  BY DEF Release, CsvEnds
<1>7. changed => JobEvent.lot \in Lots /\ lotOf[e] # NoBuffer
  BY <1>1 DEF LotChanged, Event
<1>8. (lotOf[e] = NoBuffer => buf[e] = <<>>) /\ (lotOf[e] # NoBuffer => pre[e] = <<>>)
  BY <1>1 DEF Referenced
<1>9. job'.seq = job.seq /\ (Writing' => Writing)
  <2>1. CASE job' = [job EXCEPT !.stage = IF changed THEN "csv" ELSE "end"]
    <3>1. job'.seq = job.seq /\ job'.stage = IF changed THEN "csv" ELSE "end"
      BY <1>1, <2>1 DEF Job
    <3> QED
      BY <1>1, <3>1 DEF Writing
  <2>2. CASE job' = [job EXCEPT !.stage = "end", !.csvok = FALSE]
    <3>1. job'.seq = job.seq /\ job'.stage = "end"
      BY <1>1, <2>2 DEF Job
    <3> QED
      BY <3>1 DEF Writing
  <2> QED
    BY <1>6, <2>1, <2>2
<1> HIDE DEF e, q, changed
<1>10. /\ \A d \in Endpoints \ {e} : buf'[d] = buf[d] /\ pre'[d] = pre[d] /\ lotOf'[d] = lotOf[d]
       /\ RowSet(buf[e]) \cup RowSet(pre[e])
            \subseteq RowSet(q) \cup RowSet(buf'[e]) \cup RowSet(pre'[e])
  BY <1>1, <1>3, <1>6 DEF q
<1>11. /\ lotOf'[e] = NoBuffer => buf'[e] = <<>>
       /\ lotOf'[e] # NoBuffer => pre'[e] = <<>>
  <2>1. CASE buf' = buf /\ lotOf' = lotOf
    BY <1>3, <1>8, <2>1
  <2>2. CASE /\ buf' = [buf EXCEPT ![e] = <<>>]
             /\ lotOf' = [lotOf EXCEPT ![e] = IF changed THEN JobEvent.lot ELSE NoBuffer]
    <3>1. buf'[e] = <<>> /\ lotOf'[e] = IF changed THEN JobEvent.lot ELSE NoBuffer
      BY <1>1, <2>2
    <3> QED
      BY <1>3, <1>7, <1>8, <3>1
  <2> QED
    BY <1>6, <2>1, <2>2
<1>12. dropped' \subseteq dropped /\ UNCHANGED <<next, ev>> /\ e \in Endpoints
  BY <1>1, <1>3
<1> QED
  BY <1>4, <1>9, <1>10, <1>11, <1>12, ReferencedLess

LEMMA ReferencedStop ==
  ASSUME TypeInv, Referenced, StopReleases PROVE Referenced'
<1> DEFINE e == rp.ep
           q == buf[e]
           left == Unreferenced(refs, q)
<1>1. /\ e \in Endpoints /\ q \in Seq(Seqs) /\ pre[e] \in Seq(Seqs)
      /\ buf \in [Endpoints -> Seq(Seqs)] /\ pre \in [Endpoints -> Seq(Seqs)]
      /\ lotOf \in [Endpoints -> Lots \cup {NoBuffer}]
  BY DEF StopReleases, TypeInv, TypeOK, Rooted
<1>2. refs \in [Seqs -> {0, 1}] /\ dropped = {}
  BY DEF Referenced
<1>3. next' = next /\ ev' = ev /\ job' = job
  BY DEF StopReleases
<1>4. \/ /\ refs' = Unreferenced(left, pre[e]) /\ buf' = [buf EXCEPT ![e] = <<>>]
         /\ pre' = [pre EXCEPT ![e] = <<>>] /\ lotOf' = [lotOf EXCEPT ![e] = NoBuffer]
         /\ dropped' = (dropped \ LastRows(refs, q)) \ LastRows(left, pre[e])
      \/ /\ refs' = left /\ dropped' = dropped \ LastRows(refs, q)
         /\ buf' = buf /\ pre' = pre /\ lotOf' = lotOf
  BY DEF StopReleases
<1>5. /\ left = [s \in Seqs |-> IF s \in RowSet(q) THEN 0 ELSE refs[s]]
      /\ left \in [Seqs -> {0, 1}]
  BY <1>1, <1>2, UnreferencedOnce
<1>6. NoBuffer \notin Lots /\ NoLot # NoBuffer
  BY PipelineAssumption
<1>7. (lotOf[e] = NoBuffer => buf[e] = <<>>) /\ (lotOf[e] # NoBuffer => pre[e] = <<>>)
  BY <1>1 DEF Referenced
<1> HIDE DEF e, q, left
<1>8. Writing' => Writing /\ job'.seq = job.seq
  <2>1. ASSUME job.stage = "release", LotChanged(JobEvent)' PROVE LotChanged(JobEvent)
    <3>1. JobEp \in Endpoints /\ JobEvent' = JobEvent /\ JobEvent.ep = JobEp
      BY <1>3, <2>1, JobTypes DEF JobEvent, JobEp
    <3>2. lotOf'[JobEp] # NoBuffer => lotOf'[JobEp] = lotOf[JobEp]
      BY <1>1, <1>4, <3>1
    <3>3. LotChanged(JobEvent)' <=>
            JobEvent.lot # NoLot /\ lotOf'[JobEp] \notin {NoBuffer, JobEvent.lot}
      BY <3>1 DEF LotChanged
    <3> QED
      BY <2>1, <3>1, <3>2, <3>3 DEF LotChanged
  <2> QED
    BY <1>3, <2>1 DEF Writing
<1>9. CASE refs' = left /\ dropped' = dropped \ LastRows(refs, q)
            /\ buf' = buf /\ pre' = pre /\ lotOf' = lotOf
  BY <1>1, <1>3, <1>5, <1>7, <1>8, <1>9, ReferencedLess
<1>10. CASE /\ refs' = Unreferenced(left, pre[e]) /\ buf' = [buf EXCEPT ![e] = <<>>]
            /\ pre' = [pre EXCEPT ![e] = <<>>] /\ lotOf' = [lotOf EXCEPT ![e] = NoBuffer]
            /\ dropped' = (dropped \ LastRows(refs, q)) \ LastRows(left, pre[e])
  <2>1. refs' = [s \in Seqs |-> IF s \in RowSet(pre[e]) THEN 0 ELSE left[s]]
    BY <1>1, <1>5, <1>10, UnreferencedOnce
  <2>2. refs' = [s \in Seqs |-> IF s \in RowSet(q) \cup RowSet(pre[e]) THEN 0 ELSE refs[s]]
    BY <1>5, <2>1
  <2>3. /\ buf'[e] = <<>> /\ pre'[e] = <<>> /\ lotOf'[e] = NoBuffer
        /\ \A d \in Endpoints \ {e} : buf'[d] = buf[d] /\ pre'[d] = pre[d] /\ lotOf'[d] = lotOf[d]
    BY <1>1, <1>10
  <2>4. RowSet(buf[e]) \cup RowSet(pre[e])
          \subseteq (RowSet(q) \cup RowSet(pre[e])) \cup RowSet(buf'[e]) \cup RowSet(pre'[e])
    BY DEF q
  <2>5. dropped' \subseteq dropped
    BY <1>10
  <2> QED
    BY <1>1, <1>3, <1>8, <2>2, <2>3, <2>4, <2>5, ReferencedLess
<1> QED
  BY <1>4, <1>9, <1>10

LEMMA ReferencedCrash ==
  ASSUME Referenced, Crash PROVE Referenced'
<1>1. /\ refs' = [s \in Seqs |-> 0] /\ dropped' = {} /\ job'.stage = "free"
      /\ buf' = [e \in Endpoints |-> <<>>] /\ pre' = [e \in Endpoints |-> <<>>]
      /\ lotOf' = [e \in Endpoints |-> NoBuffer]
  BY DEF Crash, NoJob
<1> QED
  BY <1>1 DEF Referenced, Writing

LEMMA ReferencedStep == TypeInv /\ Referenced /\ [Next]_vars => Referenced'
<1> SUFFICES ASSUME TypeInv, Referenced, [Next]_vars PROVE Referenced'
  OBVIOUS
<1> USE DEF journal, outboxes, writer, sessions
<1>1. ASSUME NEW w \in Workers, NEW o \in Offers, Enter(w, o)
      PROVE  Referenced'
  BY <1>1, StillWriting DEF Enter, Rows
<1>2. ASSUME NEW w \in Workers, JournalAppend(w)
      PROVE  Referenced'
  <2>1. next \in 0..MaxSeq /\ MaxSeq \in Nat /\ ev \in [Seqs -> Event \cup {NoEvent}]
    BY PipelineAssumption DEF TypeInv, TypeOK
  <2>2. next' = next + 1 /\ ev' = [ev EXCEPT ![next + 1] = cb[w].ev]
    BY <1>2 DEF JournalAppend
  <2>3. Rows \subseteq Rows' /\ \A s \in Rows : s \in Seqs /\ s # next + 1
    BY <2>1, <2>2 DEF Rows, Seqs
  <2>4. \A s \in Rows : ev'[s] = ev[s]
    BY <2>1, <2>2, <2>3
  <2> QED
    BY <1>2, <2>3, <2>4, StillWriting DEF JournalAppend
<1>3. CASE ClaimReplay \/ \E w \in Workers : ClaimLive(w)
  <2>1. job'.stage = "claimed"
    BY <1>3 DEF ClaimLive, ClaimReplay, NoJob
  <2> QED
    BY <1>3, <2>1, NotWriting DEF ClaimLive, ClaimReplay
<1>4. ASSUME NEW k \in Sinks, Publish(k) PROVE Referenced'
  <2>1. /\ job \in Job /\ job.stage = "publish" /\ job'.seq = job.seq
        /\ job'.csv = job.csv /\ job'.stage \in {"publish", "csv", "end"}
        /\ job'.stage = "csv" => job.csv
    BY <1>4 DEF Publish, Enqueue, Divert, OutboxFull, SinkRaises, Publishing,
       PublishRaised, AfterPublish, TypeInv, TypeOK, Job
  <2>2. Writing' => refs[job'.seq] = 0
    BY <2>1 DEF Writing, Referenced
  <2> QED
    BY <1>4, <2>2, ReferencedKept DEF Publish, Enqueue, Divert, OutboxFull, SinkRaises, Rows
<1>5. CASE NothingToDo \/ EntryEnds \/ EntryJudged \/ DropUnconfigured
  <2>1. job'.stage = "free"
    BY <1>5 DEF NothingToDo, EntryEnds, EntryJudged, DropUnconfigured, Unlock, NoJob
  <2> QED
    BY <1>5, <2>1, NotWriting DEF NothingToDo, EntryEnds, EntryJudged, DropUnconfigured
<1>6. CASE Begin
  <2>1. /\ job \in Job /\ job.stage = "claimed" /\ job'.seq = job.seq
        /\ job'.csv = (CsvNotHeld /\ JobEvent.kind # "alarm")
        /\ job'.stage \in {"publish", "csv", "end"}
        /\ job'.stage = "csv" => job'.csv
    BY <1>6 DEF Begin, TypeInv, TypeOK, Job
  <2>2. job'.csv => refs[job.seq] = 0
    <3>1. job.seq \in Seqs /\ refs \in [Seqs -> {0, 1}]
      BY <2>1, JobTypes DEF Referenced
    <3>2. refs[job.seq] \in {0, 1}
      BY <3>1
    <3>3. ~(refs[job.seq] > 0) => refs[job.seq] = 0
      BY <3>2
    <3> QED
      BY <2>1, <3>3 DEF CsvNotHeld, Held
  <2>3. Writing' => refs[job'.seq] = 0
    BY <2>1, <2>2 DEF Writing
  <2> QED
    BY <1>6, <2>3, ReferencedKept DEF Begin, Rows
<1>7. CASE MarkDispatched \/ MarkRaises \/ ShedAlarm \/ EntryFails \/ CsvSkip
  <2>1. /\ job'.seq = job.seq /\ job'.stage \in {"csv", "end", "failed"}
        /\ job'.stage = "csv" => job.stage = "publish" /\ job.csv
    BY <1>7 DEF MarkDispatched, AllQueued, MarkRaises, ShedAlarm, EntryFails, CsvSkip,
       CsvEnds, AfterPublish, TypeInv, TypeOK, Job
  <2>2. Writing' => refs[job'.seq] = 0
    BY <2>1 DEF Writing, Referenced
  <2> QED
    BY <1>7, <2>2, ReferencedKept
    DEF MarkDispatched, MarkRaises, ShedAlarm, EntryFails, CsvSkip, Rows
<1>8. CASE CsvLotChanged
  <2>1. /\ job.stage = "csv" /\ job'.seq = job.seq
    BY <1>8 DEF CsvLotChanged, CsvLeg, CsvEnds, TypeInv, TypeOK, Job
  <2>2. Writing' => refs[job'.seq] = 0
    BY <2>1 DEF Writing, Referenced
  <2> QED
    BY <1>8, <2>2, ReferencedKept DEF CsvLotChanged, Rows
<1>9. ASSUME NEW n \in 0..MaxSeq, CsvPreLot(n) \/ CsvBuffer(n)
      PROVE  Referenced'
  BY <1>9, ReferencedPreLot, ReferencedBuffer
<1>10. CASE Release
  BY <1>10, ReferencedRelease
<1>11. CASE StopReleases
  BY <1>11, ReferencedStop
<1>12. CASE \/ StopWrites \/ NoticeConfig \/ StopPops \/ ReplayStart
            \/ ReplayAssemble \/ ReplayEnds \/ StopUnroutes \/ RerouteStarts
  BY <1>12, StillWriting
  DEF StopWrites, NoticeConfig, StopPops, ReplayStart, ReplayAssemble, ReplayEnds,
      StopUnroutes, RerouteStarts, Rows
<1>13. ASSUME NEW e \in Endpoints,
              \/ StartMachine(e) \/ StartFails(e) \/ StopRetire(e)
              \/ EditConfig(e) \/ RerouteStops(e) \/ EditRoute(e)
       PROVE  Referenced'
  BY <1>13, StillWriting
  DEF StartMachine, StartFails, StopRetire, EditConfig, RerouteStops, EditRoute, Rows
<1>14. ASSUME NEW k \in Sinks, NEW s \in Seqs, Deliver(k, s)
       PROVE  Referenced'
  BY <1>14, StillWriting DEF Deliver, Rows
<1>15. CASE Crash
  BY <1>15, ReferencedCrash
<1>16. CASE UNCHANGED vars
  BY <1>16, StillWriting DEF vars, Rows
<1> QED
  BY <1>1, <1>2, <1>3, <1>4, <1>5, <1>6, <1>7, <1>8, <1>9, <1>10, <1>11,
     <1>12, <1>13, <1>14, <1>15, <1>16
  DEF Next, DispatchStep, SupervisorStep

LEMMA RowsOfBoth ==
  ASSUME NEW q \in Seq(Seqs), NEW p \in Seq(Seqs)
  PROVE  RowSet(q) \cup RowSet(p) \subseteq RowSet(q \o p)
<1>1. /\ q \o p \in Seq(Seqs) /\ Len(q \o p) = Len(q) + Len(p)
      /\ \A i \in 1..(Len(q) + Len(p)) :
           (q \o p)[i] = IF i <= Len(q) THEN q[i] ELSE p[i - Len(q)]
  BY ConcatProperties
<1>2. /\ DOMAIN q = 1..Len(q) /\ DOMAIN p = 1..Len(p)
      /\ DOMAIN (q \o p) = 1..(Len(q) + Len(p))
      /\ Len(q) \in Nat /\ Len(p) \in Nat
  BY <1>1, LenProperties
<1>3. ASSUME NEW i \in 1..Len(q) PROVE q[i] \in RowSet(q \o p)
  <2>1. i \in 1..(Len(q) + Len(p)) /\ i <= Len(q)
    BY <1>2
  <2> QED
    BY <1>1, <1>2, <2>1 DEF RowSet
<1>4. ASSUME NEW i \in 1..Len(p) PROVE p[i] \in RowSet(q \o p)
  <2>1. /\ i + Len(q) \in 1..(Len(q) + Len(p)) /\ ~(i + Len(q) <= Len(q))
        /\ (i + Len(q)) - Len(q) = i
    BY <1>2
  <2>2. (q \o p)[i + Len(q)] = p[i]
    BY <1>1, <2>1
  <2> QED
    BY <1>2, <2>1, <2>2 DEF RowSet
<1>5. RowSet(q) \subseteq RowSet(q \o p)
  BY <1>2, <1>3 DEF RowSet
<1>6. RowSet(p) \subseteq RowSet(q \o p)
  BY <1>2, <1>4 DEF RowSet
<1> QED
  BY <1>5, <1>6

(* A row the lot writer says it holds is in memory, whatever write,        *)
(* release, eviction, stop or crash went before (csv_store.py:361-365): no *)
(* row is passed over by every replay for a reference nothing stands for.  *)
THEOREM HeldCorrect == Spec => []HeldIsInMemory
<1>1. Init => TypeInv /\ Referenced
  BY TypeInit, ReferencedInit
<1>2. TypeInv /\ Referenced /\ [Next]_vars => (TypeInv /\ Referenced)'
  BY TypeStep, ReferencedStep
<1>3. TypeInv /\ Referenced => HeldIsInMemory
  <2> SUFFICES ASSUME TypeInv, Referenced, NEW s \in Seqs, Held(s)
               PROVE  \E e \in Endpoints : s \in RowSet(buf[e] \o pre[e])
    BY DEF HeldIsInMemory
  <2>1. refs[s] = 1
    <3>1. refs[s] \in {0, 1}
      BY DEF Referenced
    <3> QED
      BY <3>1 DEF Held
  <2>2. s \in Rows /\ InMemory(s, ev[s].ep)
    BY <2>1 DEF Referenced
  <2>3. ev[s].ep \in Endpoints
    BY <2>2 DEF TypeInv, Rooted, Event
  <2>4. buf[ev[s].ep] \in Seq(Seqs) /\ pre[ev[s].ep] \in Seq(Seqs)
    BY <2>3 DEF TypeInv, TypeOK
  <2> QED
    BY <2>2, <2>3, <2>4, RowsOfBoth DEF InMemory
<1> QED
  BY <1>1, <1>2, <1>3, PTL DEF Spec

-----------------------------------------------------------------------------
(* What is settled stays settled                                           *)

(* The publish leg of the dispatch in progress is still to be settled.     *)
Owes == /\ job.publish
        /\ \/ job.stage \in {"claimed", "publish"}
           \/ job.stage \in {"csv", "release", "end", "failed"} /\ job.error # "no"

(* While it is, its entry is pending: nobody without the dispatch lock     *)
(* touches the publish column.                                             *)
PublishOwed ==
  /\ \A s \in Seqs \ Rows : disp[s] = "absent"
  /\ Owes => disp[job.seq] = "pending"
  /\ job.stage = "publish" => job.publish /\ job.error = "no"
  /\ job.stage = "failed" => job.publish /\ job.error # "no"

LEMMA OwedInit == Init => PublishOwed
BY DEF Init, PublishOwed, Owes, NoJob

(* A step that settles nothing ...                                         *)
LEMMA OwedKept ==
  ASSUME PublishOwed, disp' = disp, next' = next,
         Owes' => disp[job'.seq] = "pending",
         job'.stage = "publish" => job'.publish /\ job'.error = "no",
         job'.stage = "failed" => job'.publish /\ job'.error # "no"
  PROVE  PublishOwed' /\ Settled(disp, disp')
BY DEF PublishOwed, Settled, Rows

(* ... and one by which the dispatch in progress settles its entry.        *)
LEMMA OwedSettles ==
  ASSUME TypeInv, PublishOwed, Owes, NEW x, disp' = [disp EXCEPT ![job.seq] = x],
         next' = next, ~Owes', job'.stage \notin {"publish", "failed"}
  PROVE  PublishOwed' /\ Settled(disp, disp')
<1>1. /\ job.seq \in Rows /\ job.seq \in Seqs /\ disp[job.seq] = "pending"
      /\ disp \in [Seqs -> {"absent", "pending", "done", "dropped"}]
  BY RowsAreSeqs DEF TypeInv, TypeOK, Rooted, PublishOwed, Owes
<1>2. \A s \in Seqs : s # job.seq => disp'[s] = disp[s]
  BY <1>1
<1> QED
  BY <1>1, <1>2 DEF PublishOwed, Settled, Rows

LEMMA OwedAppend ==
  ASSUME TypeInv, PublishOwed, NEW w \in Workers, JournalAppend(w)
  PROVE  PublishOwed' /\ Settled(disp, disp')
<1>1. /\ next \in 0..MaxSeq /\ next < MaxSeq /\ MaxSeq \in Nat
      /\ disp \in [Seqs -> {"absent", "pending", "done", "dropped"}]
      /\ next' = next + 1 /\ disp' = [disp EXCEPT ![next + 1] = "pending"]
      /\ job' = job
  BY PipelineAssumption DEF JournalAppend, TypeInv, TypeOK
<1>2. next + 1 \in Seqs \ Rows /\ Rows' = Rows \cup {next + 1}
  BY <1>1 DEF Seqs, Rows
<1>3. \A s \in Seqs : s # next + 1 => disp'[s] = disp[s]
  BY <1>1
<1>4. disp[next + 1] = "absent"
  BY <1>2 DEF PublishOwed
<1>5. Owes => job.seq \in Seqs \ {next + 1}
  BY <1>1, <1>2, RowsAreSeqs DEF Owes, TypeInv, Rooted
<1>6. Settled(disp, disp')
  BY <1>3, <1>4 DEF Settled
<1>7. \A s \in Seqs \ Rows' : disp'[s] = "absent"
  BY <1>2, <1>3 DEF PublishOwed
<1>8. Owes' => disp'[job'.seq] = "pending"
  BY <1>1, <1>3, <1>5 DEF PublishOwed, Owes
<1> QED
  BY <1>1, <1>6, <1>7, <1>8 DEF PublishOwed

LEMMA OwedStep ==
  TypeInv /\ PublishOwed /\ [Next]_vars => PublishOwed' /\ Settled(disp, disp')
<1> SUFFICES ASSUME TypeInv, PublishOwed, [Next]_vars
             PROVE  PublishOwed' /\ Settled(disp, disp')
  OBVIOUS
<1> DEFINE Goal == PublishOwed' /\ Settled(disp, disp')
<1> SUFFICES Goal
  OBVIOUS
<1> USE DEF journal, outboxes, writer, sessions
<1>a. ASSUME disp' = disp, next' = next, job'.stage = "free" PROVE Goal
  BY <1>a, OwedKept DEF Owes
<1>b. ASSUME disp' = disp, next' = next, job' = job PROVE Goal
  BY <1>b, OwedKept DEF PublishOwed, Owes
<1>c. ASSUME disp' = disp, next' = next, job'.seq = job.seq,
             job.stage \in {"csv", "release", "end"},
             job'.publish = job.publish, job'.error = job.error,
             job'.stage \in {"csv", "release", "end"}
      PROVE  Goal
  BY <1>c, OwedKept DEF PublishOwed, Owes
<1>j. job \in Job
  BY DEF TypeInv, TypeOK
<1>1. ASSUME NEW w \in Workers, NEW o \in Offers, Enter(w, o) PROVE Goal
  BY <1>1, <1>b DEF Enter
<1>2. ASSUME NEW w \in Workers, JournalAppend(w) PROVE Goal
  BY <1>2, OwedAppend
<1>3. ASSUME NEW w \in Workers, ClaimLive(w) PROVE Goal
  <2>1. /\ job'.stage = "claimed" /\ job'.seq = cb[w].seq
        /\ job'.publish = OwedPublish(cb[w].seq)
        /\ disp' = disp /\ next' = next
    BY <1>3 DEF ClaimLive, NoJob
  <2>2. Owes' => disp[job'.seq] = "pending"
    BY <2>1 DEF Owes, OwedPublish
  <2> QED
    BY <2>1, <2>2, OwedKept
<1>4. CASE ClaimReplay
  <2>1. PICK s \in ToReplay :
          job' = [NoJob EXCEPT !.owner = "replay", !.seq = s, !.stage = "claimed",
                               !.publish = s \in rp.pubs /\ OwedPublish(s),
                               !.csv = s \in rp.csvs /\ OwedCsv(s)]
    BY <1>4 DEF ClaimReplay
  <2>2. /\ job'.stage = "claimed" /\ job'.seq = s
        /\ job'.publish = (s \in rp.pubs /\ OwedPublish(s))
        /\ disp' = disp /\ next' = next
    BY <1>4, <2>1 DEF ClaimReplay, NoJob
  <2>3. Owes' => disp[job'.seq] = "pending"
    BY <2>2 DEF Owes, OwedPublish
  <2> QED
    BY <2>2, <2>3, OwedKept
<1>5. ASSUME NEW k \in Sinks, Publish(k) PROVE Goal
  <2>1. /\ job.stage = "publish" /\ job'.seq = job.seq
        /\ job'.publish = job.publish
        /\ job'.stage \in {"publish", "csv", "end"}
        /\ job'.stage = "publish" => job'.error = job.error
    BY <1>5, <1>j DEF Publish, Enqueue, Divert, OutboxFull, SinkRaises, Publishing,
       PublishRaised, AfterPublish, Job
  <2>2. disp' = disp /\ next' = next
    BY <1>5 DEF Publish, Enqueue, Divert, OutboxFull, SinkRaises
  <2> QED
    BY <2>1, <2>2, OwedKept DEF PublishOwed, Owes
<1>6. CASE NothingToDo \/ EntryEnds
  BY <1>6, <1>a DEF NothingToDo, EntryEnds, Unlock, NoJob
<1>7. CASE EntryJudged
  <2>1. Owes /\ job'.stage = "free" /\ next' = next
    BY <1>7 DEF EntryJudged, Unlock, NoJob, PublishOwed, Owes
  <2>2. PICK x : disp' = [disp EXCEPT ![job.seq] = x]
    BY <1>7 DEF EntryJudged
  <2> QED
    BY <2>1, <2>2, OwedSettles DEF Owes
<1>8. CASE DropUnconfigured
  <2>1. job.stage = "claimed" /\ job'.stage = "free" /\ next' = next
    BY <1>8 DEF DropUnconfigured, Unlock, NoJob
  <2>2. CASE job.publish
    <3>1. disp' = [disp EXCEPT ![job.seq] = "dropped"]
      BY <1>8, <2>2 DEF DropUnconfigured
    <3> QED
      BY <2>1, <2>2, <3>1, OwedSettles DEF Owes
  <2>3. CASE ~job.publish
    <3>1. disp' = disp
      BY <1>8, <2>3 DEF DropUnconfigured, TypeInv, TypeOK
    <3> QED
      BY <2>1, <3>1, <1>a
  <2> QED
    BY <2>2, <2>3
<1>9. CASE Begin
  <2>1. /\ job.stage = "claimed" /\ job'.seq = job.seq /\ job'.publish = job.publish
        /\ disp' = disp /\ next' = next
        /\ job'.stage \in {"publish", "csv", "end"}
        /\ job'.stage = "publish" => job'.publish /\ job'.error = "no"
    BY <1>9, <1>j DEF Begin, Job
  <2> QED
    BY <2>1, OwedKept DEF PublishOwed, Owes
<1>10. CASE MarkDispatched \/ ShedAlarm
  <2>1. /\ job.stage = "publish" /\ job'.error = job.error
        /\ job'.stage \in {"csv", "end"} /\ next' = next
    BY <1>10, <1>j DEF MarkDispatched, AllQueued, ShedAlarm, Publishing, AfterPublish, Job
  <2>2. Owes /\ ~Owes'
    BY <2>1 DEF PublishOwed, Owes
  <2>3. PICK x : disp' = [disp EXCEPT ![job.seq] = x]
    BY <1>10 DEF MarkDispatched, ShedAlarm
  <2> QED
    BY <2>1, <2>2, <2>3, OwedSettles
<1>11. CASE MarkRaises
  <2>1. /\ job.stage = "publish" /\ job'.seq = job.seq /\ job'.stage = "end"
        /\ disp' = disp /\ next' = next
    BY <1>11, <1>j DEF MarkRaises, AllQueued, Job
  <2> QED
    BY <2>1, OwedKept DEF PublishOwed, Owes
<1>12. CASE CsvSkip \/ CsvLotChanged
  <2>1. /\ job.stage = "csv" /\ job'.stage \in {"release", "end"} /\ job'.seq = job.seq
        /\ job'.publish = job.publish /\ job'.error = job.error
    BY <1>12, <1>j DEF CsvSkip, CsvLotChanged, CsvLeg, CsvEnds, Job
  <2> QED
    BY <1>12, <2>1, <1>c DEF CsvSkip, CsvLotChanged
<1>13. ASSUME NEW n \in 0..MaxSeq, CsvPreLot(n) \/ CsvBuffer(n) PROVE Goal
  <2>1. /\ job.stage = "csv"
        /\ \/ job' = [job EXCEPT !.stage = "end", !.csvok = TRUE]
           \/ job' = [job EXCEPT !.stage = "end", !.csvok = FALSE]
           \/ job' = [job EXCEPT !.stage = "release"]
        /\ disp' = disp /\ next' = next
    BY <1>13 DEF CsvPreLot, CsvBuffer, CsvEnds, CsvLeg
  <2>2. /\ job'.stage \in {"release", "end"} /\ job'.seq = job.seq
        /\ job'.publish = job.publish /\ job'.error = job.error
    BY <2>1, <1>j DEF Job
  <2> QED
    BY <2>1, <2>2, <1>c
<1>14. CASE Release
  <2>1. /\ job.stage = "release" /\ job'.stage \in {"csv", "end"} /\ job'.seq = job.seq
        /\ job'.publish = job.publish /\ job'.error = job.error
    BY <1>14, <1>j DEF Release, CsvEnds, Job
  <2> QED
    BY <1>14, <2>1, <1>c DEF Release
<1>15. CASE EntryFails
  <2>1. /\ job.stage = "end" /\ job.publish /\ job.error = "error"
        /\ job'.stage = "failed" /\ job'.seq = job.seq
        /\ job'.publish = job.publish /\ job'.error = job.error
        /\ disp' = disp /\ next' = next
    BY <1>15, <1>j DEF EntryFails, PublishFailed, Job
  <2> QED
    BY <2>1, OwedKept DEF PublishOwed, Owes
<1>16. CASE StopWrites \/ StopReleases
  BY <1>16, <1>b DEF StopWrites, StopReleases
<1>17. CASE NoticeConfig \/ StopPops \/ ReplayStart \/ ReplayAssemble \/ ReplayEnds
              \/ StopUnroutes \/ RerouteStarts
  BY <1>17, <1>b
  DEF NoticeConfig, StopPops, ReplayStart, ReplayAssemble, ReplayEnds, StopUnroutes,
      RerouteStarts
<1>18. ASSUME NEW e \in Endpoints,
              \/ StartMachine(e) \/ StartFails(e) \/ StopRetire(e)
              \/ EditConfig(e) \/ RerouteStops(e) \/ EditRoute(e)
       PROVE  Goal
  BY <1>18, <1>b
  DEF StartMachine, StartFails, StopRetire, EditConfig, RerouteStops, EditRoute
<1>19. ASSUME NEW k \in Sinks, NEW s \in Seqs, Deliver(k, s) PROVE Goal
  BY <1>19, <1>b DEF Deliver
<1>20. CASE Crash
  BY <1>20, <1>a DEF Crash, NoJob
<1>21. CASE UNCHANGED vars
  BY <1>21, <1>b DEF vars
<1> HIDE DEF Goal
<1> QED
  BY <1>1, <1>2, <1>3, <1>4, <1>5, <1>6, <1>7, <1>8, <1>9, <1>10, <1>11,
     <1>12, <1>13, <1>14, <1>15, <1>16, <1>17, <1>18, <1>19, <1>20, <1>21
  DEF Next, DispatchStep, SupervisorStep

(* What was published, dropped or parked is never offered again: the       *)
(* publish column of an entry is settled once (dispatch.py:81-86), for     *)
(* every failure, crash and edit of the configuration.                     *)
THEOREM PublishSettledForever == Spec => [][Settled(disp, disp')]_vars
<1>1. Init => TypeInv /\ PublishOwed
  BY TypeInit, OwedInit
<1>2. TypeInv /\ PublishOwed /\ [Next]_vars => (TypeInv /\ PublishOwed)'
  BY TypeStep, OwedStep
<1>3. TypeInv /\ PublishOwed /\ [Next]_vars => [Settled(disp, disp')]_vars
  BY OwedStep
<1> QED
  BY <1>1, <1>2, <1>3, PTL DEF Spec

-----------------------------------------------------------------------------
(* A configuration nobody edits                                            *)

(* The supervisor is taking a machine down.                                *)
Down == rp.pc \in {"leaving", "retired", "flushed", "pop"}

(* While nobody edits the configuration the only machine ever taken down   *)
(* is one that failed to start, and it has nothing in memory; whoever is   *)
(* past the session guard works for a machine that stands.                 *)
MachinesStand ==
  /\ enabled = Endpoints /\ desired = Endpoints
  /\ rerouted = {} /\ rp.pc # "rerouting"
  /\ \A e \in Endpoints \ active : buf[e] = <<>> /\ pre[e] = <<>>
  /\ Down => rp.ep \notin active
  /\ configured = active \cup (IF Down THEN {rp.ep} ELSE {})

ThreadsStand ==
  /\ \A w \in Workers :
       /\ cb[w].pc = "entered" => cb[w].ev.ep \in active
       /\ cb[w].pc \in {"appended", "dispatching"} => ev[cb[w].seq].ep \in active
  /\ job.stage # "free" /\ (job.stage # "claimed" \/ job.owner # "replay")
       => JobEp \in active
  /\ job.owner = "replay" => rp.pc = "pass"

LEMMA StandInit == Init => MachinesStand /\ ThreadsStand
<1> SUFFICES ASSUME Init PROVE MachinesStand /\ ThreadsStand
  OBVIOUS
<1>1. MachinesStand
  BY DEF Init, MachinesStand, Down, IdleSupervisor
<1>2. /\ \A w \in Workers : cb[w].pc = "idle"
      /\ job.stage = "free" /\ job.owner # "replay"
  BY PipelineAssumption DEF Init, IdleCallback, NoJob
<1> QED
  BY <1>1, <1>2 DEF ThreadsStand

(* No edits: the configuration read is the one that is there.              *)
LEMMA NobodyEdits ==
  ASSUME TypeInv, MaxEdits = 0, NEW e, EditConfig(e) \/ EditRoute(e)
  PROVE  FALSE
<1>1. budget.edits \in 0..0
  BY DEF TypeInv, TypeOK, Budget
<1> QED
  BY <1>1 DEF EditConfig, EditRoute

LEMMA MachinesKept ==
  ASSUME MachinesStand, UNCHANGED <<enabled, desired, active, configured, rerouted>>,
         rp'.pc # "rerouting", Down' = Down, Down => rp'.ep = rp.ep,
         \A e \in Endpoints \ active : buf'[e] = buf[e] /\ pre'[e] = pre[e]
  PROVE  MachinesStand'
BY DEF MachinesStand

LEMMA UnlockKeeps ==
  ASSUME NEW ok, Unlock(ok), rp \in Supervisor
  PROVE  /\ job'.stage = "free" /\ job'.owner # "replay"
         /\ rp'.pc = rp.pc /\ rp'.ep = rp.ep /\ Down' = Down
<1>1. job'.stage = "free" /\ job'.owner # "replay"
  BY PipelineAssumption DEF Unlock, NoJob
<1>2. rp'.pc = rp.pc /\ rp'.ep = rp.ep
  BY DEF Unlock, Supervisor
<1> QED
  BY <1>1, <1>2 DEF Down

LEMMA MachinesStep ==
  ASSUME MaxEdits = 0
  PROVE  TypeInv /\ MachinesStand /\ ThreadsStand /\ [Next]_vars => MachinesStand'
<1> SUFFICES ASSUME TypeInv, MachinesStand, ThreadsStand, [Next]_vars
             PROVE  MachinesStand'
  OBVIOUS
<1> USE DEF journal, outboxes, writer, sessions
<1>r. rp \in Supervisor /\ active \subseteq Endpoints
  BY DEF TypeInv, TypeOK
<1>b. /\ buf \in [Endpoints -> Seq(Seqs)] /\ pre \in [Endpoints -> Seq(Seqs)]
      /\ job.stage \in {"csv", "release"} => JobEp \in active
  BY DEF TypeInv, TypeOK, ThreadsStand
<1>s. rerouted = {} /\ rp.pc # "rerouting"
  BY DEF MachinesStand
<1>1. ASSUME NEW w \in Workers, (\E o \in Offers : Enter(w, o))
                                  \/ JournalAppend(w) \/ ClaimLive(w)
      PROVE  MachinesStand'
  BY <1>1, <1>s, MachinesKept DEF Enter, JournalAppend, ClaimLive, Down
<1>2. ASSUME NEW k \in Sinks, Publish(k) PROVE MachinesStand'
  BY <1>2, <1>s, MachinesKept DEF Publish, Enqueue, Divert, OutboxFull, SinkRaises, Down
<1>3. CASE NothingToDo \/ EntryEnds \/ EntryJudged \/ DropUnconfigured
  <2>1. PICK ok : Unlock(ok)
    BY <1>3 DEF NothingToDo, EntryEnds, EntryJudged, DropUnconfigured
  <2>2. /\ UNCHANGED <<enabled, desired, active, configured, rerouted, buf, pre>>
    BY <1>3 DEF NothingToDo, EntryEnds, EntryJudged, DropUnconfigured
  <2> QED
    BY <1>r, <2>1, <2>2, UnlockKeeps, <1>s, MachinesKept
<1>4. CASE \/ Begin \/ MarkDispatched \/ MarkRaises \/ ShedAlarm \/ CsvSkip
           \/ CsvLotChanged \/ EntryFails
  BY <1>4, <1>s, MachinesKept
  DEF Begin, MarkDispatched, MarkRaises, ShedAlarm, CsvSkip, CsvLotChanged, EntryFails, Down
<1>5. ASSUME NEW n \in 0..MaxSeq, CsvPreLot(n) PROVE MachinesStand'
  <2>1. JobEp \in active
    BY <1>5, <1>b DEF CsvPreLot, CsvLeg
  <2>2. \A d \in Endpoints \ active : buf'[d] = buf[d] /\ pre'[d] = pre[d]
    BY <1>5, <1>b, <2>1 DEF CsvPreLot
  <2> QED
    BY <1>5, <2>2, <1>s, MachinesKept DEF CsvPreLot, Down
<1>6. ASSUME NEW n \in 0..MaxSeq, CsvBuffer(n) PROVE MachinesStand'
  <2>1. JobEp \in active
    BY <1>6, <1>b DEF CsvBuffer, CsvLeg
  <2>2. \A d \in Endpoints \ active : buf'[d] = buf[d] /\ pre'[d] = pre[d]
    BY <1>6, <1>b, <2>1 DEF CsvBuffer
  <2> QED
    BY <1>6, <2>2, <1>s, MachinesKept DEF CsvBuffer, Down
<1>7. CASE Release
  <2>1. JobEp \in active
    BY <1>7, <1>b DEF Release
  <2>2. \A d \in Endpoints \ active : buf'[d] = buf[d] /\ pre'[d] = pre[d]
    BY <1>7, <1>b, <2>1 DEF Release
  <2> QED
    BY <1>7, <2>2, <1>s, MachinesKept DEF Release, Down
<1>8. CASE StopWrites
  <2>1. rp.pc = "retired" /\ rp.ep \in Endpoints \ active
    BY <1>8 DEF StopWrites, TypeInv, Rooted, MachinesStand, Down
  <2>2. buf[rp.ep] = <<>>
    BY <2>1 DEF MachinesStand
  <2>3. rp' = [rp EXCEPT !.pc = "flushed"]
    BY <1>8, <2>2 DEF StopWrites
  <2>4. rp'.pc = "flushed" /\ rp'.ep = rp.ep
    BY <1>r, <2>3 DEF Supervisor
  <2> QED
    BY <1>8, <2>1, <2>4, <1>s, MachinesKept DEF StopWrites, Down
<1>9. CASE StopReleases
  <2>1. rp.pc = "flushed" /\ rp.ep \in Endpoints \ active
    BY <1>9 DEF StopReleases, TypeInv, Rooted, MachinesStand, Down
  <2>2. buf[rp.ep] = <<>> /\ pre[rp.ep] = <<>>
    BY <2>1 DEF MachinesStand
  <2>3. /\ rp' = [rp EXCEPT !.pc = "pop"]
        /\ buf' = [buf EXCEPT ![rp.ep] = <<>>] /\ pre' = [pre EXCEPT ![rp.ep] = <<>>]
    BY <1>9, <2>2 DEF StopReleases
  <2>4. rp'.pc = "pop" /\ rp'.ep = rp.ep
    BY <1>r, <2>3 DEF Supervisor
  <2>5. buf' = buf /\ pre' = pre
    BY <1>b, <2>1, <2>2, <2>3
  <2> QED
    BY <1>9, <2>1, <2>4, <2>5, <1>s, MachinesKept DEF StopReleases, Down
<1>10. CASE StopPops
  <2>1. /\ rp.pc = "pop" /\ rp.ep \notin active /\ configured = active \cup {rp.ep}
    BY <1>10 DEF StopPops, MachinesStand, Down
  <2>2. rp'.pc = "idle" /\ configured' = configured \ {rp.ep}
    BY <1>10, <1>r DEF StopPops, Supervisor
  <2> QED
    BY <1>10, <2>1, <2>2 DEF StopPops, MachinesStand, Down
<1>11. CASE NoticeConfig
  BY <1>11 DEF NoticeConfig, MachinesStand
<1>12. CASE ReplayStart \/ ReplayAssemble \/ ReplayEnds
  <2>1. ~Down /\ ~Down'
    BY <1>12, <1>r DEF ReplayStart, ReplayAssemble, ReplayEnds, Down, Supervisor
  <2> QED
    <3>1. rp'.pc # "rerouting"
      BY <1>12, <1>r DEF ReplayStart, ReplayAssemble, ReplayEnds, Supervisor
    <3>2. UNCHANGED <<enabled, desired, active, configured, rerouted, buf, pre>>
      BY <1>12 DEF ReplayStart, ReplayAssemble, ReplayEnds
    <3> QED
      BY <2>1, <3>1, <3>2, MachinesKept DEF Down
<1>13. CASE ClaimReplay
  BY <1>13, <1>s, MachinesKept DEF ClaimReplay, Down
<1>14. ASSUME NEW e \in Endpoints, StartMachine(e) PROVE MachinesStand'
  <2>1. ~Down /\ rp' = rp
    BY <1>14 DEF StartMachine, Down
  <2>2. configured' = configured \cup {e} /\ active' = active \cup {e}
        /\ UNCHANGED <<enabled, desired, buf, pre>> /\ rerouted' = rerouted \ {e}
    BY <1>14 DEF StartMachine
  <2> QED
    BY <1>s, <2>1, <2>2 DEF MachinesStand, Down
<1>15. ASSUME NEW e \in Endpoints, StartFails(e) PROVE MachinesStand'
  <2>1. ~Down /\ rp'.pc = "leaving" /\ rp'.ep = e
    BY <1>15, <1>r DEF StartFails, Down, Supervisor
  <2>2. /\ configured' = configured \cup {e} /\ e \notin configured
        /\ UNCHANGED <<enabled, desired, active, rerouted, buf, pre>>
    BY <1>15 DEF StartFails, ToStart
  <2> QED
    BY <2>1, <2>2 DEF MachinesStand, Down
<1>16. ASSUME NEW e \in Endpoints, StopRetire(e) PROVE MachinesStand'
  BY <1>16, <1>r DEF StopRetire, ToStop, MachinesStand
<1>16a. CASE StopUnroutes
  <2>1. rp.pc = "leaving" /\ rp'.pc = "retired" /\ rp'.ep = rp.ep
    BY <1>16a, <1>r DEF StopUnroutes, Supervisor
  <2> QED
    BY <1>16a, <2>1, MachinesKept DEF StopUnroutes, Down
<1>16b. ASSUME NEW e \in Endpoints, RerouteStops(e) PROVE FALSE
  BY <1>16b, <1>s DEF RerouteStops, ToReroute
<1>16c. CASE RerouteStarts
  BY <1>16c, <1>s DEF RerouteStarts
<1>17. ASSUME NEW e \in Endpoints, EditConfig(e) \/ EditRoute(e) PROVE MachinesStand'
  BY <1>17, NobodyEdits
<1>18. ASSUME NEW k \in Sinks, NEW s \in Seqs, Deliver(k, s) PROVE MachinesStand'
  BY <1>18, <1>s, MachinesKept DEF Deliver, Down
<1>19. CASE Crash
  <2>1. /\ rp'.pc = "idle" /\ enabled' = enabled /\ desired' = enabled
        /\ configured' = {} /\ active' = {} /\ rerouted' = {}
        /\ buf' = [e \in Endpoints |-> <<>>] /\ pre' = [e \in Endpoints |-> <<>>]
    BY <1>19 DEF Crash, IdleSupervisor
  <2> QED
    BY <2>1 DEF MachinesStand, Down
<1>20. CASE UNCHANGED vars
  BY <1>20, <1>s, MachinesKept DEF vars, Down
<1> QED
  BY <1>1, <1>2, <1>3, <1>4, <1>5, <1>6, <1>7, <1>8, <1>9, <1>10, <1>11,
     <1>12, <1>13, <1>14, <1>15, <1>16, <1>17, <1>18, <1>19, <1>20, <1>16a, <1>16b, <1>16c
  DEF Next, DispatchStep, SupervisorStep

LEMMA ThreadsKept ==
  ASSUME ThreadsStand, cb' = cb, ev' = ev, active \subseteq active',
         job'.stage # "free" => job.stage \notin {"free", "claimed"} /\ job'.seq = job.seq,
         job'.owner = "replay" => job.owner = "replay", rp'.pc = rp.pc
  PROVE  ThreadsStand'
BY DEF ThreadsStand, JobEp, JobEvent

LEMMA ThreadsUndisturbed ==
  ASSUME ThreadsStand, cb' = cb, ev' = ev, active \subseteq active', job' = job,
         job.owner = "replay" => rp'.pc = "pass"
  PROVE  ThreadsStand'
BY DEF ThreadsStand, JobEp, JobEvent

LEMMA ThreadsUnlock ==
  ASSUME TypeInv, ThreadsStand, NEW ok, Unlock(ok), ev' = ev, active' = active
  PROVE  ThreadsStand'
<1>1. job'.stage = "free" /\ job'.owner # "replay"
  BY UnlockKeeps DEF TypeInv, TypeOK
<1>2. \A w \in Workers : cb'[w] = cb[w] \/ cb'[w].pc = "idle"
  BY DEF Unlock, IdleCallback, TypeInv, TypeOK
<1> QED
  BY <1>1, <1>2 DEF ThreadsStand

LEMMA ThreadsStep ==
  ASSUME MaxEdits = 0
  PROVE  TypeInv /\ MachinesStand /\ ThreadsStand /\ [Next]_vars => ThreadsStand'
<1> SUFFICES ASSUME TypeInv, MachinesStand, ThreadsStand, [Next]_vars
             PROVE  ThreadsStand'
  OBVIOUS
<1> USE DEF journal, outboxes, writer, sessions
<1>r. /\ rp \in Supervisor /\ job \in Job /\ active \subseteq Endpoints
      /\ cb \in [Workers -> Callback]
  BY DEF TypeInv, TypeOK
<1>1. ASSUME NEW w \in Workers, NEW o \in Offers, Enter(w, o) PROVE ThreadsStand'
  <2>1. /\ o.ep \in active /\ active' = active /\ ev' = ev /\ job' = job /\ rp' = rp
        /\ cb' = [cb EXCEPT ![w] = [cb[w] EXCEPT !.pc = "entered", !.ev = o]]
    BY <1>1 DEF Enter
  <2>2. cb'[w].pc = "entered" /\ cb'[w].ev = o /\ \A v \in Workers \ {w} : cb'[v] = cb[v]
    BY <1>r, <2>1 DEF Callback
  <2> QED
    BY <2>1, <2>2 DEF ThreadsStand, JobEp, JobEvent
<1>2. ASSUME NEW w \in Workers, JournalAppend(w) PROVE ThreadsStand'
  <2>1. next \in 0..MaxSeq /\ MaxSeq \in Nat /\ next < MaxSeq
        /\ ev \in [Seqs -> Event \cup {NoEvent}]
    BY <1>2, PipelineAssumption DEF JournalAppend, TypeInv, TypeOK
  <2>2. /\ next' = next + 1 /\ ev' = [ev EXCEPT ![next + 1] = cb[w].ev]
        /\ cb' = [cb EXCEPT ![w] = [pc |-> "appended", ev |-> NoEvent, seq |-> next + 1]]
        /\ active' = active /\ job' = job /\ rp' = rp /\ cb[w].pc = "entered"
    BY <1>2 DEF JournalAppend
  <2>3. \A s \in Rows : s \in Seqs /\ s # next + 1
    BY <2>1, <2>2 DEF Rows, Seqs
  <2>4. \A s \in Rows : ev'[s] = ev[s]
    BY <2>1, <2>2, <2>3
  <2>5. next + 1 \in Seqs
    BY <2>1 DEF Seqs
  <2>6. ev'[next + 1] = cb[w].ev
    BY <2>1, <2>2, <2>5
  <2>7. /\ cb'[w].pc = "appended" /\ cb'[w].seq = next + 1
        /\ \A v \in Workers \ {w} : cb'[v] = cb[v]
    BY <1>r, <2>2
  <2>8. ASSUME NEW v \in Workers
        PROVE  /\ cb'[v].pc = "entered" => cb'[v].ev.ep \in active'
               /\ cb'[v].pc \in {"appended", "dispatching"} => ev'[cb'[v].seq].ep \in active'
    <3>1. CASE v = w
      BY <2>2, <2>6, <2>7, <3>1 DEF ThreadsStand
    <3>2. CASE v # w
      <4>1. cb[v].pc \in {"appended", "dispatching"} => cb[v].seq \in Rows
        BY DEF TypeInv, Rooted
      <4> QED
        BY <2>2, <2>4, <2>7, <3>2, <4>1 DEF ThreadsStand
    <3> QED
      BY <3>1, <3>2
  <2>9. job.stage # "free" => JobEp' = JobEp
    BY <2>2, <2>4 DEF JobEp, JobEvent, TypeInv, Rooted
  <2> QED
    BY <2>2, <2>8, <2>9 DEF ThreadsStand
<1>3. ASSUME NEW w \in Workers, ClaimLive(w) PROVE ThreadsStand'
  <2>1. /\ cb[w].pc = "appended" /\ ev' = ev /\ active' = active /\ rp' = rp
        /\ cb' = [cb EXCEPT ![w].pc = "dispatching"]
        /\ job'.owner = w /\ job'.seq = cb[w].seq
    BY <1>3 DEF ClaimLive, NoJob
  <2>2. /\ cb'[w].pc = "dispatching" /\ cb'[w].seq = cb[w].seq
        /\ \A v \in Workers \ {w} : cb'[v] = cb[v]
    BY <1>r, <2>1 DEF Callback
  <2>3. w # "replay" /\ ev[cb[w].seq].ep \in active
    BY <2>1, PipelineAssumption DEF ThreadsStand
  <2>4. \A v \in Workers :
          /\ cb'[v].pc = "entered" => cb'[v].ev.ep \in active'
          /\ cb'[v].pc \in {"appended", "dispatching"} => ev'[cb'[v].seq].ep \in active'
    BY <2>1, <2>2, <2>3 DEF ThreadsStand
  <2>5. JobEp' \in active' /\ job'.owner # "replay"
    BY <2>1, <2>3 DEF JobEp, JobEvent
  <2> QED
    BY <2>4, <2>5 DEF ThreadsStand
<1>4. CASE ClaimReplay
  <2>1. /\ rp.pc = "pass" /\ rp' = rp /\ cb' = cb /\ ev' = ev /\ active' = active
        /\ job'.stage = "claimed" /\ job'.owner = "replay"
    BY <1>4 DEF ClaimReplay, NoJob
  <2> QED
    BY <2>1 DEF ThreadsStand
<1>5. ASSUME NEW k \in Sinks, Publish(k) PROVE ThreadsStand'
  <2>1. job.stage = "publish" /\ job'.seq = job.seq /\ job'.owner = job.owner
    BY <1>5, <1>r DEF Publish, Enqueue, Divert, OutboxFull, SinkRaises, Publishing,
       PublishRaised, Job
  <2> QED
    BY <1>5, <2>1, ThreadsKept DEF Publish, Enqueue, Divert, OutboxFull, SinkRaises
<1>6. CASE NothingToDo \/ EntryEnds \/ EntryJudged \/ DropUnconfigured
  <2>1. PICK ok : Unlock(ok)
    BY <1>6 DEF NothingToDo, EntryEnds, EntryJudged, DropUnconfigured
  <2> QED
    BY <1>6, <2>1, ThreadsUnlock DEF NothingToDo, EntryEnds, EntryJudged, DropUnconfigured
<1>7. CASE Begin
  <2>1. /\ job.stage = "claimed" /\ job'.seq = job.seq /\ job'.owner = job.owner /\ Known
        /\ cb' = cb /\ ev' = ev /\ active' = active /\ rp' = rp
    BY <1>7, <1>r DEF Begin, Job
  <2>2. JobEp \in active
    <3>1. CASE job.owner # "replay"
      BY <2>1, <3>1 DEF ThreadsStand
    <3>2. CASE job.owner = "replay"
      BY <2>1, <3>2 DEF Known, ThreadsStand, MachinesStand, Down
    <3> QED
      BY <3>1, <3>2
  <2> QED
    BY <2>1, <2>2 DEF ThreadsStand, JobEp, JobEvent
<1>8. CASE \/ MarkDispatched \/ MarkRaises \/ ShedAlarm \/ CsvSkip
           \/ CsvLotChanged \/ EntryFails \/ Release
  <2>1. /\ job.stage \notin {"free", "claimed"} /\ job'.seq = job.seq
        /\ job'.owner = job.owner
    BY <1>8, <1>r DEF MarkDispatched, AllQueued, MarkRaises, ShedAlarm, Publishing,
       CsvSkip, CsvLotChanged, CsvLeg, CsvEnds, EntryFails, Release, Job
  <2>2. cb' = cb /\ ev' = ev /\ active' = active /\ rp' = rp
    BY <1>8 DEF MarkDispatched, MarkRaises, ShedAlarm, CsvSkip, CsvLotChanged,
       EntryFails, Release
  <2> QED
    BY <2>1, <2>2, ThreadsKept
<1>9. ASSUME NEW n \in 0..MaxSeq, CsvPreLot(n) \/ CsvBuffer(n) PROVE ThreadsStand'
  <2>1. /\ job.stage = "csv"
        /\ \/ job' = [job EXCEPT !.stage = "end", !.csvok = TRUE]
           \/ job' = [job EXCEPT !.stage = "end", !.csvok = FALSE]
           \/ job' = [job EXCEPT !.stage = "release"]
        /\ cb' = cb /\ ev' = ev /\ active' = active /\ rp' = rp
    BY <1>9 DEF CsvPreLot, CsvBuffer, CsvEnds, CsvLeg
  <2>2. job'.seq = job.seq /\ job'.owner = job.owner
    BY <1>r, <2>1 DEF Job
  <2> QED
    BY <2>1, <2>2, ThreadsKept
<1>10. CASE StopWrites \/ StopReleases \/ StopPops \/ NoticeConfig \/ ReplayStart
            \/ ReplayAssemble \/ ReplayEnds \/ StopUnroutes \/ RerouteStarts
  <2>1. rp.pc # "pass" \/ job.owner # "replay"
    BY <1>10 DEF StopWrites, StopReleases, StopPops, NoticeConfig, ReplayStart,
       ReplayAssemble, ReplayEnds, StopUnroutes, RerouteStarts
  <2>2. cb' = cb /\ ev' = ev /\ active' = active /\ job' = job
    BY <1>10 DEF StopWrites, StopReleases, StopPops, NoticeConfig, ReplayStart,
       ReplayAssemble, ReplayEnds, StopUnroutes, RerouteStarts
  <2> QED
    BY <2>1, <2>2, ThreadsUndisturbed DEF ThreadsStand
<1>11. ASSUME NEW e \in Endpoints, StartMachine(e) \/ StartFails(e) \/ RerouteStops(e)
       PROVE  ThreadsStand'
  <2>1. rp.pc = "idle" /\ cb' = cb /\ ev' = ev /\ active \subseteq active' /\ job' = job
    BY <1>11 DEF StartMachine, StartFails, RerouteStops
  <2> QED
    BY <2>1, ThreadsUndisturbed DEF ThreadsStand
<1>12. ASSUME NEW e \in Endpoints, StopRetire(e) PROVE ThreadsStand'
  BY <1>12, <1>r DEF StopRetire, ToStop, MachinesStand
<1>13. ASSUME NEW e \in Endpoints, EditConfig(e) \/ EditRoute(e) PROVE ThreadsStand'
  BY <1>13, NobodyEdits
<1>14. ASSUME NEW k \in Sinks, NEW s \in Seqs, Deliver(k, s) PROVE ThreadsStand'
  BY <1>14, ThreadsUndisturbed DEF Deliver, ThreadsStand
<1>15. CASE Crash
  <2>1. /\ \A w \in Workers : cb'[w].pc = "idle"
        /\ job'.stage = "free" /\ job'.owner # "replay"
    BY <1>15, PipelineAssumption DEF Crash, IdleCallback, NoJob
  <2> QED
    BY <2>1 DEF ThreadsStand
<1>16. CASE UNCHANGED vars
  BY <1>16, ThreadsUndisturbed DEF vars, ThreadsStand
<1> QED
  BY <1>1, <1>2, <1>3, <1>4, <1>5, <1>6, <1>7, <1>8, <1>9, <1>10, <1>11,
     <1>12, <1>13, <1>14, <1>15, <1>16
  DEF Next, DispatchStep, SupervisorStep

-----------------------------------------------------------------------------
(* No row twice                                                            *)

Once(q) == \A i, j \in DOMAIN q : q[i] = q[j] => i = j

LEMMA OnceNone == Once(<<>>)
BY DEF Once

LEMMA OnceOccurs ==
  ASSUME NEW q \in Seq(Seqs), Once(q), NEW s \in RowSet(q)
  PROVE  Occurs(s, q) = 1
<1>1. PICK i \in DOMAIN q : q[i] = s
  BY DEF RowSet
<1>2. {j \in DOMAIN q : q[j] = s} = {i}
  BY <1>1 DEF Once
<1> QED
  BY <1>2, FS_Singleton DEF Occurs

LEMMA OnceAppend ==
  ASSUME NEW q \in Seq(Seqs), Once(q), NEW s \in Seqs \ RowSet(q)
  PROVE  Once(Append(q, s))
<1> DEFINE a == Append(q, s)
<1>1. /\ a \in Seq(Seqs) /\ Len(a) = Len(q) + 1
      /\ \A i \in 1..Len(q) : a[i] = q[i]
      /\ a[Len(q) + 1] = s
  BY AppendProperties
<1>2. DOMAIN a = 1..(Len(q) + 1) /\ DOMAIN q = 1..Len(q) /\ Len(q) \in Nat
  BY <1>1, LenProperties
<1> HIDE DEF a
<1>3. \A i \in 1..(Len(q) + 1) : i \in 1..Len(q) \/ i = Len(q) + 1
  BY <1>2
<1>4. \A i \in 1..Len(q) : q[i] # s
  BY <1>2 DEF RowSet
<1>5. Once(a)
  BY <1>1, <1>2, <1>3, <1>4 DEF Once
<1> QED
  BY <1>5 DEF a

(* The two parts of a sequence without repetitions share nothing.          *)
LEMMA OnceCut ==
  ASSUME NEW q \in Seq(Seqs), Once(q), NEW n \in 0..Len(q)
  PROVE  /\ Once(SubSeq(q, n + 1, Len(q)))
         /\ RowSet(SubSeq(q, 1, n)) \cap RowSet(SubSeq(q, n + 1, Len(q))) = {}
<1> DEFINE l == Len(q)
           a == SubSeq(q, 1, n)
           b == SubSeq(q, n + 1, l)
<1>1. l \in Nat /\ n \in Nat /\ n <= l /\ DOMAIN q = 1..l /\ \A i \in 1..l : q[i] \in Seqs
  BY LenProperties, ElementOfSeq
<1> HIDE DEF l
<1>2. DOMAIN a = 1..n /\ \A i \in 1..n : a[i] = q[i]
  <2>1. \A i \in 1..n : q[i] \in Seqs
    BY <1>1
  <2>2. /\ a \in Seq(Seqs) /\ Len(a) = (IF 1 <= n THEN n - 1 + 1 ELSE 0)
        /\ \A i \in 1..(n - 1 + 1) : a[i] = q[1 + i - 1]
    BY <1>1, <2>1, SubSeqProperties
  <2> HIDE DEF a
  <2>3. Len(a) = n
    BY <1>1, <2>2
  <2>4. ASSUME NEW i \in 1..n PROVE a[i] = q[i]
    <3>1. i \in 1..(n - 1 + 1) /\ 1 + i - 1 = i
      BY <1>1
    <3> QED
      BY <2>2, <3>1
  <2> QED
    BY <2>2, <2>3, <2>4, LenProperties
<1>3. DOMAIN b = 1..(l - n) /\ \A i \in 1..(l - n) : b[i] = q[n + i]
  <2>1. \A i \in (n + 1)..l : q[i] \in Seqs
    BY <1>1
  <2>2. /\ b \in Seq(Seqs) /\ Len(b) = (IF n + 1 <= l THEN l - (n + 1) + 1 ELSE 0)
        /\ \A i \in 1..(l - (n + 1) + 1) : b[i] = q[(n + 1) + i - 1]
    BY <1>1, <2>1, SubSeqProperties
  <2> HIDE DEF b
  <2>3. Len(b) = l - n
    BY <1>1, <2>2
  <2>4. ASSUME NEW i \in 1..(l - n) PROVE b[i] = q[n + i]
    <3>1. i \in 1..(l - (n + 1) + 1) /\ (n + 1) + i - 1 = n + i
      BY <1>1
    <3> QED
      BY <2>2, <3>1
  <2> QED
    BY <2>2, <2>3, <2>4, LenProperties
<1> HIDE DEF a, b
<1>4. \A i \in 1..n, j \in 1..(l - n) : i \in 1..l /\ n + j \in 1..l /\ i # n + j
  BY <1>1
<1>5. RowSet(a) \cap RowSet(b) = {}
  <2>1. ASSUME NEW i \in 1..n, NEW j \in 1..(l - n), a[i] = b[j] PROVE FALSE
    <3>1. q[i] = q[n + j]
      BY <1>2, <1>3, <2>1
    <3> QED
      BY <1>1, <1>4, <3>1 DEF Once
  <2> QED
    BY <1>2, <1>3, <2>1 DEF RowSet
<1>6. ASSUME NEW i \in 1..(l - n), NEW j \in 1..(l - n), b[i] = b[j] PROVE i = j
  <2>1. n + i \in 1..l /\ n + j \in 1..l
    BY <1>1
  <2>2. n + i = n + j
    BY <1>1, <1>3, <1>6, <2>1 DEF Once
  <2> QED
    BY <1>1, <2>2
<1>7. Once(b)
  BY <1>3, <1>6 DEF Once
<1> QED
  BY <1>5, <1>7 DEF a, b, l

LEMMA OnceTail ==
  ASSUME NEW q \in Seq(Seqs), Once(q), q # <<>>
  PROVE  Once(Tail(q)) /\ Head(q) \notin RowSet(Tail(q))
<1>1. /\ Tail(q) \in Seq(Seqs) /\ Len(Tail(q)) = Len(q) - 1
      /\ \A i \in 1..Len(Tail(q)) : Tail(q)[i] = q[i + 1]
  BY HeadTailProperties
<1>2. Len(q) \in Nat \ {0} /\ DOMAIN q = 1..Len(q) /\ Head(q) = q[1]
  BY LenProperties, EmptySeq
<1>3. DOMAIN Tail(q) = 1..(Len(q) - 1)
  BY <1>1, LenProperties
<1>4. \A i \in 1..(Len(q) - 1) : i + 1 \in 1..Len(q) /\ i + 1 # 1 /\ 1 \in 1..Len(q)
  BY <1>2
<1>5. Head(q) \notin RowSet(Tail(q))
  <2>1. ASSUME NEW i \in 1..(Len(q) - 1), Tail(q)[i] = Head(q) PROVE FALSE
    <3>1. q[i + 1] = q[1]
      BY <1>1, <1>2, <2>1
    <3> QED
      BY <1>2, <1>4, <3>1 DEF Once
  <2> QED
    BY <1>3, <2>1 DEF RowSet
<1>6. ASSUME NEW i \in 1..(Len(q) - 1), NEW j \in 1..(Len(q) - 1), Tail(q)[i] = Tail(q)[j]
      PROVE  i = j
  <2>1. i + 1 = j + 1
    BY <1>1, <1>2, <1>4, <1>6 DEF Once
  <2> QED
    BY <1>2, <2>1
<1> QED
  BY <1>3, <1>5, <1>6 DEF Once

(* The lot file leg of the dispatch in progress is still to be settled.    *)
CsvOwes == (job.stage = "claimed" /\ job.csv) \/ Writing

(* What is in memory is there once, belongs to its machine, has its        *)
(* reference and is still owed; and so is the row about to be written.     *)
HeldOwed ==
  /\ \A s \in Seqs \ Rows : csv[s] = "absent"
  /\ \A e \in Endpoints : Once(buf[e]) /\ Once(pre[e])
  /\ \A e \in Endpoints, s \in Seqs :
       InMemory(s, e) => refs[s] = 1 /\ ev[s].ep = e /\ csv[s] = "pending"
  /\ CsvOwes => csv[job.seq] = "pending"

LEMMA HeldOwedInit == Init => HeldOwed
<1> SUFFICES ASSUME Init PROVE HeldOwed
  OBVIOUS
<1>1. /\ csv = [s \in Seqs |-> "absent"] /\ job.stage = "free"
      /\ buf = [e \in Endpoints |-> <<>>] /\ pre = [e \in Endpoints |-> <<>>]
  BY DEF Init, NoJob
<1>2. \A e \in Endpoints, s \in Seqs : ~InMemory(s, e)
  BY <1>1, RowsOfNone DEF InMemory
<1> QED
  BY <1>1, <1>2, OnceNone DEF HeldOwed, CsvOwes, Writing

(* A row that is about to be written is not in memory yet.                 *)
LEMMA NotHeldNotThere ==
  ASSUME HeldOwed, NEW s \in Seqs, refs[s] = 0, NEW e \in Endpoints
  PROVE  ~InMemory(s, e)
BY DEF HeldOwed

(* A step that leaves the rows in memory and the csv column alone ...      *)
LEMMA HeldOwedKept ==
  ASSUME TypeInv, Referenced, HeldOwed, UNCHANGED <<buf, pre, refs, csv>>,
         Rows \subseteq Rows', \A s \in Rows : ev'[s] = ev[s],
         CsvOwes' => csv[job'.seq] = "pending"
  PROVE  HeldOwed' /\ Settled(csv, csv')
<1>1. \A s \in Seqs \ Rows' : csv'[s] = "absent"
  BY DEF HeldOwed
<1>2. ASSUME NEW e \in Endpoints, NEW s \in Seqs, InMemory(s, e)'
      PROVE  refs'[s] = 1 /\ ev'[s].ep = e /\ csv'[s] = "pending"
  <2>1. InMemory(s, e)
    BY <1>2 DEF InMemory, RowSet
  <2>2. refs[s] = 1 /\ ev[s].ep = e /\ csv[s] = "pending"
    BY <2>1 DEF HeldOwed
  <2>3. s \in Rows
    BY <2>2 DEF Referenced
  <2> QED
    BY <2>2, <2>3
<1>3. \A e \in Endpoints : Once(buf[e])' /\ Once(pre[e])'
  BY DEF HeldOwed, Once
<1> QED
  BY <1>1, <1>2, <1>3 DEF HeldOwed, Settled

(* ... and one that settles the row of the dispatch, which is not there.   *)
LEMMA HeldOwedSettles ==
  ASSUME TypeInv, Referenced, HeldOwed, UNCHANGED <<buf, pre, refs, next, ev>>,
         CsvOwes, refs[job.seq] = 0, NEW x, csv' = [csv EXCEPT ![job.seq] = x],
         ~CsvOwes'
  PROVE  HeldOwed' /\ Settled(csv, csv')
<1>1. /\ job.seq \in Rows /\ job.seq \in Seqs /\ csv[job.seq] = "pending"
      /\ csv \in [Seqs -> {"absent", "pending", "done", "dropped", "skipped"}]
  BY RowsAreSeqs DEF TypeInv, TypeOK, Rooted, HeldOwed, CsvOwes, Writing
<1>2. \A s \in Seqs : s # job.seq => csv'[s] = csv[s]
  BY <1>1
<1>3. \A s \in Seqs \ Rows' : csv'[s] = "absent"
  BY <1>1, <1>2 DEF HeldOwed, Rows
<1>4. ASSUME NEW e \in Endpoints, NEW s \in Seqs, InMemory(s, e)'
      PROVE  refs'[s] = 1 /\ ev'[s].ep = e /\ csv'[s] = "pending"
  <2>1. InMemory(s, e)
    BY <1>4 DEF InMemory, RowSet
  <2>2. refs[s] = 1 /\ ev[s].ep = e /\ csv[s] = "pending"
    BY <2>1 DEF HeldOwed
  <2> QED
    BY <1>2, <2>2
<1>5. \A e \in Endpoints : Once(buf[e])' /\ Once(pre[e])'
  BY DEF HeldOwed, Once
<1>6. Settled(csv, csv')
  BY <1>1, <1>2 DEF Settled
<1> QED
  BY <1>3, <1>4, <1>5, <1>6 DEF HeldOwed

(* What a step that changes the memory of one machine must see to: the     *)
(* rows of gone are settled and out of memory; x joins, or nobody does.    *)
LEMMA HeldOwedMoves ==
  ASSUME TypeInv, Referenced, HeldOwed, NEW e \in Endpoints,
         NEW gone \in SUBSET Seqs, NEW joins \in SUBSET Seqs,
         UNCHANGED <<next, ev>>,
         \A d \in Endpoints \ {e} : buf'[d] = buf[d] /\ pre'[d] = pre[d],
         Once(buf'[e]), Once(pre'[e]),
         RowSet(buf'[e]) \cup RowSet(pre'[e])
           \subseteq (RowSet(buf[e]) \cup RowSet(pre[e]) \cup joins) \ gone,
         \A s \in Seqs \ gone : csv'[s] = csv[s],
         gone \subseteq RowSet(buf[e]) \cup RowSet(pre[e]) \cup joins,
         \A s \in joins : s \in Rows /\ csv[s] = "pending" /\ ev[s].ep = e,
         \A s \in Seqs \ gone : refs'[s] = IF s \in joins THEN 1 ELSE refs[s],
         CsvOwes' => CsvOwes /\ job'.seq = job.seq /\ job.seq \notin gone
  PROVE  HeldOwed' /\ Settled(csv, csv')
<1>1. \A s \in gone : csv[s] = "pending" /\ s \in Rows
  BY DEF HeldOwed, InMemory, Referenced
<1>2. \A s \in Seqs \ Rows' : csv'[s] = "absent"
  BY <1>1 DEF HeldOwed, Rows
<1>3. Settled(csv, csv')
  BY <1>1 DEF Settled
<1>4. CsvOwes' => csv'[job'.seq] = "pending"
  <2> SUFFICES ASSUME CsvOwes' PROVE csv'[job'.seq] = "pending"
    OBVIOUS
  <2>1. CsvOwes /\ job'.seq = job.seq /\ job.seq \notin gone
    OBVIOUS
  <2>2. job.seq \in Seqs
    BY <2>1, RowsAreSeqs DEF CsvOwes, Writing, TypeInv, Rooted
  <2> QED
    BY <2>1, <2>2 DEF HeldOwed
<1>5. ASSUME NEW d \in Endpoints, NEW s \in Seqs, InMemory(s, d)'
      PROVE  refs'[s] = 1 /\ ev'[s].ep = d /\ csv'[s] = "pending"
  <2>1. CASE d = e
    <3>1. s \in RowSet(buf'[e]) \cup RowSet(pre'[e])
      BY <1>5, <2>1 DEF InMemory
    <3>2. s \notin gone /\ (InMemory(s, e) \/ s \in joins)
      BY <3>1 DEF InMemory
    <3>3. CASE s \in joins
      BY <2>1, <3>2, <3>3
    <3>4. CASE s \notin joins
      BY <2>1, <3>2, <3>4 DEF HeldOwed
    <3> QED
      BY <3>3, <3>4
  <2>2. CASE d # e
    <3>1. InMemory(s, d)
      BY <1>5, <2>2 DEF InMemory
    <3>2. refs[s] = 1 /\ ev[s].ep = d /\ csv[s] = "pending"
      BY <3>1 DEF HeldOwed
    <3>3. s \notin gone /\ s \notin joins
      BY <2>2, <3>2 DEF HeldOwed, InMemory
    <3> QED
      BY <3>2, <3>3
  <2> QED
    BY <2>1, <2>2
<1>6. \A d \in Endpoints : Once(buf'[d]) /\ Once(pre'[d])
  <2>1. \A d \in Endpoints \ {e} : Once(buf'[d]) /\ Once(pre'[d])
    BY DEF HeldOwed, Once
  <2> QED
    BY <2>1
<1> QED
  BY <1>2, <1>3, <1>4, <1>5, <1>6 DEF HeldOwed

LEMMA HeldOwedPreLot ==
  ASSUME TypeInv, Referenced, HeldOwed, NEW n \in 0..MaxSeq, CsvPreLot(n)
  PROVE  HeldOwed' /\ Settled(csv, csv')
<1> DEFINE e    == JobEp
           x    == job.seq
           out  == Expired(e, n)
           stay == Surviving(e, n)
           kept == Append(stay, job.seq)
           left == [Unreferenced(refs, out) EXCEPT ![job.seq] = @ + 1]
           over == IF Len(kept) > PreLotMax THEN <<Head(kept)>> ELSE <<>>
           ended == LastRows(refs, out) \cup LastRows(left, over)
<1>1. /\ job.stage = "csv" /\ e \in Endpoints /\ x \in Seqs /\ x \in Rows
      /\ ev[x].ep = e
      /\ n \in 0..Len(pre[e]) /\ pre[e] \in Seq(Seqs) /\ pre \in [Endpoints -> Seq(Seqs)]
  BY JobTypes DEF CsvPreLot, CsvLeg, Prune, TypeInv, TypeOK, Rooted, JobEp, JobEvent
<1>2. /\ refs \in [Seqs -> {0, 1}] /\ refs[x] = 0 /\ csv[x] = "pending"
      /\ lotOf[e] = NoBuffer /\ buf[e] = <<>>
  BY <1>1 DEF Referenced, HeldOwed, CsvOwes, Writing, CsvPreLot
<1>3. /\ buf' = buf /\ ev' = ev /\ next' = next
      /\ pre' = [pre EXCEPT ![e] = IF over = <<>> THEN kept ELSE Tail(kept)]
      /\ refs' = Unreferenced(left, over)
      /\ csv' = CsvSet(ended, "dropped")
      /\ job'.stage = "end"
  BY DEF CsvPreLot, CsvEnds, TypeInv, TypeOK, Job
<1>4. /\ out \in Seq(Seqs) /\ stay \in Seq(Seqs)
      /\ RowSet(pre[e]) = RowSet(out) \cup RowSet(stay)
  BY <1>1, RowsOfCut DEF Expired, Surviving
<1>5. Once(stay) /\ RowSet(out) \cap RowSet(stay) = {}
  <2>1. Once(pre[e])
    BY <1>1 DEF HeldOwed
  <2> QED
    BY <1>1, <2>1, OnceCut DEF Expired, Surviving
<1>6. x \notin RowSet(pre[e])
  BY <1>1, <1>2, NotHeldNotThere DEF InMemory
<1> HIDE DEF out, stay, e, x
<1>7. /\ kept \in Seq(Seqs) /\ RowSet(kept) = RowSet(stay) \cup {x} /\ Once(kept)
  BY <1>1, <1>4, <1>5, <1>6, RowsOfAppend, OnceAppend DEF x
<1>8. /\ over \in Seq(Seqs) /\ Once(pre'[e])
      /\ RowSet(kept) = RowSet(over) \cup RowSet(pre'[e])
      /\ RowSet(over) \cap RowSet(pre'[e]) = {}
      /\ \A d \in Endpoints \ {e} : pre'[d] = pre[d]
  <2>1. kept # <<>>
    BY <1>7, RowsOfNone
  <2>2. /\ Tail(kept) \in Seq(Seqs) /\ <<Head(kept)>> \in Seq(Seqs)
        /\ RowSet(kept) = {Head(kept)} \cup RowSet(Tail(kept))
        /\ RowSet(<<Head(kept)>>) = {Head(kept)}
    BY <1>7, <2>1, RowsOfTail
  <2>3. Once(Tail(kept)) /\ Head(kept) \notin RowSet(Tail(kept))
    BY <1>7, <2>1, OnceTail
  <2> HIDE DEF kept
  <2>4. CASE Len(kept) > PreLotMax
    <3>1. over = <<Head(kept)>> /\ over # <<>>
      BY <2>4
    <3>2. pre'[e] = Tail(kept)
      BY <1>1, <1>3, <3>1
    <3> QED
      BY <1>1, <1>3, <2>2, <2>3, <3>1, <3>2
  <2>5. CASE ~(Len(kept) > PreLotMax)
    <3>1. over = <<>>
      BY <2>5
    <3>2. pre'[e] = kept
      BY <1>1, <1>3, <3>1
    <3>3. over \in Seq(Seqs) /\ RowSet(over) = {}
      BY <3>1, EmptySeq, RowsOfNone
    <3> QED
      BY <1>1, <1>3, <1>7, <3>2, <3>3
  <2> QED
    BY <2>4, <2>5
<1> HIDE DEF kept, over
<1>9. /\ left = [s \in Seqs |-> IF s = x THEN 1 ELSE IF s \in RowSet(out) THEN 0 ELSE refs[s]]
      /\ left \in [Seqs -> {0, 1}] /\ LastRows(refs, out) = RowSet(out)
  <2>1. /\ Unreferenced(refs, out) = [s \in Seqs |-> IF s \in RowSet(out) THEN 0 ELSE refs[s]]
        /\ LastRows(refs, out) = RowSet(out)
    BY <1>2, <1>4, UnreferencedOnce
  <2>2. Unreferenced(refs, out)[x] = 0
    BY <1>1, <1>2, <2>1
  <2>3. left = [Unreferenced(refs, out) EXCEPT ![x] = 1]
    BY <2>2 DEF x
  <2>4. left = [s \in Seqs |-> IF s = x THEN 1 ELSE IF s \in RowSet(out) THEN 0 ELSE refs[s]]
    BY <1>1, <2>1, <2>3
  <2> HIDE DEF left
  <2> QED
    BY <1>2, <2>1, <2>4
<1> HIDE DEF left
<1>10. /\ refs' = [s \in Seqs |-> IF s \in RowSet(over) THEN 0 ELSE left[s]]
       /\ ended = RowSet(out) \cup RowSet(over)
  BY <1>3, <1>8, <1>9, UnreferencedOnce
<1>11. ended \in SUBSET Seqs
  BY <1>4, <1>8, <1>10, RowSetSeqs
<1> HIDE DEF ended
<1>12. RowSet(pre'[e]) \cap ended = {}
  BY <1>4, <1>5, <1>6, <1>7, <1>8, <1>10
<1>13. /\ RowSet(buf'[e]) \cup RowSet(pre'[e])
            \subseteq (RowSet(buf[e]) \cup RowSet(pre[e]) \cup {x}) \ ended
       /\ ended \subseteq RowSet(buf[e]) \cup RowSet(pre[e]) \cup {x}
  BY <1>2, <1>3, <1>4, <1>7, <1>8, <1>10, <1>12, RowsOfNone
<1>14. \A s \in Seqs \ ended : refs'[s] = IF s \in {x} THEN 1 ELSE refs[s]
  BY <1>9, <1>10
<1>15. \A s \in Seqs \ ended : csv'[s] = csv[s]
  BY <1>3 DEF CsvSet
<1>16. ~CsvOwes'
  BY <1>3 DEF CsvOwes, Writing
<1>17. Once(buf'[e])
  BY <1>2, <1>3, OnceNone
<1> DEFINE J == {x}
<1>18. /\ J \in SUBSET Seqs
       /\ \A s \in J : s \in Rows /\ csv[s] = "pending" /\ ev[s].ep = e
  BY <1>1, <1>2
<1>19. \A d \in Endpoints \ {e} : buf'[d] = buf[d] /\ pre'[d] = pre[d]
  BY <1>3, <1>8
<1>20. /\ RowSet(buf'[e]) \cup RowSet(pre'[e])
            \subseteq (RowSet(buf[e]) \cup RowSet(pre[e]) \cup J) \ ended
       /\ ended \subseteq RowSet(buf[e]) \cup RowSet(pre[e]) \cup J
       /\ \A s \in Seqs \ ended : refs'[s] = IF s \in J THEN 1 ELSE refs[s]
  BY <1>13, <1>14
<1>21. Once(pre'[e]) /\ UNCHANGED <<next, ev>> /\ e \in Endpoints
  BY <1>1, <1>3, <1>8
<1>22. TypeInv /\ Referenced /\ HeldOwed
  OBVIOUS
<1> HIDE DEF J
<1> QED
  BY ONLY <1>11, <1>15, <1>16, <1>17, <1>18, <1>19, <1>20, <1>21, <1>22, HeldOwedMoves

LEMMA HeldOwedBuffer ==
  ASSUME TypeInv, Referenced, HeldOwed, NEW n \in 0..MaxSeq, CsvBuffer(n)
  PROVE  HeldOwed' /\ Settled(csv, csv')
<1> DEFINE e     == JobEp
           v     == JobEvent
           x     == job.seq
           out   == IF Opens(e) THEN Expired(e, n) ELSE <<>>
           rows  == Buffered(e, n)
           left  == [Unreferenced(refs, out) EXCEPT ![job.seq] = @ + 1]
           stale == LastRows(refs, out)
           evict == ~v.closes /\ wfail[e] /\ Len(rows) > MaxLotRows
<1>1. /\ job.stage = "csv" /\ e \in Endpoints /\ x \in Seqs /\ x \in Rows
      /\ ev[x].ep = e /\ v = ev[x] /\ v \in Event
      /\ pre[e] \in Seq(Seqs) /\ pre \in [Endpoints -> Seq(Seqs)]
      /\ buf[e] \in Seq(Seqs) /\ buf \in [Endpoints -> Seq(Seqs)]
      /\ lotOf \in [Endpoints -> Lots \cup {NoBuffer}]
      /\ Opens(e) => n \in 0..Len(pre[e])
  BY JobTypes DEF CsvBuffer, CsvLeg, TypeInv, TypeOK, Rooted, JobEp, JobEvent
<1>2. /\ refs \in [Seqs -> {0, 1}] /\ refs[x] = 0 /\ csv[x] = "pending"
      /\ Opens(e) => buf[e] = <<>>
      /\ ~Opens(e) => pre[e] = <<>>
      /\ Once(buf[e]) /\ Once(pre[e])
  BY <1>1 DEF Referenced, HeldOwed, CsvOwes, Writing, Opens
<1>3. /\ ev' = ev /\ next' = next /\ csv' = CsvSet(stale, "dropped")
      /\ pre' = [pre EXCEPT ![e] = IF Opens(e) THEN <<>> ELSE pre[e]]
      /\ buf' = [buf EXCEPT ![e] = IF evict THEN <<>> ELSE rows]
      /\ lotOf' = [lotOf EXCEPT ![e] = IF evict THEN NoBuffer
                                       ELSE IF Opens(e) THEN v.lot ELSE lotOf[e]]
      /\ refs' = IF evict THEN Unreferenced(left, rows) ELSE left
      /\ ~LotChanged(v)
  BY DEF CsvBuffer
<1>4. /\ job'.stage \in {"end", "release"} /\ job'.seq = x
      /\ job'.stage = "release" => ~evict
  BY <1>1 DEF CsvBuffer, CsvEnds, TypeInv, TypeOK, Job
<1>5. x \notin RowSet(buf[e]) /\ x \notin RowSet(pre[e])
  BY <1>1, <1>2, NotHeldNotThere DEF InMemory
<1>6. /\ out \in Seq(Seqs) /\ rows \in Seq(Seqs) /\ Once(rows)
      /\ RowSet(out) \cup RowSet(rows) = RowSet(buf[e]) \cup RowSet(pre[e]) \cup {x}
      /\ RowSet(out) \cap RowSet(rows) = {}
  <2>1. CASE Opens(e)
    <3>1. /\ out = Expired(e, n) /\ Surviving(e, n) \in Seq(Seqs) /\ out \in Seq(Seqs)
          /\ RowSet(pre[e]) = RowSet(out) \cup RowSet(Surviving(e, n))
      BY <1>1, <2>1, RowsOfCut DEF Expired, Surviving
    <3>2. Once(Surviving(e, n)) /\ RowSet(out) \cap RowSet(Surviving(e, n)) = {}
      BY <1>1, <1>2, <2>1, OnceCut DEF Expired, Surviving
    <3>3. rows = Append(Surviving(e, n), x)
      BY <2>1 DEF Buffered, Opens
    <3> HIDE DEF out, rows, x
    <3>4. rows \in Seq(Seqs) /\ RowSet(rows) = RowSet(Surviving(e, n)) \cup {x}
      BY <1>1, <3>1, <3>3, RowsOfAppend
    <3>5. Once(rows)
      BY <1>1, <1>5, <3>1, <3>2, <3>3, OnceAppend
    <3>6. RowSet(buf[e]) = {}
      BY <1>2, <2>1, RowsOfNone
    <3> QED
      BY <1>5, <3>1, <3>2, <3>4, <3>5, <3>6
  <2>2. CASE ~Opens(e)
    <3>1. out = <<>> /\ rows = Append(buf[e], x)
      BY <2>2 DEF Buffered, Opens
    <3> HIDE DEF out, rows, x
    <3>2. rows \in Seq(Seqs) /\ RowSet(rows) = RowSet(buf[e]) \cup {x}
      BY <1>1, <3>1, RowsOfAppend
    <3>3. Once(rows)
      BY <1>1, <1>2, <1>5, <3>1, OnceAppend
    <3>4. RowSet(pre[e]) = {} /\ out \in Seq(Seqs) /\ RowSet(out) = {}
      BY <1>2, <2>2, <3>1, RowsOfNone, EmptySeq
    <3> QED
      BY <3>2, <3>3, <3>4
  <2> QED
    BY <2>1, <2>2
<1>7. NoLot \notin Lots /\ NoBuffer \notin Lots /\ (v.lot = NoLot \/ v.lot \in Lots)
  BY <1>1, PipelineAssumption DEF Event
<1>8. ~Opens(e) => v.lot = NoLot \/ lotOf[e] = v.lot
  BY <1>1, <1>3 DEF LotChanged, Opens, e, v, JobEp
<1> HIDE DEF out, rows, e, v, x
<1> HIDE DEF stale, evict
<1>9. /\ left = [s \in Seqs |-> IF s = x THEN 1 ELSE IF s \in RowSet(out) THEN 0 ELSE refs[s]]
      /\ left \in [Seqs -> {0, 1}] /\ stale = RowSet(out)
  <2>1. /\ Unreferenced(refs, out)
             = [s \in Seqs |-> IF s \in RowSet(out) THEN 0 ELSE refs[s]]
        /\ stale = RowSet(out)
    BY <1>2, <1>6, UnreferencedOnce DEF stale
  <2>2. Unreferenced(refs, out)[x] = 0
    BY <1>1, <1>2, <2>1
  <2>3. left = [Unreferenced(refs, out) EXCEPT ![x] = 1]
    BY <2>2 DEF x
  <2>4. left = [s \in Seqs |-> IF s = x THEN 1 ELSE IF s \in RowSet(out) THEN 0 ELSE refs[s]]
    BY <1>1, <2>1, <2>3
  <2> HIDE DEF left
  <2> QED
    BY <1>2, <2>1, <2>4
<1> HIDE DEF left
<1>10. \A d \in Endpoints \ {e} : pre'[d] = pre[d] /\ buf'[d] = buf[d]
  BY <1>1, <1>3
<1>11. /\ pre'[e] = <<>>
       /\ buf'[e] = IF evict THEN <<>> ELSE rows
       /\ lotOf'[e] = IF evict THEN NoBuffer ELSE IF Opens(e) THEN v.lot ELSE lotOf[e]
  BY <1>1, <1>2, <1>3
<1>12. ~CsvOwes'
  <2>1. CASE job'.stage = "end"
    BY <2>1 DEF CsvOwes, Writing
  <2>2. CASE job'.stage = "release"
    <3>1. lotOf'[e] = IF Opens(e) THEN v.lot ELSE lotOf[e]
      BY <1>4, <1>11, <2>2
    <3>2. v.lot = NoLot \/ lotOf'[e] = v.lot
      BY <1>8, <3>1
    <3>3. JobEvent' = v /\ v.ep = e
      BY <1>1, <1>3, <1>4 DEF JobEvent
    <3>4. ~LotChanged(JobEvent)'
      BY <3>2, <3>3 DEF LotChanged
    <3> QED
      BY <2>2, <3>4 DEF CsvOwes, Writing
  <2> QED
    BY <1>4, <2>1, <2>2
<1>13. \A s \in Seqs \ RowSet(out) : csv'[s] = csv[s]
  BY <1>3, <1>9 DEF CsvSet
<1>14. RowSet(out) \subseteq Seqs /\ {x} \subseteq Seqs
  BY <1>1, <1>6, RowSetSeqs
<1>15. CASE ~evict
  <2>1. buf'[e] = rows /\ refs' = left
    BY <1>3, <1>11, <1>15
  <2>2. /\ RowSet(buf'[e]) \cup RowSet(pre'[e])
             \subseteq (RowSet(buf[e]) \cup RowSet(pre[e]) \cup {x}) \ RowSet(out)
        /\ RowSet(out) \subseteq RowSet(buf[e]) \cup RowSet(pre[e]) \cup {x}
    BY <1>6, <1>11, <2>1, RowsOfNone
  <2>3. \A s \in Seqs \ RowSet(out) : refs'[s] = IF s \in {x} THEN 1 ELSE refs[s]
    BY <1>9, <2>1
  <2>4. Once(buf'[e]) /\ Once(pre'[e])
    BY <1>6, <1>11, <2>1, OnceNone
  <2> DEFINE J == {x}
             G == RowSet(out)
  <2>5. /\ J \in SUBSET Seqs /\ G \in SUBSET Seqs
        /\ \A s \in J : s \in Rows /\ csv[s] = "pending" /\ ev[s].ep = e
    BY <1>1, <1>2, <1>14
  <2>6. /\ RowSet(buf'[e]) \cup RowSet(pre'[e])
             \subseteq (RowSet(buf[e]) \cup RowSet(pre[e]) \cup J) \ G
        /\ G \subseteq RowSet(buf[e]) \cup RowSet(pre[e]) \cup J
        /\ \A s \in Seqs \ G : refs'[s] = IF s \in J THEN 1 ELSE refs[s]
        /\ \A s \in Seqs \ G : csv'[s] = csv[s]
    BY <1>13, <2>2, <2>3
  <2>7. UNCHANGED <<next, ev>> /\ e \in Endpoints
    BY <1>1, <1>3
  <2>8. TypeInv /\ Referenced /\ HeldOwed
    OBVIOUS
  <2>9. /\ CsvOwes' => CsvOwes /\ job'.seq = job.seq /\ job.seq \notin G
        /\ \A d \in Endpoints \ {e} : buf'[d] = buf[d] /\ pre'[d] = pre[d]
    BY <1>10, <1>12
  <2> HIDE DEF J, G
  <2> QED
    BY ONLY <2>4, <2>5, <2>6, <2>7, <2>8, <2>9, HeldOwedMoves
<1>16. CASE evict
  <2>1. /\ buf'[e] = <<>> /\ pre'[e] = <<>>
        /\ refs' = [s \in Seqs |-> IF s \in RowSet(rows) THEN 0 ELSE left[s]]
    BY <1>3, <1>6, <1>9, <1>11, <1>16, UnreferencedOnce
  <2>2. \A s \in Seqs \ Rows' : csv'[s] = "absent"
    <3>1. \A s \in RowSet(out) : s \in Rows
      <4>1. \A s \in RowSet(out) : s = x \/ InMemory(s, e)
        BY <1>6 DEF InMemory
      <4>2. \A s \in Seqs : InMemory(s, e) => s \in Rows
        BY <1>1 DEF HeldOwed, Referenced
      <4> QED
        BY <1>1, <1>14, <4>1, <4>2
    <3> QED
      BY <1>3, <1>13, <3>1 DEF HeldOwed, Rows
  <2>3. Settled(csv, csv')
    <3>1. \A s \in RowSet(out) : csv[s] = "pending"
      <4>1. \A s \in RowSet(out) : s = x \/ InMemory(s, e)
        BY <1>6 DEF InMemory
      <4> QED
        BY <1>1, <1>2, <1>14, <4>1 DEF HeldOwed
    <3> QED
      BY <1>13, <3>1 DEF Settled
  <2>4. ASSUME NEW d \in Endpoints, NEW s \in Seqs, InMemory(s, d)'
        PROVE  refs'[s] = 1 /\ ev'[s].ep = d /\ csv'[s] = "pending"
    <3>1. d # e
      BY <2>1, <2>4, RowsOfNone DEF InMemory
    <3>2. InMemory(s, d)
      BY <1>10, <2>4, <3>1 DEF InMemory
    <3>3. refs[s] = 1 /\ ev[s].ep = d /\ csv[s] = "pending"
      BY <3>2 DEF HeldOwed
    <3>4. s # x /\ s \notin RowSet(out) /\ s \notin RowSet(rows)
      <4>1. ~InMemory(s, e) /\ s # x
        BY <1>1, <3>1, <3>3 DEF HeldOwed
      <4> QED
        BY <1>6, <4>1 DEF InMemory
    <3> QED
      BY <1>3, <1>9, <1>13, <2>1, <3>3, <3>4
  <2>5. \A d \in Endpoints : Once(buf'[d]) /\ Once(pre'[d])
    <3>1. \A d \in Endpoints \ {e} : Once(buf'[d]) /\ Once(pre'[d])
      BY <1>10 DEF HeldOwed, Once
    <3> QED
      BY <2>1, <3>1, OnceNone
  <2> QED
    BY <1>12, <2>2, <2>3, <2>4, <2>5 DEF HeldOwed
<1> QED
  BY <1>15, <1>16

LEMMA HeldOwedRelease ==
  ASSUME TypeInv, Referenced, HeldOwed, "release" \notin Faults, Release
  PROVE  HeldOwed' /\ Settled(csv, csv')
<1> DEFINE e == JobEp
           q == buf[e]
           changed == LotChanged(JobEvent)
<1>1. /\ job.stage = "release" /\ e \in Endpoints /\ q \in Seq(Seqs) /\ job \in Job
      /\ buf \in [Endpoints -> Seq(Seqs)] /\ job.seq \in Seqs
  BY JobTypes DEF Release, TypeInv, TypeOK, Rooted, JobEp, JobEvent
<1>2. refs \in [Seqs -> {0, 1}]
  BY DEF Referenced
<1>3. /\ refs' = Unreferenced(refs, q) /\ csv' = Resolved(q)
      /\ buf' = [buf EXCEPT ![e] = <<>>] /\ pre' = pre
      /\ job' = [job EXCEPT !.stage = IF changed THEN "csv" ELSE "end"]
      /\ next' = next /\ ev' = ev
  BY DEF Release, Fault
<1>4. /\ refs' = [s \in Seqs |-> IF s \in RowSet(q) THEN 0 ELSE refs[s]]
      /\ LastRows(refs, q) = RowSet(q)
  BY <1>1, <1>2, <1>3, UnreferencedOnce
<1>5. job'.seq = job.seq /\ job'.stage = IF changed THEN "csv" ELSE "end"
  BY <1>1, <1>3 DEF Job
<1>6. RowSet(q) = {} \/ pre[e] = <<>>
  BY <1>1, RowsOfNone DEF Referenced
<1>7. Once(pre[e])
  BY <1>1 DEF HeldOwed
<1>8. changed => Writing /\ CsvOwes /\ job.seq \notin RowSet(q)
  <2> SUFFICES ASSUME changed PROVE Writing /\ CsvOwes /\ job.seq \notin RowSet(q)
    OBVIOUS
  <2>1. Writing
    BY <1>1 DEF Writing
  <2>2. refs[job.seq] = 0
    BY <2>1 DEF Referenced
  <2> QED
    BY <1>1, <2>1, <2>2, NotHeldNotThere DEF InMemory, CsvOwes
<1> HIDE DEF e, q, changed
<1>9. CsvOwes' => CsvOwes /\ job'.seq = job.seq /\ job.seq \notin RowSet(q)
  BY <1>5, <1>8 DEF CsvOwes, Writing
<1>10. buf'[e] = <<>> /\ \A d \in Endpoints \ {e} : buf'[d] = buf[d] /\ pre'[d] = pre[d]
  BY <1>1, <1>3
<1>11. RowSet(q) \in SUBSET Seqs /\ q = buf[e]
  BY <1>1, RowSetSeqs DEF q
<1>12. \A s \in Seqs \ RowSet(q) : csv'[s] = csv[s] /\ refs'[s] = refs[s]
  BY <1>3, <1>4 DEF Resolved
<1> DEFINE J == {}
           G == RowSet(q)
<1>13. /\ RowSet(buf'[e]) \cup RowSet(pre'[e])
            \subseteq (RowSet(buf[e]) \cup RowSet(pre[e]) \cup J) \ G
       /\ G \subseteq RowSet(buf[e]) \cup RowSet(pre[e]) \cup J
  BY <1>3, <1>6, <1>10, <1>11, RowsOfNone
<1>14. /\ J \in SUBSET Seqs /\ G \in SUBSET Seqs
       /\ \A s \in J : s \in Rows /\ csv[s] = "pending" /\ ev[s].ep = e
  BY <1>11
<1>15. /\ \A s \in Seqs \ G : refs'[s] = IF s \in J THEN 1 ELSE refs[s]
       /\ \A s \in Seqs \ G : csv'[s] = csv[s]
  BY <1>12
<1>16. UNCHANGED <<next, ev>> /\ e \in Endpoints /\ Once(buf'[e]) /\ Once(pre'[e])
  BY <1>1, <1>3, <1>7, <1>10, OnceNone
<1>17. CsvOwes' => CsvOwes /\ job'.seq = job.seq /\ job.seq \notin G
  BY <1>9
<1>18. \A d \in Endpoints \ {e} : buf'[d] = buf[d] /\ pre'[d] = pre[d]
  BY <1>10
<1>19. Referenced /\ HeldOwed /\ TypeInv
  OBVIOUS
<1> HIDE DEF J, G
<1> QED
  BY ONLY <1>13, <1>14, <1>15, <1>16, <1>17, <1>18, <1>19, HeldOwedMoves

LEMMA HeldOwedAppend ==
  ASSUME TypeInv, Referenced, HeldOwed, NEW w \in Workers, JournalAppend(w)
  PROVE  HeldOwed' /\ Settled(csv, csv')
<1>1. /\ next \in 0..MaxSeq /\ next < MaxSeq /\ MaxSeq \in Nat
      /\ csv \in [Seqs -> {"absent", "pending", "done", "dropped", "skipped"}]
      /\ ev \in [Seqs -> Event \cup {NoEvent}]
      /\ next' = next + 1 /\ csv' = [csv EXCEPT ![next + 1] = "pending"]
      /\ ev' = [ev EXCEPT ![next + 1] = cb[w].ev]
      /\ UNCHANGED <<job, buf, pre, refs, lotOf>>
  BY PipelineAssumption DEF JournalAppend, TypeInv, TypeOK, writer
<1>2. next + 1 \in Seqs \ Rows /\ Rows' = Rows \cup {next + 1} /\ Rows \subseteq Seqs
  BY <1>1, RowsAreSeqs DEF Seqs, Rows
<1>3. /\ \A s \in Seqs : s # next + 1 => csv'[s] = csv[s]
      /\ \A s \in Rows : ev'[s] = ev[s] /\ csv'[s] = csv[s]
  BY <1>1, <1>2
<1>4. csv[next + 1] = "absent"
  BY <1>2 DEF HeldOwed
<1>5. Settled(csv, csv')
  BY <1>3, <1>4 DEF Settled
<1>6. \A s \in Seqs \ Rows' : csv'[s] = "absent"
  BY <1>2, <1>3 DEF HeldOwed
<1>7. ASSUME NEW e \in Endpoints, NEW s \in Seqs, InMemory(s, e)'
      PROVE  refs'[s] = 1 /\ ev'[s].ep = e /\ csv'[s] = "pending"
  <2>1. InMemory(s, e)
    BY <1>1, <1>7 DEF InMemory
  <2>2. refs[s] = 1 /\ ev[s].ep = e /\ csv[s] = "pending"
    BY <2>1 DEF HeldOwed
  <2>3. s \in Rows
    BY <2>2 DEF Referenced
  <2> QED
    BY <1>1, <1>3, <2>2, <2>3
<1>8. CsvOwes' => csv'[job'.seq] = "pending"
  <2> SUFFICES ASSUME CsvOwes' PROVE csv'[job'.seq] = "pending"
    OBVIOUS
  <2>1. job.stage # "free"
    BY <1>1 DEF CsvOwes, Writing
  <2>2. job.seq \in Rows
    BY <2>1 DEF TypeInv, Rooted
  <2>3. JobEvent' = JobEvent
    BY <1>1, <1>3, <2>2 DEF JobEvent
  <2>4. CsvOwes
    BY <1>1, <2>3 DEF CsvOwes, Writing, LotChanged
  <2> QED
    BY <1>1, <1>3, <2>2, <2>4 DEF HeldOwed
<1>9. \A e \in Endpoints : Once(buf[e])' /\ Once(pre[e])'
  BY <1>1 DEF HeldOwed
<1> QED
  BY <1>5, <1>6, <1>7, <1>8, <1>9 DEF HeldOwed

(* A machine that is taken down has nothing in memory.                     *)
LEMMA HeldOwedStop ==
  ASSUME TypeInv, Referenced, HeldOwed, MachinesStand, StopReleases
  PROVE  HeldOwed' /\ Settled(csv, csv')
<1> DEFINE e == rp.ep
<1>1. /\ e \in Endpoints \ active
      /\ buf \in [Endpoints -> Seq(Seqs)] /\ pre \in [Endpoints -> Seq(Seqs)]
      /\ csv \in [Seqs -> {"absent", "pending", "done", "dropped", "skipped"}]
      /\ lotOf \in [Endpoints -> Lots \cup {NoBuffer}]
  BY DEF StopReleases, TypeInv, TypeOK, Rooted, MachinesStand, Down
<1>2. buf[e] = <<>> /\ pre[e] = <<>> /\ <<>> \in Seq(Seqs)
  BY <1>1, EmptySeq DEF MachinesStand
<1>3. refs \in [Seqs -> {0, 1}]
  BY DEF Referenced
<1>4. Unreferenced(refs, <<>>) = refs /\ LastRows(refs, <<>>) = {}
  BY <1>2, <1>3, UnreferencedOnce, RowsOfNone
<1>5. /\ refs' = Unreferenced(Unreferenced(refs, <<>>), <<>>) /\ csv' = Resolved(<<>>)
      /\ buf' = [buf EXCEPT ![e] = <<>>] /\ pre' = [pre EXCEPT ![e] = <<>>]
      /\ lotOf' = [lotOf EXCEPT ![e] = NoBuffer]
      /\ UNCHANGED <<next, ev, job>>
  BY <1>2 DEF StopReleases
<1>6. refs' = refs /\ csv' = csv /\ buf' = buf /\ pre' = pre
  BY <1>1, <1>2, <1>4, <1>5 DEF Resolved
<1>7. CsvOwes' => CsvOwes
  <2>1. ASSUME job.stage = "release", LotChanged(JobEvent)' PROVE LotChanged(JobEvent)
    <3>1. JobEp \in Endpoints /\ JobEvent' = JobEvent /\ JobEvent.ep = JobEp
      BY <1>5, <2>1, JobTypes DEF JobEvent, JobEp
    <3>2. lotOf'[JobEp] # NoBuffer => lotOf'[JobEp] = lotOf[JobEp]
      BY <1>1, <1>5, <3>1
    <3>3. LotChanged(JobEvent)' <=>
            JobEvent.lot # NoLot /\ lotOf'[JobEp] \notin {NoBuffer, JobEvent.lot}
      BY <3>1 DEF LotChanged
    <3> QED
      BY <2>1, <3>1, <3>2, <3>3 DEF LotChanged
  <2> QED
    BY <1>5, <2>1 DEF CsvOwes, Writing
<1>8. CsvOwes' => csv[job'.seq] = "pending"
  BY <1>5, <1>7 DEF HeldOwed
<1> QED
  BY <1>5, <1>6, <1>8, HeldOwedKept DEF Rows

LEMMA HeldOwedCrash ==
  ASSUME HeldOwed, Crash PROVE HeldOwed' /\ Settled(csv, csv')
<1>1. /\ csv' = csv /\ next' = next /\ job'.stage = "free"
      /\ buf' = [e \in Endpoints |-> <<>>] /\ pre' = [e \in Endpoints |-> <<>>]
  BY DEF Crash, NoJob, journal
<1>2. \A e \in Endpoints, s \in Seqs : ~InMemory(s, e)'
  BY <1>1, RowsOfNone DEF InMemory
<1>3. \A e \in Endpoints : Once(buf[e])' /\ Once(pre[e])'
  BY <1>1, OnceNone
<1> QED
  BY <1>1, <1>2, <1>3 DEF HeldOwed, CsvOwes, Writing, Settled, Rows

LEMMA HeldOwedStep ==
  ASSUME MaxEdits = 0, "release" \notin Faults
  PROVE  TypeInv /\ Referenced /\ MachinesStand /\ HeldOwed /\ [Next]_vars
           => HeldOwed' /\ Settled(csv, csv')
<1> SUFFICES ASSUME TypeInv, Referenced, MachinesStand, HeldOwed, [Next]_vars
             PROVE  HeldOwed' /\ Settled(csv, csv')
  OBVIOUS
<1> DEFINE Goal == HeldOwed' /\ Settled(csv, csv')
<1> SUFFICES Goal
  OBVIOUS
<1> USE DEF journal, outboxes, writer, sessions
<1>j. /\ job \in Job /\ refs \in [Seqs -> {0, 1}]
      /\ csv \in [Seqs -> {"absent", "pending", "done", "dropped", "skipped"}]
      /\ job.stage # "free" => job.seq \in Seqs
  BY JobTypes DEF TypeInv, TypeOK, Referenced
<1>a. ASSUME UNCHANGED <<buf, pre, refs, csv, next, ev>>,
             CsvOwes' => csv[job'.seq] = "pending"
      PROVE  Goal
  BY <1>a, HeldOwedKept DEF Rows
<1>b. ASSUME UNCHANGED <<buf, pre, refs, csv, next, ev, job, lotOf>> PROVE Goal
  <2>1. CsvOwes' = CsvOwes
    BY <1>b DEF CsvOwes, Writing, JobEvent, LotChanged
  <2> QED
    BY <1>a, <1>b, <2>1 DEF HeldOwed
<1>c. ASSUME UNCHANGED <<buf, pre, refs, csv, next, ev>>,
             job'.stage \in {"free", "end", "failed"}
      PROVE  Goal
  <2>1. ~CsvOwes'
    BY <1>c DEF CsvOwes, Writing
  <2> QED
    BY <1>a, <1>c, <2>1
<1>1. ASSUME NEW w \in Workers, NEW o \in Offers, Enter(w, o) PROVE Goal
  BY <1>1, <1>b DEF Enter
<1>2. ASSUME NEW w \in Workers, JournalAppend(w) PROVE Goal
  BY <1>2, HeldOwedAppend
<1>3. ASSUME NEW w \in Workers, ClaimLive(w) PROVE Goal
  <2>1. /\ job'.stage = "claimed" /\ job'.seq = cb[w].seq
        /\ job'.csv = OwedCsv(cb[w].seq)
    BY <1>3 DEF ClaimLive, NoJob
  <2>2. CsvOwes' => csv[job'.seq] = "pending"
    BY <2>1 DEF CsvOwes, Writing, OwedCsv
  <2> QED
    BY <1>3, <1>a, <2>2 DEF ClaimLive
<1>4. CASE ClaimReplay
  <2>1. PICK s \in ToReplay :
          job' = [NoJob EXCEPT !.owner = "replay", !.seq = s, !.stage = "claimed",
                               !.publish = s \in rp.pubs /\ OwedPublish(s),
                               !.csv = s \in rp.csvs /\ OwedCsv(s)]
    BY <1>4 DEF ClaimReplay
  <2>2. /\ job'.stage = "claimed" /\ job'.seq = s
        /\ job'.csv = (s \in rp.csvs /\ OwedCsv(s))
    BY <2>1 DEF NoJob
  <2>3. CsvOwes' => csv[job'.seq] = "pending"
    BY <2>2 DEF CsvOwes, Writing, OwedCsv
  <2> QED
    BY <1>4, <1>a, <2>3 DEF ClaimReplay
<1>5. ASSUME NEW k \in Sinks, Publish(k) PROVE Goal
  <2>1. /\ job.stage = "publish" /\ job'.seq = job.seq
        /\ job'.csv = job.csv /\ job'.stage \in {"publish", "csv", "end"}
        /\ job'.stage = "csv" => job.csv
    BY <1>5, <1>j DEF Publish, Enqueue, Divert, OutboxFull, SinkRaises, Publishing,
       PublishRaised, AfterPublish, Job
  <2>2. CsvOwes' => csv[job'.seq] = "pending"
    BY <2>1 DEF CsvOwes, Writing, HeldOwed
  <2> QED
    BY <1>5, <1>a, <2>2 DEF Publish, Enqueue, Divert, OutboxFull, SinkRaises
<1>6. CASE NothingToDo \/ EntryEnds \/ EntryJudged \/ EntryFails
  <2>1. job'.stage \in {"free", "failed"}
    BY <1>6, <1>j DEF NothingToDo, EntryEnds, EntryJudged, EntryFails, Unlock, NoJob, Job
  <2> QED
    BY <1>6, <2>1, <1>c DEF NothingToDo, EntryEnds, EntryJudged, EntryFails
<1>7. CASE DropUnconfigured
  <2>1. /\ job.stage = "claimed" /\ job'.stage = "free" /\ job.owner = "replay" /\ Owed
        /\ UNCHANGED <<buf, pre, refs, next, ev>>
    BY <1>7 DEF DropUnconfigured, Unlock, NoJob, Known
  <2>2. CASE job.csv
    <3>1. refs[job.seq] \in {0, 1} /\ ~(refs[job.seq] > 0)
      BY <1>j, <2>1, <2>2 DEF Owed, Held
    <3>2. refs[job.seq] = 0
      BY <3>1
    <3>3. csv' = [csv EXCEPT ![job.seq] = "dropped"]
      BY <1>7, <2>2 DEF DropUnconfigured
    <3>4. CsvOwes /\ ~CsvOwes'
      BY <2>1, <2>2 DEF CsvOwes, Writing
    <3> QED
      BY <2>1, <3>2, <3>3, <3>4, HeldOwedSettles
  <2>3. CASE ~job.csv
    <3>1. csv' = csv
      BY <1>7, <1>j, <2>3 DEF DropUnconfigured
    <3> QED
      BY <2>1, <3>1, <1>c
  <2> QED
    BY <2>2, <2>3
<1>8. CASE Begin
  <2>1. /\ job.stage = "claimed" /\ job'.seq = job.seq
        /\ job'.csv = (CsvNotHeld /\ JobEvent.kind # "alarm")
        /\ job'.stage \in {"publish", "csv", "end"}
        /\ job'.stage = "csv" => job'.csv
        /\ UNCHANGED <<buf, pre, refs, next, ev>>
    BY <1>8, <1>j DEF Begin, Job
  <2>2. CASE JobEvent.kind = "alarm" /\ CsvNotHeld
    <3>1. csv' = [csv EXCEPT ![job.seq] = "skipped"]
      BY <1>8, <2>2 DEF Begin
    <3>2. refs[job.seq] \in {0, 1} /\ ~(refs[job.seq] > 0) /\ job.csv
      BY <1>j, <2>1, <2>2 DEF CsvNotHeld, Held
    <3>3. refs[job.seq] = 0
      BY <3>2
    <3>4. CsvOwes /\ ~CsvOwes'
      BY <2>1, <2>2, <3>2 DEF CsvOwes, Writing
    <3> QED
      BY <2>1, <3>1, <3>3, <3>4, HeldOwedSettles
  <2>3. CASE ~(JobEvent.kind = "alarm" /\ CsvNotHeld)
    <3>1. csv' = csv
      BY <1>8, <1>j, <2>3 DEF Begin
    <3>2. CsvOwes' => csv[job'.seq] = "pending"
      BY <2>1 DEF CsvOwes, Writing, CsvNotHeld, HeldOwed
    <3> QED
      BY <2>1, <3>1, <3>2, <1>a
  <2> QED
    BY <2>2, <2>3
<1>9. CASE MarkDispatched \/ MarkRaises \/ ShedAlarm
  <2>1. /\ job'.seq = job.seq /\ job'.stage \in {"csv", "end"}
        /\ job'.stage = "csv" => job.stage = "publish" /\ job.csv
    BY <1>9, <1>j DEF MarkDispatched, AllQueued, MarkRaises, ShedAlarm, AfterPublish, Job
  <2>2. CsvOwes' => csv[job'.seq] = "pending"
    BY <2>1 DEF CsvOwes, Writing, HeldOwed
  <2> QED
    BY <1>9, <2>2, <1>a DEF MarkDispatched, MarkRaises, ShedAlarm
<1>10. CASE CsvSkip
  <2>1. /\ job.stage = "csv" /\ job'.stage = "end"
        /\ csv' = CsvSet({job.seq}, "skipped")
        /\ UNCHANGED <<buf, pre, refs, next, ev>>
    BY <1>10, <1>j DEF CsvSkip, CsvLeg, CsvEnds, Job
  <2>2. csv' = [csv EXCEPT ![job.seq] = "skipped"]
    BY <1>j, <2>1 DEF CsvSet
  <2>3. Writing /\ CsvOwes /\ ~CsvOwes'
    BY <2>1 DEF CsvOwes, Writing
  <2>4. refs[job.seq] = 0
    BY <2>3 DEF Referenced
  <2> QED
    BY <2>1, <2>2, <2>3, <2>4, HeldOwedSettles
<1>11. CASE CsvLotChanged
  <2>1. job.stage = "csv" /\ job'.seq = job.seq
    BY <1>11, <1>j DEF CsvLotChanged, CsvLeg, CsvEnds, Job
  <2>2. CsvOwes' => csv[job'.seq] = "pending"
    BY <2>1 DEF CsvOwes, Writing, HeldOwed
  <2> QED
    BY <1>11, <2>2, <1>a DEF CsvLotChanged
<1>12. ASSUME NEW n \in 0..MaxSeq, CsvPreLot(n) \/ CsvBuffer(n) PROVE Goal
  BY <1>12, HeldOwedPreLot, HeldOwedBuffer
<1>13. CASE Release
  BY <1>13, HeldOwedRelease
<1>14. CASE StopReleases
  BY <1>14, HeldOwedStop
<1>15. CASE \/ StopWrites \/ NoticeConfig \/ StopPops \/ ReplayStart
            \/ ReplayAssemble \/ ReplayEnds \/ StopUnroutes \/ RerouteStarts
  BY <1>15, <1>b
  DEF StopWrites, NoticeConfig, StopPops, ReplayStart, ReplayAssemble, ReplayEnds,
      StopUnroutes, RerouteStarts
<1>16. ASSUME NEW e \in Endpoints,
              \/ StartMachine(e) \/ StartFails(e) \/ StopRetire(e)
              \/ EditConfig(e) \/ RerouteStops(e) \/ EditRoute(e)
       PROVE  Goal
  BY <1>16, <1>b
  DEF StartMachine, StartFails, StopRetire, EditConfig, RerouteStops, EditRoute
<1>17. ASSUME NEW k \in Sinks, NEW s \in Seqs, Deliver(k, s) PROVE Goal
  BY <1>17, <1>b DEF Deliver
<1>18. CASE Crash
  BY <1>18, HeldOwedCrash
<1>19. CASE UNCHANGED vars
  BY <1>19, <1>b DEF vars
<1> HIDE DEF Goal
<1> QED
  BY <1>1, <1>2, <1>3, <1>4, <1>5, <1>6, <1>7, <1>8, <1>9, <1>10, <1>11,
     <1>12, <1>13, <1>14, <1>15, <1>16, <1>17, <1>18, <1>19
  DEF Next, DispatchStep, SupervisorStep

LEMMA HeldOnceOwed ==
  ASSUME TypeInv, Referenced, HeldOwed PROVE HeldOnce
<1> SUFFICES ASSUME NEW s \in Seqs, NEW e \in Endpoints, s \in RowSet(buf[e] \o pre[e])
             PROVE  Occurs(s, buf[e] \o pre[e]) = 1 /\ csv[s] = "pending"
  BY DEF HeldOnce
<1>1. /\ buf[e] \in Seq(Seqs) /\ pre[e] \in Seq(Seqs)
      /\ Once(buf[e]) /\ Once(pre[e]) /\ (buf[e] = <<>> \/ pre[e] = <<>>)
  BY DEF TypeInv, TypeOK, HeldOwed, Referenced
<1>2. \/ buf[e] \o pre[e] = buf[e] \/ buf[e] \o pre[e] = pre[e]
  BY <1>1, ConcatEmptySeq
<1>3. InMemory(s, e)
  BY <1>2 DEF InMemory
<1>4. Occurs(s, buf[e] \o pre[e]) = 1
  BY <1>1, <1>2, OnceOccurs
<1> QED
  BY <1>3, <1>4 DEF HeldOwed

(* Everything the two theorems below rest on.                              *)
HeldInv == TypeInv /\ Referenced /\ MachinesStand /\ ThreadsStand /\ HeldOwed

LEMMA HeldInvInit == Init => HeldInv
BY TypeInit, ReferencedInit, StandInit, HeldOwedInit DEF HeldInv

LEMMA HeldInvStep ==
  ASSUME MaxEdits = 0, "release" \notin Faults
  PROVE  HeldInv /\ [Next]_vars => HeldInv' /\ Settled(csv, csv')
BY TypeStep, ReferencedStep, MachinesStep, ThreadsStep, HeldOwedStep DEF HeldInv

(* As long as nobody edits the configuration and the journal takes what    *)
(* was written, no lot file gets a row twice, whatever write fails, row    *)
(* expires, machine fails to start or process dies: a row is in memory     *)
(* once, and while it is the journal still owes it (dispatch.py:87-101).   *)
THEOREM HeldOnceCorrect ==
  ASSUME MaxEdits = 0, "release" \notin Faults
  PROVE  Spec => []HeldOnce
<1>1. Init => HeldInv
  BY HeldInvInit
<1>2. HeldInv /\ [Next]_vars => HeldInv'
  BY HeldInvStep
<1>3. HeldInv => HeldOnce
  BY HeldOnceOwed DEF HeldInv
<1> QED
  BY <1>1, <1>2, <1>3, PTL DEF Spec

(* Under the same conditions neither column of the journal is reopened or  *)
(* overridden once it is settled (dispatch.py:81-86, 215-219).             *)
THEOREM SettledOnce ==
  ASSUME MaxEdits = 0, "release" \notin Faults
  PROVE  Spec => TerminalIsForever
<1>1. Init => HeldInv /\ PublishOwed
  BY HeldInvInit, OwedInit
<1>2. HeldInv /\ PublishOwed /\ [Next]_vars => (HeldInv /\ PublishOwed)'
  BY HeldInvStep, OwedStep DEF HeldInv
<1>3. HeldInv /\ PublishOwed /\ [Next]_vars
        => [Settled(disp, disp') /\ Settled(csv, csv')]_vars
  BY HeldInvStep, OwedStep DEF HeldInv
<1> QED
  BY <1>1, <1>2, <1>3, PTL DEF Spec, TerminalIsForever

-----------------------------------------------------------------------------
(* Backpressure                                                            *)

(* Nothing but a full outbox or the alarm limiter comes in the way of an   *)
(* entry.                                                                  *)
NothingElseFails ==
  /\ MaxEdits = 0 /\ Faults \cap {"sink", "mark", "start"} = {}
  /\ \A o \in Offers : o.kind # "poison"

(* Then every row is what a tool may send, no dispatch comes to an error,  *)
(* and a replay knows every machine.                                       *)
Unforced ==
  /\ \A s \in Rows : ev[s] \in Offers
  /\ \A w \in Workers : cb[w].pc = "entered" => cb[w].ev \in Offers
  /\ job.error # "error" /\ job.stage # "failed"
  /\ rp.failed = {}
  /\ rp.pc \in {"assemble", "pass"} => configured = Endpoints
  /\ BackpressureNeverParks

LEMMA UnforcedInit == Init => Unforced
BY DEF Init, Unforced, IdleCallback, NoJob, IdleSupervisor, BackpressureNeverParks, Rows

LEMMA UnforcedKept ==
  ASSUME Unforced, UNCHANGED <<next, ev, cb>>,
         \A s \in Seqs : disp'[s] = "dropped" => disp[s] = "dropped" \/ ev[s].kind = "alarm",
         job'.error # "error", job'.stage # "failed",
         rp'.failed = {}, rp'.pc \in {"assemble", "pass"} => configured' = Endpoints
  PROVE  Unforced'
BY DEF Unforced, BackpressureNeverParks, Rows

LEMMA UnforcedUnlock ==
  ASSUME TypeInv, Unforced, NEW ok, Unlock(ok), UNCHANGED <<next, ev, configured>>,
         \A s \in Seqs : disp'[s] = "dropped" => disp[s] = "dropped"
  PROVE  Unforced'
<1>1. job'.error # "error" /\ job'.stage # "failed"
  BY DEF Unlock, NoJob
<1>2. rp'.pc = rp.pc /\ rp'.failed = rp.failed
  BY DEF Unlock, TypeInv, TypeOK, Supervisor
<1>3. \A w \in Workers : cb'[w] = cb[w] \/ cb'[w].pc = "idle"
  BY DEF Unlock, IdleCallback, TypeInv, TypeOK
<1> QED
  BY <1>1, <1>2, <1>3 DEF Unforced, BackpressureNeverParks, Rows

LEMMA UnforcedStep ==
  ASSUME NothingElseFails
  PROVE  TypeInv /\ MachinesStand /\ ThreadsStand /\ Unforced /\ [Next]_vars => Unforced'
<1> SUFFICES ASSUME TypeInv, MachinesStand, ThreadsStand, Unforced, [Next]_vars
             PROVE  Unforced'
  OBVIOUS
<1> USE DEF journal, outboxes, writer, sessions
<1>r. /\ rp \in Supervisor /\ job \in Job /\ cb \in [Workers -> Callback]
      /\ disp \in [Seqs -> {"absent", "pending", "done", "dropped"}]
  BY DEF TypeInv, TypeOK
<1>n. /\ MaxEdits = 0 /\ ~Fault("sink") /\ ~Fault("mark") /\ ~Fault("start")
  BY DEF NothingElseFails, Fault
<1>a. ASSUME UNCHANGED <<next, ev, cb, disp, configured>>,
             job'.error = job.error \/ job'.error # "error",
             job'.stage # "failed", rp' = rp
      PROVE  Unforced'
  BY <1>a, UnforcedKept DEF Unforced
<1>1. ASSUME NEW w \in Workers, NEW o \in Offers, Enter(w, o) PROVE Unforced'
  <2>1. UNCHANGED <<next, ev, disp, job, rp, configured>>
    BY <1>1 DEF Enter
  <2>2. \A v \in Workers : cb'[v] = cb[v] \/ cb'[v].ev = o
    BY <1>1, <1>r DEF Enter, Callback
  <2> QED
    BY <2>1, <2>2 DEF Unforced, BackpressureNeverParks, Rows
<1>2. ASSUME NEW w \in Workers, JournalAppend(w) PROVE Unforced'
  <2>1. /\ next \in 0..MaxSeq /\ MaxSeq \in Nat /\ next < MaxSeq
        /\ ev \in [Seqs -> Event \cup {NoEvent}]
    BY <1>2, PipelineAssumption DEF JournalAppend, TypeInv, TypeOK
  <2>2. /\ next' = next + 1 /\ ev' = [ev EXCEPT ![next + 1] = cb[w].ev]
        /\ disp' = [disp EXCEPT ![next + 1] = "pending"]
        /\ cb' = [cb EXCEPT ![w] = [pc |-> "appended", ev |-> NoEvent, seq |-> next + 1]]
        /\ UNCHANGED <<job, rp, configured>> /\ cb[w].pc = "entered"
    BY <1>2 DEF JournalAppend
  <2>3. next + 1 \in Seqs /\ \A s \in Rows' : s \in Rows \/ s = next + 1
    BY <2>1, <2>2 DEF Rows, Seqs
  <2>4. Rows \subseteq Seqs
    BY RowsAreSeqs
  <2>5. \A s \in Seqs : s # next + 1 => ev'[s] = ev[s] /\ disp'[s] = disp[s]
    BY <1>r, <2>1, <2>2
  <2>6. ev'[next + 1] = cb[w].ev /\ disp'[next + 1] = "pending"
    BY <1>r, <2>1, <2>2, <2>3
  <2>7. \A v \in Workers : cb'[v] = cb[v] \/ cb'[v].pc = "appended"
    BY <1>r, <2>2
  <2>8. \A s \in Rows' : ev'[s] \in Offers
    BY <2>2, <2>3, <2>4, <2>5, <2>6 DEF Unforced
  <2>9. BackpressureNeverParks'
    BY <2>5, <2>6 DEF Unforced, BackpressureNeverParks
  <2> QED
    BY <2>2, <2>7, <2>8, <2>9 DEF Unforced
<1>3. ASSUME NEW w \in Workers, ClaimLive(w) PROVE Unforced'
  <2>1. /\ UNCHANGED <<next, ev, disp, rp, configured>>
        /\ job'.error = "no" /\ job'.stage = "claimed"
    BY <1>3 DEF ClaimLive, NoJob
  <2>2. \A v \in Workers : cb'[v] = cb[v] \/ cb'[v].pc = "dispatching"
    BY <1>3, <1>r DEF ClaimLive, Callback
  <2> QED
    BY <2>1, <2>2 DEF Unforced, BackpressureNeverParks, Rows
<1>4. CASE ClaimReplay
  <2>1. job'.error = "no" /\ job'.stage = "claimed"
    BY <1>4 DEF ClaimReplay, NoJob
  <2> QED
    BY <1>4, <1>a, <2>1 DEF ClaimReplay
<1>5. ASSUME NEW k \in Sinks, Publish(k) PROVE Unforced'
  <2>1. Enqueue(k) \/ Divert(k) \/ OutboxFull(k)
    BY <1>5, <1>n DEF Publish, SinkRaises
  <2>2. job'.error # "error" /\ job'.stage # "failed"
    BY <1>r, <2>1 DEF Enqueue, Divert, OutboxFull, PublishRaised, AfterPublish, Job, Unforced
  <2> QED
    BY <1>a, <2>1, <2>2 DEF Enqueue, Divert, OutboxFull
<1>6. CASE NothingToDo \/ EntryEnds
  <2>1. PICK ok : Unlock(ok)
    BY <1>6 DEF NothingToDo, EntryEnds
  <2> QED
    BY <1>6, <2>1, UnforcedUnlock DEF NothingToDo, EntryEnds
<1>7. CASE DropUnconfigured
  <2>1. job.owner = "replay" /\ JobEp \notin configured /\ job.stage = "claimed"
    BY <1>7 DEF DropUnconfigured, Known
  <2>2. configured = Endpoints
    BY <2>1 DEF ThreadsStand, Unforced
  <2>3. JobEp \in Endpoints
    BY <2>1, JobTypes DEF JobEp, JobEvent
  <2> QED
    BY <2>1, <2>2, <2>3
<1>8. CASE Begin
  <2>1. JobEvent.kind # "poison"
    <3>1. job.seq \in Rows
      BY <1>8 DEF Begin, TypeInv, Rooted
    <3> QED
      BY <3>1 DEF JobEvent, Unforced, NothingElseFails
  <2>2. job'.error = "no" /\ job'.stage # "failed"
    BY <1>8, <1>r, <2>1 DEF Begin, Job
  <2> QED
    BY <1>8, <1>a, <2>2 DEF Begin
<1>9. CASE MarkDispatched
  <2>1. job'.error = job.error /\ job'.stage # "failed"
    BY <1>9, <1>r DEF MarkDispatched, AfterPublish, Job
  <2>2. \A s \in Seqs : disp'[s] = "dropped" => disp[s] = "dropped"
    BY <1>9, <1>r DEF MarkDispatched
  <2> QED
    BY <1>9, <2>1, <2>2, UnforcedKept DEF MarkDispatched, Unforced
<1>10. CASE ShedAlarm
  <2>1. job'.error = job.error /\ job'.stage # "failed" /\ JobEvent.kind = "alarm"
    BY <1>10, <1>r DEF ShedAlarm, Job
  <2>2. \A s \in Seqs : disp'[s] = "dropped" => disp[s] = "dropped" \/ ev[s].kind = "alarm"
    BY <1>10, <1>r, <2>1 DEF ShedAlarm, JobEvent
  <2> QED
    BY <1>10, <2>1, <2>2, UnforcedKept DEF ShedAlarm, Unforced
<1>11. CASE MarkRaises
  BY <1>11, <1>n DEF MarkRaises
<1>12. CASE CsvSkip \/ CsvLotChanged \/ Release
  <2>1. job'.error = job.error /\ job'.stage # "failed"
    BY <1>12, <1>r DEF CsvSkip, CsvLotChanged, Release, CsvEnds, Job
  <2> QED
    BY <1>12, <1>a, <2>1 DEF CsvSkip, CsvLotChanged, Release
<1>13. ASSUME NEW n \in 0..MaxSeq, CsvPreLot(n) \/ CsvBuffer(n) PROVE Unforced'
  <2>1. /\ \/ job' = [job EXCEPT !.stage = "end", !.csvok = TRUE]
           \/ job' = [job EXCEPT !.stage = "end", !.csvok = FALSE]
           \/ job' = [job EXCEPT !.stage = "release"]
        /\ UNCHANGED <<next, ev, cb, disp, configured, rp>>
    BY <1>13 DEF CsvPreLot, CsvBuffer, CsvEnds
  <2>2. job'.error = job.error /\ job'.stage # "failed"
    BY <1>r, <2>1 DEF Job
  <2> QED
    BY <1>a, <2>1, <2>2
<1>14. CASE EntryFails \/ EntryJudged
  BY <1>14 DEF EntryFails, EntryJudged, PublishFailed, Unforced
<1>15. CASE StopWrites \/ StopReleases \/ StopPops \/ ReplayEnds \/ StopUnroutes
  <2>1. /\ UNCHANGED <<next, ev, cb, disp, job>>
        /\ rp'.failed = rp.failed /\ rp'.pc \notin {"assemble", "pass"}
    BY <1>15, <1>r DEF StopWrites, StopReleases, StopAborts, StopPops, ReplayEnds,
       StopUnroutes, Supervisor
  <2> QED
    BY <2>1, UnforcedKept DEF Unforced
<1>16. CASE NoticeConfig
  BY <1>16 DEF NoticeConfig, MachinesStand
<1>17. CASE ReplayStart \/ ReplayAssemble
  <2>1. /\ UNCHANGED <<next, ev, cb, disp, job, configured>>
        /\ rp'.failed = rp.failed
        /\ rp.pc = "assemble" \/ ToStart = {}
    BY <1>17, <1>r DEF ReplayStart, ReplayAssemble, Supervisor
  <2>2. configured = Endpoints
    <3>1. configured \subseteq Endpoints
      BY DEF TypeInv, TypeOK
    <3> QED
      BY <2>1, <3>1 DEF ToStart, MachinesStand, Unforced
  <2> QED
    BY <2>1, <2>2, UnforcedKept DEF Unforced
<1>18. ASSUME NEW e \in Endpoints, StartMachine(e) PROVE Unforced'
  <2>1. UNCHANGED <<next, ev, cb, disp, job, rp>> /\ rp.pc = "idle"
    BY <1>18 DEF StartMachine
  <2> QED
    BY <2>1, UnforcedKept DEF Unforced
<1>19. ASSUME NEW e \in Endpoints, StartFails(e) \/ StopRetire(e)
                                                \/ RerouteStops(e)
       PROVE  Unforced'
  <2>1. active \subseteq Endpoints
    BY DEF TypeInv, TypeOK
  <2> QED
    BY <1>19, <1>n, <2>1 DEF StartFails, StopRetire, RerouteStops, ToReroute, ToStop,
       MachinesStand
<1>19a. CASE RerouteStarts
  BY <1>19a DEF RerouteStarts, MachinesStand
<1>20. ASSUME NEW e \in Endpoints, EditConfig(e) \/ EditRoute(e) PROVE Unforced'
  BY <1>20, <1>n, NobodyEdits
<1>21. ASSUME NEW k \in Sinks, NEW s \in Seqs, Deliver(k, s) PROVE Unforced'
  BY <1>21, <1>a DEF Deliver, Unforced
<1>22. CASE Crash
  <2>1. /\ \A w \in Workers : cb'[w].pc = "idle"
        /\ job'.error = "no" /\ job'.stage = "free" /\ rp'.failed = {} /\ rp'.pc = "idle"
        /\ UNCHANGED <<next, ev, disp>>
    BY <1>22 DEF Crash, IdleCallback, NoJob, IdleSupervisor
  <2> QED
    BY <2>1 DEF Unforced, BackpressureNeverParks, Rows
<1>23. CASE UNCHANGED vars
  BY <1>23, <1>a DEF vars, Unforced
<1> QED
  BY <1>1, <1>2, <1>3, <1>4, <1>5, <1>6, <1>7, <1>8, <1>9, <1>10, <1>11,
     <1>12, <1>13, <1>14, <1>15, <1>16, <1>17, <1>18, <1>19, <1>20, <1>21,
     <1>22, <1>23, <1>19a
  DEF Next, DispatchStep, SupervisorStep

(* A receiver that stays away for ever costs no entry: however often its   *)
(* outbox is full, the entry is retried and never parked                   *)
(* (dispatch.py:159-164).                                                  *)
THEOREM BackpressureCorrect ==
  ASSUME NothingElseFails
  PROVE  Spec => []BackpressureNeverParks
<1> DEFINE Inv == TypeInv /\ MachinesStand /\ ThreadsStand /\ Unforced
<1>0. MaxEdits = 0
  BY DEF NothingElseFails
<1>1. Init => Inv
  BY TypeInit, StandInit, UnforcedInit
<1>2. Inv /\ [Next]_vars => Inv'
  BY <1>0, TypeStep, MachinesStep, ThreadsStep, UnforcedStep
<1>3. Inv => BackpressureNeverParks
  BY DEF Unforced
<1> QED
  BY <1>1, <1>2, <1>3, PTL DEF Spec
=============================================================================
