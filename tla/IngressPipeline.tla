--------------------------- MODULE IngressPipeline ---------------------------
(***************************************************************************)
(* The path of one accepted SECS collection event through the middleware:  *)
(*                                                                         *)
(*   gateway callback -> session guard -> ingress journal (SQLite)         *)
(*     -> dispatch lock -> publisher outboxes (SQLite) and the lot file    *)
(*                                                                         *)
(* together with the supervisor thread that replays the journal and        *)
(* starts and stops machines, and with the death of the process at any     *)
(* point between two commits.  service/dispatch.py is split into a step    *)
(* per commit, lock operation or exception; csv_store.py is modelled at    *)
(* one load port per machine and one row per event; journal.py by its      *)
(* status columns.  Wire identity and retransmission belong to module      *)
(* IngressJournal, and the delivery of what is queued to OutboxQueue.      *)
(***************************************************************************)
EXTENDS Integers, Sequences, FiniteSets

CONSTANTS
  Endpoints,      (* machines of the configuration                          *)
  Workers,        (* SECS callback threads                                  *)
  Lots, NoLot,    (* lot ids an event can name, and "names none"            *)
  NoBuffer,       (* lotOf[e] when no lot buffer is open                    *)
  NoEvent, NoOne, (* "no event", "no thread" and "no machine"               *)
  Offers,         (* the collection events the tools may send               *)
  NumSinks,       (* publishers in queueing order: MQTT, HTTP, legacy API   *)
  NumAlarmSinks,  (* the publishers an alarm event goes to: MQTT, HTTP      *)
  GlobalRoute,    (* the global HTTP publisher is enabled (it never runs)   *)
  Cap,            (* max_pending_per_partition of an outbox                 *)
  MaxAttempts,    (* MAX_DISPATCH_ATTEMPTS                                  *)
  Limit,          (* the LIMIT of pending_dispatch and pending_csv          *)
  PreLotMax,      (* pre-lot rows kept per port                             *)
  MaxLotRows,     (* rows kept in a buffer whose write has failed           *)
  Stuck,          (* machines whose receivers never accept anything         *)
  Faults,         (* what may go wrong in this instance                     *)
  MaxSeq,         (* bound: journal rows                                    *)
  MaxFaults, MaxCrashes, MaxEdits   (* bounds: failures, process deaths and *)
                                    (* edits of the configuration           *)

Seqs  == 1..MaxSeq
Sinks == 1..NumSinks
HttpSink == 2     (* each machine has an HTTP publisher of its own           *)

(* What the mapper makes of an event: a row for a lot file, an event type  *)
(* with no place there, an alarm, nothing at all, or an exception.         *)
EventKind == {"csv", "plain", "alarm", "none", "poison"}
Event == [ep : Endpoints, kind : EventKind, lot : Lots \cup {NoLot},
          closes : BOOLEAN]

(* A sink raises; mark_dispatched raises; the alarm limiter sheds; a lot   *)
(* file cannot be written; the journal fails after the lot file is         *)
(* written; a machine fails to start; pre-lot rows outlive their TTL.      *)
FaultKind == {"sink", "mark", "shed", "disk", "release", "start", "ttl"}

ASSUME PipelineAssumption ==
  /\ MaxSeq \in Nat /\ MaxFaults \in Nat /\ MaxCrashes \in Nat
  /\ MaxEdits \in Nat
  /\ NumSinks \in Nat \ {0} /\ NumAlarmSinks \in 1..NumSinks
  /\ GlobalRoute \in BOOLEAN
  /\ Cap \in Nat \ {0} /\ MaxAttempts \in Nat \ {0} /\ Limit \in Nat \ {0}
  /\ PreLotMax \in Nat \ {0} /\ MaxLotRows \in Nat \ {0}
  /\ Offers \subseteq Event /\ Faults \subseteq FaultKind
  /\ NoLot \notin Lots /\ NoBuffer \notin Lots \cup {NoLot}
  /\ NoEvent \notin Event /\ "replay" \notin Workers
  /\ NoOne \notin Workers \cup Endpoints \cup {"replay"}

VARIABLES
  (* durable: the journal's columns (row n exists when n <= next), the      *)
  (* outboxes, the lot files and the configuration file                     *)
  next, ev, disp, csv, attempts,
  queued,         (* queued[k]: entries whose key is in outbox k            *)
  unsent,         (* unsent[k]: those still pending there                   *)
  diverted,       (* entries the global HTTP publisher was given: in its    *)
                  (* outbox if its route is enabled, else nowhere           *)
  disk,           (* entries with a row in some lot file                    *)
  enabled,        (* machines enabled in the configuration                  *)
  rerouted,       (* machines whose HTTP route is not the one applied       *)
  (* volatile: the callback threads, the dispatch in progress, the          *)
  (* supervisor, the lot writer, the configuration last read,               *)
  (* _machines_by_endpoint, the machines with a live session guard and      *)
  (* those in _http_publishers                                              *)
  cb, job, rp, buf, pre, refs, dropped, lotOf, wfail,
  desired, configured, active, http,
  (* the counters of the bounds                                             *)
  budget

journal  == <<next, ev, disp, csv, attempts>>
outboxes == <<queued, unsent, diverted>>
writer   == <<buf, pre, refs, dropped, lotOf, wfail>>
sessions == <<desired, configured, active, http, rerouted>>
vars == <<journal, outboxes, disk, enabled, cb, job, rp, writer, sessions,
          budget>>

Callback == [pc : {"idle", "entered", "appended", "dispatching"},
             ev : Event \cup {NoEvent}, seq : 0..MaxSeq]
IdleCallback == [pc |-> "idle", ev |-> NoEvent, seq |-> 0]

(* The dispatch in progress: one, because every caller of _dispatch_entry  *)
(* holds _dispatch_lock.  `stage` is where it stands, `error` what the     *)
(* publish leg raised and `csvok` whether the lot file leg succeeded.      *)
Job == [owner : Workers \cup {"replay", NoOne}, seq : 0..MaxSeq,
        publish : BOOLEAN, csv : BOOLEAN,
        stage : {"free", "claimed", "publish", "csv", "release", "end",
                 "failed"},
        sink : 1..(NumSinks + 1), error : {"no", "full", "error"},
        csvok : BOOLEAN]
NoJob == [owner |-> NoOne, seq |-> 0, publish |-> FALSE, csv |-> FALSE,
          stage |-> "free", sink |-> 1, error |-> "no", csvok |-> TRUE]

Supervisor == [pc : {"idle", "assemble", "pass", "leaving", "retired",
                     "flushed", "pop", "rerouting"},
               ep : Endpoints \cup {NoOne}, pubs : SUBSET Seqs,
               csvs : SUBSET Seqs, blocked : SUBSET Endpoints,
               failed : SUBSET Endpoints]
IdleSupervisor == [pc |-> "idle", ep |-> NoOne, pubs |-> {}, csvs |-> {},
                   blocked |-> {}, failed |-> {}]

Budget == [faults : 0..MaxFaults, crashes : 0..MaxCrashes,
           edits : 0..MaxEdits]

TypeOK ==
  /\ next \in 0..MaxSeq
  /\ ev \in [Seqs -> Event \cup {NoEvent}]
  /\ disp \in [Seqs -> {"absent", "pending", "done", "dropped"}]
  /\ csv \in [Seqs -> {"absent", "pending", "done", "dropped", "skipped"}]
  /\ attempts \in [Seqs -> Nat]
  /\ queued \in [Sinks -> SUBSET Seqs] /\ unsent \in [Sinks -> SUBSET Seqs]
  /\ diverted \subseteq Seqs
  /\ disk \subseteq Seqs /\ enabled \subseteq Endpoints
  /\ cb \in [Workers -> Callback] /\ job \in Job /\ rp \in Supervisor
  /\ buf \in [Endpoints -> Seq(Seqs)] /\ pre \in [Endpoints -> Seq(Seqs)]
  /\ refs \in [Seqs -> Nat] /\ dropped \subseteq Seqs
  /\ lotOf \in [Endpoints -> Lots \cup {NoBuffer}]
  /\ wfail \in [Endpoints -> BOOLEAN]
  /\ desired \subseteq Endpoints /\ configured \subseteq Endpoints
  /\ {active, http, rerouted} \subseteq SUBSET Endpoints
  /\ budget \in Budget

Init ==
  /\ next = 0 /\ ev = [s \in Seqs |-> NoEvent]
  /\ disp = [s \in Seqs |-> "absent"] /\ csv = [s \in Seqs |-> "absent"]
  /\ attempts = [s \in Seqs |-> 0]
  /\ queued = [k \in Sinks |-> {}] /\ unsent = [k \in Sinks |-> {}]
  /\ diverted = {} /\ disk = {} /\ enabled = Endpoints
  /\ cb = [w \in Workers |-> IdleCallback] /\ job = NoJob
  /\ rp = IdleSupervisor
  /\ buf = [e \in Endpoints |-> <<>>] /\ pre = [e \in Endpoints |-> <<>>]
  /\ refs = [s \in Seqs |-> 0] /\ dropped = {}
  /\ lotOf = [e \in Endpoints |-> NoBuffer]
  /\ wfail = [e \in Endpoints |-> FALSE]
  /\ desired = Endpoints /\ configured = {} /\ active = {}
  /\ http = {} /\ rerouted = {}
  /\ budget = [faults |-> MaxFaults, crashes |-> MaxCrashes,
               edits |-> MaxEdits]

-----------------------------------------------------------------------------
(* Helpers                                                                 *)

Rows == 1..next
RowSet(q) == {q[i] : i \in DOMAIN q}
Occurs(s, q) == Cardinality({i \in DOMAIN q : q[i] = s})

(* Spend a failure of kind f: it may happen when the instance allows it.   *)
Fault(f) ==
  /\ f \in Faults /\ budget.faults > 0
  /\ budget' = [budget EXCEPT !.faults = @ - 1]
NoFault == UNCHANGED budget

(* PerLotCsvWriter.holds, asked without the writer's lock.                 *)
Held(s) == refs[s] > 0

(* The publishers an event of this kind is queued at.                      *)
SinkCount(kind) == CASE kind \in {"csv", "plain"} -> NumSinks
                     [] kind = "alarm" -> NumAlarmSinks
                     [] OTHER -> 0

JobEvent == ev[job.seq]
JobEp    == JobEvent.ep
AfterPublish == IF job.csv THEN "csv" ELSE "end"

(* pending_dispatch / pending_csv: the oldest Limit rows still pending.    *)
FirstPending(status) ==
  {s \in Rows : /\ status[s] = "pending"
                /\ Cardinality({r \in Rows : status[r] = "pending" /\ r < s})
                     < Limit}

(* Mutant: rows leave memory and their references stay.                    *)
Unreferenced_leak(r, q) == r
(* Mutant: a row without a reference takes one off all the same.           *)
Unreferenced_negative(r, q) == [s \in Seqs |-> r[s] - Occurs(s, q)]

(* _seq_refs r without the rows of q, and the entries whose last reference *)
(* in r is among those rows.                                               *)
Unreferenced(r, q) ==
  [s \in Seqs |-> IF Occurs(s, q) >= r[s] THEN 0 ELSE r[s] - Occurs(s, q)]
LastRows(r, q) == {s \in RowSet(q) : Occurs(s, q) >= r[s]}

(* Mutant: a discarded row is recorded as written.                         *)
CsvSet_alwaysDone(S, status) ==
  [s \in Seqs |-> IF s \in S THEN "done" ELSE csv[s]]

(* The csv column with the entries of S set to status.                     *)
CsvSet(S, status) == [s \in Seqs |-> IF s \in S THEN status ELSE csv[s]]

(* What _release makes of the csv column once the rows of q are on disk:   *)
(* an entry is resolved with its last row, as dropped if another of its    *)
(* rows was discarded.                                                     *)
Resolved(q) ==
  [s \in Seqs |-> IF s \notin LastRows(refs, q) THEN csv[s]
                  ELSE IF s \in dropped THEN "dropped" ELSE "done"]

(* An event naming another lot than the open buffer's.                     *)
LotChanged(v) == v.lot # NoLot /\ lotOf[v.ep] \notin {NoBuffer, v.lot}

(* The lock of PerLotCsvWriter: a stop holds it from its write to its      *)
(* release, and so does the dispatch.                                      *)
WriterFree == rp.pc # "flushed" /\ job.stage # "release"

-----------------------------------------------------------------------------
(* The callback thread: SessionGuard, journal.append, _dispatch_lock       *)

(* _guarded_event reads guard.active; nothing keeps it true afterwards.    *)
Enter(w, o) ==
  /\ cb[w].pc = "idle" /\ o.ep \in active
  /\ next < MaxSeq
  /\ cb' = [cb EXCEPT ![w] = [@ EXCEPT !.pc = "entered", !.ev = o]]
  /\ UNCHANGED <<journal, outboxes, disk, enabled, job, rp, writer, sessions,
                 budget>>

(* The only step allowed to refuse: the row is committed before the ACK.   *)
JournalAppend(w) ==
  /\ cb[w].pc = "entered" /\ next < MaxSeq
  /\ next' = next + 1
  /\ ev' = [ev EXCEPT ![next + 1] = cb[w].ev]
  /\ disp' = [disp EXCEPT ![next + 1] = "pending"]
  /\ csv' = [csv EXCEPT ![next + 1] = "pending"]
  /\ cb' = [cb EXCEPT ![w] = [pc |-> "appended", ev |-> NoEvent,
                              seq |-> next + 1]]
  /\ UNCHANGED <<attempts, outboxes, disk, enabled, job, rp, writer, sessions,
                 budget>>

(* Mutants: what the journal said before the lock was taken.               *)
OwedPublish_stale(s) == TRUE
OwedCsv_stale(s)     == TRUE

(* What a holder of _dispatch_lock reads back from the journal.            *)
OwedPublish(s) == disp[s] = "pending"
OwedCsv(s)     == csv[s] = "pending"

ClaimLive(w) ==
  /\ cb[w].pc = "appended" /\ job = NoJob
  /\ cb' = [cb EXCEPT ![w].pc = "dispatching"]
  /\ job' = [NoJob EXCEPT !.owner = w, !.seq = cb[w].seq, !.stage = "claimed",
                          !.publish = OwedPublish(cb[w].seq),
                          !.csv = OwedCsv(cb[w].seq)]
  /\ UNCHANGED <<journal, outboxes, disk, enabled, rp, writer, sessions,
                 budget>>

-----------------------------------------------------------------------------
(* _dispatch_entry: everything from here to Unlock holds _dispatch_lock    *)

(* Leaving the lock.  The callback returns, so the gateway acknowledges;   *)
(* the replay goes on to its next entry, past those of a machine one of    *)
(* whose entries is unfinished.                                            *)
Unlock(finished) ==
  /\ job' = NoJob
  /\ IF job.owner = "replay"
       THEN /\ rp' = [rp EXCEPT !.pubs = @ \ {job.seq}, !.csvs = @ \ {job.seq},
                               !.blocked = IF finished THEN @
                                           ELSE @ \cup {JobEp}]
            /\ UNCHANGED cb
       ELSE /\ cb' = [cb EXCEPT ![job.owner] = IdleCallback]
            /\ UNCHANGED rp

(* The lot file leg that is really owed: a row in an open buffer is not.   *)
CsvNotHeld == job.csv /\ ~Held(job.seq)

(* What is still to do for the entry.  A replay leaves an entry alone when *)
(* its row is held, even one whose publish leg is owed.                    *)
Owed == IF job.owner = "replay"
        THEN (job.publish \/ job.csv) /\ ~(job.csv /\ Held(job.seq))
        ELSE job.publish \/ CsvNotHeld

NothingToDo ==
  /\ job.stage = "claimed" /\ ~Owed
  /\ Unlock(TRUE)
  /\ UNCHANGED <<journal, outboxes, disk, enabled, writer, sessions, budget>>

Known == job.owner # "replay" \/ JobEp \in configured

DropUnconfigured ==
  /\ job.stage = "claimed" /\ Owed /\ ~Known
  /\ disp' = [disp EXCEPT ![job.seq] = IF job.publish THEN "dropped" ELSE @]
  /\ csv' = [csv EXCEPT ![job.seq] = IF job.csv THEN "dropped" ELSE @]
  /\ Unlock(TRUE)
  /\ UNCHANGED <<next, ev, attempts, outboxes, disk, enabled, writer,
                 sessions, budget>>

(* _dispatch_event up to its first sink.  The mapper raises on a poison    *)
(* event; an alarm has no row, whatever becomes of its publication.        *)
Begin ==
  LET kind == JobEvent.kind
      lot  == CsvNotHeld /\ kind # "alarm"
  IN /\ job.stage = "claimed" /\ Owed /\ Known
     /\ csv' = [csv EXCEPT ![job.seq] =
                  IF kind = "alarm" /\ CsvNotHeld THEN "skipped" ELSE @]
     /\ job' = [job EXCEPT
                  !.csv = lot,
                  !.error = IF kind = "poison" THEN "error" ELSE "no",
                  !.stage = IF kind = "poison" THEN "end"
                            ELSE IF job.publish THEN "publish"
                            ELSE IF lot THEN "csv" ELSE "end"]
     /\ UNCHANGED <<next, ev, disp, attempts, outboxes, disk, enabled, cb, rp,
                    writer, sessions, budget>>

(* The publish leg: one durable enqueue per publisher, keyed by the entry. *)
Pending(k, e) == Cardinality({s \in unsent[k] : ev[s].ep = e})
Full(k, e)    == Pending(k, e) >= Cap
Publishing(k) == job.stage = "publish" /\ job.sink = k
                 /\ k <= SinkCount(JobEvent.kind)

(* Leaving the publish leg with an exception: the lot file leg still runs. *)
PublishRaised(what) ==
  job' = [job EXCEPT !.error = what, !.stage = AfterPublish]

(* _queue_http_event: a machine whose publisher is gone, or not there yet,  *)
(* has its events queued at the global one, which says nothing when it is  *)
(* disabled, and whose outbox nobody empties when it is not.               *)
Diverts(k) == k = HttpSink /\ JobEp \notin http
GlobalFull == GlobalRoute /\ job.seq \notin diverted
              /\ Cardinality({s \in diverted : ev[s].ep = JobEp}) >= Cap

Divert(k) ==
  /\ Publishing(k) /\ Diverts(k) /\ ~GlobalFull
  /\ diverted' = diverted \cup {job.seq}
  /\ job' = [job EXCEPT !.sink = k + 1]
  /\ UNCHANGED <<journal, queued, unsent, disk, enabled, cb, rp, writer,
                 sessions, budget>>

Enqueue(k) ==
  /\ Publishing(k) /\ ~Diverts(k)
  /\ job.seq \in queued[k] \/ ~Full(k, JobEp)
  /\ queued' = [queued EXCEPT ![k] = @ \cup {job.seq}]
  /\ unsent' = [unsent EXCEPT ![k] = IF job.seq \in queued[k] THEN @
                                     ELSE @ \cup {job.seq}]
  /\ job' = [job EXCEPT !.sink = k + 1]
  /\ UNCHANGED <<journal, diverted, disk, enabled, cb, rp, writer, sessions,
                 budget>>

OutboxFull(k) ==
  /\ Publishing(k)
  /\ IF Diverts(k) THEN GlobalFull
     ELSE job.seq \notin queued[k] /\ Full(k, JobEp)
  /\ PublishRaised("full")
  /\ UNCHANGED <<journal, outboxes, disk, enabled, cb, rp, writer, sessions,
                 budget>>

SinkRaises(k) ==
  /\ Publishing(k) /\ Fault("sink")
  /\ PublishRaised("error")
  /\ UNCHANGED <<journal, outboxes, disk, enabled, cb, rp, writer, sessions>>

(* Mutant: marked dispatched before the last publisher has the entry.      *)
AllQueued_oneEarly ==
  job.stage = "publish" /\ job.sink >= SinkCount(JobEvent.kind)

AllQueued == job.stage = "publish" /\ job.sink > SinkCount(JobEvent.kind)

MarkDispatched ==
  /\ AllQueued
  /\ disp' = [disp EXCEPT ![job.seq] = "done"]
  /\ job' = [job EXCEPT !.stage = AfterPublish]
  /\ UNCHANGED <<next, ev, csv, attempts, outboxes, disk, enabled, cb, rp,
                 writer, sessions, budget>>

(* Raised from the `else` of the try: past the handler that lets the lot   *)
(* file leg run.                                                           *)
MarkRaises ==
  /\ AllQueued /\ Fault("mark")
  /\ job' = [job EXCEPT !.error = "error", !.stage = "end"]
  /\ UNCHANGED <<journal, outboxes, disk, enabled, cb, rp, writer, sessions>>

(* Deduplication and the alarm rate limiter.                               *)
ShedAlarm ==
  /\ Publishing(1) /\ JobEvent.kind = "alarm" /\ Fault("shed")
  /\ disp' = [disp EXCEPT ![job.seq] = "dropped"]
  /\ job' = [job EXCEPT !.stage = "end"]
  /\ UNCHANGED <<next, ev, csv, attempts, outboxes, disk, enabled, cb, rp,
                 writer, sessions>>

-----------------------------------------------------------------------------
(* PerLotCsvWriter.append, inside the writer's lock                        *)

CsvLeg == job.stage = "csv" /\ WriterFree
CsvEnds(ok) == job' = [job EXCEPT !.stage = "end", !.csvok = ok]

CsvSkip ==
  /\ CsvLeg /\ JobEvent.kind # "csv"
  /\ csv' = CsvSet({job.seq}, "skipped")
  /\ CsvEnds(TRUE)
  /\ UNCHANGED <<next, ev, disp, attempts, outboxes, disk, enabled, cb, rp,
                 writer, sessions, budget>>

(* _prune_pre_lot: the oldest n pre-lot rows of e have outlived the TTL.   *)
Expired(e, n)   == SubSeq(pre[e], 1, n)
Surviving(e, n) == SubSeq(pre[e], n + 1, Len(pre[e]))
Prune(e, n) == n \in 0..Len(pre[e])
               /\ (IF n = 0 THEN NoFault ELSE Fault("ttl"))

(* No lot known at this port: the row waits, the oldest row giving way.    *)
CsvPreLot(n) ==
  LET e     == JobEp
      gone  == Expired(e, n)
      kept  == Append(Surviving(e, n), job.seq)
      left  == [Unreferenced(refs, gone) EXCEPT ![job.seq] = @ + 1]
      over  == IF Len(kept) > PreLotMax THEN <<Head(kept)>> ELSE <<>>
      ended == LastRows(refs, gone) \cup LastRows(left, over)
  IN /\ CsvLeg /\ JobEvent.kind = "csv"
     /\ JobEvent.lot = NoLot /\ lotOf[e] = NoBuffer
     /\ Prune(e, n)
     /\ pre' = [pre EXCEPT ![e] = IF over = <<>> THEN kept ELSE Tail(kept)]
     /\ refs' = Unreferenced(left, over)
     /\ csv' = CsvSet(ended, "dropped")
     /\ dropped' = (dropped \cup RowSet(gone) \cup RowSet(over)) \ ended
     /\ CsvEnds(TRUE)
     /\ UNCHANGED <<next, ev, disp, attempts, outboxes, disk, enabled, cb, rp,
                    buf, lotOf, wfail, sessions>>

(* Another lot begins: the open buffer is written first.                   *)
CsvLotChanged ==
  LET e == JobEp
  IN /\ CsvLeg /\ JobEvent.kind = "csv" /\ LotChanged(JobEvent)
     /\ \/ /\ disk' = disk \cup RowSet(buf[e])
           /\ wfail' = [wfail EXCEPT ![e] = FALSE]
           /\ job' = [job EXCEPT !.stage = "release"]
           /\ NoFault
        \/ /\ Fault("disk")
           /\ wfail' = [wfail EXCEPT ![e] = TRUE]
           /\ CsvEnds(FALSE)
           /\ UNCHANGED disk
     /\ UNCHANGED <<journal, outboxes, enabled, cb, rp, buf, pre, refs,
                    dropped, lotOf, sessions>>

(* _get_buffer promotes the pre-lot rows into a fresh buffer.              *)
Buffered(e, n) ==
  Append(IF lotOf[e] = NoBuffer THEN Surviving(e, n) ELSE buf[e], job.seq)
Opens(e) == lotOf[e] = NoBuffer

(* The row joins the lot's buffer; a closing event writes the file, and    *)
(* an over-long buffer that could not be written is evicted.               *)
CsvBuffer(n) ==
  LET e     == JobEp
      v     == JobEvent
      gone  == IF Opens(e) THEN Expired(e, n) ELSE <<>>
      rows  == Buffered(e, n)
      left  == [Unreferenced(refs, gone) EXCEPT ![job.seq] = @ + 1]
      stale == LastRows(refs, gone)
      evict == ~v.closes /\ wfail[e] /\ Len(rows) > MaxLotRows
  IN /\ CsvLeg /\ v.kind = "csv" /\ ~LotChanged(v)
     /\ ~(v.lot = NoLot /\ Opens(e))
     /\ IF Opens(e) THEN n \in 0..Len(pre[e]) ELSE n = 0
     /\ csv' = CsvSet(stale, "dropped")
     /\ pre' = [pre EXCEPT ![e] = IF Opens(e) THEN <<>> ELSE @]
     /\ buf' = [buf EXCEPT ![e] = IF evict THEN <<>> ELSE rows]
     /\ lotOf' = [lotOf EXCEPT ![e] = IF evict THEN NoBuffer
                                      ELSE IF Opens(e) THEN v.lot ELSE @]
     /\ refs' = IF evict THEN Unreferenced(left, rows) ELSE left
     /\ dropped' = ((dropped \cup RowSet(gone)) \ stale)
                     \ (IF evict THEN LastRows(left, rows) ELSE {})
     /\ \/ /\ ~v.closes /\ CsvEnds(TRUE)
           /\ IF n = 0 THEN NoFault ELSE Fault("ttl")
           /\ UNCHANGED <<disk, wfail>>
        \/ /\ v.closes
           /\ disk' = disk \cup RowSet(rows)
           /\ wfail' = [wfail EXCEPT ![e] = FALSE]
           /\ job' = [job EXCEPT !.stage = "release"]
           /\ IF n = 0 THEN NoFault ELSE Fault("ttl")
        \/ /\ v.closes /\ n = 0 /\ Fault("disk")
           /\ wfail' = [wfail EXCEPT ![e] = TRUE]
           /\ CsvEnds(FALSE)
           /\ UNCHANGED disk
     /\ UNCHANGED <<next, ev, disp, attempts, outboxes, enabled, cb, rp,
                    sessions>>

(* _release after the dispatch's write: the entries are resolved and the   *)
(* buffer leaves memory, or the journal refuses: the references are gone   *)
(* by then, the buffer is not.                                             *)
Release ==
  LET e == JobEp
      q == buf[e]
      changed == LotChanged(JobEvent)
  IN /\ job.stage = "release"
     /\ refs' = Unreferenced(refs, q)
     /\ dropped' = dropped \ LastRows(refs, q)
     /\ \/ /\ csv' = Resolved(q)
           /\ buf' = [buf EXCEPT ![e] = <<>>]
           /\ lotOf' = [lotOf EXCEPT ![e] = IF changed THEN JobEvent.lot
                                            ELSE NoBuffer]
           /\ job' = [job EXCEPT !.stage = IF changed THEN "csv" ELSE "end"]
           /\ NoFault
        \/ /\ Fault("release")
           /\ csv' = CsvSet(LastRows(refs, q) \cap dropped, "dropped")
           /\ CsvEnds(FALSE)
           /\ UNCHANGED <<buf, lotOf>>
     /\ UNCHANGED <<next, ev, disp, attempts, outboxes, disk, enabled, cb, rp,
                    pre, wfail, sessions>>

-----------------------------------------------------------------------------
(* The end of _dispatch_entry: _record_dispatch_failure                    *)

(* Mutant: backpressure counts as a failure.                               *)
PublishFailed_fullCounts == job.publish /\ job.error # "no"

PublishFailed == job.publish /\ job.error = "error"

(* Everything asked for is done, or something is left for the replay:      *)
(* backpressure, a failed lot file, an exception outside the publish leg.  *)
EntryEnds ==
  /\ job.stage = "end" /\ ~PublishFailed
  /\ Unlock(job.error = "no" /\ job.csvok)
  /\ UNCHANGED <<journal, outboxes, disk, enabled, writer, sessions, budget>>

(* mark_dispatch_failed ...                                                *)
EntryFails ==
  /\ job.stage = "end" /\ PublishFailed
  /\ attempts' = [attempts EXCEPT ![job.seq] = @ + 1]
  /\ job' = [job EXCEPT !.stage = "failed"]
  /\ UNCHANGED <<next, ev, disp, csv, outboxes, disk, enabled, cb, rp, writer,
                 sessions, budget>>

(* ... and mark_dispatch_dropped once the attempts are used up.            *)
EntryJudged ==
  LET parks == attempts[job.seq] >= MaxAttempts
  IN /\ job.stage = "failed"
     /\ disp' = [disp EXCEPT ![job.seq] = IF parks THEN "dropped" ELSE @]
     /\ Unlock(parks)
     /\ UNCHANGED <<next, ev, csv, attempts, outboxes, disk, enabled, writer,
                    sessions, budget>>

-----------------------------------------------------------------------------
(* The supervisor: reconcile, then _replay_journal                         *)

(* A new revision of the configuration file; only a new one retries the    *)
(* machines that failed to start.                                          *)
NoticeConfig ==
  /\ rp.pc = "idle" /\ desired # enabled
  /\ desired' = enabled /\ rp' = [rp EXCEPT !.failed = {}]
  /\ UNCHANGED <<journal, outboxes, disk, enabled, cb, job, writer,
                 configured, active, http, rerouted, budget>>

ToStart == desired \ (configured \cup rp.failed)
ToStop  == active \ desired      (* _sessions not desired                   *)

StartMachine(e) ==
  /\ rp.pc = "idle" /\ desired = enabled /\ e \in ToStart
  /\ configured' = configured \cup {e} /\ active' = active \cup {e}
  /\ http' = http \cup {e} /\ rerouted' = rerouted \ {e}
  /\ UNCHANGED <<journal, outboxes, disk, enabled, cb, job, rp, writer,
                 desired, budget>>

(* _start_machine raises before its session exists, its HTTP publisher     *)
(* running or not: torn down again.                                        *)
StartFails(e) ==
  /\ rp.pc = "idle" /\ desired = enabled /\ e \in ToStart
  /\ Fault("start")
  /\ configured' = configured \cup {e}
  /\ http' \in {http, http \cup {e}}
  /\ rp' = [rp EXCEPT !.pc = "leaving", !.ep = e, !.failed = @ \cup {e}]
  /\ UNCHANGED <<journal, outboxes, disk, enabled, cb, job, writer, desired,
                 active, rerouted>>

(* _stop_machine: guard and session go first.                              *)
StopRetire(e) ==
  /\ rp.pc = "idle" /\ desired = enabled /\ e \in ToStop
  /\ active' = active \ {e}
  /\ rp' = [rp EXCEPT !.pc = "leaving", !.ep = e]
  /\ UNCHANGED <<journal, outboxes, disk, enabled, cb, job, writer, desired,
                 configured, http, rerouted, budget>>

(* _stop_machine_http: what a late callback publishes is diverted from now *)
(* on.                                                                     *)
StopUnroutes ==
  /\ rp.pc = "leaving"
  /\ http' = http \ {rp.ep}
  /\ rp' = [rp EXCEPT !.pc = "retired"]
  /\ UNCHANGED <<journal, outboxes, disk, enabled, cb, job, writer, desired,
                 configured, active, rerouted, budget>>

(* An exception out of _stop_machine: the machine stays configured, with   *)
(* no session and no HTTP publisher.                                       *)
StopAborts == rp' = [rp EXCEPT !.pc = "idle", !.ep = NoOne]

(* flush_machine up to its write.                                          *)
StopWrites ==
  LET e == rp.ep
  IN /\ rp.pc = "retired" /\ WriterFree
     /\ \/ /\ disk' = disk \cup RowSet(buf[e])
           /\ wfail' = [wfail EXCEPT ![e] = FALSE]
           /\ rp' = [rp EXCEPT !.pc = "flushed"]
           /\ NoFault
        \/ /\ buf[e] # <<>> /\ Fault("disk")
           /\ wfail' = [wfail EXCEPT ![e] = TRUE]
           /\ StopAborts
           /\ UNCHANGED disk
     /\ UNCHANGED <<journal, outboxes, enabled, cb, job, buf, pre, refs,
                    dropped, lotOf, sessions>>

(* ... and from its release on: the pre-lot rows leave memory unresolved.  *)
StopReleases ==
  LET e == rp.ep
      q == buf[e]
      left == Unreferenced(refs, q)
  IN /\ rp.pc = "flushed"
     /\ \/ /\ csv' = Resolved(q)
           /\ refs' = Unreferenced(left, pre[e])
           /\ dropped' = (dropped \ LastRows(refs, q)) \ LastRows(left, pre[e])
           /\ buf' = [buf EXCEPT ![e] = <<>>]
           /\ pre' = [pre EXCEPT ![e] = <<>>]
           /\ lotOf' = [lotOf EXCEPT ![e] = NoBuffer]
           /\ rp' = [rp EXCEPT !.pc = "pop"]
           /\ NoFault
        \/ /\ q # <<>> /\ Fault("release")
           /\ csv' = CsvSet(LastRows(refs, q) \cap dropped, "dropped")
           /\ refs' = left
           /\ dropped' = dropped \ LastRows(refs, q)
           /\ StopAborts
           /\ UNCHANGED <<buf, pre, lotOf>>
     /\ UNCHANGED <<next, ev, disp, attempts, outboxes, disk, enabled, cb, job,
                    wfail, sessions>>

StopPops ==
  /\ rp.pc = "pop"
  /\ configured' = configured \ {rp.ep}
  /\ rp' = [rp EXCEPT !.pc = "idle", !.ep = NoOne]
  /\ UNCHANGED <<journal, outboxes, disk, enabled, cb, job, writer, desired,
                 active, http, rerouted, budget>>

(* Another HTTP route for a machine that goes on: its publisher is stopped *)
(* and a new one started, which may raise; the session lives all the while.*)
ToReroute == (rerouted \cap configured \cap desired) \ rp.failed

RerouteStops(e) ==
  /\ rp.pc = "idle" /\ desired = enabled /\ e \in ToReroute
  /\ http' = http \ {e}
  /\ rp' = [rp EXCEPT !.pc = "rerouting", !.ep = e]
  /\ UNCHANGED <<journal, outboxes, disk, enabled, cb, job, writer, desired,
                 configured, active, rerouted, budget>>

RerouteStarts ==
  LET e == rp.ep
  IN /\ rp.pc = "rerouting"
     /\ \/ /\ http' = http \cup {e} /\ rerouted' = rerouted \ {e}
           /\ rp' = [rp EXCEPT !.pc = "idle", !.ep = NoOne]
           /\ NoFault
        \/ /\ Fault("start")
           /\ rp' = [rp EXCEPT !.pc = "idle", !.ep = NoOne,
                               !.failed = @ \cup {e}]
           /\ UNCHANGED <<http, rerouted>>
     /\ UNCHANGED <<journal, outboxes, disk, enabled, cb, job, writer, desired,
                    configured, active>>

(* A replay pass; one that would find nothing pending is left out.         *)
ReplayStart ==
  /\ rp.pc = "idle" /\ desired = enabled
  /\ ToStart = {} /\ ToStop = {} /\ ToReroute = {}
  /\ FirstPending(disp) \cup FirstPending(csv) # {}
  /\ rp' = [rp EXCEPT !.pc = "assemble", !.pubs = FirstPending(disp)]
  /\ UNCHANGED <<journal, outboxes, disk, enabled, cb, job, writer, sessions,
                 budget>>

(* Held rows are passed over after the LIMIT, not before.                  *)
ReplayAssemble ==
  /\ rp.pc = "assemble"
  /\ rp' = [rp EXCEPT !.pc = "pass",
                      !.csvs = {s \in FirstPending(csv) : ~Held(s)}]
  /\ UNCHANGED <<journal, outboxes, disk, enabled, cb, job, writer, sessions,
                 budget>>

(* Mutant: the pass ends at the first unfinished entry.                    *)
ToReplay_stopsAtFirst ==
  IF rp.blocked # {} THEN {} ELSE rp.pubs \cup rp.csvs

ToReplay == {s \in rp.pubs \cup rp.csvs : ev[s].ep \notin rp.blocked}

ClaimReplay ==
  /\ rp.pc = "pass" /\ job = NoJob
  /\ \E s \in ToReplay :
       /\ \A r \in ToReplay : s <= r
       /\ job' = [NoJob EXCEPT !.owner = "replay", !.seq = s,
                               !.stage = "claimed",
                               !.publish = s \in rp.pubs /\ OwedPublish(s),
                               !.csv = s \in rp.csvs /\ OwedCsv(s)]
  /\ UNCHANGED <<journal, outboxes, disk, enabled, cb, rp, writer, sessions,
                 budget>>

ReplayEnds ==
  /\ rp.pc = "pass" /\ job.owner # "replay" /\ ToReplay = {}
  /\ rp' = [rp EXCEPT !.pc = "idle", !.pubs = {}, !.csvs = {}, !.blocked = {}]
  /\ UNCHANGED <<journal, outboxes, disk, enabled, cb, job, writer, sessions,
                 budget>>

-----------------------------------------------------------------------------
(* The surroundings                                                        *)

(* A receiver takes an entry, or the publisher gives it up as dead.        *)
Deliver(k, s) ==
  /\ s \in unsent[k] /\ ev[s].ep \notin Stuck
  /\ k = HttpSink => ev[s].ep \in http
  /\ unsent' = [unsent EXCEPT ![k] = @ \ {s}]
  /\ UNCHANGED <<journal, queued, diverted, disk, enabled, cb, job, rp, writer,
                 sessions, budget>>

EditConfig(e) ==
  /\ budget.edits > 0
  /\ budget' = [budget EXCEPT !.edits = @ - 1]
  /\ enabled' = IF e \in enabled THEN enabled \ {e} ELSE enabled \cup {e}
  /\ UNCHANGED <<journal, outboxes, disk, cb, job, rp, writer, sessions>>

(* A new revision has the supervisor try again what failed.                *)
EditRoute(e) ==
  /\ budget.edits > 0
  /\ budget' = [budget EXCEPT !.edits = @ - 1]
  /\ rerouted' = rerouted \cup {e}
  /\ rp' = [rp EXCEPT !.failed = {}]
  /\ UNCHANGED <<journal, outboxes, disk, enabled, cb, job, writer, desired,
                 configured, active, http>>

(* The process dies and is started again: what was in memory is gone.      *)
Crash ==
  /\ budget.crashes > 0
  /\ budget' = [budget EXCEPT !.crashes = @ - 1]
  /\ cb' = [w \in Workers |-> IdleCallback]
  /\ job' = NoJob /\ rp' = IdleSupervisor
  /\ buf' = [e \in Endpoints |-> <<>>] /\ pre' = [e \in Endpoints |-> <<>>]
  /\ refs' = [s \in Seqs |-> 0] /\ dropped' = {}
  /\ lotOf' = [e \in Endpoints |-> NoBuffer]
  /\ wfail' = [e \in Endpoints |-> FALSE]
  /\ desired' = enabled /\ configured' = {} /\ active' = {}
  /\ http' = {} /\ rerouted' = {}
  /\ UNCHANGED <<journal, outboxes, disk, enabled>>

-----------------------------------------------------------------------------
Publish(k) == Enqueue(k) \/ Divert(k) \/ OutboxFull(k) \/ SinkRaises(k)

DispatchStep ==
  \/ NothingToDo \/ DropUnconfigured \/ Begin
  \/ \E k \in Sinks : Publish(k)
  \/ MarkDispatched \/ MarkRaises \/ ShedAlarm
  \/ CsvSkip \/ CsvLotChanged
  \/ \E n \in 0..MaxSeq : CsvPreLot(n) \/ CsvBuffer(n)
  \/ Release \/ EntryEnds \/ EntryFails \/ EntryJudged

SupervisorStep ==
  \/ NoticeConfig \/ StopUnroutes \/ StopWrites \/ StopReleases \/ StopPops
  \/ \E e \in Endpoints : \/ StartMachine(e) \/ StartFails(e) \/ StopRetire(e)
                          \/ RerouteStops(e)
  \/ RerouteStarts
  \/ ReplayStart \/ ReplayAssemble \/ ClaimReplay \/ ReplayEnds

Next ==
  \/ \E w \in Workers : \/ \E o \in Offers : Enter(w, o)
                       \/ JournalAppend(w) \/ ClaimLive(w)
  \/ DispatchStep \/ SupervisorStep
  \/ \E k \in Sinks, s \in Seqs : Deliver(k, s)
  \/ \E e \in Endpoints : EditConfig(e) \/ EditRoute(e)
  \/ Crash

Spec == Init /\ [][Next]_vars

(* Threads run, and publishers whose receiver answers deliver.  Nothing    *)
(* obliges a tool to send, an operator to edit or a step to fail.          *)
Fairness ==
  /\ \A w \in Workers : WF_vars(JournalAppend(w)) /\ WF_vars(ClaimLive(w))
  /\ WF_vars(DispatchStep) /\ WF_vars(SupervisorStep)
  /\ \A k \in Sinks, s \in Seqs : WF_vars(Deliver(k, s))

FairSpec == Spec /\ Fairness

-----------------------------------------------------------------------------
(* Properties                                                              *)

(* An entry marked dispatched is in the outbox of every publisher it goes  *)
(* to: "queued" is the completion point of dispatch.py:335-339, and the    *)
(* journal never offers the entry again.  Excepted are the entries of a    *)
(* machine whose HTTP publisher was not there; and that it is missing only *)
(* while the machine has no live session, or another route in the file.    *)
DispatchedMeansQueued ==
  /\ \A s \in Seqs : disp[s] = "done" =>
       \A k \in Sinks : k <= SinkCount(ev[s].kind) =>
         s \in queued[k] \/ (k = HttpSink /\ s \in diverted)
  /\ active \subseteq http \cup rerouted

(* The same without the exception, as the comment there has it: "every     *)
(* publisher owns a durable outbox".                                       *)
DispatchedIsDurable ==
  \A s \in Seqs : disp[s] = "done" =>
    \A k \in Sinks : k <= SinkCount(ev[s].kind) => s \in queued[k]

(* A row the journal gave up holding is in a lot file, whatever crash,     *)
(* failed write or flush came between csv_store.py:426 and :478.           *)
CsvDoneMeansOnDisk == \A s \in Seqs : csv[s] = "done" => s \in disk

(* No lot file gets a row twice: a row is in memory once, and only while   *)
(* the journal still owes it (dispatch.py:87-101).  For instances without  *)
(* edits, where no release is refused.                                     *)
HeldOnce ==
  \A s \in Seqs, e \in Endpoints :
    s \in RowSet(buf[e] \o pre[e]) =>
      /\ Occurs(s, buf[e] \o pre[e]) = 1
      /\ csv[s] = "pending"

(* holds() never shadows a row that is not in memory: the replay would     *)
(* pass over it for ever (csv_store.py:361-365).                           *)
HeldIsInMemory ==
  \A s \in Seqs : Held(s) =>
    \E e \in Endpoints : s \in RowSet(buf[e] \o pre[e])

(* A full outbox alone never parks an entry (dispatch.py:159-164).  For    *)
(* instances in which no sink raises and no event is poison.               *)
BackpressureNeverParks ==
  \A s \in Seqs : disp[s] = "dropped" => ev[s].kind = "alarm"

(* A status leaves "pending" once: no thread reopens or overrides what     *)
(* another settled (dispatch.py:81-86, 215-219).  For csv, in instances    *)
(* like those of HeldOnce: journal.py:497 overrides any status.            *)
Settled(old, new) ==
  \A s \in Seqs : old[s] \notin {"absent", "pending"} => new[s] = old[s]
TerminalIsForever == [][Settled(disp, disp') /\ Settled(csv, csv')]_vars

(* Everything journaled is eventually dispatched or dropped, crash or no   *)
(* crash, as long as the receivers answer (dispatch.py:188-190).           *)
EventuallyDispatched ==
  \A s \in Seqs : disp[s] = "pending" ~> disp[s] \in {"done", "dropped"}

(* An entry of a machine whose receivers answer is dispatched even while   *)
(* another machine's outboxes stay full: "a failure holds back only its    *)
(* own machine" (dispatch.py:191-192).                                     *)
OtherMachineUnblocked ==
  \A s \in Seqs : (disp[s] = "pending" /\ ev[s].ep \notin Stuck)
                     ~> disp[s] \in {"done", "dropped"}

(* A row whose lot file could not be written is written later: "the entry  *)
(* stays pending so replay retries it" (journal.py:515).                   *)
FailedWriteRetried ==
  \A s \in Seqs : (csv[s] = "pending" /\ Held(s) /\ wfail[ev[s].ep])
                     ~> csv[s] # "pending"

(* An entry of a machine that is enabled in the configuration is given up  *)
(* only after MaxAttempts failures or by the alarm limiter: the replay at  *)
(* startup finishes what was acknowledged (lifecycle.py:81-84).            *)
DropsOnlyUnconfigured ==
  [][\A s \in Seqs : (disp[s] = "pending" /\ disp'[s] = "dropped") =>
       \/ ev[s].ep \notin enabled \/ attempts[s] >= MaxAttempts
       \/ ev[s].kind = "alarm"]_vars
=============================================================================
