------------------------- MODULE LotAttribution -------------------------
(***************************************************************************)
(* The load port and the lot file of every event: a tool's lots (LotTool), *)
(* the mapper and its job tracker (EventMapper, JobTracker) and the lot    *)
(* CSV writer, across lost links, crashes, clean stops and a full outbox.  *)
(*                                                                         *)
(* The journal is reduced to the entries some sink still owes (the module  *)
(* IngressPipeline models it), the writer to its buffers.  The tracker is  *)
(* memory: a restart loses it, and the startup replay teaches it again     *)
(* only what is still owed.                                                *)
(***************************************************************************)
EXTENDS LotTool, EventMapper

CONSTANTS
  MaxFaults     \* bound: lost links and replies, crashes, clean stops,
                \* refused messages, and events that overtake older ones

ASSUME FaultsAssumption == MaxFaults \in Nat

VARIABLES
  tracker,    \* JobTracker._states of this machine
  owed,       \* journal entries: [ev, publish, csv], what their sinks still owe
  buffers,    \* PerLotCsvWriter._buffers: per port, [lot, rows]
  preLot,     \* _pending_pre_lot: per port, rows without a lot
  service,    \* "down" or "up"
  last,       \* history: the last event attributed, and whether by hearsay
  file,       \* history: the lot file the last dispatch wrote, if it did
  missed,     \* history: ports of whose wafer a report was lost, see Lost
  lingering,  \* history: ports of which no removal was reported
  whole,      \* history: lots of which the middleware can have everything
  overtaken,  \* history: an event came before an older one had been replayed
  faults

hostVars == <<tracker, owed, buffers, preLot, service>>
ghosts   == <<missed, lingering, whole, overtaken>>
history  == <<last, file, ghosts>>
vars == <<toolVars, hostVars, history, faults>>

Keys == MgPorts \cup {"1", "NA"}
NoBuffer == [lot |-> "", rows |-> <<>>]
NoRow  == [given |-> "", true |-> "", sure |-> TRUE]
NoFile == [key |-> "", lot |-> "", rows |-> <<>>, why |-> ""]

(***************************************************************************)
(* PerLotCsvWriter, as operators on w = [buffers, preLot, file].           *)
(***************************************************************************)
HasBuffer(w, key) == w.buffers[key].rows # <<>>

Write(w, key, why) ==
  [buffers |-> [w.buffers EXCEPT ![key] = NoBuffer],
   preLot  |-> w.preLot,
   file    |-> [key |-> key, lot |-> w.buffers[key].lot,
                rows |-> w.buffers[key].rows, why |-> why]]

CsvRow(row) == [lot |-> row.lot, of |-> row.of]

\* buffer.add, on a buffer that takes the pre-lot rows over when it is new.
AddRow(w, key, row) ==
  LET kept == IF HasBuffer(w, key) THEN w.buffers[key].rows ELSE w.preLot[key]
      lot  == IF w.buffers[key].lot # "" THEN w.buffers[key].lot ELSE row.lot
  IN  [buffers |-> [w.buffers EXCEPT ![key] =
                      [lot |-> lot, rows |-> Append(kept, CsvRow(row))]],
       preLot  |-> [w.preLot EXCEPT ![key] = <<>>],
       file    |-> w.file]

\* A row without a lot, of a key that has no buffer yet.
AddPreLot(w, key, row) ==
  [buffers |-> w.buffers,
   preLot  |-> [w.preLot EXCEPT ![key] = Append(@, CsvRow(row))],
   file    |-> w.file]

\* Defect: the rows of the next lot are added to the file of the last one.
AppendRow_lotChangeIgnored(w, row) ==
  LET key == IF row.port = "" THEN "NA" ELSE row.port
  IN  CASE row.type \notin CsvEventTypes -> w
        [] row.type \in CsvEventTypes /\ row.lot = "" /\ ~HasBuffer(w, key) ->
             AddPreLot(w, key, row)
        [] OTHER -> IF row.closes
                    THEN Write(AddRow(w, key, row), key, "carrier_unloaded")
                    ELSE AddRow(w, key, row)

\* _append_locked: a lot's rows wait until it is named, another lot's first
\* named row closes the file, and so does the carrier's departure.
AppendRow(w, row) ==
  LET key == IF row.port = "" THEN "NA" ELSE row.port
      changed == /\ w.buffers[key].lot # "" /\ row.lot # ""
                 /\ w.buffers[key].lot # row.lot
      added == AddRow(IF changed THEN Write(w, key, "lot_changed") ELSE w,
                      key, row)
  IN  CASE row.type \notin CsvEventTypes -> w
        [] row.type \in CsvEventTypes /\ row.lot = "" /\ ~HasBuffer(w, key) ->
             AddPreLot(w, key, row)
        [] OTHER -> IF row.closes THEN Write(added, key, "carrier_unloaded")
                    ELSE added

Writer == [buffers |-> buffers, preLot |-> preLot, file |-> NoFile]

(***************************************************************************)
(* _dispatch_event and the journal's accounting: the mapper runs whatever  *)
(* the sinks owe; publishing fails when the outbox is full, the CSV row   *)
(* is appended nevertheless.  A row is held while it is in memory and done *)
(* once the file that has it is written.                                   *)
(***************************************************************************)
Owing(entries) ==
  Keep(entries, {i \in DOMAIN entries :
                   entries[i].publish \/ entries[i].csv # "done"})

\* The entries after the i-th one was dispatched and a file written, if any.
Accounted(entries, i, type, written, refused) ==
  [j \in DOMAIN entries |->
     [ev      |-> entries[j].ev,
      publish |-> entries[j].publish /\ (j = i => refused),
      csv     |-> IF \E k \in DOMAIN written : written[k].of = entries[j].ev
                  THEN "done"
                  ELSE IF j # i \/ entries[j].csv # "pending"
                  THEN entries[j].csv
                  ELSE IF type \in CsvEventTypes THEN "held" ELSE "done"]]

Dispatch(entries, i, refused) ==
  LET entry  == entries[i]
      mapped == Mapped(tool.kind, tracker, entry.ev)
      row    == mapped.row
      w      == IF entry.csv = "pending" THEN AppendRow(Writer, row) ELSE Writer
  IN  /\ tracker' = mapped.tracker
      /\ buffers' = w.buffers /\ preLot' = w.preLot /\ file' = w.file
      /\ owed' = Owing(Accounted(entries, i, row.type, w.file.rows, refused))
      /\ last' = [given |-> row.port, true |-> entry.ev.port,
                  sure |-> entry.ev.port \notin missed /\ ~overtaken']

Faults(n) == faults + n <= MaxFaults /\ faults' = faults + n
One(happens) == IF happens THEN 1 ELSE 0

(***************************************************************************)
(* Replay: the first entry some sink owes, held rows excepted.  The first  *)
(* pass runs when the sessions have been started (they need not be open),  *)
(* others every few seconds.  A message that is refused ends the pass.     *)
(***************************************************************************)
Unread == {i \in DOMAIN owed : owed[i].csv = "pending"}
Due == Unread \cup {i \in DOMAIN owed : owed[i].publish}
FirstDue == CHOOSE i \in Due : \A j \in Due : i <= j

Replay ==
  /\ service = "up" /\ Due # {}
  /\ UNCHANGED <<toolVars, service, ghosts>>
  /\ \E refused \in BOOLEAN :
        /\ refused => owed[FirstDue].publish
        /\ Dispatch(owed, FirstDue, refused) /\ Faults(One(refused))

\* Journal and dispatch one event the tool sent; what is still due is older.
Overtakes == Due # {} /\ ~overtaken

Receive(p, pm, refused) ==
  /\ overtaken' = (overtaken \/ Overtakes)
  /\ Dispatch(Append(owed, [ev |-> EventOf(p, pm), publish |-> TRUE,
                            csv |-> "pending"]),
              Len(owed) + 1, refused)

(***************************************************************************)
(* What the middleware was told of a port.  An event that it never gets    *)
(* may be the one that moves a wafer into a module or a carrier away; the  *)
(* next report that names module and port tells it again.                  *)
(***************************************************************************)
Telling  == {"pmStepFinished", "pmWaferStarted", "pmWaferFinished"}
Removals == {"portCasRemoved", "CarrierDeparted"}

Told(p) ==
  LET name == Script[lots[p].at]
  IN  /\ missed' = IF name \in Telling THEN missed \ {p} ELSE missed
      /\ lingering' = IF name \in Removals THEN lingering \ {p} ELSE lingering
      /\ whole' = IF Unread = {} THEN whole ELSE {}

Lost(p) ==
  /\ missed' = missed \cup {p}
  /\ lingering' = IF Script[lots[p].at] \in Removals \/ tool.gap = "abandon"
                  THEN lingering \cup {p} ELSE lingering
  /\ whole' = whole \ {p}
  /\ UNCHANGED overtaken

(***************************************************************************)
(* The tool's steps.                                                       *)
(***************************************************************************)
\* A lot can be had whole if nothing of an earlier one is left on its port.
Begin ==
  /\ whole' = {p \in Ports :
                 /\ ~HasBuffer(Writer, p) /\ preLot[p] = <<>>
                 /\ \A i \in Unread : owed[i].ev.port # p}
  /\ UNCHANGED <<hostVars, last, file, missed, lingering, overtaken, faults>>

StartLots == (MgBatch \/ DavinciLot) /\ Begin
Join == MgJoin /\ UNCHANGED <<hostVars, history, faults>>

Deliver(p, pm) ==
  /\ Answered(p, pm) /\ service = "up"
  /\ \E refused \in BOOLEAN : /\ Receive(p, pm, refused)
                              /\ Faults(One(refused) + One(Overtakes))
  /\ Told(p) /\ UNCHANGED service

Filtered(p, pm) ==
  /\ NotSent(p, pm)
  /\ lingering' = IF Script[lots[p].at] \in Removals THEN lingering \cup {p}
                  ELSE lingering
  /\ whole' = whole \ {p}
  /\ UNCHANGED <<hostVars, last, file, missed, overtaken, faults>>

\* The reply is late: the host has the event, the tool gives the lot up.
ReplyLost(p, pm) ==
  /\ linked /\ service = "up" /\ ReadyToFire(p) /\ Sent(p, pm)
  /\ pm \in ModuleOf(p)
  /\ tool.kind = "mg" /\ tool.gap = "abandon" /\ Abandon(p)
  /\ Receive(p, pm, FALSE) /\ Faults(1 + One(Overtakes))
  /\ lingering' = lingering \cup {p}
  /\ whole' = IF Unread = {} THEN whole \ {p} ELSE {}
  /\ UNCHANGED <<missed, service>>

NotHeard(p, pm) ==
  /\ Unanswered(p, pm) /\ Lost(p)
  /\ UNCHANGED <<hostVars, last, file, faults>>

Connect ==
  /\ service = "up" /\ LinkUp
  /\ UNCHANGED <<hostVars, history, faults>>

Start ==
  /\ service = "down" /\ service' = "up"
  /\ UNCHANGED <<toolVars, tracker, owed, buffers, preLot, history, faults>>

(***************************************************************************)
(* Gaps: the link alone, a crash, a clean stop.                            *)
(***************************************************************************)
Disconnect ==
  /\ linked /\ LinkDown
  /\ Faults(1)
  /\ UNCHANGED <<hostVars, history>>

Lose ==
  /\ tracker' = EmptyTracker
  /\ buffers' = [k \in Keys |-> NoBuffer]
  /\ preLot' = [k \in Keys |-> <<>>]
  /\ service' = "down"

\* Defect: rows that were only in memory count as written after a restart.
Forget_heldCountsAsDone(gone) ==
  /\ Lose
  /\ owed' = Owing([i \in DOMAIN owed |->
                      [owed[i] EXCEPT !.csv = IF @ = "held" THEN "done" ELSE @]])

\* What the journal still says of each entry once memory is gone.
Forget(gone) ==
  /\ Lose
  /\ owed' = Owing([i \in DOMAIN owed |->
                      [owed[i] EXCEPT !.csv = IF owed[i].ev \in gone THEN "done"
                                              ELSE IF @ = "held" THEN "pending"
                                              ELSE @]])

Crash ==
  /\ service = "up" /\ LinkDown
  /\ Faults(1)
  /\ Forget({})
  /\ UNCHANGED history

\* stop(): flush_all writes every open buffer; rows without a lot stay owed.
CleanStop ==
  /\ service = "up" /\ LinkDown
  /\ Faults(1)
  /\ Forget(UNION {{buffers[k].rows[i].of : i \in DOMAIN buffers[k].rows} :
                    k \in Keys})
  /\ whole' = {}
  /\ UNCHANGED <<last, file, missed, lingering, overtaken>>

Init ==
  /\ ToolInit
  /\ tracker = EmptyTracker /\ owed = <<>>
  /\ buffers = [k \in Keys |-> NoBuffer] /\ preLot = [k \in Keys |-> <<>>]
  /\ service = "down"
  /\ last = NoRow /\ file = NoFile
  /\ missed = {} /\ lingering = {} /\ whole = {} /\ overtaken = FALSE
  /\ faults = 0

ToolStep ==
  \/ StartLots \/ Join
  \/ \E p \in Ports, pm \in Modules \cup {"NA"} :
        Deliver(p, pm) \/ Filtered(p, pm) \/ ReplyLost(p, pm) \/ NotHeard(p, pm)

HostStep == Start \/ Connect \/ Replay

Fault == Disconnect \/ Crash \/ CleanStop

Next == ToolStep \/ HostStep \/ Fault

Spec == Init /\ [][Next]_vars

-----------------------------------------------------------------------------
(* Properties. *)

LotNames == {LotIds[i] : i \in DOMAIN LotIds}

Event == [name : DOMAIN Profiles[tool.kind], port : Ports,
          pm : Modules \cup {"NA"}, lot : LotNames, nr : Nat]
Row == [lot : LotNames \cup {""}, of : Event]
Entry == [ev : Event, publish : BOOLEAN, csv : {"pending", "held", "done"}]

TypeOK ==
  /\ tool.kind \in {"mg", "davinci"}
  /\ service \in {"down", "up"} /\ linked \in BOOLEAN
  /\ main \in {"waiting", "lots"} /\ started \in Nat
  /\ lots \in [MgPorts \cup {"1"} ->
                [at : Nat, lot : Nat, pm : Modules \cup {"NA"}]]
  /\ PortsKnown(tracker) \subseteq Ports
  /\ owed \in Seq(Entry)
  /\ buffers \in [Keys -> [lot : LotNames \cup {""}, rows : Seq(Row)]]
  /\ preLot \in [Keys -> Seq(Row)]
  /\ {missed, lingering, whole} \subseteq SUBSET Ports
  /\ overtaken \in BOOLEAN /\ faults \in 0 .. MaxFaults

\* A port is never a guess: an event is attributed to the port its carrier is
\* on or to none at all, through concurrent lots in shared modules, refused
\* bands, lost links and restarts, except while a report of the wafer in that
\* module was lost (job_tracker.py:346-351, "a confidently wrong load port is
\* worse than an empty one").
AttributionSound ==
  last.sure => last.given \in {"", last.true}

\* No lot file mixes carriers: its rows come from the port it is of, and the
\* rows that name a lot name the file's (job_tracker.py:8, "so the per-lot CSV
\* doesn't mix LP1 and LP2 wafers into one file").
FilesDoNotMix ==
  \A i \in DOMAIN file.rows :
     /\ file.key \in {"NA", file.rows[i].of.port}
     /\ file.rows[i].lot \in {"", file.lot}

\* What the lot file of a carrier must hold: the events of its lot that have a
\* row and that the mapper can tie to a port.
RowsDue ==
  SelectSeq(Script, LAMBDA name :
    LET entry == Profiles[tool.kind][name]
    IN  /\ entry.type \in CsvEventTypes \ {"unmounted"}
        /\ "job" \notin entry.layout)

\* A lot of which every event was received is in one file, every row once
\* and in order, whatever crashed in between (csv_store.py, journal replay).
WholeLotInOneFile ==
  [][file' # file /\ file'.why = "carrier_unloaded" /\ file'.key \in whole' =>
       LET own == SelectSeq(file'.rows, LAMBDA row : row.of.lot = file'.lot)
       IN  [i \in DOMAIN own |-> own[i].of.name] = RowsDue]_vars

\* A carrier that has left owns nothing: the tracker refers to a port only
\* while a carrier of which it was told is on it (job_tracker.py:119-127).
DepartedForgotten ==
  Due = {} /\ ~overtaken =>
    PortsKnown(tracker) \subseteq
      lingering \cup {p \in Ports : lots[p].at > 1 /\ ~Finished(p)}
=============================================================================
