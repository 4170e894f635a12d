---------------------------- MODULE OperatorPanel ----------------------------
(* The configuration file between the people who edit it and the service    *)
(* that follows it: the control panel (gui/app.py, gui/model.py) with its   *)
(* form and its table, another program that writes the same file, the       *)
(* service's supervisor (service/control_plane.py) that reloads it, the     *)
(* inbox of command files, and the processes that may run the service: the  *)
(* panel itself or the installed one, one at a time by single_instance.py.  *)
(*                                                                          *)
(* A revision is the hash of the bytes of the file: here the content stands *)
(* for it.  The Tk handlers run one at a time; what they interleave with is *)
(* every file operation of the others, and the panel's worker thread.       *)
EXTENDS Configuration

CONSTANTS
    Original,    \* the content the file starts with
    HandEdits,   \* contents another program may write over it
    Fresh,       \* the machines "Add" and "Duplicate" may come up with
    None,        \* no content, no process
    MaxRows, MaxClicks, MaxHand, MaxStarts, MaxCommands

Processes == {"panel", "service"}
ASSUME NoneAssumption == None \notin Processes

Texts  == {Original} \cup HandEdits
IdsOf(c) == {c.machines[i].id : i \in DOMAIN c.machines}
Ids == UNION {IdsOf(c) : c \in Texts} \cup {m.id : m \in Fresh}

(* A content is a list of entries; one that is no mapping in the file says  *)
(* so in its shape, and has a name and a flag all the same.                 *)
IsEntry(m) == {"id", "enabled"} \subseteq DOMAIN m /\ m.id \in Ids
IsText(c)  == /\ "machines" \in DOMAIN c /\ c.machines \in Seq(Range(c.machines))
              /\ \A i \in DOMAIN c.machines : IsEntry(c.machines[i])
ASSUME TextAssumption == (\A c \in Texts : IsText(c)) /\ (\A m \in Fresh : IsEntry(m))

VARIABLES
    file,      \* the content of production.yaml
    hand,      \* how many hand edits there were
    ui,        \* what the panel's handler is doing
    raw,       \* App.raw: the configuration being edited
    seen,      \* App.loaded_revision
    pending,   \* App.pending_revision
    sel,       \* App.selected_row, 0 when None
    form,      \* the machine form: its checkbox "Enabled", and whether a
               \* field holds something that does not parse
    clicks,    \* how many times the operator did something
    owned,     \* App._service is not None
    busy,      \* App._service_busy
    svc,       \* the service in each process
    lock,      \* who holds the file that is named middleware.lock
    orphan,    \* what runs in the panel's process and has no handle left
    starts,    \* how many times a service was started
    status,    \* runtime_status.json: its revision, its answers, whether it
               \* is younger than SERVICE_STALE_AFTER_SEC
    inbox,     \* the command files
    asked,     \* App.pending_commands
    base,      \* history: the text the panel last read or wrote
    want,      \* history: what the operator last asked of each machine
    unlinked,  \* history: a held lock file was taken away by its name
    late,      \* history: the file changed inside a window of the panel
    overwrote  \* history: a save replaced a text the panel never read

panelVars == <<ui, raw, seen, pending, sel, form>>
ghosts    == <<base, want, late, overwrote>>
lockVars  == <<lock, unlinked, orphan>>
svcVars   == <<svc, lockVars, starts>>
vars == <<file, hand, panelVars, clicks, owned, busy, svcVars, status, inbox, asked, ghosts>>

Idle == [st |-> "off", cfg |-> None, rev |-> None, read |-> None,
         sup |-> "idle", taken |-> {}, answers |-> {}, raced |-> FALSE, torn |-> FALSE]

----------------------------------------------------------------------------
(* The rows and the form.                                                   *)

(* The row as the table shows it, and as the checkbox of the form shows it: *)
(* for a key that is not there the one says yes, the other no.              *)
RowShows(m)  == Enabled(m)
BoxShows(m)  == m.enabled = "yes"
FormOf(r, i) == [on |-> i # 0 /\ i <= Len(r.machines) /\ BoxShows(r.machines[i]), bad |-> FALSE]

Flag(on) == IF on THEN "yes" ELSE "no"

(* The selected row taken back out of the form.                             *)
Collected == IF sel = 0 THEN raw ELSE [raw EXCEPT !.machines[sel].enabled = Flag(form.on)]

(* Defect: the flag goes to the row and not to the checkbox.                *)
ApplyEnabled_rowOnly(r, rows, on) ==
    /\ raw' = [r EXCEPT !.machines = [i \in DOMAIN r.machines |->
          IF i \in rows THEN [r.machines[i] EXCEPT !.enabled = Flag(on)] ELSE r.machines[i]]]
    /\ form' = form

(* Enabled or disabled, in the row and, for the selected one, in the form.  *)
WithEnabled(r, rows, on) ==
    [r EXCEPT !.machines = [i \in DOMAIN r.machines |->
        IF i \in rows THEN [r.machines[i] EXCEPT !.enabled = Flag(on)] ELSE r.machines[i]]]
ApplyEnabled(r, rows, on) ==
    /\ raw' = WithEnabled(r, rows, on)
    /\ form' = IF sel \in rows THEN [form EXCEPT !.on = on] ELSE form

(* The lock once a process has let its own go, or has ended.                *)
LockWithout(p) == IF lock = p THEN None ELSE lock

Click == clicks < MaxClicks /\ clicks' = clicks + 1
Ready == ui = "ready"

(* Defect: the revision of the file is not looked at.                       *)
SaveOf_unchecked(r, after) ==
    IF Outcome(r) = "loaded" THEN ui' = after ELSE UNCHANGED ui

(* The second half of _save, once the forms are in r and r is valid: the    *)
(* file must be the one that was loaded.  What comes after a save that is   *)
(* done is kept with it.                                                    *)
SaveOf(r, after) ==
    IF Outcome(r) = "loaded" /\ file = seen THEN ui' = after ELSE UNCHANGED ui

Asked(rows, on) ==
    want' = [id \in Ids |-> IF \E i \in rows : raw.machines[i].id = id THEN Flag(on)
                            ELSE want[id]]
Withdrawn(rows) ==
    want' = [id \in Ids |-> IF \E i \in rows : raw.machines[i].id = id THEN "any"
                            ELSE want[id]]

----------------------------------------------------------------------------
(* The panel opens a file: its text, and then its revision.                 *)

OpenText ==
    /\ ui \in {"ready", "closed"} /\ Click
    /\ file.shape = "mapping"
    /\ \A i \in DOMAIN file.machines : file.machines[i].shape # "scalar"
    /\ raw' = file /\ base' = file /\ ui' = "loading"
    /\ want' = [id \in Ids |-> "any"]
    /\ UNCHANGED <<file, hand, seen, pending, sel, form, owned, busy, svcVars, status,
                   inbox, asked, late, overwrote>>

OpenRevision ==
    /\ ui = "loading" /\ ui' = "ready"
    /\ seen' = file
    /\ sel' = IF raw.machines = <<>> THEN 0 ELSE 1
    /\ form' = FormOf(raw, sel')
    /\ UNCHANGED <<file, hand, raw, pending, clicks, owned, busy, svcVars, status, inbox,
                   asked, ghosts>>

(* The operator works on the form: ticks the box, or leaves a value that    *)
(* does not parse, or mends it.                                             *)
Tick ==
    /\ Ready /\ sel # 0 /\ Click
    /\ form' = [form EXCEPT !.on = ~form.on]
    /\ Asked({sel}, ~form.on)
    /\ UNCHANGED <<file, hand, ui, raw, seen, pending, sel, owned, busy, svcVars, status,
                   inbox, asked, base, late, overwrote>>

Type ==
    /\ Ready /\ sel # 0 /\ Click
    /\ form' = [form EXCEPT !.bad = ~form.bad]
    /\ UNCHANGED <<file, hand, ui, raw, seen, pending, sel, owned, busy, svcVars, status,
                   inbox, asked, ghosts>>

(* Another row: the form of the last one is collected first, and while it   *)
(* does not parse the selection stays where it was.                         *)
Select(i) ==
    /\ Ready /\ i \in DOMAIN raw.machines /\ i # sel /\ ~form.bad /\ Click
    /\ raw' = Collected /\ sel' = i /\ form' = FormOf(Collected, i)
    /\ UNCHANGED <<file, hand, ui, seen, pending, owned, busy, svcVars, status, inbox,
                   asked, ghosts>>

(* A new row, or a copy of the selected one under a fresh name: disabled,   *)
(* with an identifier and a port nobody has.                                *)
Add(m) ==
    /\ Ready /\ ~form.bad /\ Click
    /\ Len(raw.machines) < MaxRows
    /\ \A i \in DOMAIN raw.machines : raw.machines[i].id # m.id /\ raw.machines[i].port # m.port
    /\ \E copied \in {FALSE} \cup {c \in {TRUE} : sel # 0} :
          LET row == IF copied THEN [Collected.machines[sel] EXCEPT !.id = m.id,
                                        !.name = m.name, !.port = m.port, !.enabled = "no"]
                               ELSE m
          IN  raw' = [Collected EXCEPT !.machines = Append(@, row)]
    /\ sel' = Len(raw'.machines) /\ form' = FormOf(raw', sel')
    /\ want' = [want EXCEPT ![m.id] = "any"]
    /\ UNCHANGED <<file, hand, ui, seen, pending, owned, busy, svcVars, status, inbox,
                   asked, base, late, overwrote>>

(* The selected row goes; the form is not collected first, and shows the    *)
(* first row next.                                                          *)
Remove ==
    /\ Ready /\ sel # 0 /\ Click
    /\ raw' = [raw EXCEPT !.machines = [i \in 1..(Len(@) - 1) |-> IF i < sel THEN @[i] ELSE @[i + 1]]]
    /\ sel' = IF raw'.machines = <<>> THEN 0 ELSE 1
    /\ form' = FormOf(raw', sel')
    /\ want' = [want EXCEPT ![raw.machines[sel].id] = "any"]
    /\ UNCHANGED <<file, hand, ui, seen, pending, owned, busy, svcVars, status, inbox,
                   asked, base, late, overwrote>>

(* "Save": the forms are collected whatever comes of it.                    *)
Save ==
    /\ Ready /\ ~form.bad /\ Click
    /\ raw' = Collected /\ SaveOf(Collected, "saving")
    /\ UNCHANGED <<file, hand, seen, pending, sel, form, owned, busy, svcVars, status,
                   inbox, asked, ghosts>>

(* "Enable", "Disable" and their forms for all machines.  Enabling asks for *)
(* a valid configuration and a writable folder first, and takes the flag    *)
(* back when there is none.                                                 *)
SetEnabled(rows, on) ==
    LET r == WithEnabled(Collected, rows, on)
    IN  \/ /\ Asked(rows, on)
           /\ ~on \/ Outcome(r) = "loaded"
           /\ ApplyEnabled(Collected, rows, on)
           /\ SaveOf(r, "saving")
        \/ /\ on /\ Withdrawn(rows)
           /\ ApplyEnabled(Collected, rows, FALSE)
           /\ UNCHANGED ui

EnableSelected(on) ==
    /\ Ready /\ sel # 0 /\ ~form.bad /\ Click
    /\ SetEnabled({sel}, on)
    /\ UNCHANGED <<file, hand, seen, pending, sel, owned, busy, svcVars, status, inbox,
                   asked, base, late, overwrote>>

EnableAll(on) ==
    /\ Ready /\ ~form.bad /\ Click
    /\ LET affected == {i \in DOMAIN raw.machines : Enabled(Collected.machines[i]) # on}
       IN  affected # {} /\ SetEnabled(affected, on)
    /\ UNCHANGED <<file, hand, seen, pending, sel, owned, busy, svcVars, status, inbox,
                   asked, base, late, overwrote>>

(* The replacement itself; between the comparison and here the file is      *)
(* anybody's.  With "run" the service is started next, on a thread of its   *)
(* own, unless a check of folders or simulators fails first.                *)
Replace ==
    /\ ui \in {"saving", "run"} /\ ui' = "ready"
    /\ overwrote' = (overwrote \/ file # base)
    /\ file' = raw /\ seen' = raw /\ pending' = raw /\ base' = raw
    /\ \/ UNCHANGED <<busy, svc, starts>>
       \/ /\ ui = "run" /\ starts < MaxStarts /\ starts' = starts + 1
          /\ busy' = "starting"
          /\ svc' = [svc EXCEPT !["panel"] = [Idle EXCEPT !.st = "loaded", !.cfg = raw]]
    /\ UNCHANGED <<hand, raw, sel, form, clicks, owned, lockVars, status, inbox, asked, want, late>>

(* The file cannot be written: nothing is saved and nothing started.        *)
ReplaceFails ==
    /\ ui \in {"saving", "run"} /\ ui' = "ready"
    /\ UNCHANGED <<file, hand, raw, seen, pending, sel, form, clicks, owned, busy, svcVars,
                   status, inbox, asked, ghosts>>

(* "Run service here": offered while no service is known of.                *)
RunHere ==
    /\ Ready /\ ~owned /\ busy = "" /\ ~status.live /\ ~form.bad /\ Click
    /\ raw' = Collected /\ SaveOf(Collected, "run")
    /\ UNCHANGED <<file, hand, seen, pending, sel, form, owned, busy, svcVars, status,
                   inbox, asked, ghosts>>

(* "Stop service", or once more for one that did not stop all the way.      *)
StopHere ==
    /\ ui \in {"ready", "leaving"} /\ owned /\ busy = ""
    /\ busy' = "stopping"
    /\ svc' = [svc EXCEPT !["panel"].st = IF @ = "halted" THEN "halting" ELSE "stopping",
                          !["panel"].sup = "idle", !["panel"].taken = {}]
    /\ IF ui = "ready" THEN Click ELSE UNCHANGED clicks
    /\ UNCHANGED <<file, hand, panelVars, owned, lockVars, starts, status, inbox, asked, ghosts>>

(* The once-a-second look at the status file: is the revision that was      *)
(* saved the one the service names, and which commands are answered.        *)
Poll ==
    /\ Ready
    /\ pending' = IF pending = status.rev \/ ~(status.live \/ owned) THEN None ELSE pending
    /\ asked' = asked \ status.answers
    /\ <<pending, asked>> # <<pending', asked'>>
    /\ UNCHANGED <<file, hand, ui, raw, seen, sel, form, clicks, owned, busy, svcVars,
                   status, inbox, ghosts>>

(* A command file for the selected machine, whether or not a service runs.  *)
Submit(c) ==
    /\ Ready /\ sel # 0 /\ ~form.bad /\ Click
    /\ c \notin inbox \cup asked /\ c \notin status.answers
    /\ \A p \in Processes : c \notin svc[p].taken \cup svc[p].answers
    /\ raw' = Collected
    /\ inbox' = inbox \cup {c} /\ asked' = asked \cup {c}
    /\ UNCHANGED <<file, hand, ui, seen, pending, sel, form, owned, busy, svcVars, status, ghosts>>

(* The window closes: at once when it owns nothing, else when the service   *)
(* has started or stopped, or after twenty seconds, and what still runs     *)
(* ends with the process.                                                   *)
Close ==
    /\ ui = "ready" /\ Click
    /\ ui' = "leaving"
    /\ UNCHANGED <<file, hand, raw, seen, pending, sel, form, owned, busy, svcVars, status,
                   inbox, asked, ghosts>>

Destroy ==
    /\ ui = "leaving"
    /\ ui' = "closed" /\ owned' = FALSE /\ busy' = ""
    /\ raw' = None /\ seen' = None /\ pending' = None /\ asked' = {}
    /\ sel' = 0 /\ form' = [on |-> FALSE, bad |-> FALSE]
    /\ base' = None /\ want' = [id \in Ids |-> "any"]
    /\ svc' = [svc EXCEPT !["panel"] = Idle]
    /\ lock' = LockWithout("panel") /\ orphan' = FALSE
    /\ UNCHANGED <<file, hand, clicks, starts, status, inbox, unlinked, late, overwrote>>

----------------------------------------------------------------------------
(* Another program writes the file.                                         *)
HandEdit(c) ==
    /\ hand < MaxHand /\ hand' = hand + 1
    /\ c # file /\ file' = c
    /\ late' = (late \/ ui \in {"loading", "saving", "run"})
    /\ UNCHANGED <<panelVars, clicks, owned, busy, svcVars, status, inbox, asked, base, want,
                   overwrote>>

----------------------------------------------------------------------------
(* The service in a process.                                                *)

(* The installed service reads the file; one that does not load ends it.    *)
BeginService ==
    /\ svc["service"].st = "off" /\ starts < MaxStarts /\ starts' = starts + 1
    /\ Outcome(file) = "loaded"
    /\ svc' = [svc EXCEPT !["service"] = [Idle EXCEPT !.st = "loaded", !.cfg = file]]
    /\ UNCHANGED <<file, hand, panelVars, clicks, owned, busy, lockVars, status, inbox, asked, ghosts>>

(* The constructor notes the revision of the file as it is by then.         *)
Construct(p) ==
    /\ svc[p].st = "loaded"
    /\ svc' = [svc EXCEPT ![p].st = "made", ![p].rev = file, ![p].raced = (file # svc[p].cfg)]
    /\ UNCHANGED <<file, hand, panelVars, clicks, owned, busy, lockVars, starts, status, inbox,
                   asked, ghosts>>

(* Defect: the handle is dropped even when stop() raised.                   *)
ThreadEnds_handleDropped(p, kept) ==
    IF p = "panel" THEN owned' = (kept /\ busy = "starting") /\ busy' = ""
    ELSE UNCHANGED <<owned, busy>>

(* The panel's thread is done with its service, one way or the other.       *)
ThreadEnds(p, kept) ==
    IF p = "panel" THEN owned' = kept /\ busy' = "" ELSE UNCHANGED <<owned, busy>>

StatusOf(p) == [rev |-> svc[p].rev, answers |-> svc[p].answers, live |-> TRUE]

(* start() takes the lock before anything else ...                          *)
Acquire(p) ==
    /\ svc[p].st = "made" /\ lock = None
    /\ lock' = p /\ svc' = [svc EXCEPT ![p].st = "starting"]
    /\ UNCHANGED <<file, hand, panelVars, clicks, owned, busy, starts, status, inbox, asked,
                   unlinked, orphan, ghosts>>

(* ... and fails when another process has it.  The panel still stops what   *)
(* it could not start, which writes a status file of its own if it can.     *)
Refused(p) ==
    /\ svc[p].st = "made" /\ lock # None
    /\ svc' = [svc EXCEPT ![p] = Idle]
    /\ ThreadEnds(p, FALSE)
    /\ status' \in {status} \cup {StatusOf(q) : q \in {p} \cap {"panel"}}
    /\ UNCHANGED <<file, hand, panelVars, clicks, lockVars, starts, inbox, asked, ghosts>>

Started(p) ==
    /\ svc[p].st = "starting"
    /\ svc' = [svc EXCEPT ![p].st = "up"]
    /\ ThreadEnds(p, TRUE)
    /\ UNCHANGED <<file, hand, panelVars, clicks, lockVars, starts, status, inbox, asked, ghosts>>

(* A later step of start() raises, and start() calls stop() itself.         *)
StartFails(p) ==
    /\ svc[p].st = "starting"
    /\ svc' = [svc EXCEPT ![p].st = "unwinding"]
    /\ UNCHANGED <<file, hand, panelVars, clicks, owned, busy, lockVars, starts, status, inbox,
                   asked, ghosts>>

(* That raises as well, with machines still connected or threads running:   *)
(* the lock goes all the same ...                                           *)
UnwindFails(p) ==
    /\ svc[p].st = "unwinding"
    /\ lock' = LockWithout(p)
    /\ svc' = [svc EXCEPT ![p].st = IF lock = p THEN "undone" ELSE "bare"]
    /\ UNCHANGED <<file, hand, panelVars, clicks, owned, busy, starts, status, inbox, asked,
                   unlinked, orphan, ghosts>>

(* A lock file goes by its name after it was unlocked: by then another      *)
(* process may hold it, and, where a file in use can be removed, keeps a    *)
(* lock that nobody meets any more.                                         *)
Unlink(p) ==
    IF lock \in {None, p} THEN UNCHANGED <<lock, unlinked>>
    ELSE lock' \in {None, lock} /\ unlinked' = (unlinked \/ lock' # lock)

(* ... the installed service ends with its process, and the panel stops it  *)
(* once more; when that raises too it drops the handle nevertheless.        *)
Undone(p) ==
    /\ svc[p].st \in {"undone", "bare"}
    /\ IF svc[p].st = "undone" THEN Unlink(p) ELSE UNCHANGED <<lock, unlinked>>
    /\ svc' = [svc EXCEPT ![p] = Idle]
    /\ ThreadEnds(p, FALSE)
    /\ \/ p = "panel" /\ status' \in {status, StatusOf(p)} /\ orphan' = orphan
       \/ p = "panel" /\ status' = status /\ orphan' = TRUE
       \/ p = "service" /\ UNCHANGED <<status, orphan>>
    /\ UNCHANGED <<file, hand, panelVars, clicks, starts, inbox, asked, ghosts>>

(* The supervisor: the revision first, the text after it; an error of the   *)
(* configuration leaves both as they were, any other ends the thread.  An   *)
(* error on the way of applying a text leaves the new text under the old    *)
(* revision: one of the system is taken for a refused text and tried again. *)
ReadRevision(p) ==
    /\ svc[p].st = "up" /\ svc[p].sup = "idle" /\ file # svc[p].rev
    /\ svc' = [svc EXCEPT ![p].read = file, ![p].sup = "loading"]
    /\ UNCHANGED <<file, hand, panelVars, clicks, owned, busy, lockVars, starts, status, inbox,
                   asked, ghosts>>

(* Reading the revision is outside every handler: an error of it ends the   *)
(* thread.                                                                  *)
RevisionFails(p) ==
    /\ svc[p].st = "up" /\ svc[p].sup = "idle"
    /\ svc' = [svc EXCEPT ![p].sup = "dead"]
    /\ UNCHANGED <<file, hand, panelVars, clicks, owned, busy, lockVars, starts, status, inbox,
                   asked, ghosts>>

(* Defect: a revision that was refused is remembered as the running one.    *)
Reload_refusedRemembered(p) ==
    /\ svc[p].st = "up" /\ svc[p].sup = "loading"
    /\ \/ /\ Outcome(file) = "loaded"
          /\ svc' = [svc EXCEPT ![p].sup = "idle", ![p].cfg = file, ![p].rev = svc[p].read,
                                ![p].read = None, ![p].raced = (file # svc[p].read),
                                ![p].torn = FALSE]
       \/ /\ Outcome(file) = "refused"
          /\ svc' = [svc EXCEPT ![p].sup = "idle", ![p].rev = svc[p].read, ![p].read = None]
       \/ /\ Outcome(file) = "raises"
          /\ svc' = [svc EXCEPT ![p].sup = "dead", ![p].read = None]
    /\ UNCHANGED <<file, hand, panelVars, clicks, owned, busy, lockVars, starts, status, inbox,
                   asked, ghosts>>

Reload(p) ==
    /\ svc[p].st = "up" /\ svc[p].sup = "loading"
    /\ \/ /\ Outcome(file) = "loaded"
          /\ svc' = [svc EXCEPT ![p].sup = "idle", ![p].cfg = file, ![p].rev = svc[p].read,
                                ![p].read = None, ![p].raced = (file # svc[p].read),
                                ![p].torn = FALSE]
       \/ /\ Outcome(file) = "refused"
          /\ svc' = [svc EXCEPT ![p].sup = "idle", ![p].read = None]
       \/ /\ Outcome(file) = "raises"
          /\ svc' = [svc EXCEPT ![p].sup = "dead", ![p].read = None]
       \/ /\ Outcome(file) = "loaded"
          /\ \E next \in {"idle", "dead"} :
                svc' = [svc EXCEPT ![p].sup = next, ![p].cfg = file, ![p].read = None,
                                   ![p].torn = TRUE]
    /\ UNCHANGED <<file, hand, panelVars, clicks, owned, busy, lockVars, starts, status, inbox,
                   asked, ghosts>>

(* The command files are read and removed together, then worked on.         *)
Consume(p) ==
    /\ svc[p].st = "up" /\ svc[p].sup = "idle" /\ inbox # {}
    /\ svc' = [svc EXCEPT ![p].taken = inbox, ![p].sup = "commands"]
    /\ inbox' = {}
    /\ UNCHANGED <<file, hand, panelVars, clicks, owned, busy, lockVars, starts, status, asked, ghosts>>

(* Defect: the loop waits for one more command when the last is done.       *)
Process_waitsForMore(p) ==
    /\ svc[p].st = "up" /\ svc[p].sup = "commands" /\ svc[p].taken # {}
    /\ \E c \in svc[p].taken :
          svc' = [svc EXCEPT ![p].taken = @ \ {c}, ![p].answers = @ \cup {c}]
    /\ UNCHANGED <<file, hand, panelVars, clicks, owned, busy, lockVars, starts, status, inbox,
                   asked, ghosts>>

Process(p) ==
    /\ svc[p].st = "up" /\ svc[p].sup = "commands"
    /\ IF svc[p].taken = {}
       THEN svc' = [svc EXCEPT ![p].sup = "idle"]
       ELSE \E c \in svc[p].taken :
               svc' = [svc EXCEPT ![p].taken = @ \ {c}, ![p].answers = @ \cup {c}]
    /\ UNCHANGED <<file, hand, panelVars, clicks, owned, busy, lockVars, starts, status, inbox,
                   asked, ghosts>>

WriteStatus(p) ==
    /\ svc[p].st = "up" /\ svc[p].sup = "idle"
    /\ status # StatusOf(p) /\ status' = StatusOf(p)
    /\ UNCHANGED <<file, hand, panelVars, clicks, owned, busy, svcVars, inbox, asked, ghosts>>

(* Two minutes without a supervisor to write it.                            *)
GoesStale ==
    /\ status.live
    /\ \A p \in Processes : svc[p].st = "up" => svc[p].sup = "dead"
    /\ status' = [status EXCEPT !.live = FALSE]
    /\ UNCHANGED <<file, hand, panelVars, clicks, owned, busy, svcVars, inbox, asked, ghosts>>

StopService ==
    /\ svc["service"].st = "up"
    /\ svc' = [svc EXCEPT !["service"].st = "stopping", !["service"].sup = "idle",
                          !["service"].taken = {}]
    /\ UNCHANGED <<file, hand, panelVars, clicks, owned, busy, lockVars, starts, status, inbox,
                   asked, ghosts>>

(* stop() lets the lock go last of all that runs ...                        *)
Unlock(p) ==
    /\ svc[p].st \in {"stopping", "unwinding"}
    /\ lock' = LockWithout(p)
    /\ svc' = [svc EXCEPT ![p].st = IF lock = p THEN "unlinking" ELSE "halting"]
    /\ UNCHANGED <<file, hand, panelVars, clicks, owned, busy, starts, status, inbox, asked,
                   unlinked, orphan, ghosts>>

(* ... removes its file, and writes the last status.  Where that fails the  *)
(* panel keeps what it was asked to stop, to stop it again.                 *)
Stopped(p) ==
    /\ svc[p].st \in {"unlinking", "halting"}
    /\ IF svc[p].st = "unlinking" THEN Unlink(p) ELSE UNCHANGED <<lock, unlinked>>
    /\ \/ /\ status' = StatusOf(p)
          /\ svc' = [svc EXCEPT ![p] = Idle] /\ ThreadEnds(p, FALSE)
       \/ /\ status' = status
          /\ IF p = "panel" /\ busy = "stopping"
             THEN svc' = [svc EXCEPT ![p].st = "halted"] /\ ThreadEnds(p, TRUE)
             ELSE svc' = [svc EXCEPT ![p] = Idle] /\ ThreadEnds(p, FALSE)
    /\ UNCHANGED <<file, hand, panelVars, clicks, starts, orphan, inbox, asked, ghosts>>

(* stop() raises before that.  The installed service ends with its process; *)
(* the panel keeps the half-stopped one, to stop it again.                  *)
StopFails(p) ==
    /\ svc[p].st = "stopping"
    /\ ThreadEnds(p, TRUE)
    /\ IF p = "panel"
       THEN svc' = [svc EXCEPT ![p].st = "half"] /\ lock' = lock
       ELSE svc' = [svc EXCEPT ![p] = Idle] /\ lock' = LockWithout(p)
    /\ UNCHANGED <<file, hand, panelVars, clicks, starts, status, inbox, asked, unlinked, orphan,
                   ghosts>>

(* The installed service is killed; the system lets its lock go.            *)
Crash ==
    /\ svc["service"].st # "off"
    /\ svc' = [svc EXCEPT !["service"] = Idle]
    /\ lock' = LockWithout("service")
    /\ UNCHANGED <<file, hand, panelVars, clicks, owned, busy, starts, status, inbox, asked,
                   unlinked, orphan, ghosts>>

----------------------------------------------------------------------------
Init ==
    /\ file = Original /\ hand = 0
    /\ ui = "closed" /\ raw = None /\ seen = None /\ pending = None
    /\ sel = 0 /\ form = [on |-> FALSE, bad |-> FALSE]
    /\ clicks = 0 /\ owned = FALSE /\ busy = ""
    /\ svc = [p \in Processes |-> Idle] /\ lock = None /\ starts = 0
    /\ unlinked = FALSE /\ orphan = FALSE
    /\ status = [rev |-> None, answers |-> {}, live |-> FALSE]
    /\ inbox = {} /\ asked = {}
    /\ base = None /\ want = [id \in Ids |-> "any"] /\ late = FALSE /\ overwrote = FALSE

Panel ==
    \/ OpenText \/ OpenRevision \/ Tick \/ Type \/ Remove
    \/ \E i \in 1..MaxRows : Select(i)
    \/ \E m \in Fresh : Add(m)
    \/ Save \/ \E on \in BOOLEAN : EnableSelected(on) \/ EnableAll(on)
    \/ Replace \/ ReplaceFails \/ RunHere \/ StopHere \/ Poll
    \/ \E c \in 1..MaxCommands : Submit(c)
    \/ Close \/ Destroy

Service(p) ==
    \/ Construct(p) \/ Acquire(p) \/ Refused(p) \/ Started(p) \/ StartFails(p)
    \/ UnwindFails(p) \/ Undone(p)
    \/ ReadRevision(p) \/ RevisionFails(p) \/ Reload(p) \/ Consume(p) \/ Process(p)
    \/ WriteStatus(p) \/ Unlock(p) \/ Stopped(p) \/ StopFails(p)

Next ==
    \/ Panel
    \/ \E c \in HandEdits : HandEdit(c)
    \/ BeginService \/ StopService \/ Crash \/ GoesStale
    \/ \E p \in Processes : Service(p)

(* The supervisor's loop turns four times a second as long as its thread    *)
(* lives; nobody has to click, and a service need not stop.                 *)
Supervised(p) == ReadRevision(p) \/ Reload(p) \/ Process(p)

Spec     == Init /\ [][Next]_vars
FairSpec == Spec /\ \A p \in Processes : WF_vars(Supervised(p))

----------------------------------------------------------------------------
TypeOK ==
    /\ ui \in {"closed", "loading", "ready", "saving", "run", "leaving"}
    /\ (ui \in {"loading", "ready", "saving", "run"}) => sel \in 0..Len(raw.machines)
    /\ form \in [on : BOOLEAN, bad : BOOLEAN]
    /\ hand \in 0..MaxHand /\ clicks \in 0..MaxClicks /\ starts \in 0..MaxStarts
    /\ owned \in BOOLEAN /\ busy \in {"", "starting", "stopping"}
    /\ lock \in Processes \cup {None}
    /\ \A p \in Processes :
          /\ svc[p].st \in {"off", "loaded", "made", "starting", "up", "stopping", "half",
                           "unwinding", "undone", "bare", "unlinking", "halting", "halted"}
          /\ svc[p].sup \in {"idle", "loading", "commands", "dead"}
    /\ inbox \subseteq 1..MaxCommands /\ asked \subseteq 1..MaxCommands
    /\ want \in [Ids -> {"any", "yes", "no"}]
    /\ {unlinked, orphan, late, overwrote} \subseteq BOOLEAN

(* A save never throws away what another program wrote and the panel never  *)
(* read, unless it was written in the moment between the comparison of      *)
(* revisions and the replacement, or between the reading of the text and of *)
(* its revision (control.py 69-93, gui/app.py 578-598).                     *)
NoEditDiscarded == overwrote => late

(* What goes to the file has every machine the operator switched, on its    *)
(* row, in its form or with the rest, as it was asked for last: the flag    *)
(* lives in the row and in the checkbox, and saving collects the checkbox   *)
(* over the row.                                                            *)
EnabledAsAsked ==
    ui \in {"saving", "run"} =>
        \A i \in DOMAIN raw.machines :
            want[raw.machines[i].id] # "any" =>
                RowShows(raw.machines[i]) = (want[raw.machines[i].id] = "yes")

(* The revision a running service names is that of the configuration it     *)
(* runs, which is what "configuration applied by service" stands on, unless *)
(* the file changed between the reading of its revision and of its text, or *)
(* applying the text raised half way (service/control_plane.py 165-185).    *)
AppliedMeansRunning ==
    \A p \in Processes :
        svc[p].st = "up" /\ ~svc[p].raced /\ ~svc[p].torn => svc[p].rev = svc[p].cfg

(* Where all or a part of a service runs and its lock is not let go yet.    *)
Holding == {"starting", "up", "unwinding", "stopping", "half"}

(* Only the holder of the lock runs a service, until the file of a held     *)
(* lock was removed by the one who held it before; and the panel can stop   *)
(* the service that runs in it, and knows of it, up to the one it could     *)
(* neither start nor unwind nor stop (single_instance.py 72-98, gui/app.py  *)
(* 245-311).                                                                *)
OneServiceOwned ==
    /\ ~unlinked => \A p \in Processes : svc[p].st \in Holding => lock = p
    /\ svc["panel"].st # "off" => owned \/ busy # ""

(* Not so without these exceptions: what an unwinding that raised leaves    *)
(* runs without the lock, in the panel without a handle too.                *)
OneServiceAlways ==
    /\ \A p \in Processes : svc[p].st \in Holding \cup {"undone", "bare"} => lock = p
    /\ ~orphan

(* A running service comes to run what the file says, as long as its        *)
(* supervisor lives, the file loads, no edit fell between the two readings  *)
(* and what was read could be applied.                                      *)
FileIsApplied ==
    \A p \in Processes :
        []<>(\/ svc[p].st # "up" \/ svc[p].sup = "dead" \/ svc[p].raced \/ svc[p].torn
             \/ Outcome(file) # "loaded" \/ svc[p].cfg = file)
=============================================================================
