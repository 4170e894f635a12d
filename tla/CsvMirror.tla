------------------------------ MODULE CsvMirror ------------------------------
(* The copies of the lot files on a network share: the lot writer queues    *)
(* one in the journal before it lets go of the rows (csv_store.py), and a   *)
(* worker thread claims a batch under leases, copies each file to a         *)
(* temporary one and renames it (service/control_plane.py, journal.py).     *)
(* A worker that outlives stop(), copying to a share that does not answer,  *)
(* meets that of the next service in the same process.                      *)
(*                                                                          *)
(* A lot file is written again while its rows are owed: when queueing or    *)
(* releasing them failed, or the process died in between.                   *)
EXTENDS Naturals, FiniteSets

CONSTANTS
    Files,      \* lot files, each with its place on the share
    Contents,   \* what they may hold
    Workers,    \* mirror threads that can exist at a time
    BatchLimit, \* MIRROR_BATCH_LIMIT
    None,       \* no file, no content
    Half        \* what an unfinished copy holds

(* What the theorems assume of the constants.                               *)
MirrorConstants ==
    /\ None \notin Files \cup Contents /\ Half \notin Contents /\ None # Half
    /\ BatchLimit \in Nat \ {0}

VARIABLES
    owed,       \* files with rows the journal owes
    local,      \* the files on the local disk
    writer,     \* the lot writer: its step, and the file in hand
    task,       \* csv_mirror: queued, due (next_attempt_at), leased (leased_until)
    temp, share,   \* the temporary files and the files on the share
    worker,
    rewritten,  \* history: files written in the middle of a copy
    expired,    \* history: files whose lease ran out in a worker's hands
    twice       \* history: files claimed while another worker had them

queue   == <<task, expired, twice>>
copies  == <<temp, share, worker>>
copyHistory == <<rewritten, expired, twice>>
mirrorVars == <<owed, local, writer, queue, copies, rewritten>>

NoWrite == [pc |-> "idle", file |-> None]
NoTask  == [queued |-> FALSE, due |-> FALSE, leased |-> FALSE]
Resting == [pc |-> "off", batch |-> {}, file |-> None, content |-> None]

(* A worker has its batch in hand, and in the midst of a copy one file of   *)
(* which it has seen that it is gone, or read what it copies.               *)
Busy  == {"begun", "gone", "copying", "copied", "replaced"}
Midst == Busy \ {"begun"}
Works(w, f) == worker[w].pc \in Busy /\ worker[w].file = f
Goes(w, pc) == worker' = [worker EXCEPT ![w].pc = pc]

WorkerStates == [pc : Busy \cup {"off", "idle"}, batch : SUBSET Files,
                 file : Files \cup {None}, content : Contents \cup {None}]

MirrorTypeOK ==
    /\ owed \subseteq Files /\ local \in [Files -> Contents \cup {None}]
    /\ writer \in [pc : {"idle", "written", "queued"}, file : Files \cup {None}]
    /\ task \in [Files -> [queued : BOOLEAN, due : BOOLEAN, leased : BOOLEAN]]
    /\ temp \in [Files -> Contents \cup {None, Half}]
    /\ share \in [Files -> Contents \cup {None, Half}]
    /\ worker \in [Workers -> WorkerStates]
    /\ rewritten \subseteq Files /\ expired \subseteq Files /\ twice \subseteq Files

MirrorInit ==
    /\ owed = Files /\ local = [f \in Files |-> None] /\ writer = NoWrite
    /\ task = [f \in Files |-> NoTask]
    /\ temp = [f \in Files |-> None] /\ share = [f \in Files |-> None]
    /\ worker = [w \in Workers |-> Resting]
    /\ rewritten = {} /\ expired = {} /\ twice = {}

----------------------------------------------------------------------------
(* The lot writer, under its lock.                                          *)

Write(f) ==
    /\ writer = NoWrite /\ f \in owed
    /\ \E c \in Contents : local' = [local EXCEPT ![f] = c]
    /\ writer' = [pc |-> "written", file |-> f]
    /\ rewritten' = IF \E w \in Workers : Works(w, f) /\ worker[w].pc \in Midst
                    THEN rewritten \cup {f} ELSE rewritten
    /\ UNCHANGED <<owed, queue, copies>>

(* INSERT OR IGNORE: a task there is stays as it is.                        *)
EnqueueMirror ==
    /\ writer.pc = "written" /\ writer' = [writer EXCEPT !.pc = "queued"]
    /\ task' = [task EXCEPT ![writer.file] =
                    IF @.queued THEN @
                    ELSE [queued |-> TRUE, due |-> TRUE, leased |-> FALSE]]
    /\ UNCHANGED <<owed, local, copies, copyHistory>>

Release ==
    /\ writer.pc = "queued" /\ writer' = NoWrite
    /\ owed' = owed \ {writer.file}
    /\ UNCHANGED <<local, queue, copies, rewritten>>

(* The journal refuses: the buffer is kept, and written again.              *)
WriteFails ==
    /\ writer.pc # "idle" /\ writer' = NoWrite
    /\ UNCHANGED <<owed, local, queue, copies, rewritten>>

----------------------------------------------------------------------------
(* The worker.                                                              *)

StartWorker(w) ==
    /\ worker[w].pc = "off" /\ Goes(w, "idle")
    /\ UNCHANGED <<owed, local, writer, queue, temp, share, rewritten>>

Claimable(f) == task[f].queued /\ task[f].due /\ ~task[f].leased

PendingMirrors(w) ==
    /\ worker[w].pc = "idle" /\ worker[w].batch = {}
    /\ \E S \in SUBSET Files :
        /\ S # {} /\ Cardinality(S) <= BatchLimit /\ \A f \in S : Claimable(f)
        /\ worker' = [worker EXCEPT ![w].batch = S]
        /\ task' = [f \in Files |-> IF f \in S THEN [task[f] EXCEPT !.leased = TRUE]
                                    ELSE task[f]]
        /\ twice' = twice \cup {f \in S : \E v \in Workers : f \in worker[v].batch}
    /\ UNCHANGED <<owed, local, writer, temp, share, rewritten, expired>>

(* source.exists(), for the next task of the batch.                         *)
Begin(w) ==
    /\ worker[w].pc = "idle"
    /\ \E f \in worker[w].batch :
         worker' = [worker EXCEPT ![w].file = f,
                                  ![w].pc = IF local[f] = None THEN "gone" ELSE "begun"]
    /\ UNCHANGED <<owed, local, writer, queue, temp, share, rewritten>>

(* copyfile opens both files; a source that is gone by now raises.          *)
OpenCopy(w) ==
    LET f == worker[w].file
    IN  /\ worker[w].pc = "begun" /\ local[f] # None
        /\ worker' = [worker EXCEPT ![w].pc = "copying", ![w].content = local[f]]
        /\ temp' = [temp EXCEPT ![f] = Half]
        /\ UNCHANGED <<owed, local, writer, queue, share, rewritten>>

EndCopy(w) ==
    /\ worker[w].pc = "copying" /\ Goes(w, "copied")
    /\ temp' = [temp EXCEPT ![worker[w].file] = worker[w].content]
    /\ UNCHANGED <<owed, local, writer, queue, share, rewritten>>

(* os.replace; it raises when another worker has renamed the file.          *)
Rename(w) ==
    LET f == worker[w].file
    IN  /\ worker[w].pc = "copied" /\ temp[f] # None /\ Goes(w, "replaced")
        /\ share' = [share EXCEPT ![f] = temp[f]]
        /\ temp' = [temp EXCEPT ![f] = None]
        /\ UNCHANGED <<owed, local, writer, queue, rewritten>>

Closing(w) == worker' = [worker EXCEPT ![w].pc = "idle", ![w].file = None,
                          ![w].content = None, ![w].batch = @ \ {worker[w].file}]

(* The row goes by its number: when another worker had the file too, it may *)
(* be gone, and a new row for the file is left alone.                       *)
Closes(f, row) ==
    \/ task' = [task EXCEPT ![f] = row]
    \/ f \in twice /\ UNCHANGED task

CompleteMirror(w) ==
    /\ worker[w].pc \in {"gone", "replaced"} /\ Closing(w)
    /\ Closes(worker[w].file, NoTask)
    /\ UNCHANGED <<owed, local, writer, temp, share, copyHistory>>

FailMirror(w) ==
    /\ worker[w].pc \in {"begun", "copying", "copied", "replaced"} /\ Closing(w)
    /\ LET f == worker[w].file
       IN  Closes(f, [queued |-> task[f].queued, due |-> FALSE, leased |-> FALSE])
    /\ UNCHANGED <<owed, local, writer, temp, share, copyHistory>>

(* The journal raises at a worker, which leaves the rest of its batch to    *)
(* the leases; a worker between two batches is told to stop.                *)
Breaks(w) ==
    /\ worker[w].pc # "off"
    /\ \/ worker' = [worker EXCEPT ![w] = [Resting EXCEPT !.pc = "idle"]]
       \/ worker[w].pc = "idle" /\ worker[w].batch = {}
            /\ worker' = [worker EXCEPT ![w] = Resting]
    /\ UNCHANGED <<owed, local, writer, queue, temp, share, rewritten>>

----------------------------------------------------------------------------
(* Time, the operator, and the end of the process.                          *)

BecomesDue(f) ==
    /\ task[f].queued /\ ~task[f].due /\ task' = [task EXCEPT ![f].due = TRUE]
    /\ UNCHANGED <<owed, local, writer, copies, copyHistory>>

LeaseExpires(f) ==
    /\ task[f].leased /\ task' = [task EXCEPT ![f].leased = FALSE]
    /\ expired' = IF \E w \in Workers : f \in worker[w].batch
                  THEN expired \cup {f} ELSE expired
    /\ UNCHANGED <<owed, local, writer, copies, rewritten, twice>>

Remove(f) ==
    /\ local[f] # None /\ local' = [local EXCEPT ![f] = None]
    /\ UNCHANGED <<owed, writer, queue, copies, rewritten>>

MirrorCrash ==
    /\ writer' = NoWrite /\ worker' = [w \in Workers |-> Resting]
    /\ UNCHANGED <<owed, local, queue, temp, share, rewritten>>

WorkerStep(w) ==
    \/ StartWorker(w) \/ PendingMirrors(w) \/ Begin(w) \/ OpenCopy(w) \/ EndCopy(w)
    \/ Rename(w) \/ CompleteMirror(w) \/ FailMirror(w) \/ Breaks(w)

MirrorNext ==
    \/ \E f \in Files : Write(f) \/ BecomesDue(f) \/ LeaseExpires(f) \/ Remove(f)
    \/ EnqueueMirror \/ Release \/ WriteFails \/ MirrorCrash
    \/ \E w \in Workers : WorkerStep(w)

MirrorSpec == MirrorInit /\ [][MirrorNext]_mirrorVars

----------------------------------------------------------------------------
(* What the mirror promises.                                                *)

(* A file has come to the share as one worker copied it: no other had it in *)
(* hand, and it was not written again meanwhile.                            *)
Undisturbed(f) == f \notin twice \cup rewritten

(* The share never has half a file, whatever fails or dies in the middle of *)
(* a copy (csv_store.py 635-640).                                           *)
WholeOnShare == \A f \in Files : Undisturbed(f) => share[f] # Half

(* A lot file that was written is on the share as it is, or its copy is     *)
(* queued, or its rows are still owed and will write it again: "a crash     *)
(* between the local write and the release must not leave the network copy  *)
(* neither performed nor recorded" (csv_store.py 457-461).                  *)
NoneForgotten ==
    \A f \in Files : Undisturbed(f) =>
        local[f] = None \/ f \in owed \/ task[f].queued \/ share[f] = local[f]

(* Two workers have one file in hand only when a lease ran out: "what stops *)
(* two workers [...] from racing the same task to the same temp file"       *)
(* (journal.py 600-604).                                                    *)
LeaseHolds == twice \subseteq expired
=============================================================================
