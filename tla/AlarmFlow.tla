----------------------------- MODULE AlarmFlow -----------------------------
(* The alarms of one tool on their way upstream: service/alarm_flow.py with *)
(* the rate limiter of alarms.py, on the connection of ConnectionHealth.    *)
(* The callback thread journals an alarm and then takes the dispatch lock;  *)
(* the supervisor replays what stayed pending under the same lock; the      *)
(* watchdog drains the limiter's counts into a summary.  A step is what     *)
(* happens under the lock.                                                  *)
(*                                                                          *)
(* Time is in ticks of the sizes the code compares: an alarm that repeats   *)
(* one decided less than Dedup ticks ago is a duplicate, and Window ticks   *)
(* is how far back the limiter counts.                                      *)
EXTENDS ConnectionHealth, FiniteSets, SequencesExt

CONSTANTS
    Alarms,       \* the alarms of the tool
    Critical,     \* those of SEMI E5 class 1 or 2
    Dedup, Window,
    MaxReports    \* alarms journaled in a run

ASSUME AlarmAssumption ==
    /\ Critical \subseteq Alarms /\ Dedup \in Nat \ {0} /\ Window \in Nat
    /\ MaxReports \in Nat

VARIABLES
    actual,    \* the alarms that are set on the tool
    entries,   \* the journal: what is pending, [al, set], and what is decided
    call,      \* the entry the callback thread is about to dispatch, or 0
    pass,      \* the entries the replay pass has still to do
    booting,   \* the replay pass of start(), before its other threads
    recent,    \* _recent_alarms: ticks since a signature was last seen
    bucket,    \* the limiter: ticks since each admission of its window
    drops,     \* and how many it shed since the last summary
    picture,   \* what the last notice upstream says of each alarm
    untold,    \* history: the alarms it shed, less those the summaries counted
    lost,      \* history: a count was lost with a crash or a refused summary
    blurred    \* history: alarms whose picture something outside disturbed

alarmVars == <<actual, entries, call, pass, booting, recent, bucket, drops, picture,
               untold, lost, blurred>>
vars == <<healthVars, alarmVars>>

Signatures == Alarms \X BOOLEAN
Seqs == DOMAIN entries
Decided == [al |-> CHOOSE al \in Alarms : TRUE, set |-> FALSE, pending |-> FALSE]
Pending == {s \in Seqs : entries[s].pending}
PendingOf(al) == {s \in Pending : entries[s].al = al}

----------------------------------------------------------------------------
(* Reports.                                                                 *)

(* The tool reports an alarm set or cleared, one at a time, and gets its    *)
(* answer when the callback is done.  The entry is journaled first.         *)
Report(al, set) ==
    /\ machine.alarms /\ link # "down" /\ gate
    /\ call = 0 /\ Len(entries) < MaxReports
    /\ actual' = IF set THEN actual \cup {al} ELSE actual \ {al}
    /\ entries' = Append(entries, [al |-> al, set |-> set, pending |-> TRUE])
    /\ call' = Len(entries')
    /\ blurred' = CASE PendingOf(al) # {}
                       \/ (recent[<<al, set>>] < Dedup /\ (al \in actual) # set)
                            -> blurred \cup {al}
                    [] PendingOf(al) = {} /\ recent[<<al, set>>] >= Dedup
                            -> blurred \ {al}
                    [] OTHER -> blurred
    /\ UNCHANGED <<healthVars, pass, booting, recent, bucket, drops, picture, untold,
                   lost>>

(* An alarm changes and nobody is told: the link is down, or the service    *)
(* refuses it for want of space.  (Only while a connect is still to come.)   *)
Unreported(al) ==
    /\ machine.alarms /\ conn < machine.connects /\ (link = "down" \/ ~gate) /\ al \notin blurred
    /\ actual' = IF al \in actual THEN actual \ {al} ELSE actual \cup {al}
    /\ blurred' = blurred \cup {al}
    /\ UNCHANGED <<healthVars, entries, call, pass, booting, recent, bucket, drops,
                   picture, untold, lost>>

----------------------------------------------------------------------------
(* _dispatch_alarm, under the dispatch lock.                                *)

(* Defect: a clear repeats the set before it.                               *)
Signature_unsigned(s) == <<entries[s].al, TRUE>>
Signature(s) == <<entries[s].al, entries[s].set>>
Duplicate(s) == recent[Signature(s)] < Dedup

(* AlarmRateLimiter.admit: clears and critical alarms are never counted.    *)
Exempt(s) == ~entries[s].set \/ entries[s].al \in Critical
Admitted(s) == machine.limit = 0 \/ Exempt(s) \/ Len(bucket) < machine.limit

Settled(s) == [entries EXCEPT ![s] = Decided]
Published(s) == [picture EXCEPT ![entries[s].al] = IF entries[s].set THEN "set" ELSE "clear"]

(* Dropped as a duplicate, whatever became of the one before.               *)
DropDuplicate(s) ==
    /\ Duplicate(s) /\ entries' = Settled(s)
    /\ UNCHANGED <<bucket, drops, picture, untold, lost, blurred, said, faults, muted>>

(* Dropped by the limiter, which counts it.                                 *)
Shed(s) ==
    /\ ~Duplicate(s) /\ ~Admitted(s) /\ entries' = Settled(s)
    /\ drops' = drops + 1 /\ untold' = untold + 1
    /\ blurred' = blurred \cup ({entries[s].al} \ Critical)
    /\ UNCHANGED <<bucket, picture, lost, said, faults, muted>>

(* Published, or refused by a full outbox, and then the entry stays.        *)
Publish(s) ==
    /\ ~Duplicate(s) /\ Admitted(s)
    /\ bucket' = IF machine.limit = 0 \/ Exempt(s) THEN bucket ELSE Append(bucket, 0)
    /\ \/ /\ entries' = Settled(s) /\ picture' = Published(s)
          /\ UNCHANGED <<blurred, said, faults, muted>>
       \/ /\ Refuses /\ blurred' = blurred \cup {entries[s].al}
          /\ UNCHANGED <<entries, picture>>
    /\ UNCHANGED <<drops, untold, lost>>

(* The signature is noted before anything else is decided.                  *)
Dispatch(s) ==
    /\ recent' = [recent EXCEPT ![Signature(s)] = 0]
    /\ DropDuplicate(s) \/ Shed(s) \/ Publish(s)

linkVars == <<machine, gate, link, heard, heardHere, conn, health, tool, switches, check>>

Callback ==
    /\ call # 0 /\ call' = 0
    /\ IF call \in Pending THEN Dispatch(call)
       ELSE UNCHANGED <<entries, recent, bucket, drops, picture, untold, lost, blurred, said,
                        faults, muted>>
    /\ UNCHANGED <<linkVars, actual, pass, booting>>

(* The replay assembles what is pending and goes through it in order; an    *)
(* entry that fails again ends the pass for its machine.                    *)
ReplayStarts ==
    /\ pass = <<>> /\ ~booting /\ Pending # {}
    /\ pass' = SetToSortSeq(Pending, <)
    /\ UNCHANGED <<healthVars, actual, entries, call, booting, recent, bucket, drops,
                   picture, untold, lost, blurred>>

ReplayOne ==
    /\ pass # <<>>
    /\ LET s == Head(pass)
       IN  IF s \in Pending
           THEN /\ Dispatch(s)
                /\ pass' = IF entries'[s].pending THEN <<>> ELSE Tail(pass)
           ELSE /\ pass' = Tail(pass)
                /\ UNCHANGED <<entries, recent, bucket, drops, picture, untold, lost, blurred,
                               said, faults, muted>>
    /\ UNCHANGED <<linkVars, actual, call, booting>>

Booted ==
    /\ booting /\ pass = <<>> /\ booting' = FALSE
    /\ UNCHANGED <<healthVars, actual, entries, call, pass, recent, bucket, drops, picture,
                   untold, lost, blurred>>

----------------------------------------------------------------------------
(* Defect: the counts of a machine that is not connected are taken and then *)
(* skipped.                                                                 *)
Drain_skips ==
    /\ gate /\ drops > 0 /\ ~booting
    /\ drops' = 0
    /\ \/ untold' = (IF link = "up" THEN untold - drops ELSE untold)
          /\ UNCHANGED <<lost, said, faults, muted>>
       \/ Refuses /\ lost' = TRUE /\ UNCHANGED untold
    /\ UNCHANGED <<linkVars, actual, entries, call, pass, booting, recent, bucket, picture,
                   blurred>>

(* The watchdog takes the counts and publishes one summary; when that is    *)
(* refused they are gone.                                                   *)
Drain ==
    /\ gate /\ drops > 0 /\ ~booting
    /\ drops' = 0
    /\ \/ untold' = untold - drops /\ UNCHANGED <<lost, said, faults, muted>>
       \/ Refuses /\ lost' = TRUE /\ UNCHANGED untold
    /\ UNCHANGED <<linkVars, actual, entries, call, pass, booting, recent, bucket, picture,
                   blurred>>

(* On a connect, to a tool that cannot list its alarms: what is known of    *)
(* them is withdrawn, unless an outbox refuses the notice.                  *)
StateUnknown ==
    /\ OnConnect
    /\ \/ /\ UNCHANGED faults
          /\ picture' = IF machine.known THEN picture ELSE [al \in Alarms |-> "unknown"]
          /\ blurred' = IF machine.known THEN blurred
                       ELSE {al \in blurred : PendingOf(al) # {}}
       \/ /\ faults < MaxFaults /\ faults' = faults + 1
          /\ UNCHANGED <<picture, blurred>>
    /\ UNCHANGED <<actual, entries, call, pass, booting, recent, bucket, drops, untold,
                   lost>>

Tick ==
    /\ health' = Older
    /\ recent' = [g \in Signatures |-> IF recent[g] < Dedup THEN recent[g] + 1 ELSE Dedup]
    /\ LET kept == SelectSeq(bucket, LAMBDA age : age < Window)
       IN  bucket' = [i \in DOMAIN kept |-> kept[i] + 1]
    /\ <<health, recent, bucket>> # <<health', recent', bucket'>>
    /\ UNCHANGED <<machine, gate, link, heard, heardHere, conn, tool, switches, check, said,
                   faults, muted, actual, entries, call, pass, booting, drops, picture,
                   untold, lost, blurred>>

(* The process dies with something in memory or still to do; what was in    *)
(* memory is forgotten, and start() replays what the journal still holds;   *)
(* the sessions run by then, the watchdog and the supervisor do not.        *)
Crash ==
    /\ faults < MaxFaults /\ faults' = faults + 1
    /\ Pending # {} \/ drops > 0 \/ check.pc # "off"
    /\ Forgotten
    /\ call' = 0 /\ pass' = SetToSortSeq(Pending, <) /\ booting' = (Pending # {})
    /\ recent' = [g \in Signatures |-> Dedup] /\ bucket' = <<>>
    /\ drops' = 0 /\ lost' = (lost \/ drops > 0)
    /\ gate' = TRUE
    /\ UNCHANGED <<machine, heardHere, conn, tool, switches, said, muted, actual, entries,
                   picture, untold, blurred>>

----------------------------------------------------------------------------
Init ==
    /\ HealthInit
    /\ actual = {} /\ entries = <<>> /\ call = 0 /\ pass = <<>> /\ booting = FALSE
    /\ recent = [g \in Signatures |-> Dedup] /\ bucket = <<>> /\ drops = 0
    /\ picture = [al \in Alarms |-> "clear"]
    /\ untold = 0 /\ lost = FALSE /\ blurred = {}

(* The steps of the connection but the connect itself, which also says what *)
(* is known of the alarms.                                                  *)
Connection ==
    /\ \/ LinkUp \/ LinkDown \/ Restart \/ Fires \/ Switch
       \/ CloseGate \/ Quiesce \/ OpenGate
       \/ Look /\ ~booting
       \/ Check
    /\ UNCHANGED alarmVars

Next ==
    \/ Connection \/ StateUnknown
    \/ \E al \in Alarms : \E set \in BOOLEAN : Report(al, set)
    \/ \E al \in Alarms : Unreported(al)
    \/ Callback \/ ReplayStarts \/ ReplayOne \/ Booted \/ Drain \/ Tick \/ Crash

(* Every thread of the service runs on and the clock ticks; nobody owes a   *)
(* report, a link or room on the disk.  A check is under way when the       *)
(* watchdog does not look, and a replay goes from one step to the next: at  *)
(* most one step of a thread is possible at a time.                         *)
Watches == ((Look /\ ~booting) \/ Check) /\ UNCHANGED alarmVars
Replays == ReplayStarts \/ ReplayOne \/ Booted

Threads ==
    /\ WF_vars(Watches) /\ WF_vars(StateUnknown) /\ WF_vars(Callback)
    /\ WF_vars(Replays) /\ WF_vars(Drain) /\ WF_vars(Tick)

Spec     == Init /\ [][Next]_vars
FairSpec == Spec /\ Threads

----------------------------------------------------------------------------
TypeOK ==
    /\ HealthTypeOK
    /\ actual \subseteq Alarms
    /\ \A s \in Seqs : entries[s] \in [al : Alarms, set : BOOLEAN, pending : BOOLEAN]
    /\ call \in 0..Len(entries) /\ \A i \in DOMAIN pass : pass[i] \in Seqs
    /\ booting \in BOOLEAN
    /\ recent \in [Signatures -> 0..Dedup]
    /\ \A i \in DOMAIN bucket : bucket[i] \in 0..Window
    /\ drops \in 0..MaxReports /\ untold \in 0..MaxReports /\ lost \in BOOLEAN
    /\ picture \in [Alarms -> {"unknown", "set", "clear"}]
    /\ blurred \subseteq Alarms

(* Once the alarms a tool reported are decided, what upstream was last told *)
(* of each is what the tool has, or that it is not known.  Excepted, until  *)
(* the alarm is reported again with nothing of it pending, or a connect     *)
(* withdraws what is known: one that changed while nobody could be told,    *)
(* that went back and forth within the half second of the duplicates, that  *)
(* a full outbox refused, that was reported again while an earlier report   *)
(* of it was still pending, which the replay may publish after the later    *)
(* one, and one that is not critical and that the limiter shed              *)
(* (alarm_flow.py 79-123 and 196-225, alarms.py 44-81).                     *)
PictureIsTrue ==
    \A al \in Alarms :
        (al \notin blurred /\ PendingOf(al) = {}) =>
            \/ picture[al] = "unknown"
            \/ (picture[al] = "set") = (al \in actual)

(* Every alarm the limiter shed is told of in a summary in the end, and     *)
(* counted in one only, unless a crash or a full outbox takes the count     *)
(* away or the disk stays full.                                             *)
StormIsTold ==
    []<>(lost \/ ~gate \/ untold = 0)

(* A tool that stays connected and on line and fires events none of which   *)
(* arrive is told of upstream in the end, unless an outbox refused to take  *)
(* it, or its host heard reports on a connection before.                    *)
SilenceIsTold ==
    []<>(\/ link # "up" \/ ~gate \/ ~machine.sv
         \/ heard \/ ~tool.online \/ health[conn].base = "same"
         \/ said = "silent" \/ muted)

(* The same for every connection: "Reset the event-liveness baseline on     *)
(* every (re)connect: a fresh GatewayHost is created so host.last_event_time*)
(* is None again".                                                          *)
ConnectionSilenceIsTold ==
    []<>(\/ link # "up" \/ ~gate \/ ~machine.sv
         \/ heardHere \/ ~tool.online \/ health[conn].base = "same"
         \/ said = "silent" \/ muted)
=============================================================================
