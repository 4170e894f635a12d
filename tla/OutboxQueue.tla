---------------------------- MODULE OutboxQueue ----------------------------
(***************************************************************************)
(* A publisher's SQLite outbox (outbox.py) and the threads that empty it:  *)
(* the HTTP publisher of one machine (linkstuffs_http.py), stopped and     *)
(* replaced when its machine is, the legacy API publisher (legacy_api.py)  *)
(* and the MQTT publisher (linkstuffs.py) at QoS 1.  Each outbox call is a *)
(* step: it is one transaction, except mark_failed, which reads and writes *)
(* in two, and every thread has an SQLiteOutbox, hence a lock, of its own. *)
(***************************************************************************)
EXTENDS Integers, FiniteSets

CONSTANTS
  Kinds,          (* which publishers: "http", "legacy", "mqtt"             *)
  Partitions, NoPartition,
  Broken,         (* partitions whose receiver never accepts anything       *)
  Threads,        (* publisher threads that can exist at a time             *)
  Cap,            (* max_pending_per_partition                              *)
  Limit,          (* the LIMIT of pending_heads                             *)
  Strikes,        (* permanent failures before a row is dead-lettered       *)
  MaxRows,        (* bound: rows ever inserted                              *)
  MaxTroubles     (* bound: failures, deaths, stops and requeues            *)

Rows == 1..MaxRows
Kind == {"http", "legacy", "mqtt"}
Status == {"absent", "pending", "sent", "dead", "purged"}

ASSUME OutboxAssumption ==
  /\ Kinds \subseteq Kind /\ NoPartition \notin Partitions
  /\ Broken \subseteq Partitions
  /\ Cap \in Nat \ {0} /\ Limit \in Nat \ {0} /\ Strikes \in Nat \ {0}
  /\ MaxRows \in Nat /\ MaxTroubles \in Nat

VARIABLES
  kind,                           (* the publisher this outbox belongs to   *)
  last, part, status, attempts,   (* the table: AUTOINCREMENT id, columns   *)
  due,                            (* available_at <= now                    *)
  thread,                         (* the publish loops                      *)
  link,                           (* _connected of the MQTT client          *)
  late,                           (* sent, not arrived when the sender gave *)
                                  (* up on the answer                       *)
  arrived, given,                 (* history: rows the receiver has, rows   *)
                                  (* that were dead at some time            *)
  streak,                         (* history: permanent failures in a row   *)
  budget

table   == <<last, part, status, attempts, due>>
history == <<arrived, given, streak>>
vars == <<kind, table, thread, link, late, history, budget>>

(* A publish loop: the rows fetched and not yet looked at, the row in      *)
(* hand, what its publish came to and the attempts read for it.            *)
Thread == [pc : {"ended", "fetch", "next", "posting", "marking", "writing",
                 "judging", "burying"},
           running : BOOLEAN, batch : SUBSET Rows, item : 0..MaxRows,
           verdict : {"sent", "failed", "permanent"}, count : 0..Strikes]
Ended == [pc |-> "ended", running |-> FALSE, batch |-> {}, item |-> 0,
          verdict |-> "failed", count |-> 0]
Started == [Ended EXCEPT !.pc = "fetch", !.running = TRUE]

TypeOK ==
  /\ kind \in Kind
  /\ last \in 0..MaxRows
  /\ part \in [Rows -> Partitions \cup {NoPartition}]
  /\ status \in [Rows -> Status]
  /\ attempts \in [Rows -> 0..Strikes] /\ due \in [Rows -> BOOLEAN]
  /\ thread \in [Threads -> Thread] /\ link \in BOOLEAN
  /\ late \subseteq Rows /\ arrived \subseteq Rows /\ given \subseteq Rows
  /\ streak \in [Rows -> 0..Strikes]
  /\ budget \in 0..MaxTroubles

Init ==
  /\ kind \in Kinds
  /\ last = 0 /\ part = [r \in Rows |-> NoPartition]
  /\ status = [r \in Rows |-> "absent"]
  /\ attempts = [r \in Rows |-> 0] /\ due = [r \in Rows |-> FALSE]
  /\ thread = [i \in Threads |-> Ended] /\ link = FALSE
  /\ late = {} /\ arrived = {} /\ given = {}
  /\ streak = [r \in Rows |-> 0]
  /\ budget = MaxTroubles

-----------------------------------------------------------------------------
(* The table                                                               *)

Pending(p) == {r \in Rows : status[r] = "pending" /\ part[r] = p}
InTable(r) == status[r] \in {"pending", "sent", "dead"}

(* Attempts matter up to Strikes only.                                     *)
Capped(n) == IF n > Strikes THEN Strikes ELSE n

(* The dispatch puts a row behind the pending ones of its machine.  (A key *)
(* that is in the table already, and a full partition, change nothing.)    *)
Enqueue(p) ==
  /\ last < MaxRows /\ Cardinality(Pending(p)) < Cap
  /\ last' = last + 1
  /\ part' = [part EXCEPT ![last + 1] = p]
  /\ status' = [status EXCEPT ![last + 1] = "pending"]
  /\ attempts' = [attempts EXCEPT ![last + 1] = 0]
  /\ due' = [due EXCEPT ![last + 1] = TRUE]
  /\ UNCHANGED <<kind, thread, link, late, history, budget>>

(* Mutant: a row that is backing off does not hold back the next one.      *)
Heads_skipBackoff ==
  {r \in Rows : status[r] = "pending" /\ due[r]
                /\ \A q \in Pending(part[r]) : due[q] => q >= r}
(* Mutant: one queue for all the partitions.                               *)
Heads_onePartition ==
  {r \in Rows : status[r] = "pending" /\ due[r]
                /\ \A q \in Rows : status[q] = "pending" => q >= r}

(* The oldest pending row of each partition, when it is available.         *)
Heads == {r \in Rows : status[r] = "pending" /\ due[r]
                       /\ \A q \in Pending(part[r]) : q >= r}
Oldest(S, n) == {r \in S : Cardinality({q \in S : q < r}) < n}

BackoffEnds(r) ==
  /\ status[r] = "pending" /\ ~due[r]
  /\ due' = [due EXCEPT ![r] = TRUE]
  /\ UNCHANGED <<kind, last, part, status, attempts, thread, link, late,
                 history, budget>>

(* Mutant: everything that is not pending is queued again.                 *)
Requeueable_settled == {r \in Rows : status[r] \in {"sent", "dead"}}

(* `outbox-requeue`, run by an operator in a process of its own.           *)
Requeueable == {r \in Rows : status[r] = "dead"}
Requeue ==
  LET dead == Requeueable IN
  /\ dead # {} /\ budget > 0
  /\ budget' = budget - 1
  /\ status' = [r \in Rows |-> IF r \in dead THEN "pending" ELSE status[r]]
  /\ due' = [r \in Rows |-> IF r \in dead THEN TRUE ELSE due[r]]
  /\ UNCHANGED <<kind, last, part, attempts, thread, link, late, history>>

(* Mutant: rows are aged out whatever their status.                        *)
Purgeable_any == {r \in Rows : InTable(r)}

(* The maintenance thread deletes settled rows past their retention.       *)
Purgeable == {r \in Rows : status[r] \in {"sent", "dead"}}
Purge(S) ==
  /\ S # {} /\ S \subseteq Purgeable
  /\ status' = [r \in Rows |-> IF r \in S THEN "purged" ELSE status[r]]
  /\ attempts' = [r \in Rows |-> IF r \in S THEN 0 ELSE attempts[r]]
  /\ due' = [r \in Rows |-> due[r] /\ r \notin S]
  /\ UNCHANGED <<kind, last, part, thread, link, late, history, budget>>

-----------------------------------------------------------------------------
(* The publish loop of thread i                                            *)

Step(i, pc, new) == /\ thread[i].pc = pc
                    /\ thread' = [thread EXCEPT ![i] = new]
Item(i) == thread[i].item
Done(i) == [Started EXCEPT !.pc = "next", !.running = thread[i].running,
                           !.batch = thread[i].batch]

(* `while self._running`, then a batch of heads; none, and it sleeps.      *)
LeaveLoop(i) ==
  /\ ~thread[i].running
  /\ Step(i, "fetch", Ended)
  /\ UNCHANGED <<kind, table, link, late, history, budget>>

Fetch(i) ==
  /\ thread[i].running /\ (kind = "mqtt" => link) /\ Heads # {}
  /\ Step(i, "fetch", [thread[i] EXCEPT !.pc = "next",
                                        !.batch = Oldest(Heads, Limit)])
  /\ UNCHANGED <<kind, table, link, late, history, budget>>

(* Only the HTTP publisher looks at _running between two rows.             *)
Interrupted(i) == kind = "http" /\ ~thread[i].running

EndOfBatch(i) ==
  /\ thread[i].batch = {} \/ Interrupted(i)
  /\ Step(i, "next", [thread[i] EXCEPT !.pc = "fetch", !.batch = {}])
  /\ UNCHANGED <<kind, table, link, late, history, budget>>

NextItem(i, r) ==
  /\ r \in thread[i].batch /\ ~Interrupted(i)
  /\ \A q \in thread[i].batch : q >= r
  /\ Step(i, "next", [thread[i] EXCEPT !.pc = "posting", !.item = r,
                                       !.batch = @ \ {r}])
  /\ UNCHANGED <<kind, table, link, late, history, budget>>

(* What a publish can come to: accepted; no answer in time, and it may or  *)
(* may not arrive yet; turned down, or not deliverable for want of a token *)
(* or a route; turned down for good with a 4xx (not at MQTT).              *)
Outcome == {"accepted", "noAnswer", "refused", "permanent"}

Verdict(o) == CASE o = "accepted" -> "sent"
                [] o \in {"noAnswer", "refused"} -> "failed"
                [] o = "permanent" -> "permanent"

Post(i, o) ==
  LET r == Item(i) IN
  /\ Step(i, "posting", [thread[i] EXCEPT !.pc = "marking",
                                          !.verdict = Verdict(o)])
  /\ IF o = "accepted" THEN part[r] \notin Broken /\ (kind = "mqtt" => link)
     ELSE /\ o = "permanent" => kind # "mqtt"
          /\ part[r] \in Broken \/ budget > 0
  /\ budget' = IF o = "accepted" \/ part[r] \in Broken THEN budget
               ELSE budget - 1
  /\ arrived' = IF o = "accepted" THEN arrived \cup {r} ELSE arrived
  /\ late' = IF o = "noAnswer" /\ part[r] \notin Broken THEN late \cup {r}
             ELSE late
  /\ streak' = [streak EXCEPT ![r] = IF o = "permanent" THEN Capped(@ + 1)
                                     ELSE 0]
  /\ UNCHANGED <<kind, table, link, given>>

(* A request whose sender has stopped waiting reaches the receiver.        *)
ArriveLate(r) ==
  /\ r \in late
  /\ late' = late \ {r} /\ arrived' = arrived \cup {r}
  /\ UNCHANGED <<kind, table, thread, link, given, streak, budget>>

MarkSent(i) ==
  /\ thread[i].verdict = "sent"
  /\ Step(i, "marking", Done(i))
  /\ status' = [status EXCEPT ![Item(i)] = IF InTable(Item(i)) THEN "sent"
                                           ELSE @]
  /\ UNCHANGED <<kind, last, part, attempts, due, link, late, history, budget>>

(* mark_failed: the SELECT, and the UPDATE.                                *)
ReadAttempts(i) ==
  /\ thread[i].verdict # "sent"
  /\ Step(i, "marking",
          [thread[i] EXCEPT !.pc = "writing",
             !.count = IF InTable(Item(i)) THEN attempts[Item(i)] ELSE 0])
  /\ UNCHANGED <<kind, table, link, late, history, budget>>

WriteAttempts(i) ==
  LET r == Item(i) IN
  /\ Step(i, "writing",
          IF thread[i].verdict = "permanent"
          THEN [thread[i] EXCEPT !.pc = "judging", !.count = 0] ELSE Done(i))
  /\ attempts' = [attempts EXCEPT ![r] = IF InTable(r)
                                         THEN Capped(thread[i].count + 1)
                                         ELSE @]
  /\ due' = [due EXCEPT ![r] = @ /\ ~InTable(r)]
  /\ UNCHANGED <<kind, last, part, status, link, late, history, budget>>

(* attempts() >= 5, and mark_dead.                                         *)
Judge(i) ==
  /\ Step(i, "judging",
          IF InTable(Item(i)) /\ attempts[Item(i)] >= Strikes
          THEN [thread[i] EXCEPT !.pc = "burying"] ELSE Done(i))
  /\ UNCHANGED <<kind, table, link, late, history, budget>>

Bury(i) ==
  LET r == Item(i) IN
  /\ Step(i, "burying", Done(i))
  /\ status' = [status EXCEPT ![r] = IF InTable(r) THEN "dead" ELSE @]
  /\ given' = IF InTable(r) THEN given \cup {r} ELSE given
  /\ UNCHANGED <<kind, last, part, attempts, due, link, late, arrived, streak,
                 budget>>

(* SQLite raises in any call, or sending in a way nobody expects: the batch *)
(* is dropped, the loop goes on.  What was being sent may arrive yet.       *)
LoopError(i) ==
  /\ thread[i].pc \notin {"ended", "next"} /\ budget > 0
  /\ budget' = budget - 1
  /\ thread' = [thread EXCEPT ![i] =
                  [Started EXCEPT !.running = thread[i].running]]
  /\ \/ late' = late
     \/ /\ thread[i].pc = "posting" /\ part[Item(i)] \notin Broken
        /\ late' = late \cup {Item(i)}
  /\ UNCHANGED <<kind, table, link, history>>

-----------------------------------------------------------------------------
(* Publishers start, stop and die                                          *)

Running == {i \in Threads : thread[i].running}

Idle == {i \in Threads : thread[i].pc = "ended"}

Start ==
  /\ Running = {} /\ Idle # {}
  /\ thread' = [thread EXCEPT ![CHOOSE i \in Idle : TRUE] = Started]
  /\ UNCHANGED <<kind, table, link, late, history, budget>>

(* stop() waits for its thread, but not for ever: the thread may outlive   *)
(* it, and the machine may be started again meanwhile.  The publishers of  *)
(* the whole service are stopped with the process only.                    *)
Stop(i) ==
  /\ kind = "http" /\ thread[i].running /\ budget > 0
  /\ budget' = budget - 1
  /\ thread' = [thread EXCEPT ![i].running = FALSE]
  /\ UNCHANGED <<kind, table, link, late, history>>

Connect ==
  /\ kind = "mqtt" /\ ~link /\ Running # {} /\ link' = TRUE
  /\ UNCHANGED <<kind, table, thread, late, history, budget>>

Disconnect ==
  /\ link /\ budget > 0 /\ link' = FALSE
  /\ budget' = budget - 1
  /\ UNCHANGED <<kind, table, thread, late, history>>

(* The process dies; what it had sent may still arrive.                    *)
Crash ==
  /\ budget > 0
  /\ budget' = budget - 1
  /\ thread' = [i \in Threads |-> Ended] /\ link' = FALSE
  /\ UNCHANGED <<kind, table, late, history>>

-----------------------------------------------------------------------------
LoopStep(i) ==
  \/ LeaveLoop(i) \/ Fetch(i) \/ EndOfBatch(i)
  \/ \E r \in Rows : NextItem(i, r)
  \/ \E o \in Outcome : Post(i, o)
  \/ MarkSent(i) \/ ReadAttempts(i) \/ WriteAttempts(i) \/ Judge(i) \/ Bury(i)

Next ==
  \/ \E p \in Partitions : Enqueue(p)
  \/ \E r \in Rows : BackoffEnds(r) \/ ArriveLate(r)
  \/ Requeue \/ \E S \in SUBSET Rows : Purge(S)
  \/ \E i \in Threads : LoopStep(i) \/ LoopError(i) \/ Stop(i)
  \/ Start \/ Connect \/ Disconnect \/ Crash

Spec == Init /\ [][Next]_vars

(* Threads run, a stopped or dead publisher is started again, the MQTT     *)
(* client reconnects by itself and time passes.                            *)
Fairness ==
  /\ \A i \in Threads : WF_vars(LoopStep(i))
  /\ WF_vars(Start) /\ WF_vars(Connect)
  /\ \A r \in Rows : WF_vars(BackoffEnds(r))

FairSpec == Spec /\ Fairness

-----------------------------------------------------------------------------
(* Properties                                                              *)

Waiting == {r \in Rows : status[r] = "pending" /\ r \notin given}

Delivery == INSTANCE PartitionedDelivery
  WITH MaxTickets <- MaxRows, accepted <- last, line <- part,
       waiting <- Waiting

(* The outbox is a partitioned delivery: through crashes, lost answers,    *)
(* requeues and a thread that outlives its publisher, the rows of a        *)
(* machine that are never dead-lettered first arrive in the order they     *)
(* were queued (outbox.py:191-233).                                        *)
ImplementsDelivery == Delivery!Spec

(* No row leaves the table, or is settled, before it has arrived or was    *)
(* dead-lettered (outbox.py:294-301).                                      *)
NothingLost == Delivery!NothingLost

(* No row arrives before an older one of its machine, unless the older one *)
(* was dead-lettered (outbox.py:191-192).                                  *)
ArrivalOrder == Delivery!ArrivalOrder

(* A row of a machine whose receiver accepts it is settled in the end, in  *)
(* spite of another machine's receiver that never does (outbox.py:37-38).  *)
Drains ==
  \A r \in Rows : (status[r] = "pending" /\ part[r] \notin Broken)
                     ~> status[r] # "pending"

(* A row is dead-lettered "after 5 consecutive permanent failures"         *)
(* (linkstuffs_http.py:271, legacy_api.py:178).                            *)
DeadAfterStreak ==
  [][\A r \in Rows : (status[r] # "dead" /\ status'[r] = "dead")
                        => streak[r] >= Strikes]_vars
=============================================================================
