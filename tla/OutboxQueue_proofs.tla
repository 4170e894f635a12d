------------------------- MODULE OutboxQueue_proofs -------------------------
(* The outbox implements a partitioned delivery, for every number of       *)
(* partitions, rows and publisher threads.                                 *)
(*                                                                         *)
(* The argument: a thread only ever has rows in hand that stood at the     *)
(* front of their partition when it fetched them, and a row at the front   *)
(* stays there until it is settled or dead-lettered, since new rows go to  *)
(* the back and a requeued row was dead before.  So each publish is of the *)
(* front row or of one already settled or given up, however stale the      *)
(* batch is and whichever thread holds it.                                 *)
EXTENDS OutboxQueue, CsvMirror, TLAPS

Working == {"posting", "marking", "writing", "judging", "burying"}

(* No row of the partition that waits is older.                            *)
Front(r) ==
  /\ r \in 1..last
  /\ r \in Waiting => \A q \in Waiting : part[q] = part[r] => q >= r

Accounted ==
  /\ \A r \in Rows : status[r] = "absent" <=> r > last
  /\ \A r \in Rows : status[r] \in {"sent", "dead", "purged"}
                        => r \in arrived \cup given
  /\ \A r \in Rows : status[r] = "dead" => r \in given
  /\ given \subseteq 1..last

InHand(i) ==
  /\ \A r \in thread[i].batch : Front(r)
  /\ thread[i].pc \in Working => thread[i].item \in Rows /\ Front(thread[i].item)
  /\ thread[i].verdict = "sent" => /\ thread[i].pc = "marking"
                                   /\ thread[i].item \in arrived

OutboxInv == /\ TypeOK /\ Accounted /\ \A r \in late : Front(r)
             /\ \A i \in Threads : InHand(i)

-----------------------------------------------------------------------------
(* A row at the front stays there while no row joins except at the back.   *)
LEMMA FrontKept ==
  ASSUME NEW r, Front(r), last \in Nat, last' \in Nat, last' >= last,
         \A q \in Waiting' : q \in Waiting \/ q > last,
         Waiting' \subseteq Nat,
         \A q \in 1..last : part'[q] = part[q],
         \A q \in Waiting : q \in 1..last
  PROVE  Front(r)'
<1>1. r \in 1..last /\ r \in Nat
  BY DEF Front
<1>2. r \in (1..last)'
  BY <1>1
<1>3. ASSUME r \in Waiting', NEW q \in Waiting', part'[q] = part'[r]
      PROVE  q >= r
  <2>1. r \in Waiting
    BY <1>1, <1>3
  <2>2. CASE q > last
    BY <1>1, <1>3, <2>2
  <2>3. CASE q \in Waiting
    BY <1>1, <1>3, <2>1, <2>3 DEF Front
  <2> QED BY <1>3, <2>2, <2>3
<1> QED BY <1>2, <1>3 DEF Front

LEMMA WaitingRows ==
  ASSUME OutboxInv
  PROVE  /\ \A q \in Waiting : q \in 1..last
         /\ Waiting \subseteq Nat /\ last \in Nat
BY DEF OutboxInv, TypeOK, Accounted, Waiting, Rows

(* The same, when no row is inserted.                                      *)
LEMMA FrontStays ==
  ASSUME OutboxInv, UNCHANGED <<last, part>>, Waiting' \subseteq Waiting
  PROVE  \A r : Front(r) => Front(r)'
<1>1. /\ \A q \in Waiting : q \in 1..last
      /\ Waiting \subseteq Nat /\ last \in Nat
  BY WaitingRows
<1>2. /\ last' \in Nat /\ last' >= last /\ Waiting' \subseteq Nat
      /\ \A q \in Waiting' : q \in Waiting \/ q > last
      /\ \A q \in 1..last : part'[q] = part[q]
  BY <1>1
<1> QED BY <1>1, <1>2, FrontKept

(* What a step that leaves the rows' places alone must show.               *)
LEMMA Kept ==
  ASSUME OutboxInv, UNCHANGED <<last, part>>, Waiting' \subseteq Waiting,
         TypeOK', Accounted',
         \A r \in late' : r \in late \/ Front(r),
         arrived \subseteq arrived',
         NEW i \in Threads,
         \A j \in Threads \ {i} : thread'[j] = thread[j],
         \A r \in thread'[i].batch : Front(r),
         thread'[i].pc \in Working => thread'[i].item \in Rows
                                      /\ Front(thread'[i].item),
         thread'[i].verdict = "sent" => /\ thread'[i].pc = "marking"
                                        /\ thread'[i].item \in arrived'
  PROVE  OutboxInv'
<1>1. \A r : Front(r) => Front(r)'
  BY FrontStays
<1>2. \A r \in late' : Front(r)'
  BY <1>1 DEF OutboxInv
<1>3. ASSUME NEW j \in Threads PROVE InHand(j)'
  <2>1. CASE j = i
    BY <1>1, <2>1 DEF InHand, Rows
  <2>2. CASE j # i
    <3>1. thread'[j] = thread[j] /\ InHand(j)
      BY <2>2 DEF OutboxInv
    <3> QED BY <1>1, <3>1 DEF InHand, Rows
  <2> QED BY <2>1, <2>2
<1> QED BY <1>2, <1>3 DEF OutboxInv

(* The same, when the threads do not move at all.                          *)
LEMMA KeptAll ==
  ASSUME OutboxInv, UNCHANGED <<last, part, thread>>,
         Waiting' \subseteq Waiting, TypeOK', Accounted',
         late' \subseteq late, arrived \subseteq arrived'
  PROVE  OutboxInv'
<1>1. \A r : Front(r) => Front(r)'
  BY FrontStays
<1>2. \A j \in Threads : InHand(j)'
  BY <1>1 DEF OutboxInv, InHand, Rows
<1> QED BY <1>1, <1>2 DEF OutboxInv

-----------------------------------------------------------------------------
(* The records of the threads                                              *)

LEMMA Stepped ==
  ASSUME thread \in [Threads -> Thread], NEW i \in Threads, NEW pc, NEW new,
         new \in Thread, Step(i, pc, new)
  PROVE  /\ thread' \in [Threads -> Thread] /\ thread'[i] = new
         /\ \A j \in Threads \ {i} : thread'[j] = thread[j]
         /\ thread[i].pc = pc
BY DEF Step

LEMMA ThreadTypes ==
  ASSUME OutboxAssumption, TypeOK, NEW i \in Threads
  PROVE  /\ Ended \in Thread /\ Started \in Thread /\ Done(i) \in Thread
         /\ thread[i] \in Thread
<1>1. thread[i] \in Thread
  BY DEF TypeOK
<1>2. 0 \in 0..Strikes /\ 0 \in 0..MaxRows
  BY DEF OutboxAssumption
<1>3. Ended \in Thread
  BY <1>2 DEF Ended, Thread
<1>4. Started \in Thread
  BY <1>3 DEF Started, Thread
<1>5. Done(i) \in Thread
  BY <1>1, <1>4 DEF Done, Thread
<1> QED BY <1>1, <1>3, <1>4, <1>5

LEMMA ThreadFields ==
  ASSUME NEW i
  PROVE  /\ Ended.pc = "ended" /\ Ended.batch = {} /\ Ended.verdict = "failed"
         /\ Started.pc = "fetch" /\ Started.batch = {}
         /\ Started.verdict = "failed"
         /\ Done(i).pc = "next" /\ Done(i).batch = thread[i].batch
         /\ Done(i).verdict = "failed"
BY DEF Ended, Started, Done

(* A step of a loop that touches nothing but its thread.                   *)
LEMMA ThreadOnly ==
  ASSUME OutboxAssumption, OutboxInv, NEW i \in Threads, NEW pc, NEW new,
         new \in Thread, Step(i, pc, new),
         UNCHANGED <<kind, table, link, late, history, budget>>,
         \A r \in new.batch : Front(r),
         new.pc \in Working => new.item \in Rows /\ Front(new.item),
         new.verdict # "sent"
  PROVE  OutboxInv' /\ UNCHANGED Delivery!vars
<1>1. /\ thread' \in [Threads -> Thread] /\ thread'[i] = new
      /\ \A j \in Threads \ {i} : thread'[j] = thread[j]
  <2>1. thread \in [Threads -> Thread]
    BY DEF OutboxInv, TypeOK
  <2> QED BY <2>1, Stepped
<1>2. /\ UNCHANGED <<last, part>> /\ Waiting' = Waiting
      /\ UNCHANGED <<status, given, arrived, late>>
  BY DEF table, history, Waiting
<1>3. TypeOK'
  BY <1>1 DEF OutboxInv, TypeOK, table, history
<1>4. Accounted'
  BY <1>2 DEF OutboxInv, Accounted
<1>5. OutboxInv'
  BY <1>1, <1>2, <1>3, <1>4, Kept
<1> QED BY <1>2, <1>5 DEF Delivery!vars

-----------------------------------------------------------------------------
(* One lemma per step of the loop                                          *)

LEMMA LeaveLoopStep ==
  ASSUME OutboxAssumption, OutboxInv, NEW i \in Threads, LeaveLoop(i)
  PROVE  OutboxInv' /\ UNCHANGED Delivery!vars
<1>1. Ended \in Thread
  BY ThreadTypes DEF OutboxInv
<1>2. Ended.batch = {} /\ Ended.pc \notin Working /\ Ended.verdict # "sent"
  BY ThreadFields DEF Working
<1> QED BY <1>1, <1>2, ThreadOnly DEF LeaveLoop

LEMMA FetchStep ==
  ASSUME OutboxAssumption, OutboxInv, NEW i \in Threads, Fetch(i)
  PROVE  OutboxInv' /\ UNCHANGED Delivery!vars
<1> DEFINE new == [thread[i] EXCEPT !.pc = "next",
                                    !.batch = Oldest(Heads, Limit)]
<1>0. thread[i].pc = "fetch"
  BY DEF Fetch, Step
<1>1. thread[i] \in Thread /\ InHand(i)
  BY ThreadTypes DEF OutboxInv
<1>2. Oldest(Heads, Limit) \subseteq Heads /\ Heads \subseteq Rows
  BY DEF Oldest, Heads
<1>3. /\ new \in Thread /\ new.pc = "next"
      /\ new.batch = Oldest(Heads, Limit)
      /\ new.verdict = thread[i].verdict /\ new.item = thread[i].item
  BY <1>1, <1>2 DEF Thread
<1>4. \A r \in Heads : Front(r)
  <2>1. \A r \in Heads : r \in 1..last
    BY DEF Heads, OutboxInv, Accounted, TypeOK, Rows
  <2>2. ASSUME NEW r \in Heads, NEW q \in Waiting, part[q] = part[r]
        PROVE  q >= r
    BY <2>2 DEF Heads, Waiting, Pending
  <2> QED BY <2>1, <2>2 DEF Front
<1>6. /\ Step(i, "fetch", new)
      /\ UNCHANGED <<kind, table, link, late, history, budget>>
  BY DEF Fetch
<1> HIDE DEF new
<1>5. /\ \A r \in new.batch : Front(r)
      /\ new.pc \notin Working
      /\ new.verdict # "sent"
  <2>1. thread[i].verdict # "sent"
    BY <1>0, <1>1 DEF InHand
  <2>2. new.pc \notin Working
    BY <1>3 DEF Working
  <2> QED BY <2>1, <2>2, <1>2, <1>3, <1>4
<1>7. new.pc \in Working => new.item \in Rows /\ Front(new.item)
  BY <1>5
<1> QED BY <1>3, <1>5, <1>6, <1>7, ThreadOnly

LEMMA EndOfBatchStep ==
  ASSUME OutboxAssumption, OutboxInv, NEW i \in Threads, EndOfBatch(i)
  PROVE  OutboxInv' /\ UNCHANGED Delivery!vars
<1> DEFINE new == [thread[i] EXCEPT !.pc = "fetch", !.batch = {}]
<1>0. thread[i].pc = "next"
  BY DEF EndOfBatch, Step
<1>1. thread[i] \in Thread /\ InHand(i)
  BY ThreadTypes DEF OutboxInv
<1>2. /\ new \in Thread /\ new.pc = "fetch" /\ new.batch = {}
      /\ new.verdict = thread[i].verdict /\ new.item = thread[i].item
  BY <1>1 DEF Thread
<1>4. /\ Step(i, "next", new)
      /\ UNCHANGED <<kind, table, link, late, history, budget>>
  BY DEF EndOfBatch
<1> HIDE DEF new
<1>3. /\ \A r \in new.batch : Front(r)
      /\ new.pc \notin Working
      /\ new.verdict # "sent"
  <2>1. thread[i].verdict # "sent"
    BY <1>0, <1>1 DEF InHand
  <2>2. new.pc \notin Working
    BY <1>2 DEF Working
  <2> QED BY <2>1, <2>2, <1>2
<1>5. new.pc \in Working => new.item \in Rows /\ Front(new.item)
  BY <1>3
<1> QED BY <1>2, <1>3, <1>4, <1>5, ThreadOnly

LEMMA NextItemStep ==
  ASSUME OutboxAssumption, OutboxInv, NEW i \in Threads, NEW r \in Rows,
         NextItem(i, r)
  PROVE  OutboxInv' /\ UNCHANGED Delivery!vars
<1> DEFINE new == [thread[i] EXCEPT !.pc = "posting", !.item = r,
                                    !.batch = @ \ {r}]
<1>1. thread[i].pc = "next" /\ r \in thread[i].batch
  BY DEF NextItem, Step
<1>2. thread[i] \in Thread /\ InHand(i) /\ r \in 0..MaxRows
  BY ThreadTypes DEF OutboxInv, Rows, OutboxAssumption
<1>3. /\ new \in Thread /\ new.pc = "posting" /\ new.item = r
      /\ new.batch = thread[i].batch \ {r}
      /\ new.verdict = thread[i].verdict
  BY <1>2 DEF Thread
<1>4. /\ Step(i, "next", new)
      /\ UNCHANGED <<kind, table, link, late, history, budget>>
  BY DEF NextItem
<1> HIDE DEF new
<1>5. /\ \A q \in new.batch : Front(q)
      /\ new.item \in Rows
      /\ Front(new.item)
      /\ new.verdict # "sent"
  BY <1>1, <1>2, <1>3 DEF InHand
<1> QED BY <1>3, <1>4, <1>5, ThreadOnly

LEMMA ReadAttemptsStep ==
  ASSUME OutboxAssumption, OutboxInv, NEW i \in Threads, ReadAttempts(i)
  PROVE  OutboxInv' /\ UNCHANGED Delivery!vars
<1> DEFINE n == IF InTable(Item(i)) THEN attempts[Item(i)] ELSE 0
           new == [thread[i] EXCEPT !.pc = "writing", !.count = n]
<1>1. thread[i].pc = "marking" /\ thread[i].verdict # "sent"
  BY DEF ReadAttempts, Step
<1>2. thread[i] \in Thread /\ InHand(i)
  BY ThreadTypes DEF OutboxInv
<1>3. /\ thread[i].item \in Rows
      /\ Front(thread[i].item)
  BY <1>1, <1>2 DEF InHand, Working
<1>4. n \in 0..Strikes
  BY <1>3 DEF Item, OutboxInv, TypeOK, OutboxAssumption
<1>5. Step(i, "marking", new)
      /\ UNCHANGED <<kind, table, link, late, history, budget>>
  BY DEF ReadAttempts
<1> HIDE DEF n
<1>6. /\ new \in Thread /\ new.item = thread[i].item
      /\ new.batch = thread[i].batch /\ new.verdict = thread[i].verdict
  BY <1>2, <1>4 DEF Thread
<1> HIDE DEF new
<1>7. /\ \A r \in new.batch : Front(r)
      /\ new.item \in Rows
      /\ Front(new.item)
      /\ new.verdict # "sent"
  BY <1>1, <1>2, <1>3, <1>6 DEF InHand
<1> QED BY <1>5, <1>6, <1>7, ThreadOnly

(* A thread is done with its row: the row is gone from its hands.          *)
LEMMA DoneFront ==
  ASSUME OutboxInv, NEW i \in Threads
  PROVE  /\ \A r \in Done(i).batch : Front(r)
         /\ Done(i).pc \notin Working
         /\ Done(i).verdict # "sent"
<1>1. InHand(i)
  BY DEF OutboxInv
<1> QED BY <1>1, ThreadFields DEF InHand, Working

LEMMA JudgeStep ==
  ASSUME OutboxAssumption, OutboxInv, NEW i \in Threads, Judge(i)
  PROVE  OutboxInv' /\ UNCHANGED Delivery!vars
<1> DEFINE bury == [thread[i] EXCEPT !.pc = "burying"]
<1>1. thread[i].pc = "judging"
  BY DEF Judge, Step
<1>2. thread[i] \in Thread /\ InHand(i) /\ Done(i) \in Thread
  BY ThreadTypes DEF OutboxInv
<1>3. /\ thread[i].item \in Rows
      /\ Front(thread[i].item)
      /\ thread[i].verdict # "sent"
  BY <1>1, <1>2 DEF InHand, Working
<1>4. /\ bury \in Thread /\ bury.item = thread[i].item
      /\ bury.batch = thread[i].batch /\ bury.verdict = thread[i].verdict
  BY <1>2 DEF Thread
<1>5. /\ Step(i, "judging", bury) \/ Step(i, "judging", Done(i))
      /\ UNCHANGED <<kind, table, link, late, history, budget>>
  BY DEF Judge
<1> HIDE DEF bury
<1>6. /\ \A r \in bury.batch : Front(r)
      /\ bury.item \in Rows
      /\ Front(bury.item)
      /\ bury.verdict # "sent"
  BY <1>2, <1>3, <1>4 DEF InHand
<1>7. CASE Step(i, "judging", bury)
  BY <1>4, <1>5, <1>6, <1>7, ThreadOnly
<1>8. CASE Step(i, "judging", Done(i))
  BY <1>2, <1>5, <1>8, DoneFront, ThreadOnly
<1> QED BY <1>5, <1>7, <1>8

LEMMA CappedType ==
  ASSUME OutboxAssumption, NEW n \in Nat
  PROVE  Capped(n) \in 0..Strikes
BY DEF OutboxAssumption, Capped

LEMMA WriteAttemptsStep ==
  ASSUME OutboxAssumption, OutboxInv, NEW i \in Threads, WriteAttempts(i)
  PROVE  OutboxInv' /\ UNCHANGED Delivery!vars
<1> DEFINE r   == thread[i].item
           n   == IF InTable(r) THEN Capped(thread[i].count + 1)
                  ELSE attempts[r]
           judge == [thread[i] EXCEPT !.pc = "judging", !.count = 0]
           new == IF thread[i].verdict = "permanent" THEN judge ELSE Done(i)
<1>1. /\ thread[i].pc = "writing" /\ Step(i, "writing", new)
      /\ attempts' = [attempts EXCEPT ![r] = n]
      /\ due' = [due EXCEPT ![r] = due[r] /\ ~InTable(r)]
      /\ UNCHANGED <<kind, last, part, status, link, late, history, budget>>
  BY DEF WriteAttempts, Item, Step
<1>2. thread[i] \in Thread /\ InHand(i) /\ Done(i) \in Thread
  BY ThreadTypes DEF OutboxInv
<1>3. /\ r \in Rows
      /\ Front(r)
      /\ thread[i].verdict # "sent"
  BY <1>1, <1>2 DEF InHand, Working
<1>4. n \in 0..Strikes
  <2>1. thread[i].count + 1 \in Nat
    BY <1>2 DEF Thread, OutboxAssumption
  <2> QED BY <1>3, <2>1, CappedType DEF OutboxInv, TypeOK
<1>5. /\ judge \in Thread /\ judge.item = r /\ judge.batch = thread[i].batch
      /\ judge.verdict = thread[i].verdict
  <2>1. 0 \in 0..Strikes
    BY DEF OutboxAssumption
  <2>2. thread[i] \in Thread
    BY <1>2
  <2> QED BY <2>1, <2>2 DEF Thread
<1> HIDE DEF judge, n
<1>6. /\ new \in Thread
      /\ \A q \in new.batch : Front(q)
      /\ new.pc \in Working => new.item \in Rows /\ Front(new.item)
      /\ new.verdict # "sent"
  <2>1. CASE new = Done(i)
    BY <1>2, <2>1, DoneFront
  <2>2. CASE new = judge
    <3> HIDE DEF r, new
    <3>1. \A q \in thread[i].batch : Front(q)
      BY <1>2 DEF InHand
    <3> QED BY <1>3, <1>5, <2>2, <3>1
  <2> QED BY <2>1, <2>2
<1> HIDE DEF r, new
<1>7. /\ thread' \in [Threads -> Thread] /\ thread'[i] = new
      /\ \A j \in Threads \ {i} : thread'[j] = thread[j]
  BY <1>1, <1>6, Stepped DEF OutboxInv, TypeOK
<1>8. /\ UNCHANGED <<last, part>> /\ Waiting' = Waiting
      /\ UNCHANGED <<status, given, arrived, late>>
  BY <1>1 DEF history, Waiting
<1>9. TypeOK'
  <2>1. attempts' \in [Rows -> 0..Strikes] /\ due' \in [Rows -> BOOLEAN]
    BY <1>1, <1>4, Zenon DEF OutboxInv, TypeOK
  <2> QED BY <1>1, <1>7, <2>1 DEF OutboxInv, TypeOK, history
<1>10. Accounted'
  BY <1>8 DEF OutboxInv, Accounted
<1>11. OutboxInv'
  BY <1>6, <1>7, <1>8, <1>9, <1>10, Kept
<1> QED BY <1>8, <1>11 DEF Delivery!vars

-----------------------------------------------------------------------------
(* The steps that move a row, and what each is of the delivery             *)

(* Whatever a thread publishes may arrive.                                 *)
LEMMA MayArrive ==
  ASSUME OutboxInv, NEW r \in Rows, Front(r)
  PROVE  \/ r \in Waiting /\ Delivery!Older(r) = {}
         \/ r \in given \/ r \in arrived
<1>1. CASE r \in Waiting
  <2>1. \A q \in Waiting : q \in Nat
    BY WaitingRows
  <2>2. r \in Nat
    BY <1>1, <2>1
  <2>3. \A q \in Waiting : ~(q < r /\ part[q] = part[r])
    BY <1>1, <2>1, <2>2 DEF Front
  <2> QED BY <1>1, <2>3 DEF Delivery!Older
<1>2. CASE r \notin Waiting
  <2>1. status[r] # "absent" /\ status[r] \in Status
    BY DEF Front, OutboxInv, Accounted, TypeOK, Rows
  <2>2. CASE status[r] = "pending"
    BY <1>2, <2>2 DEF Waiting
  <2>3. CASE status[r] # "pending"
    BY <2>1, <2>3 DEF Status, OutboxInv, Accounted
  <2> QED BY <2>2, <2>3
<1> QED BY <1>1, <1>2

(* An arrival, of a row in hand or of one sent and given up waiting for.   *)
LEMMA Arrives ==
  ASSUME OutboxInv, NEW r \in Rows, Front(r), arrived' = arrived \cup {r},
         UNCHANGED <<last, part, given>>, Waiting' = Waiting
  PROVE  Delivery!Next \/ UNCHANGED Delivery!vars
<1>1. CASE r \in arrived
  BY <1>1 DEF Delivery!vars
<1>2. CASE r \notin arrived
  <2>1. Delivery!Arrive(r)
    BY <1>2, MayArrive DEF Delivery!Arrive
  <2>2. r \in Delivery!Tickets
    BY DEF Delivery!Tickets, Rows
  <2> QED BY <2>1, <2>2 DEF Delivery!Next
<1> QED BY <1>1, <1>2

(* A row is sent: the answer decides whether it arrives, perhaps late.     *)
LEMMA PostStep ==
  ASSUME OutboxAssumption, OutboxInv, NEW i \in Threads, NEW o \in Outcome,
         Post(i, o)
  PROVE  OutboxInv' /\ (Delivery!Next \/ UNCHANGED Delivery!vars)
<1> DEFINE r   == thread[i].item
           new == [thread[i] EXCEPT !.pc = "marking", !.verdict = Verdict(o)]
<1>1. /\ thread[i].pc = "posting" /\ Step(i, "posting", new)
      /\ UNCHANGED <<kind, table, link, given>>
      /\ arrived' = IF o = "accepted" THEN arrived \cup {r} ELSE arrived
      /\ late' = late \/ late' = late \cup {r}
      /\ streak' = [streak EXCEPT ![r] = IF o = "permanent"
                                         THEN Capped(streak[r] + 1) ELSE 0]
      /\ budget' \in 0..MaxTroubles
  BY DEF Post, Item, Step, OutboxInv, TypeOK, OutboxAssumption
<1>2. thread[i] \in Thread /\ InHand(i)
  BY ThreadTypes DEF OutboxInv
<1>3. /\ r \in Rows
      /\ Front(r)
      /\ \A q \in thread[i].batch : Front(q)
  BY <1>1, <1>2 DEF InHand, Working
<1>4. /\ Verdict(o) \in {"sent", "failed", "permanent"}
      /\ Verdict(o) = "sent" => o = "accepted"
  BY DEF Verdict, Outcome
<1>5. /\ new \in Thread /\ new.item = r /\ new.batch = thread[i].batch
      /\ new.pc = "marking" /\ new.verdict = Verdict(o)
  BY <1>2, <1>4 DEF Thread
<1> HIDE DEF new, r
<1>6. /\ thread' \in [Threads -> Thread] /\ thread'[i] = new
      /\ \A j \in Threads \ {i} : thread'[j] = thread[j]
  BY <1>1, <1>5, Stepped DEF OutboxInv, TypeOK
<1>7. streak' \in [Rows -> 0..Strikes]
  <2>1. streak \in [Rows -> 0..Strikes] /\ streak[r] + 1 \in Nat
        /\ 0 \in 0..Strikes
    BY <1>3 DEF OutboxInv, TypeOK, OutboxAssumption
  <2>2. Capped(streak[r] + 1) \in 0..Strikes
    BY <2>1, CappedType
  <2> QED BY <1>1, <2>1, <2>2
<1>8. /\ UNCHANGED <<last, part, status, given>> /\ Waiting' = Waiting
      /\ arrived \subseteq arrived'
  BY <1>1 DEF table, Waiting
<1>9. TypeOK'
  BY <1>1, <1>3, <1>6, <1>7 DEF OutboxInv, TypeOK, table
<1>10. Accounted'
  BY <1>8 DEF OutboxInv, Accounted
<1>11. OutboxInv'
  <2>1. \A q \in late' : q \in late \/ Front(q)
    BY <1>1, <1>3
  <2>2. thread'[i].verdict = "sent" => thread'[i].item \in arrived'
    BY <1>1, <1>4, <1>5, <1>6
  <2> QED BY <1>3, <1>5, <1>6, <1>8, <1>9, <1>10, <2>1, <2>2, Kept
<1>12. CASE o = "accepted"
  BY <1>1, <1>3, <1>8, <1>11, <1>12, Arrives
<1>13. CASE o # "accepted"
  BY <1>1, <1>8, <1>11, <1>13 DEF Delivery!vars
<1> QED BY <1>12, <1>13

LEMMA ArriveLateStep ==
  ASSUME OutboxAssumption, OutboxInv, NEW r \in Rows, ArriveLate(r)
  PROVE  OutboxInv' /\ (Delivery!Next \/ UNCHANGED Delivery!vars)
<1>1. /\ Front(r) /\ arrived' = arrived \cup {r} /\ late' = late \ {r}
      /\ UNCHANGED <<kind, table, thread, link, given, streak, budget>>
  BY DEF ArriveLate, OutboxInv
<1>2. UNCHANGED <<last, part, status, given, thread>> /\ Waiting' = Waiting
  BY <1>1 DEF table, Waiting
<1>3. TypeOK' /\ Accounted'
  BY <1>1, <1>2 DEF OutboxInv, TypeOK, Accounted, table
<1>4. OutboxInv'
  BY <1>1, <1>2, <1>3, KeptAll
<1> QED BY <1>1, <1>2, <1>4, Arrives

LEMMA MarkSentStep ==
  ASSUME OutboxAssumption, OutboxInv, NEW i \in Threads, MarkSent(i)
  PROVE  OutboxInv' /\ (Delivery!Next \/ UNCHANGED Delivery!vars)
<1> DEFINE r == thread[i].item
<1>1. /\ thread[i].pc = "marking" /\ Step(i, "marking", Done(i))
      /\ status' = [status EXCEPT ![r] = IF InTable(r) THEN "sent"
                                         ELSE status[r]]
      /\ UNCHANGED <<kind, last, part, attempts, due, link, late, history,
                     budget>>
      /\ thread[i].verdict = "sent"
  BY DEF MarkSent, Item, Step
<1>2. thread[i] \in Thread /\ InHand(i) /\ Done(i) \in Thread
  BY ThreadTypes DEF OutboxInv
<1>3. /\ r \in Rows /\ r \in arrived
      /\ Front(r)
  BY <1>1, <1>2 DEF InHand, Working
<1> HIDE DEF r
<1>4. /\ thread' \in [Threads -> Thread] /\ thread'[i] = Done(i)
      /\ \A j \in Threads \ {i} : thread'[j] = thread[j]
  BY <1>1, <1>2, Stepped DEF OutboxInv, TypeOK
<1>5. status \in [Rows -> Status] /\ UNCHANGED <<arrived, given>>
  BY <1>1 DEF OutboxInv, TypeOK, history
<1>6. status' \in [Rows -> Status]
  BY <1>1, <1>3, <1>5 DEF Status
<1>7. Waiting' = IF r \in Waiting THEN Waiting \ {r} ELSE Waiting
  BY <1>1, <1>3, <1>5 DEF Waiting, InTable
<1>8. TypeOK'
  BY <1>1, <1>4, <1>6 DEF OutboxInv, TypeOK, history
<1>9. Accounted'
  BY <1>1, <1>3, <1>5 DEF OutboxInv, Accounted, InTable
<1>10. OutboxInv'
  BY <1>1, <1>4, <1>5, <1>7, <1>8, <1>9, DoneFront, Kept
<1>11. CASE r \in Waiting
  <2>1. Delivery!Settle(r)
    BY <1>1, <1>3, <1>5, <1>7, <1>11 DEF Delivery!Settle
  <2> QED BY <1>3, <1>10, <2>1 DEF Delivery!Next, Delivery!Tickets, Rows
<1>12. CASE r \notin Waiting
  BY <1>1, <1>5, <1>7, <1>10, <1>12 DEF Delivery!vars
<1> QED BY <1>11, <1>12

LEMMA BuryStep ==
  ASSUME OutboxAssumption, OutboxInv, NEW i \in Threads, Bury(i)
  PROVE  OutboxInv' /\ (Delivery!Next \/ UNCHANGED Delivery!vars)
<1> DEFINE r == thread[i].item
<1>1. /\ thread[i].pc = "burying" /\ Step(i, "burying", Done(i))
      /\ status' = [status EXCEPT ![r] = IF InTable(r) THEN "dead"
                                         ELSE status[r]]
      /\ given' = IF InTable(r) THEN given \cup {r} ELSE given
      /\ UNCHANGED <<kind, last, part, attempts, due, link, late, arrived,
                     streak, budget>>
  BY DEF Bury, Item, Step
<1>2. thread[i] \in Thread /\ InHand(i) /\ Done(i) \in Thread
  BY ThreadTypes DEF OutboxInv
<1>3. /\ r \in Rows
      /\ Front(r)
  BY <1>1, <1>2 DEF InHand, Working
<1> HIDE DEF r
<1>4. /\ thread' \in [Threads -> Thread] /\ thread'[i] = Done(i)
      /\ \A j \in Threads \ {i} : thread'[j] = thread[j]
  BY <1>1, <1>2, Stepped DEF OutboxInv, TypeOK
<1>5. status \in [Rows -> Status] /\ given \subseteq Rows
  BY DEF OutboxInv, TypeOK
<1>6. status' \in [Rows -> Status] /\ given' \subseteq Rows
  BY <1>1, <1>3, <1>5 DEF Status
<1>7. Waiting' = IF InTable(r) THEN Waiting \ {r} ELSE Waiting
  BY <1>1, <1>3, <1>5 DEF Waiting, InTable
<1>8. TypeOK'
  BY <1>1, <1>4, <1>6 DEF OutboxInv, TypeOK
<1>9. Accounted'
  BY <1>1, <1>3, <1>5 DEF OutboxInv, Accounted, InTable, Front
<1>10. OutboxInv'
  BY <1>1, <1>4, <1>7, <1>8, <1>9, DoneFront, Kept
<1>11. CASE ~InTable(r)
  BY <1>1, <1>7, <1>10, <1>11 DEF Delivery!vars
<1>12. CASE InTable(r) /\ r \in given /\ r \notin arrived
  <2>1. given' = given /\ Waiting' = Waiting
    BY <1>1, <1>7, <1>12 DEF Waiting
  <2> QED BY <1>1, <1>10, <2>1 DEF Delivery!vars
<1>13. CASE InTable(r) /\ (r \notin given \/ r \in arrived)
  <2>1. Delivery!GiveUp(r)
    BY <1>1, <1>3, <1>7, <1>13, MayArrive DEF Delivery!GiveUp
  <2> QED BY <1>3, <1>10, <2>1 DEF Delivery!Next, Delivery!Tickets, Rows
<1> QED BY <1>11, <1>12, <1>13

-----------------------------------------------------------------------------
(* The steps that leave every row where it is                              *)

LEMMA BudgetType ==
  ASSUME OutboxAssumption, OutboxInv, budget > 0
  PROVE  budget - 1 \in 0..MaxTroubles
BY DEF OutboxAssumption, OutboxInv, TypeOK

LEMMA LoopErrorStep ==
  ASSUME OutboxAssumption, OutboxInv, NEW i \in Threads, LoopError(i)
  PROVE  OutboxInv' /\ UNCHANGED Delivery!vars
<1> DEFINE new == [Started EXCEPT !.running = thread[i].running]
<1>1. /\ thread' = [thread EXCEPT ![i] = new]
      /\ budget' = budget - 1 /\ budget > 0
      /\ UNCHANGED <<kind, table, link, history>>
      /\ \/ late' = late
         \/ thread[i].pc = "posting" /\ late' = late \cup {thread[i].item}
  BY DEF LoopError, Item
<1>2. thread[i] \in Thread /\ Started \in Thread
  BY ThreadTypes DEF OutboxInv
<1>3. new \in Thread /\ new.batch = {} /\ new.pc = "fetch"
      /\ new.verdict = "failed"
  BY <1>2, ThreadFields DEF Thread
<1> HIDE DEF new
<1>4. /\ thread' \in [Threads -> Thread] /\ thread'[i] = new
      /\ \A j \in Threads \ {i} : thread'[j] = thread[j]
  BY <1>1, <1>3 DEF OutboxInv, TypeOK
<1>5. /\ UNCHANGED <<last, part>> /\ Waiting' = Waiting
      /\ UNCHANGED <<status, given, arrived>>
  BY <1>1 DEF table, history, Waiting
<1>10. /\ \A r \in late' : r \in late \/ Front(r)
       /\ late' \subseteq Rows
  <2>1. thread[i].pc = "posting" => thread[i].item \in Rows /\ Front(thread[i].item)
    BY DEF OutboxInv, InHand, Working
  <2>2. late \subseteq Rows
    BY DEF OutboxInv, TypeOK
  <2> QED
    BY <1>1, <2>1, <2>2
<1>6. TypeOK'
  BY <1>1, <1>4, <1>10, BudgetType DEF OutboxInv, TypeOK, table, history
<1>7. Accounted'
  BY <1>5 DEF OutboxInv, Accounted
<1>8. new.pc \notin Working /\ new.verdict # "sent"
  BY <1>3 DEF Working
<1>9. OutboxInv'
  BY <1>3, <1>4, <1>5, <1>6, <1>7, <1>8, <1>10, Kept
<1> QED BY <1>5, <1>9 DEF Delivery!vars

LEMMA StopStep ==
  ASSUME OutboxAssumption, OutboxInv, NEW i \in Threads, Stop(i)
  PROVE  OutboxInv' /\ UNCHANGED Delivery!vars
<1> DEFINE new == [thread[i] EXCEPT !.running = FALSE]
<1>1. /\ thread' = [thread EXCEPT ![i] = new]
      /\ budget' = budget - 1 /\ budget > 0
      /\ UNCHANGED <<kind, table, link, late, history>>
  BY DEF Stop
<1>2. thread[i] \in Thread /\ InHand(i)
  BY ThreadTypes DEF OutboxInv
<1>3. /\ new \in Thread /\ new.batch = thread[i].batch
      /\ new.pc = thread[i].pc /\ new.item = thread[i].item
      /\ new.verdict = thread[i].verdict
  BY <1>2 DEF Thread
<1> HIDE DEF new
<1>4. /\ thread' \in [Threads -> Thread] /\ thread'[i] = new
      /\ \A j \in Threads \ {i} : thread'[j] = thread[j]
  BY <1>1, <1>3 DEF OutboxInv, TypeOK
<1>5. /\ UNCHANGED <<last, part>> /\ Waiting' = Waiting
      /\ UNCHANGED <<status, given, arrived, late>>
  BY <1>1 DEF table, history, Waiting
<1>6. TypeOK'
  BY <1>1, <1>4, BudgetType DEF OutboxInv, TypeOK, table, history
<1>7. Accounted'
  BY <1>5 DEF OutboxInv, Accounted
<1>8. /\ \A r \in thread'[i].batch : Front(r)
      /\ thread'[i].pc \in Working => /\ thread'[i].item \in Rows
                                      /\ Front(thread'[i].item)
      /\ thread'[i].verdict = "sent" => /\ thread'[i].pc = "marking"
                                        /\ thread'[i].item \in arrived'
  BY <1>2, <1>3, <1>4, <1>5 DEF InHand
<1>9. OutboxInv'
  BY <1>4, <1>5, <1>6, <1>7, <1>8, Kept
<1> QED BY <1>5, <1>9 DEF Delivery!vars

LEMMA StartStep ==
  ASSUME OutboxAssumption, OutboxInv, Start
  PROVE  OutboxInv' /\ UNCHANGED Delivery!vars
<1>1. PICK i \in Idle : thread' = [thread EXCEPT ![i] = Started]
  BY Zenon DEF Start
<1>2. /\ i \in Threads /\ thread[i].pc = "ended"
      /\ UNCHANGED <<kind, table, link, late, history, budget>>
  BY <1>1 DEF Start, Idle
<1>3. Started \in Thread
  BY <1>2, ThreadTypes DEF OutboxInv
<1>4. Step(i, "ended", Started)
  BY <1>1, <1>2 DEF Step
<1>5. /\ Started.batch = {} /\ Started.pc \notin Working
      /\ Started.verdict # "sent"
  BY ThreadFields DEF Working
<1> QED BY <1>2, <1>3, <1>4, <1>5, ThreadOnly

LEMMA CrashStep ==
  ASSUME OutboxAssumption, OutboxInv, Crash
  PROVE  OutboxInv' /\ UNCHANGED Delivery!vars
<1>1. /\ thread' = [i \in Threads |-> Ended] /\ link' = FALSE
      /\ budget' = budget - 1 /\ budget > 0
      /\ UNCHANGED <<kind, table, late, history>>
  BY DEF Crash
<1>2. /\ UNCHANGED <<last, part>> /\ Waiting' = Waiting
      /\ UNCHANGED <<status, given, arrived, late>>
  BY <1>1 DEF table, history, Waiting
<1>3. thread' \in [Threads -> Thread]
  BY <1>1, ThreadTypes DEF OutboxInv
<1>4. TypeOK'
  BY <1>1, <1>3, BudgetType DEF OutboxInv, TypeOK, table, history
<1>5. Accounted'
  BY <1>2 DEF OutboxInv, Accounted
<1>6. \A r \in late' : Front(r)'
  BY <1>2, FrontStays DEF OutboxInv
<1>7. ASSUME NEW i \in Threads PROVE InHand(i)'
  <2>1. thread'[i].batch = {} /\ thread'[i].pc = "ended"
        /\ thread'[i].verdict = "failed"
    BY <1>1, ThreadFields
  <2> QED BY <2>1 DEF InHand, Working
<1>8. OutboxInv'
  BY <1>4, <1>5, <1>6, <1>7 DEF OutboxInv
<1> QED BY <1>2, <1>8 DEF Delivery!vars

LEMMA LinkStep ==
  ASSUME OutboxAssumption, OutboxInv, Connect \/ Disconnect
  PROVE  OutboxInv' /\ UNCHANGED Delivery!vars
<1>1. /\ UNCHANGED <<kind, table, thread, late, history>>
      /\ link' \in BOOLEAN /\ budget' \in 0..MaxTroubles
  BY BudgetType DEF Connect, Disconnect, OutboxInv, TypeOK
<1>2. /\ UNCHANGED <<last, part>> /\ Waiting' = Waiting
      /\ UNCHANGED <<status, given, arrived, late, thread>>
  BY <1>1 DEF table, history, Waiting
<1>3. TypeOK' /\ Accounted'
  BY <1>1, <1>2 DEF OutboxInv, TypeOK, Accounted, table, history
<1>4. OutboxInv'
  BY <1>2, <1>3, KeptAll
<1> QED BY <1>2, <1>4 DEF Delivery!vars

LEMMA BackoffEndsStep ==
  ASSUME OutboxAssumption, OutboxInv, NEW r \in Rows, BackoffEnds(r)
  PROVE  OutboxInv' /\ UNCHANGED Delivery!vars
<1>1. /\ due' = [due EXCEPT ![r] = TRUE]
      /\ UNCHANGED <<kind, last, part, status, attempts, thread, link, late,
                     history, budget>>
  BY DEF BackoffEnds
<1>2. Waiting' = Waiting /\ UNCHANGED <<given, arrived>>
  BY <1>1 DEF history, Waiting
<1>3. due' \in [Rows -> BOOLEAN]
  BY <1>1, Zenon DEF OutboxInv, TypeOK
<1>4. TypeOK' /\ Accounted'
  BY <1>1, <1>2, <1>3 DEF OutboxInv, TypeOK, Accounted, history
<1>5. OutboxInv'
  BY <1>1, <1>2, <1>4, KeptAll
<1> QED BY <1>1, <1>2, <1>5 DEF Delivery!vars

(* A row queued again was dead, so the delivery has given it up already.   *)
LEMMA RequeueStep ==
  ASSUME OutboxAssumption, OutboxInv, Requeue
  PROVE  OutboxInv' /\ UNCHANGED Delivery!vars
<1>1. /\ status' = [r \in Rows |-> IF r \in Requeueable THEN "pending"
                                   ELSE status[r]]
      /\ due' = [r \in Rows |-> IF r \in Requeueable THEN TRUE ELSE due[r]]
      /\ budget' = budget - 1 /\ budget > 0
      /\ UNCHANGED <<kind, last, part, attempts, thread, link, late, history>>
  BY DEF Requeue
<1>2. UNCHANGED <<given, arrived>>
  BY <1>1 DEF history
<1>3. Waiting' = Waiting
  BY <1>1, <1>2 DEF Waiting, Requeueable, OutboxInv, Accounted
<1>4. status' \in [Rows -> Status] /\ due' \in [Rows -> BOOLEAN]
  BY <1>1 DEF OutboxInv, TypeOK, Status
<1>5. TypeOK'
  BY <1>1, <1>4, BudgetType DEF OutboxInv, TypeOK, history
<1>6. Accounted'
  BY <1>1, <1>2 DEF OutboxInv, Accounted, Requeueable
<1>7. OutboxInv'
  BY <1>1, <1>2, <1>3, <1>5, <1>6, KeptAll
<1> QED BY <1>1, <1>2, <1>3, <1>7 DEF Delivery!vars

LEMMA PurgeStep ==
  ASSUME OutboxAssumption, OutboxInv, NEW S \in SUBSET Rows, Purge(S)
  PROVE  OutboxInv' /\ UNCHANGED Delivery!vars
<1>1. /\ S \subseteq Purgeable
      /\ status' = [r \in Rows |-> IF r \in S THEN "purged" ELSE status[r]]
      /\ attempts' = [r \in Rows |-> IF r \in S THEN 0 ELSE attempts[r]]
      /\ due' = [r \in Rows |-> due[r] /\ r \notin S]
      /\ UNCHANGED <<kind, last, part, thread, link, late, history, budget>>
  BY DEF Purge
<1>2. UNCHANGED <<given, arrived>>
  BY <1>1 DEF history
<1>3. Waiting' = Waiting
  BY <1>1, <1>2 DEF Waiting, Purgeable
<1>4. /\ status' \in [Rows -> Status]
      /\ attempts' \in [Rows -> 0..Strikes]
      /\ due' \in [Rows -> BOOLEAN]
  <2>1. 0 \in 0..Strikes
    BY DEF OutboxAssumption
  <2>2. status' \in [Rows -> Status]
    BY <1>1 DEF OutboxInv, TypeOK, Status
  <2>3. attempts' \in [Rows -> 0..Strikes]
    BY <1>1, <2>1 DEF OutboxInv, TypeOK
  <2>4. due' \in [Rows -> BOOLEAN]
    BY <1>1, Zenon
  <2> QED BY <2>2, <2>3, <2>4
<1>5. TypeOK'
  BY <1>1, <1>4 DEF OutboxInv, TypeOK, history
<1>6. Accounted'
  BY <1>1, <1>2 DEF OutboxInv, Accounted, Purgeable
<1>7. OutboxInv'
  BY <1>1, <1>2, <1>3, <1>5, <1>6, KeptAll
<1> QED BY <1>1, <1>2, <1>3, <1>7 DEF Delivery!vars

(* A new row goes to the back: nothing at the front is disturbed.          *)
LEMMA EnqueueStep ==
  ASSUME OutboxAssumption, OutboxInv, NEW p \in Partitions, Enqueue(p)
  PROVE  OutboxInv' /\ Delivery!Next
<1> DEFINE n == last + 1
<1>1. /\ last < MaxRows /\ last' = n
      /\ part' = [part EXCEPT ![n] = p]
      /\ status' = [status EXCEPT ![n] = "pending"]
      /\ attempts' = [attempts EXCEPT ![n] = 0]
      /\ due' = [due EXCEPT ![n] = TRUE]
      /\ UNCHANGED <<kind, thread, link, late, history, budget>>
  BY DEF Enqueue
<1>2. /\ last \in Nat /\ n \in Rows /\ n \in Nat /\ n > last
      /\ n \in 0..MaxRows
  BY <1>1 DEF OutboxInv, TypeOK, Rows, OutboxAssumption
<1>3. /\ part \in [Rows -> Partitions \cup {NoPartition}]
      /\ status \in [Rows -> Status] /\ attempts \in [Rows -> 0..Strikes]
      /\ due \in [Rows -> BOOLEAN] /\ given \subseteq 1..last
      /\ UNCHANGED <<given, arrived, streak>>
  BY <1>1 DEF OutboxInv, TypeOK, Accounted, history
<1>4. n \notin given
  BY <1>2, <1>3
<1>5. \A r \in 1..last : r \in Rows /\ r # n
  BY <1>1, <1>2 DEF Rows
<1> HIDE DEF n
<1>6. Waiting' = Waiting \cup {n}
  BY <1>1, <1>2, <1>3, <1>4 DEF Waiting
<1>7. TypeOK'
  <2>1. 0 \in 0..Strikes
    BY DEF OutboxAssumption
  <2>2. /\ part' \in [Rows -> Partitions \cup {NoPartition}]
        /\ status' \in [Rows -> Status] /\ attempts' \in [Rows -> 0..Strikes]
    BY <1>1, <1>3, <2>1 DEF Status
  <2>3. due' \in [Rows -> BOOLEAN]
    BY <1>1, <1>3, Zenon
  <2> QED BY <1>1, <1>2, <1>3, <2>2, <2>3 DEF OutboxInv, TypeOK
<1>8. Accounted'
  <2>1. \A r \in Rows : status'[r] = "absent" <=> r > last'
    BY <1>1, <1>2, <1>3 DEF OutboxInv, Accounted, Rows, n
  <2>2. \A r \in Rows : status'[r] # "pending" => status'[r] = status[r]
    BY <1>1, <1>3
  <2>3. given' \subseteq 1..last'
    BY <1>1, <1>2, <1>3 DEF n
  <2> QED BY <1>3, <2>1, <2>2, <2>3 DEF OutboxInv, Accounted
<1>9. ASSUME NEW r, Front(r) PROVE Front(r)'
  <2>1. \A q \in Waiting : q \in 1..last
    BY WaitingRows
  <2>2. last' \in Nat /\ last' >= last
    BY <1>1, <1>2 DEF n
  <2>3. \A q \in Waiting' : q \in Waiting \/ q > last
    BY <1>2, <1>6
  <2>4. Waiting' \subseteq Nat
    BY <1>2, <1>6, WaitingRows
  <2>5. \A q \in 1..last : part'[q] = part[q]
    BY <1>1, <1>3, <1>5
  <2> QED BY <1>2, <1>9, <2>1, <2>2, <2>3, <2>4, <2>5, FrontKept
<1>10. OutboxInv'
  <2>1. \A r \in late' : Front(r)'
    BY <1>1, <1>9 DEF OutboxInv
  <2>2. \A i \in Threads : InHand(i)'
    BY <1>1, <1>3, <1>9 DEF OutboxInv, InHand, Rows
  <2> QED BY <1>7, <1>8, <2>1, <2>2 DEF OutboxInv
<1>11. Delivery!Accept(p)
  BY <1>1, <1>3, <1>6 DEF Delivery!Accept, n
<1> QED BY <1>10, <1>11 DEF Delivery!Next

-----------------------------------------------------------------------------
(* The theorems                                                            *)

LEMMA InvInit == OutboxAssumption /\ Init => OutboxInv /\ Delivery!Init
<1> SUFFICES ASSUME OutboxAssumption, Init PROVE OutboxInv /\ Delivery!Init
  OBVIOUS
<1>1. TypeOK
  <2>1. \A i \in Threads : thread[i] \in Thread
    <3>1. 0 \in 0..Strikes /\ 0 \in 0..MaxRows
      BY DEF OutboxAssumption
    <3> QED BY <3>1 DEF Init, Ended, Thread
  <2>2. thread \in [Threads -> Thread]
    BY <2>1 DEF Init
  <2>3. /\ 0 \in 0..MaxRows /\ 0 \in 0..Strikes
        /\ MaxTroubles \in 0..MaxTroubles
    BY DEF OutboxAssumption
  <2>4. /\ kind \in Kind /\ last \in 0..MaxRows /\ link \in BOOLEAN
        /\ part \in [Rows -> Partitions \cup {NoPartition}]
        /\ status \in [Rows -> Status] /\ budget \in 0..MaxTroubles
    BY <2>3 DEF Init, Status, OutboxAssumption
  <2>5. /\ attempts \in [Rows -> 0..Strikes]
        /\ streak \in [Rows -> 0..Strikes]
        /\ late \subseteq Rows /\ arrived \subseteq Rows /\ given \subseteq Rows
    BY <2>3 DEF Init
  <2>6. due \in [Rows -> BOOLEAN]
    BY DEF Init
  <2> QED BY <2>2, <2>4, <2>5, <2>6 DEF TypeOK
<1>2. Accounted
  BY DEF Init, Accounted, Rows, OutboxAssumption
<1>3. \A i \in Threads : InHand(i)
  <2>1. \A i \in Threads : thread[i] = Ended
    BY DEF Init
  <2> QED BY <2>1, ThreadFields DEF InHand, Working
<1>4. late = {} /\ Waiting = {}
  BY DEF Init, Waiting
<1>5. Delivery!Init
  BY <1>4 DEF Init, Delivery!Init, Delivery!Tickets, Rows
<1> QED BY <1>1, <1>2, <1>3, <1>4, <1>5 DEF OutboxInv

LEMMA InvStep ==
  ASSUME OutboxAssumption, OutboxInv, [Next]_vars
  PROVE  OutboxInv' /\ [Delivery!Next]_(Delivery!vars)
<1>1. ASSUME NEW i \in Threads, LoopStep(i)
      PROVE  OutboxInv' /\ [Delivery!Next]_(Delivery!vars)
  <2>1. CASE LeaveLoop(i) \/ Fetch(i) \/ EndOfBatch(i)
             \/ \E r \in Rows : NextItem(i, r)
    BY <2>1, LeaveLoopStep, FetchStep, EndOfBatchStep, NextItemStep
  <2>2. CASE ReadAttempts(i) \/ WriteAttempts(i) \/ Judge(i)
    BY <2>2, ReadAttemptsStep, WriteAttemptsStep, JudgeStep
  <2>3. CASE (\E o \in Outcome : Post(i, o)) \/ MarkSent(i) \/ Bury(i)
    BY <2>3, PostStep, MarkSentStep, BuryStep
  <2> QED BY <1>1, <2>1, <2>2, <2>3 DEF LoopStep
<1>2. CASE \E p \in Partitions : Enqueue(p)
  BY <1>2, EnqueueStep
<1>3. CASE \E r \in Rows : BackoffEnds(r) \/ ArriveLate(r)
  BY <1>3, BackoffEndsStep, ArriveLateStep
<1>4. CASE Requeue \/ \E S \in SUBSET Rows : Purge(S)
  BY <1>4, RequeueStep, PurgeStep
<1>5. CASE \E i \in Threads : LoopError(i) \/ Stop(i)
  BY <1>5, LoopErrorStep, StopStep
<1>6. CASE Start \/ Connect \/ Disconnect \/ Crash
  BY <1>6, StartStep, LinkStep, CrashStep
<1>7. CASE UNCHANGED vars
  <2>1. /\ UNCHANGED <<kind, last, part, status, attempts, due, thread, link>>
        /\ UNCHANGED <<late, arrived, given, streak, budget>>
        /\ Waiting' = Waiting
    BY <1>7 DEF vars, table, history, Waiting
  <2>2. TypeOK' /\ Accounted'
    BY <2>1 DEF OutboxInv, TypeOK, Accounted
  <2>3. OutboxInv'
    BY <2>1, <2>2, KeptAll
  <2> QED BY <2>1, <2>3 DEF Delivery!vars
<1> QED BY <1>1, <1>2, <1>3, <1>4, <1>5, <1>6, <1>7 DEF Next

(* Every variable keeps its type.                                          *)
THEOREM OutboxTypeCorrect == Spec => []TypeOK
<1>1. Init => OutboxInv
  BY OutboxAssumption, InvInit
<1>2. OutboxInv /\ [Next]_vars => OutboxInv'
  BY OutboxAssumption, InvStep
<1>3. OutboxInv => TypeOK
  BY DEF OutboxInv
<1> QED BY <1>1, <1>2, <1>3, PTL DEF Spec

(* The outbox and its publishers implement a partitioned delivery: every   *)
(* step of the code is a step of the delivery or leaves it as it was.      *)
THEOREM OutboxImplements == Spec => ImplementsDelivery
<1>1. Init => OutboxInv /\ Delivery!Init
  BY OutboxAssumption, InvInit
<1>2. OutboxInv /\ [Next]_vars
        => OutboxInv' /\ [Delivery!Next]_(Delivery!vars)
  BY OutboxAssumption, InvStep
<1> QED BY <1>1, <1>2, PTL DEF Spec, ImplementsDelivery, Delivery!Spec

-----------------------------------------------------------------------------
(* What a partitioned delivery promises, for any number of partitions and  *)
(* messages, at the outbox's refinement mapping.                           *)

(* What is neither waiting nor arrived nor given up does not exist yet.    *)
Known ==
  /\ last \in Nat
  /\ part \in [Delivery!Tickets -> Partitions \cup {NoPartition}]
  /\ Waiting \subseteq 1..last /\ arrived \subseteq 1..last
  /\ given \subseteq 1..last
  /\ Delivery!NothingLost

(* Giving a message up does not let a newer one overtake an older one that *)
(* waits: the order holds of what was given up as well.                    *)
InOrder ==
  \A s, t \in 1..last :
    (s < t /\ part[s] = part[t] /\ t \in arrived \cup given)
      => s \in arrived \cup given

LEMMA KnownInit == Delivery!Init => Known /\ InOrder
BY OutboxAssumption
DEF OutboxAssumption, Delivery!Init, Known, InOrder, Delivery!NothingLost

LEMMA KnownStep ==
  ASSUME Known, InOrder, [Delivery!Next]_(Delivery!vars)
  PROVE  Known' /\ InOrder'
<1>0. MaxRows \in Nat
  BY OutboxAssumption DEF OutboxAssumption
<1>1. ASSUME NEW p \in Partitions, Delivery!Accept(p) PROVE Known' /\ InOrder'
  <2>1. /\ last + 1 \in Delivery!Tickets /\ last \in Nat
        /\ last' = last + 1
        /\ part' = [part EXCEPT ![last + 1] = p]
        /\ Waiting' = Waiting \cup {last + 1}
        /\ arrived' = arrived /\ given' = given
    BY <1>0, <1>1 DEF Delivery!Accept, Known, Delivery!Tickets
  <2>2. \A t \in 1..last : part'[t] = part[t]
    BY <1>0, <2>1 DEF Known, Delivery!Tickets
  <2>3. Known'
    BY <1>0, <2>1 DEF Known, Delivery!NothingLost, Delivery!Tickets
  <2>4. \A t \in arrived \cup given : t \in 1..last
    BY DEF Known
  <2>5. InOrder'
    BY <2>1, <2>2, <2>4 DEF InOrder
  <2> QED BY <2>3, <2>5
<1>2. ASSUME NEW t \in Delivery!Tickets, Delivery!Arrive(t) PROVE Known' /\ InOrder'
  <2>1. Known'
    BY <1>2 DEF Delivery!Arrive, Known, Delivery!NothingLost, Delivery!Tickets
  <2>2. CASE t \in given
    BY <1>2, <2>1, <2>2 DEF Delivery!Arrive, InOrder, Known
  <2>3. CASE t \in Waiting /\ Delivery!Older(t) = {}
    <3>1. \A s \in 1..last : (s < t /\ part[s] = part[t]) => s \in arrived \cup given
      BY <2>3 DEF Delivery!Older, Known, Delivery!NothingLost
    <3> QED BY <1>2, <2>1, <3>1 DEF Delivery!Arrive, InOrder, Known
  <2> QED BY <1>2, <2>1, <2>2, <2>3 DEF Delivery!Arrive
<1>3. ASSUME NEW t \in Delivery!Tickets, Delivery!Settle(t) PROVE Known' /\ InOrder'
  BY <1>3 DEF Delivery!Settle, Known, Delivery!NothingLost, InOrder, Delivery!Tickets
<1>4. ASSUME NEW t \in Delivery!Tickets, Delivery!GiveUp(t) PROVE Known' /\ InOrder'
  <2>1. Known'
    BY <1>4 DEF Delivery!GiveUp, Known, Delivery!NothingLost, Delivery!Tickets
  <2>2. CASE t \in arrived
    BY <1>4, <2>1, <2>2 DEF Delivery!GiveUp, InOrder, Known
  <2>3. CASE t \in Waiting /\ Delivery!Older(t) = {}
    <3>1. \A s \in 1..last : (s < t /\ part[s] = part[t]) => s \in arrived \cup given
      BY <2>3 DEF Delivery!Older, Known, Delivery!NothingLost
    <3> QED BY <1>4, <2>1, <3>1 DEF Delivery!GiveUp, InOrder, Known
  <2> QED BY <1>4, <2>1, <2>2, <2>3 DEF Delivery!GiveUp
<1>5. CASE UNCHANGED Delivery!vars
  BY <1>5 DEF Delivery!vars, Known, InOrder, Delivery!NothingLost, Delivery!Tickets
<1> QED BY <1>1, <1>2, <1>3, <1>4, <1>5 DEF Delivery!Next

LEMMA InOrderArrival == InOrder => Delivery!ArrivalOrder
BY DEF InOrder, Delivery!ArrivalOrder

(* Nothing accepted is lost, and nothing arrives before what was accepted  *)
(* earlier for the same partition and not given up.                        *)
THEOREM DeliveryCorrect ==
  Delivery!Spec => [](Delivery!NothingLost /\ Delivery!ArrivalOrder)
<1>1. Delivery!Init => Known /\ InOrder
  BY KnownInit
<1>2. Known /\ InOrder /\ [Delivery!Next]_(Delivery!vars) => (Known /\ InOrder)'
  BY KnownStep
<1>3. Known /\ InOrder => Delivery!NothingLost /\ Delivery!ArrivalOrder
  BY InOrderArrival DEF Known
<1> QED BY <1>1, <1>2, <1>3, PTL DEF Delivery!Spec

(* What a partitioned delivery promises holds of the outbox.               *)
LEMMA OutboxDelivers == Spec => [](NothingLost /\ ArrivalOrder)
<1>1. Spec => Delivery!Spec
  BY OutboxImplements DEF ImplementsDelivery
<1> QED BY <1>1, DeliveryCorrect, PTL DEF NothingLost, ArrivalOrder

(* No row leaves the table, or is settled, before it has arrived or was    *)
(* dead-lettered (outbox.py:294-301).                                      *)
THEOREM OutboxLosesNothing == Spec => []NothingLost
BY OutboxDelivers, PTL

(* No row arrives before an older one of its machine, unless the older one *)
(* was dead-lettered (outbox.py:191-192).                                  *)
THEOREM OutboxKeepsOrder == Spec => []ArrivalOrder
BY OutboxDelivers, PTL

-----------------------------------------------------------------------------
(* CsvMirror: what reaches the network share, for every number of files    *)
(* and workers.                                                            *)
(*                                                                         *)
(* The argument: a file two workers have in hand is one whose lease ran    *)
(* out, so a file nobody claimed twice has at most one worker at its       *)
(* temporary file and its queue entry; and what this worker has read of    *)
(* the local file is still there, or the file is gone, unless it was       *)
(* written again meanwhile.  So what it renames is whole, and what it      *)
(* closes the queue entry for is on the share.                             *)
Hands == \A w \in Workers : worker[w].pc \in Busy => worker[w].file \in worker[w].batch

Alone == \A v, w \in Workers : \A f \in worker[v].batch :
            v # w /\ f \in worker[w].batch => f \in twice

Leases == \A w \in Workers : \A f \in worker[w].batch :
            f \in expired \/ (task[f].queued /\ task[f].leased)

Faithful(w, f, c) ==
    /\ worker[w].pc = "gone" => local[f] = None
    /\ worker[w].pc \in {"copying", "copied", "replaced"} =>
            c \in Contents /\ local[f] \in {c, None}
    /\ worker[w].pc = "copied" => temp[f] = c
    /\ worker[w].pc = "replaced" => share[f] = c

Copies == \A w \in Workers :
    worker[w].pc \in Busy /\ Undisturbed(worker[w].file)
        => Faithful(w, worker[w].file, worker[w].content)

Safe(f) == local[f] = None \/ task[f].queued \/ share[f] = local[f]

Saved ==
    /\ \A f \in Files : Undisturbed(f) => f \in owed \/ Safe(f)
    /\ writer.pc # "idle" => writer.file \in owed
    /\ writer.pc = "queued" /\ Undisturbed(writer.file) => Safe(writer.file)

MirrorInv == /\ MirrorTypeOK /\ Hands /\ Alone /\ Leases /\ LeaseHolds
             /\ Copies /\ Saved /\ WholeOnShare

-----------------------------------------------------------------------------
(* The types, and that a worker is busy with a file of its batch.           *)
LEMMA Typed ==
  ASSUME MirrorTypeOK, Hands, [MirrorNext]_mirrorVars
  PROVE  MirrorTypeOK' /\ Hands'
<1> DEFINE TaskStates == [queued : BOOLEAN, due : BOOLEAN, leased : BOOLEAN]
<1>0. ASSUME UNCHANGED worker PROVE Hands'
  BY <1>0 DEF Hands
<1>1. ASSUME NEW f \in Files, Write(f) PROVE MirrorTypeOK' /\ Hands'
  <2>1. local' \in [Files -> Contents \cup {None}]
    BY <1>1 DEF Write, MirrorTypeOK
  <2>2. /\ writer' \in [pc : {"idle", "written", "queued"}, file : Files \cup {None}]
        /\ rewritten' \subseteq Files
    BY <1>1 DEF Write, MirrorTypeOK
  <2>3. UNCHANGED <<owed, task, expired, twice, temp, share, worker>>
    BY <1>1 DEF Write, queue, copies
  <2> QED BY <1>0, <2>1, <2>2, <2>3 DEF MirrorTypeOK
<1>2. ASSUME NEW f \in Files, BecomesDue(f) PROVE MirrorTypeOK' /\ Hands'
  <2>1. task' \in [Files -> TaskStates]
    BY <1>2 DEF BecomesDue, MirrorTypeOK
  <2>2. UNCHANGED <<owed, local, writer, temp, share, worker, rewritten, expired, twice>>
    BY <1>2 DEF BecomesDue, copies, copyHistory
  <2> QED BY <1>0, <2>1, <2>2 DEF MirrorTypeOK
<1>3. ASSUME NEW f \in Files, LeaseExpires(f) PROVE MirrorTypeOK' /\ Hands'
  <2>1. task' \in [Files -> TaskStates]
    BY <1>3 DEF LeaseExpires, MirrorTypeOK
  <2>2. expired' \subseteq Files
    BY <1>3 DEF LeaseExpires, MirrorTypeOK
  <2>3. UNCHANGED <<owed, local, writer, temp, share, worker, rewritten, twice>>
    BY <1>3 DEF LeaseExpires, copies
  <2> QED BY <1>0, <2>1, <2>2, <2>3 DEF MirrorTypeOK
<1>4. ASSUME NEW f \in Files, Remove(f) PROVE MirrorTypeOK' /\ Hands'
  <2>1. local' \in [Files -> Contents \cup {None}]
    BY <1>4 DEF Remove, MirrorTypeOK
  <2>2. UNCHANGED <<owed, writer, task, temp, share, worker, rewritten, expired, twice>>
    BY <1>4 DEF Remove, queue, copies
  <2> QED BY <1>0, <2>1, <2>2 DEF MirrorTypeOK
<1>5. CASE EnqueueMirror
  <2>1. task' \in [Files -> TaskStates]
    BY <1>5 DEF EnqueueMirror, MirrorTypeOK
  <2>2. writer' \in [pc : {"idle", "written", "queued"}, file : Files \cup {None}]
    BY <1>5 DEF EnqueueMirror, MirrorTypeOK
  <2>3. UNCHANGED <<owed, local, temp, share, worker, rewritten, expired, twice>>
    BY <1>5 DEF EnqueueMirror, copies, copyHistory
  <2> QED BY <1>0, <2>1, <2>2, <2>3 DEF MirrorTypeOK
<1>6. CASE Release
  <2>1. /\ writer' \in [pc : {"idle", "written", "queued"}, file : Files \cup {None}]
        /\ owed' \subseteq Files
    BY <1>6 DEF Release, NoWrite, MirrorTypeOK
  <2>2. UNCHANGED <<local, task, temp, share, worker, rewritten, expired, twice>>
    BY <1>6 DEF Release, queue, copies
  <2> QED BY <1>0, <2>1, <2>2 DEF MirrorTypeOK
<1>7. CASE WriteFails
  <2>1. writer' \in [pc : {"idle", "written", "queued"}, file : Files \cup {None}]
    BY <1>7 DEF WriteFails, NoWrite
  <2>2. UNCHANGED <<owed, local, task, temp, share, worker, rewritten, expired, twice>>
    BY <1>7 DEF WriteFails, queue, copies
  <2> QED BY <1>0, <2>1, <2>2 DEF MirrorTypeOK
<1>8. CASE MirrorCrash
  <2>1. writer' \in [pc : {"idle", "written", "queued"}, file : Files \cup {None}]
    BY <1>8 DEF MirrorCrash, NoWrite
  <2>2. worker' \in [Workers -> WorkerStates]
    BY <1>8 DEF MirrorCrash, Resting, WorkerStates
  <2>3. UNCHANGED <<owed, local, task, temp, share, rewritten, expired, twice>>
    BY <1>8 DEF MirrorCrash, queue
  <2>4. Hands'
    BY <1>8 DEF MirrorCrash, Hands, Resting, Busy
  <2> QED BY <2>1, <2>2, <2>3, <2>4 DEF MirrorTypeOK
<1>9. ASSUME NEW w \in Workers, NEW s \in WorkerStates, worker' = [worker EXCEPT ![w] = s],
             s.pc \in Busy => s.file \in s.batch
      PROVE  worker' \in [Workers -> WorkerStates] /\ Hands'
  <2>1. worker \in [Workers -> WorkerStates]
    BY DEF MirrorTypeOK
  <2> QED BY <1>9, <2>1 DEF Hands
<1>10. ASSUME NEW w \in Workers
       PROVE  /\ worker[w] \in WorkerStates
              /\ worker[w].pc \in Busy => worker[w].file \in worker[w].batch
  BY DEF MirrorTypeOK, Hands
<1>11. ASSUME NEW w \in Workers, StartWorker(w) PROVE MirrorTypeOK' /\ Hands'
  <2> DEFINE s == [worker[w] EXCEPT !.pc = "idle"]
  <2>1. worker' = [worker EXCEPT ![w] = s]
    BY <1>11 DEF StartWorker, Goes
  <2>2. s \in WorkerStates /\ s.pc \notin Busy
    BY <1>10 DEF WorkerStates, Busy
  <2>3. worker' \in [Workers -> WorkerStates] /\ Hands'
    BY <1>9, <2>1, <2>2
  <2>4. UNCHANGED <<owed, local, writer, task, expired, twice, temp, share, rewritten>>
    BY <1>11 DEF StartWorker, queue
  <2> QED BY <2>3, <2>4 DEF MirrorTypeOK
<1>12. ASSUME NEW w \in Workers, PendingMirrors(w) PROVE MirrorTypeOK' /\ Hands'
  <2>1. PICK S \in SUBSET Files :
          /\ worker' = [worker EXCEPT ![w].batch = S] /\ worker[w].pc = "idle"
          /\ task' = [f \in Files |-> IF f \in S THEN [task[f] EXCEPT !.leased = TRUE]
                                     ELSE task[f]]
          /\ twice' = twice \cup {f \in S : \E v \in Workers : f \in worker[v].batch}
    BY <1>12 DEF PendingMirrors
  <2> DEFINE s == [worker[w] EXCEPT !.batch = S]
  <2>2. worker' = [worker EXCEPT ![w] = s]
    BY <2>1
  <2>3. s \in WorkerStates /\ s.pc \notin Busy
    BY <1>10, <2>1 DEF WorkerStates, Busy
  <2>4. worker' \in [Workers -> WorkerStates] /\ Hands'
    BY <1>9, <2>2, <2>3
  <2>5. task' \in [Files -> TaskStates]
    BY <2>1 DEF MirrorTypeOK
  <2>6. twice' \subseteq Files
    BY <2>1 DEF MirrorTypeOK
  <2>7. UNCHANGED <<owed, local, writer, temp, share, rewritten, expired>>
    BY <1>12 DEF PendingMirrors
  <2> QED BY <2>4, <2>5, <2>6, <2>7 DEF MirrorTypeOK
<1>13. ASSUME NEW w \in Workers, Begin(w) PROVE MirrorTypeOK' /\ Hands'
  <2>1. PICK f \in worker[w].batch :
          worker' = [worker EXCEPT ![w].file = f,
                                   ![w].pc = IF local[f] = None THEN "gone" ELSE "begun"]
    BY <1>13 DEF Begin
  <2>2. PICK pc \in {"gone", "begun"} :
          worker' = [worker EXCEPT ![w] = [worker[w] EXCEPT !.file = f, !.pc = pc]]
    BY <2>1
  <2> DEFINE s == [worker[w] EXCEPT !.file = f, !.pc = pc]
  <2>3. s \in WorkerStates /\ s.file \in s.batch
    BY <1>10 DEF WorkerStates, Busy
  <2>4. worker' \in [Workers -> WorkerStates] /\ Hands'
    BY <1>9, <2>2, <2>3
  <2>5. UNCHANGED <<owed, local, writer, task, expired, twice, temp, share, rewritten>>
    BY <1>13 DEF Begin, queue
  <2> QED BY <2>4, <2>5 DEF MirrorTypeOK
<1>14. ASSUME NEW w \in Workers, OpenCopy(w) PROVE MirrorTypeOK' /\ Hands'
  <2>1. /\ worker' = [worker EXCEPT ![w].pc = "copying",
                                    ![w].content = local[worker[w].file]]
        /\ worker[w].pc = "begun" /\ local[worker[w].file] # None
        /\ temp' = [temp EXCEPT ![worker[w].file] = Half]
    BY <1>14 DEF OpenCopy
  <2>2. worker[w].file \in Files /\ worker[w].file \in worker[w].batch
    BY <1>10, <2>1 DEF WorkerStates, Busy
  <2>3. local[worker[w].file] \in Contents
    BY <2>1, <2>2 DEF MirrorTypeOK
  <2> DEFINE s == [worker[w] EXCEPT !.pc = "copying", !.content = local[worker[w].file]]
  <2>4. worker' = [worker EXCEPT ![w] = s]
    BY <2>1
  <2>5. s \in WorkerStates /\ s.file \in s.batch
    BY <1>10, <2>2, <2>3 DEF WorkerStates, Busy
  <2>6. worker' \in [Workers -> WorkerStates] /\ Hands'
    BY <1>9, <2>4, <2>5
  <2>7. temp' \in [Files -> Contents \cup {None, Half}]
    BY <2>1, <2>2 DEF MirrorTypeOK
  <2>8. UNCHANGED <<owed, local, writer, task, expired, twice, share, rewritten>>
    BY <1>14 DEF OpenCopy, queue
  <2> QED BY <2>6, <2>7, <2>8 DEF MirrorTypeOK
<1>15. ASSUME NEW w \in Workers, EndCopy(w) PROVE MirrorTypeOK' /\ Hands'
  <2> DEFINE s == [worker[w] EXCEPT !.pc = "copied"]
  <2>1. /\ worker' = [worker EXCEPT ![w] = s] /\ worker[w].pc = "copying"
        /\ temp' = [temp EXCEPT ![worker[w].file] = worker[w].content]
    BY <1>15 DEF EndCopy, Goes
  <2>2. s \in WorkerStates /\ s.file \in s.batch
    BY <1>10, <2>1 DEF WorkerStates, Busy
  <2>3. worker' \in [Workers -> WorkerStates] /\ Hands'
    BY <1>9, <2>1, <2>2
  <2>4. worker[w].content \in Contents \cup {None}
    BY <1>10 DEF WorkerStates
  <2>5. temp' \in [Files -> Contents \cup {None, Half}]
    BY <2>1, <2>4 DEF MirrorTypeOK
  <2>6. UNCHANGED <<owed, local, writer, task, expired, twice, share, rewritten>>
    BY <1>15 DEF EndCopy, queue
  <2> QED BY <2>3, <2>5, <2>6 DEF MirrorTypeOK
<1>16. ASSUME NEW w \in Workers, Rename(w) PROVE MirrorTypeOK' /\ Hands'
  <2> DEFINE s == [worker[w] EXCEPT !.pc = "replaced"]
  <2>1. /\ worker' = [worker EXCEPT ![w] = s] /\ worker[w].pc = "copied"
        /\ share' = [share EXCEPT ![worker[w].file] = temp[worker[w].file]]
        /\ temp' = [temp EXCEPT ![worker[w].file] = None]
    BY <1>16 DEF Rename, Goes
  <2>2. s \in WorkerStates /\ s.file \in s.batch
    BY <1>10, <2>1 DEF WorkerStates, Busy
  <2>3. worker' \in [Workers -> WorkerStates] /\ Hands'
    BY <1>9, <2>1, <2>2
  <2>4. worker[w].file \in Files
    BY <1>10, <2>1 DEF WorkerStates, Busy
  <2>5. temp[worker[w].file] \in Contents \cup {None, Half}
    BY <2>4 DEF MirrorTypeOK
  <2>6. /\ temp' \in [Files -> Contents \cup {None, Half}]
        /\ share' \in [Files -> Contents \cup {None, Half}]
    BY <2>1, <2>5 DEF MirrorTypeOK
  <2>7. UNCHANGED <<owed, local, writer, task, expired, twice, rewritten>>
    BY <1>16 DEF Rename, queue
  <2> QED BY <2>3, <2>6, <2>7 DEF MirrorTypeOK
<1>17. ASSUME NEW w \in Workers, Closing(w)
       PROVE  worker' \in [Workers -> WorkerStates] /\ Hands'
  <2> DEFINE s == [worker[w] EXCEPT !.pc = "idle", !.file = None, !.content = None,
                                    !.batch = worker[w].batch \ {worker[w].file}]
  <2>1. worker' = [worker EXCEPT ![w] = s]
    BY <1>17 DEF Closing
  <2>2. s \in WorkerStates /\ s.pc \notin Busy
    BY <1>10 DEF WorkerStates, Busy
  <2> QED BY <1>9, <2>1, <2>2
<1>18. ASSUME NEW w \in Workers, CompleteMirror(w) PROVE MirrorTypeOK' /\ Hands'
  <2>1. worker' \in [Workers -> WorkerStates] /\ Hands'
    BY <1>17, <1>18 DEF CompleteMirror
  <2>2. task' \in [Files -> TaskStates]
    <3>1. task' = [task EXCEPT ![worker[w].file] = NoTask] \/ task' = task
      BY <1>18 DEF CompleteMirror, Closes
    <3>2. NoTask \in TaskStates /\ task \in [Files -> TaskStates]
      BY DEF NoTask, MirrorTypeOK
    <3> QED BY <3>1, <3>2
  <2>3. UNCHANGED <<owed, local, writer, temp, share, rewritten, expired, twice>>
    BY <1>18 DEF CompleteMirror, copyHistory
  <2> QED BY <2>1, <2>2, <2>3 DEF MirrorTypeOK
<1>19. ASSUME NEW w \in Workers, FailMirror(w) PROVE MirrorTypeOK' /\ Hands'
  <2>1. worker' \in [Workers -> WorkerStates] /\ Hands'
    BY <1>17, <1>19 DEF FailMirror
  <2>2. worker[w].file \in Files
    BY <1>10, <1>19 DEF FailMirror, WorkerStates, Busy
  <2>3. task' \in [Files -> TaskStates]
    <3> DEFINE row == [queued |-> task[worker[w].file].queued, due |-> FALSE,
                       leased |-> FALSE]
    <3>1. task' = [task EXCEPT ![worker[w].file] = row] \/ task' = task
      BY <1>19 DEF FailMirror, Closes
    <3>2. row \in TaskStates /\ task \in [Files -> TaskStates]
      BY <2>2 DEF MirrorTypeOK
    <3> HIDE DEF row, TaskStates
    <3> QED BY <3>1, <3>2
  <2>4. UNCHANGED <<owed, local, writer, temp, share, rewritten, expired, twice>>
    BY <1>19 DEF FailMirror, copyHistory
  <2> QED BY <2>1, <2>3, <2>4 DEF MirrorTypeOK
<1>20. ASSUME NEW w \in Workers, Breaks(w) PROVE MirrorTypeOK' /\ Hands'
  <2>1. PICK s \in {Resting, [Resting EXCEPT !.pc = "idle"]} :
          worker' = [worker EXCEPT ![w] = s]
    BY <1>20 DEF Breaks
  <2>2. s \in WorkerStates /\ s.pc \notin Busy
    BY <2>1 DEF WorkerStates, Resting, Busy
  <2>3. worker' \in [Workers -> WorkerStates] /\ Hands'
    BY <1>9, <2>1, <2>2
  <2>4. UNCHANGED <<owed, local, writer, task, expired, twice, temp, share, rewritten>>
    BY <1>20 DEF Breaks, queue
  <2> QED BY <2>3, <2>4 DEF MirrorTypeOK
<1>21. CASE UNCHANGED mirrorVars
  <2>1. UNCHANGED <<owed, local, writer, task, expired, twice, temp, share, worker,
                    rewritten>>
    BY <1>21 DEF mirrorVars, queue, copies
  <2> QED BY <1>0, <2>1 DEF MirrorTypeOK
<1> QED
  BY <1>1, <1>2, <1>3, <1>4, <1>5, <1>6, <1>7, <1>8, <1>11, <1>12, <1>13, <1>14,
     <1>15, <1>16, <1>18, <1>19, <1>20, <1>21 DEF MirrorNext, WorkerStep

(* One worker has a file, unless its lease ran out.                         *)
LEMMA Claimed ==
  ASSUME MirrorTypeOK, Hands, Alone, Leases, LeaseHolds, [MirrorNext]_mirrorVars
  PROVE  Alone' /\ Leases' /\ LeaseHolds'
<1> USE DEF MirrorTypeOK, WorkerStates, Hands, Busy, Midst, NoWrite, NoTask, Resting,
            queue, copies, copyHistory, Alone, Leases, LeaseHolds
<1>1. ASSUME NEW f \in Files, Write(f) PROVE Alone' /\ Leases' /\ LeaseHolds'
  BY <1>1 DEF Write
<1>2. ASSUME NEW f \in Files, BecomesDue(f) PROVE Alone' /\ Leases' /\ LeaseHolds'
  BY <1>2 DEF BecomesDue
<1>3. ASSUME NEW f \in Files, LeaseExpires(f) PROVE Alone' /\ Leases' /\ LeaseHolds'
  BY <1>3 DEF LeaseExpires
<1>4. ASSUME NEW f \in Files, Remove(f) PROVE Alone' /\ Leases' /\ LeaseHolds'
  BY <1>4 DEF Remove
<1>5. CASE EnqueueMirror
  BY <1>5 DEF EnqueueMirror
<1>6. CASE Release
  BY <1>6 DEF Release
<1>7. CASE WriteFails
  BY <1>7 DEF WriteFails
<1>8. CASE MirrorCrash
  BY <1>8 DEF MirrorCrash
<1>9. ASSUME NEW w \in Workers, StartWorker(w) PROVE Alone' /\ Leases' /\ LeaseHolds'
  BY <1>9 DEF StartWorker, Goes
<1>10. ASSUME NEW w \in Workers, PendingMirrors(w) PROVE Alone' /\ Leases' /\ LeaseHolds'
  BY <1>10 DEF PendingMirrors, Claimable
<1>11. ASSUME NEW w \in Workers, Begin(w) PROVE Alone' /\ Leases' /\ LeaseHolds'
  BY <1>11 DEF Begin
<1>12. ASSUME NEW w \in Workers, OpenCopy(w) PROVE Alone' /\ Leases' /\ LeaseHolds'
  BY <1>12 DEF OpenCopy
<1>13. ASSUME NEW w \in Workers, EndCopy(w) PROVE Alone' /\ Leases' /\ LeaseHolds'
  BY <1>13 DEF EndCopy, Goes
<1>14. ASSUME NEW w \in Workers, Rename(w) PROVE Alone' /\ Leases' /\ LeaseHolds'
  BY <1>14 DEF Rename, Goes
<1>15. ASSUME NEW w \in Workers, CompleteMirror(w) PROVE Alone' /\ Leases' /\ LeaseHolds'
  BY <1>15 DEF CompleteMirror, Closing, Closes
<1>16. ASSUME NEW w \in Workers, FailMirror(w) PROVE Alone' /\ Leases' /\ LeaseHolds'
  BY <1>16 DEF FailMirror, Closing, Closes
<1>17. ASSUME NEW w \in Workers, Breaks(w) PROVE Alone' /\ Leases' /\ LeaseHolds'
  <2>1. CASE worker' = [worker EXCEPT ![w] = [Resting EXCEPT !.pc = "idle"]]
    BY <1>17, <2>1 DEF Breaks
  <2>2. CASE worker[w].pc = "idle" /\ worker' = [worker EXCEPT ![w] = Resting]
    BY <1>17, <2>2 DEF Breaks
  <2> QED BY <1>17, <2>1, <2>2 DEF Breaks
<1>18. CASE UNCHANGED mirrorVars
  BY <1>18 DEF mirrorVars
<1> QED
  BY <1>1, <1>2, <1>3, <1>4, <1>5, <1>6, <1>7, <1>8, <1>9, <1>10, <1>11, <1>12,
     <1>13, <1>14, <1>15, <1>16, <1>17, <1>18 DEF MirrorNext, WorkerStep

(* What a worker has read is what there is, when nobody disturbed the file.   *)
LEMMA Copied ==
  ASSUME MirrorConstants, MirrorTypeOK, Hands, Alone, Copies, MirrorTypeOK', Hands', Alone',
         [MirrorNext]_mirrorVars
  PROVE  Copies'
<1> USE DEF MirrorTypeOK, WorkerStates, Hands, Busy, Midst, NoWrite, NoTask, Resting,
            queue, copies, copyHistory, MirrorConstants, Alone, Copies, Faithful,
            Undisturbed
<1>1. ASSUME NEW f \in Files, Write(f) PROVE Copies'
  BY <1>1 DEF Write, Works
<1>2. ASSUME NEW f \in Files, BecomesDue(f) PROVE Copies'
  BY <1>2 DEF BecomesDue
<1>3. ASSUME NEW f \in Files, LeaseExpires(f) PROVE Copies'
  BY <1>3 DEF LeaseExpires
<1>4. ASSUME NEW f \in Files, Remove(f) PROVE Copies'
  BY <1>4 DEF Remove
<1>5. CASE EnqueueMirror
  BY <1>5 DEF EnqueueMirror
<1>6. CASE Release
  BY <1>6 DEF Release
<1>7. CASE WriteFails
  BY <1>7 DEF WriteFails
<1>8. CASE MirrorCrash
  BY <1>8 DEF MirrorCrash
<1>9. ASSUME NEW w \in Workers, StartWorker(w) PROVE Copies'
  BY <1>9 DEF StartWorker, Goes
<1>10. ASSUME NEW w \in Workers, PendingMirrors(w) PROVE Copies'
  BY <1>10 DEF PendingMirrors, Claimable
<1>11. ASSUME NEW w \in Workers, Begin(w) PROVE Copies'
  BY <1>11 DEF Begin
<1>12. ASSUME NEW w \in Workers, OpenCopy(w) PROVE Copies'
  BY <1>12 DEF OpenCopy
<1>13. ASSUME NEW w \in Workers, EndCopy(w) PROVE Copies'
  BY <1>13 DEF EndCopy, Goes
<1>14. ASSUME NEW w \in Workers, Rename(w) PROVE Copies'
  BY <1>14 DEF Rename, Goes
<1>15. ASSUME NEW w \in Workers, CompleteMirror(w) PROVE Copies'
  <2>1. \A v \in Workers : worker'[v].pc \in Busy => worker'[v] = worker[v]
    BY <1>15 DEF CompleteMirror, Closing
  <2>2. UNCHANGED <<local, temp, share, twice, rewritten>>
    BY <1>15 DEF CompleteMirror
  <2> QED BY <2>1, <2>2
<1>16. ASSUME NEW w \in Workers, FailMirror(w) PROVE Copies'
  <2>1. \A v \in Workers : worker'[v].pc \in Busy => worker'[v] = worker[v]
    BY <1>16 DEF FailMirror, Closing
  <2>2. UNCHANGED <<local, temp, share, twice, rewritten>>
    BY <1>16 DEF FailMirror
  <2> QED BY <2>1, <2>2
<1>17. ASSUME NEW w \in Workers, Breaks(w) PROVE Copies'
  <2>1. PICK s \in {Resting, [Resting EXCEPT !.pc = "idle"]} :
          worker' = [worker EXCEPT ![w] = s]
    BY <1>17 DEF Breaks
  <2>2. s.pc \notin Busy
    BY <2>1
  <2>3. \A v \in Workers : worker'[v].pc \in Busy => worker'[v] = worker[v]
    BY <2>1, <2>2
  <2>4. UNCHANGED <<local, temp, share, twice, rewritten>>
    BY <1>17 DEF Breaks
  <2> QED BY <2>3, <2>4
<1>18. CASE UNCHANGED mirrorVars
  BY <1>18 DEF mirrorVars
<1> QED
  BY <1>1, <1>2, <1>3, <1>4, <1>5, <1>6, <1>7, <1>8, <1>9, <1>10, <1>11, <1>12,
     <1>13, <1>14, <1>15, <1>16, <1>17, <1>18 DEF MirrorNext, WorkerStep

(* What was safe stays so when no undisturbed file ceases to be.            *)
LEMMA SavedStays ==
  ASSUME MirrorTypeOK, Saved, UNCHANGED <<owed, writer, twice, rewritten>>,
         \A f \in Files : Undisturbed(f) /\ Safe(f) => Safe(f)'
  PROVE  Saved'
<1>1. owed \subseteq Files
  BY DEF MirrorTypeOK
<1>2. \A f \in Files : Undisturbed(f)' <=> Undisturbed(f)
  BY DEF Undisturbed
<1>3. \A f \in Files : Undisturbed(f)' => f \in owed' \/ Safe(f)'
  BY <1>2 DEF Saved
<1>4. writer'.pc # "idle" => writer'.file \in owed'
  BY DEF Saved
<1>5. ASSUME writer.pc = "queued", Undisturbed(writer.file)' PROVE Safe(writer.file)'
  <2>1. writer.file \in Files
    BY <1>1, <1>5 DEF Saved
  <2>2. Safe(writer.file)
    BY <1>2, <1>5, <2>1 DEF Saved
  <2> QED BY <1>2, <1>5, <2>1, <2>2
<1> QED BY <1>3, <1>4, <1>5 DEF Saved

(* A copy is closed only when it was made, or the file is gone.             *)
LEMMA ClosedSafe ==
  ASSUME MirrorTypeOK, Hands, Copies, Saved, NEW w \in Workers, CompleteMirror(w)
  PROVE  Saved'
<1> DEFINE g == worker[w].file
<1>1. worker[w].pc \in {"gone", "replaced"} /\ g \in Files
  BY DEF CompleteMirror, Hands, MirrorTypeOK, WorkerStates, Busy
<1>2. UNCHANGED <<owed, local, writer, share, twice, rewritten>>
  BY DEF CompleteMirror, copyHistory
<1>3. \A f \in Files : f # g => task'[f] = task[f]
  BY DEF CompleteMirror, Closes, MirrorTypeOK
<1>4. Undisturbed(g) => local[g] = None \/ share[g] = local[g]
  <2>1. Undisturbed(g) => Faithful(w, g, worker[w].content)
    BY <1>1 DEF Copies, Busy
  <2> QED BY <1>1, <2>1 DEF Faithful
<1>5. ASSUME NEW f \in Files, Undisturbed(f), Safe(f) PROVE Safe(f)'
  <2>1. CASE f = g
    BY <1>2, <1>4, <1>5, <2>1 DEF Safe
  <2>2. CASE f # g
    BY <1>2, <1>3, <1>5, <2>2 DEF Safe
  <2> QED BY <2>1, <2>2
<1> QED BY <1>2, <1>5, SavedStays

(* A copy that failed stays queued.                                         *)
LEMMA FailedSafe ==
  ASSUME MirrorTypeOK, Hands, Saved, NEW w \in Workers, FailMirror(w)
  PROVE  Saved'
<1> DEFINE g == worker[w].file
<1>1. g \in Files
  BY DEF FailMirror, Hands, MirrorTypeOK, WorkerStates, Busy
<1>2. UNCHANGED <<owed, local, writer, share, twice, rewritten>>
  BY DEF FailMirror, copyHistory
<1>3. \/ task' = task
      \/ task' = [task EXCEPT ![g] = [queued |-> task[g].queued, due |-> FALSE,
                                      leased |-> FALSE]]
  BY DEF FailMirror, Closes
<1>4. \A f \in Files : task'[f].queued = task[f].queued
  BY <1>1, <1>3 DEF MirrorTypeOK
<1>5. \A f \in Files : Safe(f) => Safe(f)'
  BY <1>2, <1>4 DEF Safe
<1> QED BY <1>2, <1>5, SavedStays

(* What is on the share is whole, and nothing is forgotten.                     *)
LEMMA SavedKept ==
  ASSUME MirrorConstants, MirrorTypeOK, Hands, Alone, Copies, Saved, WholeOnShare,
         MirrorTypeOK', [MirrorNext]_mirrorVars
  PROVE  Saved' /\ WholeOnShare'
<1> USE DEF MirrorTypeOK, WorkerStates, Hands, Busy, Midst, NoWrite, NoTask, Resting,
            queue, copies, copyHistory, MirrorConstants, Alone, Copies, Faithful,
            Undisturbed, Saved, Safe, WholeOnShare
<1>1. ASSUME NEW f \in Files, Write(f) PROVE Saved' /\ WholeOnShare'
  BY <1>1 DEF Write, Works
<1>2. ASSUME NEW f \in Files, BecomesDue(f) PROVE Saved' /\ WholeOnShare'
  BY <1>2 DEF BecomesDue
<1>3. ASSUME NEW f \in Files, LeaseExpires(f) PROVE Saved' /\ WholeOnShare'
  BY <1>3 DEF LeaseExpires
<1>4. ASSUME NEW f \in Files, Remove(f) PROVE Saved' /\ WholeOnShare'
  BY <1>4 DEF Remove
<1>5. CASE EnqueueMirror
  BY <1>5 DEF EnqueueMirror
<1>6. CASE Release
  BY <1>6 DEF Release
<1>7. CASE WriteFails
  BY <1>7 DEF WriteFails
<1>8. CASE MirrorCrash
  BY <1>8 DEF MirrorCrash
<1>9. ASSUME NEW w \in Workers, StartWorker(w) PROVE Saved' /\ WholeOnShare'
  BY <1>9 DEF StartWorker, Goes
<1>10. ASSUME NEW w \in Workers, PendingMirrors(w) PROVE Saved' /\ WholeOnShare'
  BY <1>10 DEF PendingMirrors, Claimable
<1>11. ASSUME NEW w \in Workers, Begin(w) PROVE Saved' /\ WholeOnShare'
  BY <1>11 DEF Begin
<1>12. ASSUME NEW w \in Workers, OpenCopy(w) PROVE Saved' /\ WholeOnShare'
  BY <1>12 DEF OpenCopy
<1>13. ASSUME NEW w \in Workers, EndCopy(w) PROVE Saved' /\ WholeOnShare'
  BY <1>13 DEF EndCopy, Goes
<1>14. ASSUME NEW w \in Workers, Rename(w) PROVE Saved' /\ WholeOnShare'
  BY <1>14 DEF Rename, Goes
<1>15. ASSUME NEW w \in Workers, CompleteMirror(w) PROVE Saved' /\ WholeOnShare'
  <2>1. WholeOnShare'
    BY <1>15 DEF CompleteMirror
  <2>2. Saved'
    BY <1>15, ClosedSafe
  <2> QED BY <2>1, <2>2
<1>16. ASSUME NEW w \in Workers, FailMirror(w) PROVE Saved' /\ WholeOnShare'
  <2>1. WholeOnShare'
    BY <1>16 DEF FailMirror
  <2>2. Saved'
    BY <1>16, FailedSafe
  <2> QED BY <2>1, <2>2
<1>17. ASSUME NEW w \in Workers, Breaks(w) PROVE Saved' /\ WholeOnShare'
  BY <1>17 DEF Breaks
<1>18. CASE UNCHANGED mirrorVars
  BY <1>18 DEF mirrorVars
<1> QED
  BY <1>1, <1>2, <1>3, <1>4, <1>5, <1>6, <1>7, <1>8, <1>9, <1>10, <1>11, <1>12,
     <1>13, <1>14, <1>15, <1>16, <1>17, <1>18 DEF MirrorNext, WorkerStep

-----------------------------------------------------------------------------
LEMMA MirrorStarts == ASSUME MirrorConstants PROVE MirrorInit => MirrorInv
BY DEF MirrorConstants, MirrorInit, NoWrite, NoTask, Resting, MirrorInv, MirrorTypeOK, WorkerStates,
       Busy, Hands, Alone, Leases, LeaseHolds, Copies, Saved, WholeOnShare

LEMMA MirrorStep ==
  ASSUME MirrorConstants, MirrorInv, [MirrorNext]_mirrorVars
  PROVE  MirrorInv'
<1> USE DEF MirrorInv
<1>1. MirrorTypeOK' /\ Hands'
  BY Typed
<1>2. Alone' /\ Leases' /\ LeaseHolds'
  BY Claimed
<1>3. Copies'
  BY <1>1, <1>2, Copied
<1>4. Saved' /\ WholeOnShare'
  BY <1>1, SavedKept
<1> QED BY <1>1, <1>2, <1>3, <1>4

(* The invariant of the mirror (csv_store.py _write_buffer, retry_mirrors;  *)
(* journal.py pending_mirrors): a worker at a file nobody disturbed has     *)
(* read what is there.                                                      *)
THEOREM MirrorInvariant == ASSUME MirrorConstants PROVE MirrorSpec => []MirrorInv
<1>1. MirrorInit => MirrorInv
  BY MirrorStarts
<1>2. MirrorInv /\ [MirrorNext]_mirrorVars => MirrorInv'
  BY MirrorStep
<1> QED BY <1>1, <1>2, PTL DEF MirrorSpec

(* The copies are whole on the share (csv_store.py 635-640), with any       *)
(* number of workers and whatever fails, dies or expires, but for a file    *)
(* claimed twice or written in the middle of its copy.                      *)
THEOREM SharedWhole == ASSUME MirrorConstants PROVE MirrorSpec => []WholeOnShare
<1>1. MirrorInv => WholeOnShare
  BY DEF MirrorInv
<1> QED BY <1>1, MirrorInvariant, PTL

(* No lot file is forgotten between the local write and the release of its  *)
(* rows, or between its copy and the end of its task (csv_store.py 457-461).*)
THEOREM MirrorNotForgotten == ASSUME MirrorConstants PROVE MirrorSpec => []NoneForgotten
<1>1. MirrorInv => NoneForgotten
  BY DEF MirrorInv, Saved, Safe, NoneForgotten, MirrorTypeOK
<1> QED BY <1>1, MirrorInvariant, PTL

(* Two workers have one task only after its lease ran out (journal.py       *)
(* pending_mirrors, 600-604).                                               *)
THEOREM LeasesHold == ASSUME MirrorConstants PROVE MirrorSpec => []LeaseHolds
<1>1. MirrorInv => LeaseHolds
  BY DEF MirrorInv
<1> QED BY <1>1, MirrorInvariant, PTL
=============================================================================
