------------------------------ MODULE ToolLink ------------------------------
(***************************************************************************)
(* A tool's collection events on their way into the ingress journal:       *)
(*                                                                         *)
(*   tool threads -> spool and its drain worker -> HSMS -> GatewayHost     *)
(*     handler -> session guard -> journal.append -> answer -> tool        *)
(*                                                                         *)
(* The tool is simulator/equipment.py, which spools as SEMI E5 says and    *)
(* serves one host at a time; the host is gateway/host.py, of which every  *)
(* reconnect makes a new one and retires the old.  A message stands for    *)
(* its body; a retransmission has the system bytes of the first try where  *)
(* the tool keeps them, as E5 asks, and new ones where it sends through    *)
(* secsgem's send_and_waitfor_response, as the simulator does.             *)
(* Steps end where a lock is released, an answer awaited or another thread *)
(* can look at what was written.                                           *)
(***************************************************************************)
EXTENDS Integers, Sequences, FiniteSets

CONSTANTS
  Senders,     (* threads of the tool that emit events                      *)
  Workers,     (* spool drain threads that can exist at a time              *)
  NoThread,
  Spooling,    (* the possible values of _spooling_enabled                  *)
  Keeping,     (* whether the tool keeps the system bytes: possible values  *)
  SpoolLimit,  (* _spool_limit                                              *)
  MaxMsg,      (* bound: events emitted                                     *)
  MaxHost,     (* bound: hosts the service creates                          *)
  MaxTroubles  (* bound: late answers, connections lost, failures to store  *)

Msgs == 1..MaxMsg
Hosts == 1..MaxHost
NoMsg == 0
NoHost == 0
Tool == "state machine"      (* the tool's GEM state machine thread         *)
Threads == Senders \cup Workers
Callers == Senders \cup {Tool}

ASSUME LinkAssumption ==
  /\ NoThread \notin Threads /\ Tool \notin Threads /\ Tool # NoThread
  /\ Senders \cap Workers = {}
  /\ {"no", "schedule"} \cap Workers = {}
  /\ Spooling \subseteq BOOLEAN /\ Keeping \subseteq BOOLEAN
  /\ SpoolLimit \in Nat \ {0}
  /\ MaxMsg \in Nat /\ MaxHost \in Nat \ {0}
  /\ MaxTroubles \in Nat

VARIABLES
  (* the tool                                                               *)
  emitted, by,       (* events so far, the thread that emitted each         *)
  spooling, keeping, (* _spooling_enabled, the tool keeps system bytes      *)
  tries,             (* transmissions of each event so far                  *)
  peer,              (* host it is COMMUNICATING with                       *)
  spool, handle,     (* _spooled_messages, _spool_drain_worker              *)
  thread,            (* its threads                                         *)
  sending,           (* holder of _primary_send_lock                        *)
  waking,            (* callers about to start the worker they created      *)
  (* the hosts                                                              *)
  last,              (* newest host, with its session generation            *)
  host, inbox,
  (* the service                                                            *)
  journal,           (* rows [msg, gen] in sequence order                   *)
  aged,              (* rows received longer ago than the window            *)
  (* history and bounds                                                     *)
  overwritten, refused, unkept, abandoned, missed, budget

toolKind == <<spooling, keeping>>
toolVars == <<emitted, by, spooling, keeping, tries, peer, spool, handle, thread, sending, waking>>
hostVars == <<last, host, inbox>>
serviceVars == <<journal, aged>>
history == <<overwritten, refused, unkept, abandoned, missed>>
vars == <<toolVars, hostVars, serviceVars, history, budget>>

Thread == [pc : {"off", "made", "idle", "loop", "send", "wait",
                 "released", "queue", "answered", "leaving"}, msg : 0..MaxMsg]
(* "retired" closes the host: its flag, its callbacks, its session guard.  *)
Host == [live : BOOLEAN, retired : BOOLEAN,
         pc : {"idle", "handling", "storing", "answering"},
         msg : 0..MaxMsg, bytes : Nat, gen : 0..MaxHost,
         ack : BOOLEAN, kept : BOOLEAN]
NewHost == [live |-> TRUE, retired |-> FALSE, pc |-> "idle", msg |-> NoMsg,
            bytes |-> 0, gen |-> NoHost, ack |-> FALSE, kept |-> FALSE]

TypeOK ==
  /\ emitted \in 0..MaxMsg /\ by \in [Msgs -> Senders \cup {NoThread}]
  /\ spooling \in BOOLEAN /\ keeping \in BOOLEAN
  /\ tries \in [Msgs -> Nat] /\ peer \in 0..MaxHost
  /\ spool \in Seq(Msgs) /\ Len(spool) <= SpoolLimit
  /\ handle \in Workers \cup {NoThread}
  /\ thread \in [Threads -> Thread]
  /\ sending \in Threads \cup {NoThread}
  /\ waking \in [Callers -> {"no", "schedule"} \cup Workers]
  /\ last \in Hosts /\ host \in [Hosts -> Host]
  /\ inbox \in [Hosts -> Seq([msg : Msgs, bytes : Nat])]
  /\ journal \in Seq([msg : Msgs, gen : Hosts])
  /\ aged \subseteq 1..Len(journal)
  /\ overwritten \subseteq Msgs /\ refused \subseteq Msgs
  /\ unkept \subseteq Msgs /\ abandoned \subseteq Msgs /\ missed \in BOOLEAN
  /\ budget \in 0..MaxTroubles

Init ==
  /\ emitted = 0 /\ by = [m \in Msgs |-> NoThread] /\ spooling \in Spooling /\ keeping \in Keeping
  /\ tries = [m \in Msgs |-> 0] /\ peer = NoHost
  /\ spool = <<>> /\ handle = NoThread
  /\ thread = [t \in Threads |-> [pc |-> IF t \in Senders THEN "idle" ELSE "off",
                                  msg |-> NoMsg]]
  /\ sending = NoThread /\ waking = [c \in Callers |-> "no"]
  /\ last = 1 /\ inbox = [h \in Hosts |-> <<>>]
  /\ host = [h \in Hosts |-> [NewHost EXCEPT !.live = (h = 1)]]
  /\ journal = <<>> /\ aged = {}
  /\ overwritten = {} /\ refused = {} /\ unkept = {} /\ abandoned = {}
  /\ missed = FALSE
  /\ budget = MaxTroubles

-----------------------------------------------------------------------------
(* Tool: sending                                                           *)

Goes(t, p) == [thread EXCEPT ![t].pc = p]
Rests(t, p) == [thread EXCEPT ![t] = [pc |-> p, msg |-> NoMsg]]
(* A failed send is spooled by a sender and tried again, after a backoff,  *)
(* by the drain.                                                           *)
Fails(t) == IF t \in Senders THEN Goes(t, "queue") ELSE Rests(t, "loop")
Spend == budget > 0 /\ budget' = budget - 1
Stored(m) == \E i \in DOMAIN journal : journal[i].msg = m

(* Mutant: the backlog does not hold back a new event.                     *)
MustSpool_ifDown == peer = NoHost

(* _send_or_spool reads the backlog and the communication state.           *)
MustSpool == spool # <<>> \/ peer = NoHost

Emit(t) ==
  /\ thread[t].pc = "idle" /\ waking[t] = "no" /\ emitted < MaxMsg
  /\ emitted' = emitted + 1
  /\ by' = [by EXCEPT ![emitted + 1] = t]
  /\ thread' = [thread EXCEPT ![t] = [pc |-> IF MustSpool THEN "queue" ELSE "send",
                                      msg |-> emitted + 1]]
  /\ UNCHANGED <<toolKind, tries, peer, spool, handle, sending, waking, hostVars,
                 serviceVars, history, budget>>

(* The system bytes of the next transmission of m, next to its body.       *)
Bytes(m) == IF keeping THEN 0 ELSE tries[m]

(* _on_message_received: a retired host drops the message.                 *)
Received(h, item) ==
  IF host[h].retired THEN inbox ELSE [inbox EXCEPT ![h] = Append(@, item)]

(* _primary_send_lock is taken; without a connection the send raises.      *)
Send(t) ==
  /\ thread[t].pc = "send" /\ sending = NoThread
  /\ LET m == thread[t].msg
     IN IF peer = NoHost
        THEN /\ thread' = Fails(t)
             /\ UNCHANGED <<sending, inbox, tries>>
        ELSE /\ sending' = t /\ thread' = Goes(t, "wait")
             /\ tries' = IF keeping THEN tries ELSE [tries EXCEPT ![m] = @ + 1]
             /\ inbox' = Received(peer, [msg |-> m, bytes |-> Bytes(m)])
  /\ UNCHANGED <<emitted, by, toolKind, peer, spool, handle, waking, last,
                 host, serviceVars, history, budget>>

(* T3 runs out, or the lost connection has released the waiter.            *)
GiveUp(t) ==
  /\ \/ thread[t].pc = "released" /\ UNCHANGED budget
     \/ thread[t].pc = "wait" /\ Spend
  /\ sending' = NoThread /\ thread' = Fails(t)
  /\ UNCHANGED <<emitted, by, toolKind, tries, peer, spool, handle, waking, hostVars,
                 serviceVars, history>>

(* Mutant: a full spool refuses the new message instead.                   *)
Spooled_dropNewest(m) == IF Len(spool) < SpoolLimit THEN Append(spool, m) ELSE spool

(* OverWriteSpool: a full spool drops its oldest message.                  *)
Spooled(m) == Append(IF Len(spool) < SpoolLimit THEN spool ELSE Tail(spool), m)

(* _queue_spooled; the first message of an empty spool needs a worker.     *)
Queue(t) ==
  /\ thread[t].pc = "queue" /\ spooling
  /\ spool' = Spooled(thread[t].msg)
  /\ overwritten' = IF Len(spool) < SpoolLimit THEN overwritten
                    ELSE overwritten \cup {Head(spool)}
  /\ thread' = Rests(t, "idle")
  /\ waking' = [waking EXCEPT ![t] = IF spool = <<>> THEN "schedule" ELSE "no"]
  /\ UNCHANGED <<emitted, by, toolKind, tries, peer, handle, sending, hostVars, serviceVars,
                 refused, unkept, abandoned, missed, budget>>

(* Without spooling the event is gone, and its lot with it.                *)
Abandon(t) ==
  /\ thread[t].pc = "queue" /\ ~spooling
  /\ thread' = Rests(t, "idle")
  /\ abandoned' = abandoned \cup {thread[t].msg}
  /\ UNCHANGED <<emitted, by, toolKind, tries, peer, spool, handle, sending, waking, hostVars,
                 serviceVars, overwritten, refused, unkept, missed, budget>>

-----------------------------------------------------------------------------
(* Tool: the drain worker                                                  *)

Alive(w) == thread[w].pc \notin {"off", "made"}

Unused == {w \in Workers : thread[w].pc = "off"}

(* Mutant: a handle counts whether its thread lives or not.                *)
HasWorker_dead == handle # NoThread

(* A handle whose thread has not been started yet is not alive either.     *)
HasWorker == handle # NoThread /\ Alive(handle)

(* _schedule_spool_drain under _spool_lock.  The thread it finds alive may *)
(* have left its loop already ("missed").                                  *)
Schedules(c) ==
  IF HasWorker
  THEN /\ waking' = [waking EXCEPT ![c] = "no"]
       /\ missed' = (missed \/ thread[handle].pc = "leaving")
       /\ UNCHANGED <<handle, thread>>
  ELSE /\ Unused # {}
       /\ LET w == CHOOSE x \in Unused : TRUE
          IN /\ handle' = w /\ thread' = Goes(w, "made")
             /\ waking' = [waking EXCEPT ![c] = w]
       /\ UNCHANGED missed

Schedule(t) ==
  /\ waking[t] = "schedule" /\ Schedules(t)
  /\ UNCHANGED <<emitted, by, toolKind, tries, peer, spool, sending, hostVars,
                 serviceVars, overwritten, refused, unkept, abandoned, budget>>

(* worker.start(), after the lock: another caller may meanwhile have found *)
(* the thread not alive and created a second one.                          *)
StartWorker(c) ==
  /\ waking[c] \in Workers
  /\ thread' = Goes(waking[c], "loop")
  /\ waking' = [waking EXCEPT ![c] = "no"]
  /\ UNCHANGED <<emitted, by, toolKind, tries, peer, spool, handle, sending, hostVars,
                 serviceVars, history, budget>>

(* The loop's test and the look at the head of the spool.  On an empty one *)
(* the handle is cleared in the same critical section.                     *)
DrainLoop(w) ==
  /\ thread[w].pc = "loop"
  /\ IF peer # NoHost /\ spool # <<>>
     THEN /\ thread' = [thread EXCEPT ![w] = [pc |-> "send", msg |-> Head(spool)]]
          /\ UNCHANGED handle
     ELSE /\ thread' = Goes(w, "leaving")
          /\ handle' = IF peer # NoHost THEN NoThread ELSE handle
  /\ UNCHANGED <<emitted, by, toolKind, tries, peer, spool, sending, waking, hostVars,
                 serviceVars, history, budget>>

(* Mutant: the head is removed without a look at what it is.               *)
Drained_blindly(m) == IF spool = <<>> THEN spool ELSE Tail(spool)

(* The answered message is removed if it is still the head.                *)
Drained(m) == IF spool # <<>> /\ Head(spool) = m THEN Tail(spool) ELSE spool

DrainNext(w) ==
  /\ w \in Workers /\ thread[w].pc = "answered"
  /\ spool' = Drained(thread[w].msg)
  /\ thread' = Rests(w, "loop")
  /\ UNCHANGED <<emitted, by, toolKind, tries, peer, handle, sending, waking, hostVars,
                 serviceVars, history, budget>>

Ends(w) ==
  /\ thread[w].pc = "leaving"
  /\ thread' = Goes(w, "off")
  /\ UNCHANGED <<emitted, by, toolKind, tries, peer, spool, handle, sending, waking, hostVars,
                 serviceVars, history, budget>>

(* S6F23 from the host asks for what is spooled.                           *)
DrainRequested ==
  /\ peer # NoHost /\ waking[Tool] = "no" /\ spooling /\ spool # <<>>
  /\ Schedules(Tool)
  /\ UNCHANGED <<emitted, by, toolKind, tries, peer, spool, sending, hostVars,
                 serviceVars, overwritten, refused, unkept, abandoned, budget>>

-----------------------------------------------------------------------------
(* The connection                                                          *)

(* A live host establishes communication; a backlog needs a worker.        *)
Connect(h) ==
  /\ peer = NoHost /\ host[h].live /\ waking[Tool] = "no"
  /\ peer' = h
  /\ IF spool # <<>> THEN Schedules(Tool)
     ELSE UNCHANGED <<handle, thread, waking, missed>>
  /\ UNCHANGED <<emitted, by, toolKind, tries, spool, sending, hostVars, serviceVars,
                 overwritten, refused, unkept, abandoned, budget>>

(* The end of a connection answers every waiting thread with None.         *)
Disconnected ==
  /\ peer' = NoHost
  /\ thread' = [t \in Threads |->
       IF thread[t].pc = "wait" THEN [thread[t] EXCEPT !.pc = "released"]
       ELSE thread[t]]

LoseConnection ==
  /\ peer # NoHost /\ Spend /\ Disconnected
  /\ UNCHANGED <<emitted, by, toolKind, tries, spool, handle, sending, waking,
                 hostVars, serviceVars, history>>

-----------------------------------------------------------------------------
(* The hosts                                                               *)

Answers(h, a, k) == [host EXCEPT ![h].pc = "answering", ![h].gen = NoHost,
                                 ![h].ack = a, ![h].kept = k]

(* The dispatcher hands the next message to its handler.                   *)
Take(h) ==
  /\ host[h].pc = "idle" /\ inbox[h] # <<>>
  /\ inbox' = [inbox EXCEPT ![h] = Tail(@)]
  /\ host' = [host EXCEPT ![h].pc = "handling", ![h].msg = Head(inbox[h]).msg,
                          ![h].bytes = Head(inbox[h]).bytes]
  /\ UNCHANGED <<toolVars, last, serviceVars, history, budget>>

(* Mutant: a repeat is recognised in its own generation only.              *)
Repeats_generation(m, g) ==
  \E i \in DOMAIN journal : journal[i].msg = m /\ journal[i].gen = g

Latest(m) == CHOOSE i \in DOMAIN journal :
  journal[i].msg = m /\ \A j \in DOMAIN journal : journal[j].msg = m => j <= i

(* journal.append: the newest row of this identity, which covers the       *)
(* system bytes, makes the message a repeat when it is of this generation  *)
(* or inside the window.                                                   *)
Repeats(m, g) ==
  keeping /\ Stored(m) /\ (journal[Latest(m)].gen = g \/ Latest(m) \notin aged)

(* Mutant: the answer does not wait for the commit.                        *)
AckOf_early == TRUE

AckOf == FALSE

(* The handlers of S6F11, S6F13 and S5F1 (and, but for the code of the     *)
(* answer, of S16F7 and S16F9) test their callback and call it; it tests   *)
(* its guard and the capacity, and reads the generation of the machine     *)
(* before it waits for the journal.  When the host is retired after the    *)
(* message was taken, any of the tests may be the one that finds out, or   *)
(* none.                                                                   *)
Admit(h) ==
  /\ host[h].pc = "handling"
  /\ host' = [host EXCEPT ![h].pc = "storing", ![h].gen = last]
  /\ UNCHANGED <<toolVars, last, inbox, serviceVars, history, budget>>

(* journal.append, with the generation that was read.                      *)
Accept(h) ==
  /\ host[h].pc = "storing"
  /\ journal' = IF Repeats(host[h].msg, host[h].gen) THEN journal
                ELSE Append(journal, [msg |-> host[h].msg, gen |-> host[h].gen])
  /\ host' = Answers(h, TRUE, TRUE)
  /\ UNCHANGED <<toolVars, last, inbox, aged, history, budget>>

(* The callback is gone when it is called, the session guard is closed,    *)
(* there is no ingress capacity, or SQLite raises.                         *)
Refuse(h) ==
  /\ \/ host[h].pc = "handling" /\ host[h].retired /\ UNCHANGED budget
     \/ host[h].pc = "handling" /\ ~host[h].retired /\ Spend
     \/ host[h].pc = "storing" /\ Spend
  /\ host' = Answers(h, AckOf, FALSE)
  /\ UNCHANGED <<toolVars, last, inbox, serviceVars, history>>

(* Without a callback the message is acknowledged.                         *)
Confirm(h) ==
  /\ host[h].pc = "handling" /\ host[h].retired
  /\ host' = Answers(h, TRUE, FALSE)
  /\ UNCHANGED <<toolVars, last, inbox, serviceVars, history, budget>>

(* The answer reaches the thread that waits for it on this connection.  An *)
(* answer of any code ends the wait as a success.                          *)
Answer(h) ==
  /\ host[h].pc = "answering"
  /\ host' = [host EXCEPT ![h].pc = "idle", ![h].msg = NoMsg,
                          ![h].bytes = 0, ![h].ack = FALSE, ![h].kept = FALSE]
  /\ LET m == host[h].msg
         heard == {t \in Threads : /\ thread[t].pc = "wait"
                                   /\ thread[t].msg = m /\ peer = h
                                   /\ (keeping \/ host[h].bytes = tries[m] - 1)}
     IN /\ thread' = [t \in Threads |->
             IF t \notin heard THEN thread[t]
             ELSE IF t \in Senders THEN [pc |-> "idle", msg |-> NoMsg]
             ELSE [pc |-> "answered", msg |-> m]]
        /\ sending' = IF heard = {} THEN sending ELSE NoThread
        /\ refused' = IF heard # {} /\ ~host[h].ack THEN refused \cup {m} ELSE refused
        /\ unkept' = IF heard # {} /\ host[h].ack /\ ~host[h].kept
                     THEN unkept \cup {m} ELSE unkept
  /\ UNCHANGED <<emitted, by, toolKind, tries, peer, spool, handle, waking, last, inbox,
                 serviceVars, overwritten, abandoned, missed, budget>>

(* retire() sets the flag, on which queued messages are dropped, and takes *)
(* the callbacks away; a handler under way is at one of its two tests.     *)
Retire(h) ==
  /\ host[h].live /\ ~host[h].retired /\ h = last /\ last < MaxHost
  /\ host' = [host EXCEPT ![h].retired = TRUE]
  /\ inbox' = [inbox EXCEPT ![h] = <<>>]
  /\ UNCHANGED <<toolVars, last, serviceVars, history, budget>>

(* disable() or, failing that, _force_close_socket().                      *)
Close(h) ==
  /\ host[h].live /\ host[h].retired
  /\ host' = [host EXCEPT ![h].live = FALSE]
  /\ IF peer = h THEN Disconnected ELSE UNCHANGED <<peer, thread>>
  /\ UNCHANGED <<emitted, by, toolKind, tries, spool, handle, sending, waking, last,
                 inbox, serviceVars, history, budget>>

(* A new session generation with a host of its own.                        *)
Restart ==
  /\ last < MaxHost /\ ~host[last].live
  /\ last' = last + 1
  /\ host' = [host EXCEPT ![last + 1] = NewHost]
  /\ UNCHANGED <<toolVars, inbox, serviceVars, history, budget>>

(* cross_generation_window_sec passes: it counts for earlier sessions.     *)
Age ==
  /\ aged' = {i \in DOMAIN journal : journal[i].gen < last} /\ aged' # aged
  /\ UNCHANGED <<toolVars, hostVars, journal, history, budget>>

-----------------------------------------------------------------------------
ToolStep(t) ==
  \/ Send(t) \/ Queue(t) \/ Abandon(t)
  \/ thread[t].pc = "released" /\ GiveUp(t)
WorkerStep(w) ==
  \/ DrainLoop(w) \/ DrainNext(w) \/ Ends(w)
HostStep(h) ==
  Take(h) \/ Admit(h) \/ Accept(h) \/ Refuse(h) \/ Confirm(h) \/ Answer(h)
CallerStep(c) == (c \in Senders /\ Schedule(c)) \/ StartWorker(c)
SessionStep ==
  Restart \/ \E h \in Hosts : Close(h) \/ Connect(h)

Next ==
  \/ \E t \in Senders : Emit(t)
  \/ \E t \in Threads : ToolStep(t) \/ GiveUp(t)
  \/ \E w \in Workers : WorkerStep(w)
  \/ \E c \in Callers : CallerStep(c)
  \/ \E h \in Hosts : HostStep(h) \/ Retire(h)
  \/ SessionStep \/ LoseConnection \/ DrainRequested \/ Age

Spec == Init /\ [][Next]_vars

(* The threads are preempted and every backoff ends; the service connects  *)
(* again; a handler returns.  Nothing obliges the tool to emit, a host to  *)
(* be retired, an S6F23 to be sent or anything to fail.                    *)
Fairness ==
  /\ \A t \in Threads : WF_vars(ToolStep(t))
  /\ \A w \in Workers : WF_vars(WorkerStep(w))
  /\ \A c \in Callers : WF_vars(CallerStep(c))
  /\ \A h \in Hosts : WF_vars(HostStep(h))
  /\ WF_vars(SessionStep)
FairSpec == Spec /\ Fairness

-----------------------------------------------------------------------------
(* What the link promises                                                  *)

InHand(m) == \E t \in Threads : thread[t].msg = m
                 /\ thread[t].pc \in {"send", "wait", "released", "queue"}

(* Events nobody owes any more.                                            *)
Excused == overwritten \cup refused \cup unkept \cup abandoned

(* An event the tool emitted is in the journal, in the spool or in a       *)
(* thread's hand, unless the full spool dropped it, the host refused it or *)
(* acknowledged it while being retired, or the tool does not spool: the    *)
(* drain removes what was answered and nothing else (equipment.py:733).    *)
NothingLost ==
  \A m \in 1..emitted :
    \/ Stored(m) \/ InHand(m)
    \/ \E i \in DOMAIN spool : spool[i] = m
    \/ m \in Excused

FirstRow(m) == CHOOSE i \in DOMAIN journal :
  journal[i].msg = m /\ \A j \in 1..(i - 1) : journal[j].msg # m

(* The events of one thread of the tool first reach the journal in the     *)
(* order it emitted them, across failed sends, late answers, drains and    *)
(* replaced hosts.  An event the tool gave up, its spool dropped, a host   *)
(* refused or acknowledged while being retired is not owed: a copy that an *)
(* older host still has in hand may arrive at any time                     *)
(* (equipment.py:683 "so the stream stays ordered").                       *)
Ordered ==
  \A m, n \in (1..emitted) \ Excused :
    m < n /\ by[m] = by[n] /\ Stored(m) /\ Stored(n) => FirstRow(m) < FirstRow(n)

(* ACKC6=0 of a host that is not being retired means that the message is   *)
(* in the journal (host.py:328).                                           *)
AckedIsStored ==
  \A h \in Hosts :
    host[h].pc = "answering" /\ host[h].ack /\ ~host[h].retired
      => Stored(host[h].msg)

(* A retransmission with its old system bytes becomes a second row only    *)
(* after the window and in another session than the row before it, though  *)
(* its own may be older than that row's: the generation is read before the *)
(* lock of the journal is taken (journal.py:334, service/dispatch.py:68).  *)
RepeatsRecognised ==
  \A i, j \in DOMAIN journal :
    keeping /\ i < j /\ journal[i].msg = journal[j].msg =>
      /\ i \in aged
      /\ \/ journal[i].gen # journal[j].gen
         \/ \E k \in (i + 1)..(j - 1) : journal[k].msg = journal[i].msg

(* Once the connection holds, the spool empties, unless a wake-up met a    *)
(* worker on its way out (equipment.py:983).                               *)
SpoolDrains ==
  <>[](peer # NoHost) => <>[](missed \/ spool = <<>>)

(* Without the condition: a retry collapses onto the delivery it retries   *)
(* (journal.py:81).                                                        *)
RetryCollapses ==
  \A i, j \in DOMAIN journal :
    i < j /\ journal[i].msg = journal[j].msg => journal[i].gen # journal[j].gen

(* One worker drains at a time (equipment.py:615 "two workers popping the  *)
(* same queue would interleave the retransmission").                       *)
Draining(w) ==
  thread[w].pc \in {"loop", "send", "wait", "released", "answered"}
OneDrainer == \A x, y \in Workers : Draining(x) /\ Draining(y) => x = y

(* Without the exception: what the tool's comments claim                   *)
(* (equipment.py:703 "never stranded behind a worker that has decided to   *)
(* exit but not yet died").                                                *)
NeverStranded == <>[](peer # NoHost) => <>[](spool = <<>>)

(* ACKC6=0 from any host means that the message is stored (host.py:328).   *)
AckedIsAlwaysStored ==
  \A h \in Hosts :
    host[h].pc = "answering" /\ host[h].ack => Stored(host[h].msg)
=============================================================================
