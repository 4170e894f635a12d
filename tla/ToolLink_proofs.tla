--------------------------- MODULE ToolLink_proofs ---------------------------
(***************************************************************************)
(* What the link guarantees for every number of the tool's threads, drain  *)
(* workers, events, hosts and troubles, and every size of the spool.       *)
(*                                                                         *)
(* The argument: a message that a drain worker has in hand is still in the *)
(* spool or settled, so only what a sender has in hand is nowhere else;    *)
(* and a thread of the tool starts on a message only when every earlier    *)
(* one of its own is settled, because it queues behind a backlog, and the  *)
(* spool keeps the order of each thread.                                   *)
(***************************************************************************)
EXTENDS ToolLink, SequenceTheorems, WellFoundedInduction, TLAPS

Emitted == 1..emitted
InSpool(m) == \E i \in DOMAIN spool : spool[i] = m
Settled(m) == Stored(m) \/ m \in Excused
(* A thread in one of these places has its message out, or about to be.    *)
Sent == {"send", "wait", "released", "answered"}

SendersInOrder ==
  /\ \A m \in Emitted : by[m] \in Senders
  /\ \A s \in Senders :
       /\ thread[s].pc \in {"idle", "send", "wait", "released", "queue"}
       /\ thread[s].pc = "idle" <=> thread[s].msg = NoMsg
       /\ thread[s].msg # NoMsg =>
            /\ thread[s].msg \in Emitted /\ by[thread[s].msg] = s
            /\ ~InSpool(thread[s].msg)
            /\ \A m \in Emitted : by[m] = s => m <= thread[s].msg

WorkersHold ==
  \A w \in Workers :
    /\ thread[w].pc \in {"off", "made", "loop", "leaving"} \cup Sent
    /\ thread[w].pc \in Sent =>
         /\ thread[w].msg \in Emitted
         /\ InSpool(thread[w].msg) \/ Settled(thread[w].msg)
    /\ thread[w].pc = "answered" => Settled(thread[w].msg)
    /\ thread[w].pc \notin Sent => thread[w].msg = NoMsg

(* A worker is started once, by the caller that made it.                   *)
Waking ==
  /\ \A s \in Senders : thread[s].pc # "idle" => waking[s] = "no"
  /\ \A c \in Callers : waking[c] \in Workers => thread[waking[c]].pc = "made"
  /\ \A c, d \in Callers : waking[c] \in Workers /\ waking[c] = waking[d] => c = d

SpoolInOrder ==
  /\ \A i \in DOMAIN spool : spool[i] \in Emitted
  /\ \A i, j \in DOMAIN spool :
       i < j /\ by[spool[i]] = by[spool[j]] => spool[i] < spool[j]

HostsHold ==
  \A h \in Hosts :
    /\ host[h].pc # "idle" => host[h].msg \in Emitted
    /\ host[h].pc = "storing" => host[h].gen \in Hosts
    /\ \A i \in DOMAIN inbox[h] : inbox[h][i].msg \in Emitted
    /\ host[h].pc = "answering" =>
         /\ host[h].kept => Stored(host[h].msg)
         /\ host[h].ack => host[h].kept \/ host[h].retired

JournalHolds ==
  /\ \A i \in DOMAIN journal : journal[i].msg \in Emitted
  /\ aged \subseteq {i \in DOMAIN journal : journal[i].gen < last}

Held(m) == \E s \in Senders : thread[s].msg = m

(* Stronger than NothingLost: what a worker has in hand does not count.    *)
Accounted == \A m \in Emitted : Held(m) \/ InSpool(m) \/ Settled(m)

(* A message on its way, or stored.                                        *)
Under(m) ==
  \/ Stored(m)
  \/ \E t \in Threads : thread[t].msg = m /\ thread[t].pc \in Sent
  \/ \E h \in Hosts : \/ host[h].msg = m /\ host[h].pc # "idle"
                      \/ \E i \in DOMAIN inbox[h] : inbox[h][i].msg = m

OneAfterAnother ==
  \A m, n \in Emitted : m < n /\ by[m] = by[n] /\ Under(n) => Settled(m)

LinkInv ==
  /\ TypeOK /\ SendersInOrder /\ WorkersHold /\ Waking /\ SpoolInOrder /\ HostsHold
  /\ JournalHolds /\ Accounted /\ OneAfterAnother /\ Ordered /\ RepeatsRecognised

-----------------------------------------------------------------------------
(* Sequences                                                               *)

LEMMA Appended ==
  ASSUME NEW S, NEW q \in Seq(S), NEW e \in S
  PROVE  /\ Append(q, e) \in Seq(S) /\ Len(q) \in Nat /\ DOMAIN q = 1..Len(q)
         /\ Len(Append(q, e)) = Len(q) + 1
         /\ DOMAIN Append(q, e) = 1..(Len(q) + 1)
         /\ \A i \in 1..Len(q) : Append(q, e)[i] = q[i]
         /\ Append(q, e)[Len(q) + 1] = e
BY AppendProperties, LenProperties

LEMMA Shortened ==
  ASSUME NEW S, NEW q \in Seq(S), q # <<>>
  PROVE  /\ Tail(q) \in Seq(S) /\ Len(q) \in Nat \ {0} /\ DOMAIN q = 1..Len(q)
         /\ Head(q) = q[1] /\ q[1] \in S
         /\ Len(Tail(q)) = Len(q) - 1
         /\ DOMAIN Tail(q) = 1..(Len(q) - 1)
         /\ \A i \in 1..(Len(q) - 1) : Tail(q)[i] = q[i + 1]
<1>1. Len(q) \in Nat \ {0} /\ DOMAIN q = 1..Len(q)
  BY EmptySeq, LenProperties
<1>2. /\ Tail(q) \in Seq(S) /\ Len(Tail(q)) = Len(q) - 1
      /\ \A i \in 1..Len(Tail(q)) : Tail(q)[i] = q[i + 1]
  BY HeadTailProperties
<1>3. DOMAIN Tail(q) = 1..Len(Tail(q))
  BY <1>2, LenProperties
<1>4. q[1] \in S
  BY <1>1, ElementOfSeq
<1> QED BY <1>1, <1>2, <1>3, <1>4

(* A set of natural numbers has a smallest one.                            *)
LEMMA Smallest ==
  ASSUME NEW T, T \subseteq Nat, T # {}
  PROVE  \E x \in T : \A y \in T : x <= y
<1> DEFINE R == {ss \in Nat \X Nat : ss[1] < ss[2]}
<1>1. IsWellFoundedOn(R, Nat)
  BY NatLessThanWellFounded DEF OpToRel
<1>2. PICK x \in T : \A y \in T : ~(<<y, x>> \in R)
  <2> HIDE DEF R
  <2> QED BY <1>1, WFMin
<1>3. \A y \in T : ~(y < x)
  BY <1>2
<1> QED BY <1>3

-----------------------------------------------------------------------------
(* The tool's threads                                                      *)

Pcs == {"off", "made", "idle", "loop", "send", "wait",
        "released", "queue", "answered", "leaving"}
SenderPcs == {"idle", "send", "wait", "released", "queue"}
WorkerPcs == {"off", "made", "loop", "leaving"} \cup Sent

LEMMA ThreadMoves ==
  ASSUME TypeOK, NEW t \in Threads, NEW p \in Pcs
  PROVE  /\ Goes(t, p) \in [Threads -> Thread] /\ Rests(t, p) \in [Threads -> Thread]
         /\ \A u \in Threads \ {t} : Goes(t, p)[u] = thread[u] /\ Rests(t, p)[u] = thread[u]
         /\ Goes(t, p)[t].pc = p /\ Goes(t, p)[t].msg = thread[t].msg
         /\ Rests(t, p)[t].pc = p /\ Rests(t, p)[t].msg = NoMsg
<1>1. thread \in [Threads -> Thread]
  BY DEF TypeOK
<1>2. [thread[t] EXCEPT !.pc = p] \in Thread /\ [pc |-> p, msg |-> NoMsg] \in Thread
  BY <1>1, LinkAssumption DEF Thread, Pcs, NoMsg
<1>3. /\ Goes(t, p) = [thread EXCEPT ![t] = [thread[t] EXCEPT !.pc = p]]
      /\ Rests(t, p) = [thread EXCEPT ![t] = [pc |-> p, msg |-> NoMsg]]
  BY DEF Goes, Rests
<1>4. /\ [thread[t] EXCEPT !.pc = p].pc = p
      /\ [thread[t] EXCEPT !.pc = p].msg = thread[t].msg
  BY <1>1 DEF Thread
<1> QED BY <1>1, <1>2, <1>3, <1>4

Holds(t, p, m) == [thread EXCEPT ![t] = [pc |-> p, msg |-> m]]

LEMMA ThreadTakes ==
  ASSUME TypeOK, NEW t \in Threads, NEW p \in Pcs, NEW m \in Msgs
  PROVE  /\ Holds(t, p, m) \in [Threads -> Thread]
         /\ \A u \in Threads \ {t} : Holds(t, p, m)[u] = thread[u]
         /\ Holds(t, p, m)[t].pc = p /\ Holds(t, p, m)[t].msg = m
<1>1. thread \in [Threads -> Thread]
  BY DEF TypeOK
<1>2. [pc |-> p, msg |-> m] \in Thread
  BY LinkAssumption DEF Thread, Pcs, Msgs
<1> QED BY <1>1, <1>2 DEF Holds

(* A failed send.                                                          *)
LEMMA Failing ==
  ASSUME TypeOK, NEW t \in Threads
  PROVE  /\ Fails(t) \in [Threads -> Thread]
         /\ \A u \in Threads \ {t} : Fails(t)[u] = thread[u]
         /\ IF t \in Senders
            THEN Fails(t)[t].pc = "queue" /\ Fails(t)[t].msg = thread[t].msg
            ELSE Fails(t)[t].pc = "loop" /\ Fails(t)[t].msg = NoMsg
BY ThreadMoves DEF Fails, Pcs

(* Who has a message in hand has one.                                      *)
LEMMA InHandEmitted ==
  ASSUME TypeOK, SendersInOrder, WorkersHold, NEW t \in Threads
  PROVE  /\ thread[t].pc \in Sent \cup {"queue"} => thread[t].msg \in Emitted
         /\ thread[t].pc \in {"idle", "queue"} => t \in Senders
         /\ Emitted \subseteq Msgs
<1>3. Emitted \subseteq Msgs
  BY LinkAssumption DEF TypeOK, Emitted, Msgs
<1>1. CASE t \in Senders
  BY <1>1, <1>3 DEF SendersInOrder, Sent
<1>2. CASE t \in Workers
  BY <1>2, <1>3 DEF WorkersHold, Sent
<1> QED BY <1>1, <1>2, <1>3 DEF Threads

(* _schedule_spool_drain creates a thread at most.                         *)
LEMMA Scheduling ==
  ASSUME TypeOK, NEW c \in Callers, Schedules(c)
  PROVE  /\ thread' \in [Threads -> Thread] /\ handle' \in Workers \cup {NoThread}
         /\ waking' \in [Callers -> {"no", "schedule"} \cup Workers]
         /\ \A d \in Callers \ {c} : waking'[d] = waking[d]
         /\ missed' \in BOOLEAN
         /\ \/ UNCHANGED thread /\ waking'[c] = "no"
            \/ \E w \in Workers :
                 /\ thread[w].pc = "off" /\ thread'[w].pc = "made"
                 /\ thread'[w].msg = thread[w].msg
                 /\ \A u \in Threads \ {w} : thread'[u] = thread[u]
                 /\ waking'[c] = w
<1>1. CASE HasWorker
  BY <1>1 DEF Schedules, TypeOK
<1>2. CASE ~HasWorker
  <2> DEFINE w == CHOOSE x \in Unused : TRUE
  <2>1. w \in Workers /\ thread[w].pc = "off"
    BY <1>2 DEF Schedules, Unused
  <2>2. /\ handle' = w /\ thread' = Goes(w, "made") /\ UNCHANGED missed
        /\ waking' = [waking EXCEPT ![c] = w]
    BY <1>2 DEF Schedules
  <2> HIDE DEF w
  <2>3. w \in Threads
    BY <2>1 DEF Threads
  <2>4. /\ thread' \in [Threads -> Thread] /\ thread'[w].pc = "made"
        /\ thread'[w].msg = thread[w].msg
        /\ \A u \in Threads \ {w} : thread'[u] = thread[u]
    BY <2>2, <2>3, ThreadMoves DEF Pcs
  <2>5. /\ waking' \in [Callers -> {"no", "schedule"} \cup Workers]
        /\ waking'[c] = w /\ \A d \in Callers \ {c} : waking'[d] = waking[d]
        /\ missed' \in BOOLEAN
    BY <2>1, <2>2 DEF TypeOK
  <2> QED BY <2>1, <2>2, <2>4, <2>5
<1> QED BY <1>1, <1>2

(* The end of a connection.                                                *)
LEMMA Releases ==
  ASSUME TypeOK, Disconnected
  PROVE  /\ thread' \in [Threads -> Thread] /\ peer' \in 0..MaxHost
         /\ \A t \in Threads :
              \/ thread'[t] = thread[t]
              \/ /\ thread[t].pc = "wait" /\ thread'[t].pc = "released"
                 /\ thread'[t].msg = thread[t].msg
<1>1. thread \in [Threads -> Thread] /\ 0 \in 0..MaxHost
  BY LinkAssumption DEF TypeOK
<1>2. ASSUME NEW t \in Threads, thread[t].pc = "wait"
      PROVE  /\ [thread[t] EXCEPT !.pc = "released"] \in Thread
             /\ [thread[t] EXCEPT !.pc = "released"].pc = "released"
             /\ [thread[t] EXCEPT !.pc = "released"].msg = thread[t].msg
  BY <1>1 DEF Thread
<1>3. peer' = NoHost
      /\ thread' = [t \in Threads |->
                     IF thread[t].pc = "wait" THEN [thread[t] EXCEPT !.pc = "released"]
                     ELSE thread[t]]
  BY DEF Disconnected
<1> QED BY <1>1, <1>2, <1>3 DEF NoHost

-----------------------------------------------------------------------------
(* The spool                                                               *)

LEMMA SpooledIs ==
  ASSUME TypeOK, NEW m \in Msgs
  PROVE  /\ Spooled(m) \in Seq(Msgs) /\ Len(Spooled(m)) <= SpoolLimit
         /\ Len(spool) \in Nat /\ DOMAIN spool = 1..Len(spool)
         /\ \E d \in {0, 1} :
              /\ d = (IF Len(spool) < SpoolLimit THEN 0 ELSE 1)
              /\ d = 1 => Len(spool) >= 1 /\ Head(spool) = spool[1]
              /\ DOMAIN Spooled(m) = 1..(Len(spool) + 1 - d)
              /\ \A i \in 1..(Len(spool) - d) : Spooled(m)[i] = spool[i + d]
              /\ Spooled(m)[Len(spool) + 1 - d] = m
<1>1. spool \in Seq(Msgs) /\ Len(spool) <= SpoolLimit /\ SpoolLimit \in Nat \ {0}
  BY LinkAssumption DEF TypeOK
<1>2. Len(spool) \in Nat /\ DOMAIN spool = 1..Len(spool)
  BY <1>1, LenProperties
<1>3. CASE Len(spool) < SpoolLimit
  BY <1>1, <1>2, <1>3, Appended DEF Spooled
<1>4. CASE ~(Len(spool) < SpoolLimit)
  <2>1. spool # <<>>
    BY <1>1, <1>4, EmptySeq
  <2>2. Spooled(m) = Append(Tail(spool), m)
    BY <1>4 DEF Spooled
  <2>3. /\ Tail(spool) \in Seq(Msgs) /\ Head(spool) = spool[1]
        /\ Len(Tail(spool)) = Len(spool) - 1
        /\ \A i \in 1..(Len(spool) - 1) : Tail(spool)[i] = spool[i + 1]
    BY <1>1, <2>1, Shortened
  <2>4. /\ Append(Tail(spool), m) \in Seq(Msgs)
        /\ Len(Append(Tail(spool), m)) = Len(spool)
        /\ DOMAIN Append(Tail(spool), m) = 1..Len(spool)
        /\ \A i \in 1..(Len(spool) - 1) : Append(Tail(spool), m)[i] = Tail(spool)[i]
        /\ Append(Tail(spool), m)[Len(spool)] = m
    BY <1>2, <2>3, Appended
  <2> QED BY <1>1, <1>2, <1>4, <2>2, <2>3, <2>4
<1> QED BY <1>3, <1>4

LEMMA DrainedIs ==
  ASSUME TypeOK, NEW m
  PROVE  /\ Drained(m) \in Seq(Msgs) /\ Len(Drained(m)) <= SpoolLimit
         /\ Len(spool) \in Nat /\ DOMAIN spool = 1..Len(spool)
         /\ \/ Drained(m) = spool
            \/ /\ Len(spool) >= 1 /\ spool[1] = m
               /\ DOMAIN Drained(m) = 1..(Len(spool) - 1)
               /\ \A i \in 1..(Len(spool) - 1) : Drained(m)[i] = spool[i + 1]
<1>1. spool \in Seq(Msgs) /\ Len(spool) <= SpoolLimit /\ SpoolLimit \in Nat
  BY LinkAssumption DEF TypeOK
<1>2. Len(spool) \in Nat /\ DOMAIN spool = 1..Len(spool)
  BY <1>1, LenProperties
<1>3. CASE spool # <<>> /\ Head(spool) = m
  <2>1. Drained(m) = Tail(spool)
    BY <1>3 DEF Drained
  <2>2. /\ Tail(spool) \in Seq(Msgs) /\ Head(spool) = spool[1] /\ Len(spool) >= 1
        /\ Len(Tail(spool)) = Len(spool) - 1
        /\ DOMAIN Tail(spool) = 1..(Len(spool) - 1)
        /\ \A i \in 1..(Len(spool) - 1) : Tail(spool)[i] = spool[i + 1]
    BY <1>1, <1>3, Shortened
  <2>3. Drained(m) \in Seq(Msgs) /\ Len(Drained(m)) <= SpoolLimit
    BY <1>1, <1>2, <2>1, <2>2
  <2>4. /\ Len(spool) >= 1 /\ spool[1] = m
        /\ DOMAIN Drained(m) = 1..(Len(spool) - 1)
        /\ \A i \in 1..(Len(spool) - 1) : Drained(m)[i] = spool[i + 1]
    BY <1>3, <2>1, <2>2
  <2> QED BY <1>2, <2>3, <2>4
<1>4. CASE ~(spool # <<>> /\ Head(spool) = m)
  BY <1>1, <1>2, <1>4 DEF Drained
<1> QED BY <1>3, <1>4

-----------------------------------------------------------------------------
(* Types                                                                   *)

HostPcs == {"idle", "handling", "storing", "answering"}

LEMMA HostAnswers ==
  ASSUME TypeOK, NEW h \in Hosts, NEW a \in BOOLEAN, NEW k \in BOOLEAN
  PROVE  /\ Answers(h, a, k) \in [Hosts -> Host]
         /\ \A g \in Hosts \ {h} : Answers(h, a, k)[g] = host[g]
         /\ LET x == Answers(h, a, k)[h]
            IN  /\ x.pc = "answering" /\ x.ack = a /\ x.kept = k
                /\ x.msg = host[h].msg /\ x.retired = host[h].retired
<1>1. host \in [Hosts -> Host]
  BY DEF TypeOK
<1> DEFINE x == [host[h] EXCEPT !.pc = "answering", !.gen = NoHost, !.ack = a, !.kept = k]
<1>0. host[h] \in Host /\ NoHost \in 0..MaxHost
  BY <1>1, LinkAssumption DEF NoHost
<1>2. /\ x \in Host /\ x.pc = "answering" /\ x.ack = a /\ x.kept = k
      /\ x.msg = host[h].msg /\ x.retired = host[h].retired
  BY <1>0 DEF Host
<1>3. Answers(h, a, k) = [host EXCEPT ![h] = x]
  BY <1>1 DEF Answers
<1> HIDE DEF x
<1> QED BY <1>1, <1>2, <1>3

(* What a step does to the host it is about.                               *)
LEMMA HostTakes ==
  ASSUME TypeOK, NEW h \in Hosts, Take(h)
  PROVE  /\ host' \in [Hosts -> Host] /\ host'[h].pc = "handling"
         /\ host'[h].msg = inbox[h][1].msg /\ host'[h].retired = host[h].retired
         /\ \A g \in Hosts \ {h} : host'[g] = host[g] /\ inbox'[g] = inbox[g]
         /\ inbox' \in [Hosts -> Seq([msg : Msgs, bytes : Nat])]
         /\ inbox'[h] = Tail(inbox[h]) /\ inbox[h] # <<>>
<1> DEFINE m == inbox[h][1]
           x == [host[h] EXCEPT !.pc = "handling", !.msg = m.msg, !.bytes = m.bytes]
<1>1. inbox[h] \in Seq([msg : Msgs, bytes : Nat]) /\ inbox[h] # <<>>
  BY DEF Take, TypeOK
<1>2. /\ Head(inbox[h]) = m /\ m \in [msg : Msgs, bytes : Nat]
      /\ Tail(inbox[h]) \in Seq([msg : Msgs, bytes : Nat])
  BY <1>1, Shortened
<1>3. m.msg \in 0..MaxMsg /\ m.bytes \in Nat
  BY <1>2, LinkAssumption DEF Msgs
<1>4. /\ host' = [host EXCEPT ![h].pc = "handling", ![h].msg = m.msg, ![h].bytes = m.bytes]
      /\ inbox' = [inbox EXCEPT ![h] = Tail(inbox[h])]
  BY <1>2 DEF Take
<1> HIDE DEF m
<1>5. host \in [Hosts -> Host] /\ host[h] \in Host
  BY DEF TypeOK
<1>6. /\ x \in Host /\ x.pc = "handling" /\ x.msg = m.msg
      /\ x.retired = host[h].retired
  BY <1>3, <1>5 DEF Host
<1>7. host' = [host EXCEPT ![h] = x]
  BY <1>4, <1>5
<1> HIDE DEF x
<1>8. /\ host' \in [Hosts -> Host] /\ host'[h] = x
      /\ \A g \in Hosts \ {h} : host'[g] = host[g]
  BY <1>5, <1>6, <1>7
<1>9. /\ inbox' \in [Hosts -> Seq([msg : Msgs, bytes : Nat])]
      /\ inbox'[h] = Tail(inbox[h]) /\ \A g \in Hosts \ {h} : inbox'[g] = inbox[g]
  BY <1>2, <1>4 DEF TypeOK
<1> QED BY <1>1, <1>6, <1>8, <1>9 DEF m

LEMMA HostAdmits ==
  ASSUME TypeOK, NEW h \in Hosts, Admit(h)
  PROVE  /\ host' \in [Hosts -> Host] /\ host'[h].pc = "storing"
         /\ host'[h].msg = host[h].msg /\ host'[h].gen = last
         /\ host[h].pc = "handling" /\ \A g \in Hosts \ {h} : host'[g] = host[g]
<1> DEFINE x == [host[h] EXCEPT !.pc = "storing", !.gen = last]
<1>1. host \in [Hosts -> Host] /\ host[h] \in Host /\ last \in 0..MaxHost
  BY LinkAssumption DEF TypeOK, Hosts
<1>2. /\ x \in Host /\ x.pc = "storing" /\ x.gen = last /\ x.msg = host[h].msg
  BY <1>1 DEF Host
<1>3. host' = [host EXCEPT ![h] = x] /\ host[h].pc = "handling"
  BY <1>1 DEF Admit
<1> HIDE DEF x
<1> QED BY <1>1, <1>2, <1>3

LEMMA HostAnswered ==
  ASSUME TypeOK, NEW h \in Hosts, Answer(h)
  PROVE  /\ host' \in [Hosts -> Host] /\ host'[h].pc = "idle"
         /\ \A g \in Hosts \ {h} : host'[g] = host[g]
<1> DEFINE x == [host[h] EXCEPT !.pc = "idle", !.msg = NoMsg, !.bytes = 0,
                                !.ack = FALSE, !.kept = FALSE]
<1>1. host \in [Hosts -> Host] /\ host[h] \in Host /\ NoMsg \in 0..MaxMsg
  BY LinkAssumption DEF TypeOK, NoMsg
<1>2. x \in Host /\ x.pc = "idle"
  BY <1>1 DEF Host
<1>3. host' = [host EXCEPT ![h] = x]
  BY <1>1 DEF Answer
<1> HIDE DEF x
<1> QED BY <1>1, <1>2, <1>3

(* retire() and the end of its connection leave a handler where it is.     *)
LEMMA HostGoes ==
  ASSUME TypeOK, NEW h \in Hosts, Retire(h) \/ Close(h)
  PROVE  /\ host' \in [Hosts -> Host]
         /\ \A g \in Hosts :
              /\ host'[g].pc = host[g].pc /\ host'[g].msg = host[g].msg
              /\ host'[g].gen = host[g].gen /\ host'[g].ack = host[g].ack
              /\ host'[g].kept = host[g].kept
              /\ host[g].retired => host'[g].retired
<1>1. host \in [Hosts -> Host] /\ host[h] \in Host
  BY DEF TypeOK
<1>2. PICK x \in Host : /\ host' = [host EXCEPT ![h] = x]
                        /\ x.pc = host[h].pc /\ x.msg = host[h].msg
                        /\ x.gen = host[h].gen /\ x.ack = host[h].ack
                        /\ x.kept = host[h].kept
                        /\ host[h].retired => x.retired
  <2>1. CASE Retire(h)
    <3> DEFINE x == [host[h] EXCEPT !.retired = TRUE]
    <3>1. /\ x \in Host /\ x.pc = host[h].pc /\ x.msg = host[h].msg
          /\ x.gen = host[h].gen /\ x.ack = host[h].ack
          /\ x.kept = host[h].kept /\ x.retired
      BY <1>1 DEF Host
    <3>2. host' = [host EXCEPT ![h] = x]
      BY <2>1, <1>1 DEF Retire
    <3> QED BY <3>1, <3>2
  <2>2. CASE Close(h)
    <3> DEFINE x == [host[h] EXCEPT !.live = FALSE]
    <3>1. /\ x \in Host /\ x.pc = host[h].pc /\ x.msg = host[h].msg
          /\ x.gen = host[h].gen /\ x.ack = host[h].ack
          /\ x.kept = host[h].kept /\ x.retired = host[h].retired
      BY <1>1 DEF Host
    <3>2. host' = [host EXCEPT ![h] = x]
      BY <2>2, <1>1 DEF Close
    <3> QED BY <3>1, <3>2
  <2> QED BY <2>1, <2>2
<1> QED BY <1>1, <1>2

LEMMA TypeInit == Init => TypeOK
<1> SUFFICES ASSUME Init PROVE TypeOK
  OBVIOUS
<1>1. thread \in [Threads -> Thread]
  BY LinkAssumption DEF Init, Thread, NoMsg
<1>2. host \in [Hosts -> Host]
  <2>1. NewHost \in Host
    BY LinkAssumption DEF NewHost, Host, NoMsg, NoHost
  <2>2. \A b \in BOOLEAN : [NewHost EXCEPT !.live = b] \in Host
    BY <2>1 DEF Host
  <2> QED BY <2>2 DEF Init
<1>3. spool \in Seq(Msgs) /\ Len(spool) <= SpoolLimit
  BY LinkAssumption, EmptySeq DEF Init
<1>4. inbox \in [Hosts -> Seq([msg : Msgs, bytes : Nat])]
  BY EmptySeq DEF Init
<1>5. journal \in Seq([msg : Msgs, gen : Hosts]) /\ aged = {}
  BY EmptySeq DEF Init
<1>6. /\ emitted \in 0..MaxMsg /\ last \in Hosts /\ peer \in 0..MaxHost
      /\ budget \in 0..MaxTroubles
  BY LinkAssumption DEF Init, Hosts, NoHost
<1>7. /\ by \in [Msgs -> Senders \cup {NoThread}] /\ tries \in [Msgs -> Nat]
      /\ spooling \in BOOLEAN /\ keeping \in BOOLEAN
      /\ handle \in Workers \cup {NoThread} /\ sending \in Threads \cup {NoThread}
      /\ waking \in [Callers -> {"no", "schedule"} \cup Workers]
      /\ overwritten \subseteq Msgs /\ refused \subseteq Msgs
      /\ unkept \subseteq Msgs /\ abandoned \subseteq Msgs /\ missed \in BOOLEAN
  BY LinkAssumption DEF Init
<1> QED BY <1>1, <1>2, <1>3, <1>4, <1>5, <1>6, <1>7 DEF TypeOK

LEMMA TypeStep ==
  ASSUME TypeOK, SendersInOrder, WorkersHold, HostsHold, [Next]_vars
  PROVE  TypeOK'
<1> USE DEF toolKind, toolVars, hostVars, serviceVars, history
<1>1. ASSUME NEW t \in Senders, Emit(t) PROVE TypeOK'
  <2>1. emitted + 1 \in Msgs
    BY <1>1, LinkAssumption DEF Emit, TypeOK, Msgs
  <2>2. thread' \in [Threads -> Thread]
    <3>1. t \in Threads /\ {"queue", "send"} \subseteq Pcs
      BY DEF Threads, Pcs
    <3>2. \A p \in {"queue", "send"} :
            Holds(t, p, emitted + 1) \in [Threads -> Thread]
      BY <2>1, <3>1, ThreadTakes
    <3> QED BY <1>1, <3>2 DEF Emit, Holds
  <2>3. emitted' \in 0..MaxMsg /\ by' \in [Msgs -> Senders \cup {NoThread}]
    BY <1>1, <2>1 DEF Emit, TypeOK, Msgs
  <2> QED BY <1>1, <2>2, <2>3 DEF Emit, TypeOK
<1>2. ASSUME NEW t \in Threads, Send(t) PROVE TypeOK'
  <2>1. CASE peer = NoHost
    BY <1>2, <2>1, Failing DEF Send, TypeOK
  <2>2. CASE peer # NoHost
    <3> DEFINE m == thread[t].msg
    <3>1. m \in Msgs
      BY <1>2, InHandEmitted DEF Send, Sent
    <3>2. thread' \in [Threads -> Thread] /\ sending' = t
      BY <1>2, <2>2, ThreadMoves DEF Send, Pcs
    <3>3. tries' \in [Msgs -> Nat]
      <4>1. tries' = tries \/ tries' = [tries EXCEPT ![m] = tries[m] + 1]
        BY <1>2, <2>2 DEF Send
      <4>2. tries \in [Msgs -> Nat] /\ m \in Msgs
        BY <3>1 DEF TypeOK
      <4> HIDE DEF m
      <4> QED BY <4>1, <4>2
    <3>4. inbox' \in [Hosts -> Seq([msg : Msgs, bytes : Nat])]
      <4>1. peer \in Hosts
        BY <2>2, LinkAssumption DEF TypeOK, Hosts, NoHost
      <4>2. [msg |-> m, bytes |-> Bytes(m)] \in [msg : Msgs, bytes : Nat]
        BY <3>1 DEF Bytes, TypeOK
      <4>3. inbox' = Received(peer, [msg |-> m, bytes |-> Bytes(m)])
        BY <1>2, <2>2 DEF Send
      <4> HIDE DEF m
      <4>4. Append(inbox[peer], [msg |-> m, bytes |-> Bytes(m)])
              \in Seq([msg : Msgs, bytes : Nat])
        BY <4>1, <4>2, Appended DEF TypeOK
      <4> QED BY <4>1, <4>3, <4>4 DEF Received, TypeOK
    <3> QED BY <1>2, <2>2, <3>2, <3>3, <3>4 DEF Send, TypeOK
  <2> QED BY <2>1, <2>2
<1>3. ASSUME NEW t \in Threads, GiveUp(t) PROVE TypeOK'
  <2>1. budget' \in 0..MaxTroubles
    BY <1>3, LinkAssumption DEF GiveUp, Spend, TypeOK
  <2> QED BY <1>3, <2>1, Failing DEF GiveUp, TypeOK
<1>4. ASSUME NEW t \in Threads, Queue(t) PROVE TypeOK'
  <2>1. thread[t].msg \in Msgs /\ t \in Senders
    BY <1>4, InHandEmitted DEF Queue
  <2>2. thread' \in [Threads -> Thread]
    BY <1>4, ThreadMoves DEF Queue, Pcs
  <2>3. spool' \in Seq(Msgs) /\ Len(spool') <= SpoolLimit
    BY <1>4, <2>1, SpooledIs DEF Queue
  <2>4. overwritten' \subseteq Msgs
    <3>1. ~(Len(spool) < SpoolLimit) => Head(spool) \in Msgs
      <4>1. spool \in Seq(Msgs) /\ SpoolLimit \in Nat \ {0}
        BY LinkAssumption DEF TypeOK
      <4>2. ~(Len(spool) < SpoolLimit) => spool # <<>>
        BY <4>1, EmptySeq
      <4> QED BY <4>1, <4>2, Shortened
    <3> QED BY <1>4, <3>1 DEF Queue, TypeOK
  <2>5. waking' \in [Callers -> {"no", "schedule"} \cup Workers]
    BY <1>4, <2>1 DEF Queue, TypeOK, Callers
  <2> QED BY <1>4, <2>2, <2>3, <2>4, <2>5 DEF Queue, TypeOK
<1>5. ASSUME NEW t \in Threads, Abandon(t) PROVE TypeOK'
  <2>1. thread[t].msg \in Msgs
    BY <1>5, InHandEmitted DEF Abandon
  <2>2. thread' \in [Threads -> Thread]
    BY <1>5, ThreadMoves DEF Abandon, Pcs
  <2> QED BY <1>5, <2>1, <2>2 DEF Abandon, TypeOK
<1>6. ASSUME NEW w \in Workers, DrainLoop(w) PROVE TypeOK'
  <2>1. w \in Threads
    BY DEF Threads
  <2>2. spool # <<>> => Head(spool) \in Msgs
    BY Shortened DEF TypeOK
  <2>3. thread' \in [Threads -> Thread]
    <3>1. CASE peer # NoHost /\ spool # <<>>
      <4>1. thread' = Holds(w, "send", Head(spool))
        BY <1>6, <3>1 DEF DrainLoop, Holds
      <4> QED BY <2>1, <2>2, <3>1, <4>1, ThreadTakes DEF Pcs
    <3>2. CASE ~(peer # NoHost /\ spool # <<>>)
      BY <1>6, <2>1, <3>2, ThreadMoves DEF DrainLoop, Pcs
    <3> QED BY <3>1, <3>2
  <2>4. handle' \in Workers \cup {NoThread}
    BY <1>6 DEF DrainLoop, TypeOK
  <2> QED BY <1>6, <2>3, <2>4 DEF DrainLoop, TypeOK
<1>7. ASSUME NEW w \in Workers, DrainNext(w) PROVE TypeOK'
  <2>1. thread' \in [Threads -> Thread]
    BY <1>7, ThreadMoves DEF DrainNext, Pcs, Threads
  <2>2. spool' \in Seq(Msgs) /\ Len(spool') <= SpoolLimit
    BY <1>7, DrainedIs DEF DrainNext
  <2> QED BY <1>7, <2>1, <2>2 DEF DrainNext, TypeOK
<1>8. ASSUME NEW w \in Workers, Ends(w) PROVE TypeOK'
  <2>1. thread' \in [Threads -> Thread]
    BY <1>8, ThreadMoves DEF Ends, Pcs, Threads
  <2> QED BY <1>8, <2>1 DEF Ends, TypeOK
<1>9. ASSUME NEW t \in Senders, Schedule(t) PROVE TypeOK'
  <2>1. t \in Callers
    BY DEF Callers
  <2>2. /\ thread' \in [Threads -> Thread] /\ handle' \in Workers \cup {NoThread}
        /\ waking' \in [Callers -> {"no", "schedule"} \cup Workers]
        /\ missed' \in BOOLEAN
    BY <1>9, <2>1, Scheduling DEF Schedule
  <2> QED BY <1>9, <2>2 DEF Schedule, TypeOK
<1>10. ASSUME NEW c \in Callers, StartWorker(c) PROVE TypeOK'
  <2>1. thread' \in [Threads -> Thread]
    BY <1>10, ThreadMoves DEF StartWorker, Pcs, Threads
  <2>2. waking' \in [Callers -> {"no", "schedule"} \cup Workers]
    BY <1>10 DEF StartWorker, TypeOK
  <2> QED BY <1>10, <2>1, <2>2 DEF StartWorker, TypeOK
<1>11. ASSUME NEW h \in Hosts, Take(h) PROVE TypeOK'
  BY <1>11, HostTakes DEF Take, TypeOK
<1>12. ASSUME NEW h \in Hosts, Admit(h) PROVE TypeOK'
  BY <1>12, HostAdmits DEF Admit, TypeOK
<1>13. ASSUME NEW h \in Hosts, Accept(h) PROVE TypeOK'
  <2>1. host' \in [Hosts -> Host]
    BY <1>13, HostAnswers DEF Accept
  <2>2. [msg |-> host[h].msg, gen |-> host[h].gen] \in [msg : Msgs, gen : Hosts]
    <3>1. host[h].msg \in Emitted /\ host[h].gen \in Hosts
      BY <1>13 DEF Accept, HostsHold
    <3> QED BY <3>1, LinkAssumption DEF Emitted, Msgs, TypeOK
  <2>3. /\ journal' \in Seq([msg : Msgs, gen : Hosts])
        /\ Len(journal') = Len(journal) \/ Len(journal') = Len(journal) + 1
        /\ Len(journal) \in Nat
    <3> DEFINE e == [msg |-> host[h].msg, gen |-> host[h].gen]
    <3>1. journal \in Seq([msg : Msgs, gen : Hosts]) /\ Len(journal) \in Nat
      BY LenProperties DEF TypeOK
    <3>2. journal' = journal \/ journal' = Append(journal, e)
      BY <1>13 DEF Accept
    <3> HIDE DEF e
    <3>3. e \in [msg : Msgs, gen : Hosts]
      BY <2>2 DEF e
    <3>4. /\ Append(journal, e) \in Seq([msg : Msgs, gen : Hosts])
          /\ Len(Append(journal, e)) = Len(journal) + 1
      BY <3>1, <3>3, Appended
    <3> QED BY <3>1, <3>2, <3>4
  <2>4. aged' \subseteq 1..Len(journal')
    BY <1>13, <2>3 DEF Accept, TypeOK
  <2> QED BY <1>13, <2>1, <2>3, <2>4 DEF Accept, TypeOK
<1>14. ASSUME NEW h \in Hosts, Refuse(h) PROVE TypeOK'
  <2>1. host' \in [Hosts -> Host]
    BY <1>14, HostAnswers DEF Refuse, AckOf
  <2>2. budget' \in 0..MaxTroubles
    BY <1>14, LinkAssumption DEF Refuse, Spend, TypeOK
  <2> QED BY <1>14, <2>1, <2>2 DEF Refuse, TypeOK
<1>15. ASSUME NEW h \in Hosts, Confirm(h) PROVE TypeOK'
  <2>1. host' \in [Hosts -> Host]
    BY <1>15, HostAnswers DEF Confirm
  <2> QED BY <1>15, <2>1 DEF Confirm, TypeOK
<1>16. ASSUME NEW h \in Hosts, Answer(h) PROVE TypeOK'
  <2> DEFINE m == host[h].msg
  <2>1. m \in Msgs
    BY <1>16, LinkAssumption DEF Answer, HostsHold, Emitted, Msgs, TypeOK
  <2>2. host' \in [Hosts -> Host]
    BY <1>16, HostAnswered
  <2>3. thread' \in [Threads -> Thread]
    <3>1. /\ [pc |-> "idle", msg |-> NoMsg] \in Thread
          /\ [pc |-> "answered", msg |-> m] \in Thread
      BY <2>1, LinkAssumption DEF Thread, NoMsg, Msgs
    <3>2. \A t \in Threads : thread[t] \in Thread
      BY DEF TypeOK
    <3> QED BY <1>16, <3>1, <3>2 DEF Answer
  <2>4. sending' \in Threads \cup {NoThread}
    BY <1>16 DEF Answer, TypeOK
  <2>5. refused' \subseteq Msgs /\ unkept' \subseteq Msgs
    BY <1>16, <2>1 DEF Answer, TypeOK
  <2> QED BY <1>16, <2>2, <2>3, <2>4, <2>5 DEF Answer, TypeOK
<1>17. ASSUME NEW h \in Hosts, Retire(h) PROVE TypeOK'
  <2>1. host' \in [Hosts -> Host]
    BY <1>17, HostGoes
  <2>2. inbox' \in [Hosts -> Seq([msg : Msgs, bytes : Nat])]
    BY <1>17, EmptySeq DEF Retire, TypeOK
  <2> QED BY <1>17, <2>1, <2>2 DEF Retire, TypeOK
<1>18. ASSUME NEW h \in Hosts, Close(h) PROVE TypeOK'
  <2>1. host' \in [Hosts -> Host]
    BY <1>18, HostGoes
  <2>2. thread' \in [Threads -> Thread] /\ peer' \in 0..MaxHost
    BY <1>18, Releases DEF Close, TypeOK
  <2> QED BY <1>18, <2>1, <2>2 DEF Close, TypeOK
<1>19. ASSUME NEW h \in Hosts, Connect(h) PROVE TypeOK'
  <2>1. Tool \in Callers
    BY DEF Callers
  <2>2. /\ thread' \in [Threads -> Thread] /\ handle' \in Workers \cup {NoThread}
        /\ waking' \in [Callers -> {"no", "schedule"} \cup Workers]
        /\ missed' \in BOOLEAN
    BY <1>19, <2>1, Scheduling DEF Connect, TypeOK
  <2>3. peer' \in 0..MaxHost
    BY <1>19, LinkAssumption DEF Connect, Hosts
  <2> QED BY <1>19, <2>2, <2>3 DEF Connect, TypeOK
<1>20. CASE Restart
  <2>1. last' \in Hosts
    BY <1>20, LinkAssumption DEF Restart, TypeOK, Hosts
  <2>2. NewHost \in Host
    BY LinkAssumption DEF NewHost, Host, NoMsg, NoHost
  <2>3. host' \in [Hosts -> Host]
    BY <1>20, <2>2 DEF Restart, TypeOK
  <2> QED BY <1>20, <2>1, <2>3 DEF Restart, TypeOK
<1>21. CASE LoseConnection
  <2>1. thread' \in [Threads -> Thread] /\ peer' \in 0..MaxHost
    BY <1>21, Releases DEF LoseConnection
  <2>2. budget' \in 0..MaxTroubles
    BY <1>21, LinkAssumption DEF LoseConnection, Spend, TypeOK
  <2> QED BY <1>21, <2>1, <2>2 DEF LoseConnection, TypeOK
<1>22. CASE DrainRequested
  <2>1. Tool \in Callers
    BY DEF Callers
  <2>2. /\ thread' \in [Threads -> Thread] /\ handle' \in Workers \cup {NoThread}
        /\ waking' \in [Callers -> {"no", "schedule"} \cup Workers]
        /\ missed' \in BOOLEAN
    BY <1>22, <2>1, Scheduling DEF DrainRequested
  <2> QED BY <1>22, <2>2 DEF DrainRequested, TypeOK
<1>23. CASE Age
  <2>1. aged' \subseteq 1..Len(journal)
    BY <1>23, LenProperties DEF Age, TypeOK
  <2> QED BY <1>23, <2>1 DEF Age, TypeOK
<1>24. CASE UNCHANGED vars
  BY <1>24 DEF vars, TypeOK
<1> QED
  BY <1>1, <1>2, <1>3, <1>4, <1>5, <1>6, <1>7, <1>8, <1>9, <1>10, <1>11, <1>12,
     <1>13, <1>14, <1>15, <1>16, <1>17, <1>18, <1>19, <1>20, <1>21, <1>22, <1>23,
     <1>24
  DEF Next, ToolStep, WorkerStep, CallerStep, HostStep, SessionStep

-----------------------------------------------------------------------------
(* What never changes back                                                 *)

(* Which step may change what.                                             *)
LEMMA Frame ==
  ASSUME [Next]_vars
  PROVE  /\ UNCHANGED <<spooling, keeping>>
         /\ (\E s \in Senders : Emit(s)) \/ UNCHANGED <<emitted, by>>
         /\ Restart \/ UNCHANGED last
         /\ (\E h \in Hosts : Accept(h)) \/ UNCHANGED journal
         /\ Age \/ UNCHANGED aged
         /\ \/ \E t \in Threads : Queue(t) \/ Abandon(t)
            \/ \E h \in Hosts : Answer(h)
            \/ UNCHANGED <<overwritten, refused, unkept, abandoned>>
<1> USE DEF toolKind, toolVars, hostVars, serviceVars, history
<1> DEFINE F == /\ UNCHANGED <<spooling, keeping>>
                /\ (\E s \in Senders : Emit(s)) \/ UNCHANGED <<emitted, by>>
                /\ Restart \/ UNCHANGED last
                /\ (\E h \in Hosts : Accept(h)) \/ UNCHANGED journal
                /\ Age \/ UNCHANGED aged
                /\ \/ \E t \in Threads : Queue(t) \/ Abandon(t)
                   \/ \E h \in Hosts : Answer(h)
                   \/ UNCHANGED <<overwritten, refused, unkept, abandoned>>
<1>1. ASSUME NEW s \in Senders, Emit(s) PROVE F
  BY <1>1 DEF Emit
<1>2. ASSUME NEW t \in Threads, ToolStep(t) \/ GiveUp(t) PROVE F
  <2>1. CASE Send(t)
    BY <2>1 DEF Send
  <2>2. CASE Queue(t)
    BY <2>2 DEF Queue
  <2>3. CASE Abandon(t)
    BY <2>3 DEF Abandon
  <2>4. CASE GiveUp(t)
    BY <2>4 DEF GiveUp
  <2> HIDE DEF F
  <2> QED BY <1>2, <2>1, <2>2, <2>3, <2>4 DEF ToolStep
<1>3. ASSUME NEW w \in Workers, WorkerStep(w) PROVE F
  BY <1>3 DEF WorkerStep, DrainLoop, DrainNext, Ends
<1>4. ASSUME NEW c \in Callers, CallerStep(c) PROVE F
  BY <1>4 DEF CallerStep, Schedule, StartWorker
<1>5. ASSUME NEW h \in Hosts, HostStep(h) \/ Retire(h) PROVE F
  <2>1. CASE Accept(h)
    BY <2>1 DEF Accept
  <2>2. CASE Answer(h)
    BY <2>2 DEF Answer
  <2>3. CASE Take(h) \/ Admit(h) \/ Refuse(h) \/ Confirm(h) \/ Retire(h)
    BY <2>3 DEF Take, Admit, Refuse, Confirm, Retire
  <2> HIDE DEF F
  <2> QED BY <1>5, <2>1, <2>2, <2>3 DEF HostStep
<1>6. ASSUME SessionStep PROVE F
  BY <1>6 DEF SessionStep, Restart, Close, Connect
<1>7. ASSUME LoseConnection \/ DrainRequested PROVE F
  BY <1>7 DEF LoseConnection, DrainRequested
<1>8. ASSUME Age \/ UNCHANGED vars PROVE F
  BY <1>8 DEF Age, vars
<1> HIDE DEF F
<1>9. F
  BY <1>1, <1>2, <1>3, <1>4, <1>5, <1>6, <1>7, <1>8 DEF Next
<1> QED BY <1>9 DEF F

LEMMA Frozen ==
  ASSUME [Next]_vars
  PROVE  keeping' = keeping /\ Excused \subseteq Excused'
<1> USE DEF Excused
<1>1. ASSUME NEW t \in Threads, Queue(t) PROVE Excused \subseteq Excused'
  BY <1>1 DEF Queue
<1>2. ASSUME NEW h \in Hosts, Answer(h) PROVE Excused \subseteq Excused'
  BY <1>2 DEF Answer
<1>3. ASSUME NEW t \in Threads, Abandon(t) PROVE Excused \subseteq Excused'
  BY <1>3 DEF Abandon
<1>4. ASSUME UNCHANGED <<overwritten, refused, unkept, abandoned>>
      PROVE  Excused \subseteq Excused'
  BY <1>4
<1> HIDE DEF Excused
<1> QED BY <1>1, <1>2, <1>3, <1>4, Frame

(* The journal grows by the message of a handler, or stays.                *)
LEMMA JournalSteps ==
  ASSUME TypeOK, HostsHold, [Next]_vars
  PROVE  \/ UNCHANGED journal
         \/ \E h \in Hosts :
              /\ Accept(h) /\ ~Repeats(host[h].msg, host[h].gen)
              /\ host[h].pc = "storing" /\ host[h].msg \in Emitted
              /\ Len(journal) \in Nat /\ DOMAIN journal = 1..Len(journal)
              /\ DOMAIN journal' = 1..(Len(journal) + 1)
              /\ \A i \in 1..Len(journal) : journal'[i] = journal[i]
              /\ journal'[Len(journal) + 1] = [msg |-> host[h].msg, gen |-> host[h].gen]
<1>1. UNCHANGED journal \/ \E h \in Hosts : Accept(h)
  BY Frame
<1>2. ASSUME NEW h \in Hosts, Accept(h), ~UNCHANGED journal
      PROVE  /\ ~Repeats(host[h].msg, host[h].gen)
             /\ host[h].pc = "storing" /\ host[h].msg \in Emitted
             /\ Len(journal) \in Nat /\ DOMAIN journal = 1..Len(journal)
             /\ DOMAIN journal' = 1..(Len(journal) + 1)
             /\ \A i \in 1..Len(journal) : journal'[i] = journal[i]
             /\ journal'[Len(journal) + 1] = [msg |-> host[h].msg, gen |-> host[h].gen]
  <2> DEFINE e == [msg |-> host[h].msg, gen |-> host[h].gen]
  <2>1. /\ ~Repeats(host[h].msg, host[h].gen) /\ journal' = Append(journal, e)
        /\ host[h].pc = "storing"
    BY <1>2 DEF Accept
  <2>2. host[h].msg \in Emitted /\ host[h].gen \in Hosts
    BY <2>1 DEF HostsHold
  <2>3. e \in [msg : Msgs, gen : Hosts] /\ journal \in Seq([msg : Msgs, gen : Hosts])
    BY <2>2, LinkAssumption DEF TypeOK, Emitted, Msgs
  <2> HIDE DEF e
  <2>4. /\ Len(journal) \in Nat /\ DOMAIN journal = 1..Len(journal)
        /\ DOMAIN Append(journal, e) = 1..(Len(journal) + 1)
        /\ \A i \in 1..Len(journal) : Append(journal, e)[i] = journal[i]
        /\ Append(journal, e)[Len(journal) + 1] = e
    BY <2>3, Appended
  <2> QED BY <2>1, <2>2, <2>4 DEF e
<1> QED BY <1>1, <1>2

LEMMA SettledStays ==
  ASSUME TypeOK, HostsHold, [Next]_vars, NEW m
  PROVE  (Stored(m) => Stored(m)') /\ (Settled(m) => Settled(m)')
<1>1. ASSUME Stored(m) PROVE Stored(m)'
  <2>1. PICK i \in DOMAIN journal : journal[i].msg = m
    BY <1>1 DEF Stored
  <2>2. CASE UNCHANGED journal
    BY <2>1, <2>2 DEF Stored
  <2>3. CASE ~UNCHANGED journal
    <3>1. /\ Len(journal) \in Nat /\ DOMAIN journal = 1..Len(journal)
          /\ DOMAIN journal' = 1..(Len(journal) + 1)
          /\ \A k \in 1..Len(journal) : journal'[k] = journal[k]
      BY <2>3, JournalSteps
    <3>2. i \in DOMAIN journal' /\ journal'[i] = journal[i]
      BY <2>1, <3>1
    <3> QED BY <2>1, <3>2 DEF Stored
  <2> QED BY <2>2, <2>3
<1> QED BY <1>1, Frozen DEF Settled

(* Steps that take no message up and none out of a hand.                   *)
Calm ==
  /\ UNCHANGED <<emitted, by, spool>>
  /\ \A s \in Senders :
       /\ thread'[s].msg = thread[s].msg /\ thread'[s].pc \in SenderPcs
       /\ thread'[s].pc = "idle" <=> thread[s].pc = "idle"
       /\ thread'[s].pc \in Sent => thread[s].pc \in Sent
  /\ \A w \in Workers :
       /\ thread'[w].pc \in WorkerPcs
       /\ thread'[w].pc = "answered" => thread[w].pc = "answered"
       /\ IF thread'[w].pc \in Sent
          THEN thread[w].pc \in Sent /\ thread'[w].msg = thread[w].msg
          ELSE thread'[w].msg = NoMsg

Takes ==
  \/ \E s \in Senders : Emit(s) \/ Queue(s) \/ Abandon(s)
  \/ \E w \in Workers : DrainLoop(w) \/ DrainNext(w)
  \/ \E h \in Hosts : Answer(h)

LEMMA CalmWhenNobodyMoves ==
  ASSUME SendersInOrder, WorkersHold, UNCHANGED <<emitted, by, spool, thread>>
  PROVE  Calm
BY DEF SendersInOrder, WorkersHold, Calm, SenderPcs, WorkerPcs

(* One thread moves on.                                                    *)
LEMMA CalmWhenOneMoves ==
  ASSUME SendersInOrder, WorkersHold, UNCHANGED <<emitted, by, spool>>,
         NEW t \in Threads,
         \A u \in Threads \ {t} : thread'[u] = thread[u],
         t \in Senders =>
           /\ thread'[t].msg = thread[t].msg /\ thread'[t].pc \in SenderPcs \ {"idle"}
           /\ thread[t].pc # "idle"
           /\ thread'[t].pc \in Sent => thread[t].pc \in Sent,
         t \in Workers =>
           /\ thread'[t].pc \in WorkerPcs \ {"answered"}
           /\ IF thread'[t].pc \in Sent
              THEN thread[t].pc \in Sent /\ thread'[t].msg = thread[t].msg
              ELSE thread'[t].msg = NoMsg
  PROVE  Calm
<1>1. ASSUME NEW s \in Senders
      PROVE  /\ thread'[s].msg = thread[s].msg /\ thread'[s].pc \in SenderPcs
             /\ thread'[s].pc = "idle" <=> thread[s].pc = "idle"
             /\ thread'[s].pc \in Sent => thread[s].pc \in Sent
  <2>1. CASE s = t
    BY <2>1
  <2>2. CASE s # t
    BY <2>2 DEF Threads, SendersInOrder, SenderPcs
  <2> QED BY <2>1, <2>2
<1>2. ASSUME NEW w \in Workers
      PROVE  /\ thread'[w].pc \in WorkerPcs
             /\ thread'[w].pc = "answered" => thread[w].pc = "answered"
             /\ IF thread'[w].pc \in Sent
                THEN thread[w].pc \in Sent /\ thread'[w].msg = thread[w].msg
                ELSE thread'[w].msg = NoMsg
  <2>1. CASE w = t
    BY <2>1
  <2>2. CASE w # t
    BY <2>2 DEF Threads, WorkersHold, WorkerPcs
  <2> QED BY <2>1, <2>2
<1> QED BY <1>1, <1>2 DEF Calm

LEMMA CalmSteps ==
  ASSUME TypeOK, SendersInOrder, WorkersHold, Waking, [Next]_vars, ~Takes
  PROVE  Calm
<1> USE DEF toolKind, toolVars, hostVars, serviceVars, history
<1>a. \A t \in Senders : t \in Threads /\ t \notin Workers
  BY LinkAssumption DEF Threads
<1>b. \A w \in Workers : w \in Threads /\ w \notin Senders
  BY LinkAssumption DEF Threads
<1>c. ASSUME NEW c \in Callers, Schedules(c), UNCHANGED <<emitted, by, spool>>
      PROVE  Calm
  <2>1. CASE UNCHANGED thread
    BY <1>c, <2>1, CalmWhenNobodyMoves
  <2>2. CASE ~UNCHANGED thread
    <3>1. PICK w \in Workers :
             /\ thread[w].pc = "off" /\ thread'[w].pc = "made"
             /\ thread'[w].msg = thread[w].msg
             /\ \A u \in Threads \ {w} : thread'[u] = thread[u]
      BY <1>c, <2>2, Scheduling
    <3>2. thread'[w].msg = NoMsg
      BY <3>1 DEF WorkersHold, Sent
    <3> QED BY <1>b, <1>c, <3>1, <3>2, CalmWhenOneMoves DEF WorkerPcs, Sent
  <2> QED BY <2>1, <2>2
<1>d. ASSUME Disconnected, UNCHANGED <<emitted, by, spool>>
      PROVE  Calm
  <2>1. \A t \in Threads : \/ thread'[t] = thread[t]
                           \/ /\ thread[t].pc = "wait" /\ thread'[t].pc = "released"
                              /\ thread'[t].msg = thread[t].msg
    BY <1>d, Releases
  <2>2. ASSUME NEW s \in Senders
        PROVE  /\ thread'[s].msg = thread[s].msg /\ thread'[s].pc \in SenderPcs
               /\ thread'[s].pc = "idle" <=> thread[s].pc = "idle"
               /\ thread'[s].pc \in Sent => thread[s].pc \in Sent
    BY <1>a, <2>1 DEF SendersInOrder, SenderPcs, Sent
  <2>3. ASSUME NEW w \in Workers
        PROVE  /\ thread'[w].pc \in WorkerPcs
               /\ thread'[w].pc = "answered" => thread[w].pc = "answered"
               /\ IF thread'[w].pc \in Sent
                  THEN thread[w].pc \in Sent /\ thread'[w].msg = thread[w].msg
                  ELSE thread'[w].msg = NoMsg
    BY <1>b, <2>1 DEF WorkersHold, WorkerPcs, Sent
  <2> QED BY <1>d, <2>2, <2>3 DEF Calm
<1>1. ASSUME NEW t \in Threads, Send(t) PROVE Calm
  <2>1. UNCHANGED <<emitted, by, spool>> /\ thread[t].pc = "send"
    BY <1>1 DEF Send
  <2>2. thread' = Fails(t) \/ thread' = Goes(t, "wait")
    BY <1>1 DEF Send
  <2>3. Goes(t, "wait")[t].pc = "wait" /\ Goes(t, "wait")[t].msg = thread[t].msg
        /\ \A u \in Threads \ {t} : Goes(t, "wait")[u] = thread[u]
    BY ThreadMoves DEF Pcs
  <2> QED BY <1>a, <1>b, <2>1, <2>2, <2>3, Failing, CalmWhenOneMoves
          DEF SenderPcs, WorkerPcs, Sent
<1>2. ASSUME NEW t \in Threads, GiveUp(t) PROVE Calm
  <2>1. /\ UNCHANGED <<emitted, by, spool>> /\ thread[t].pc \in {"released", "wait"}
        /\ thread' = Fails(t)
    BY <1>2 DEF GiveUp
  <2> QED BY <1>a, <1>b, <2>1, Failing, CalmWhenOneMoves DEF SenderPcs, WorkerPcs, Sent
<1>3. ASSUME NEW w \in Workers, Ends(w) PROVE Calm
  <2>1. /\ UNCHANGED <<emitted, by, spool>> /\ thread[w].pc = "leaving"
        /\ thread' = Goes(w, "off")
    BY <1>3 DEF Ends
  <2>2. thread[w].msg = NoMsg
    BY <2>1 DEF WorkersHold, Sent
  <2>3. Goes(w, "off")[w].pc = "off" /\ Goes(w, "off")[w].msg = thread[w].msg
        /\ \A u \in Threads \ {w} : Goes(w, "off")[u] = thread[u]
    BY <1>b, ThreadMoves DEF Pcs
  <2> QED BY <1>b, <2>1, <2>2, <2>3, CalmWhenOneMoves DEF WorkerPcs, Sent
<1>4. ASSUME NEW t \in Senders, Schedule(t) PROVE Calm
  BY <1>4, <1>c DEF Schedule, Callers
<1>5. ASSUME NEW c \in Callers, StartWorker(c) PROVE Calm
  <2> DEFINE w == waking[c]
  <2>1. /\ UNCHANGED <<emitted, by, spool>> /\ w \in Workers
        /\ thread' = Goes(w, "loop")
    BY <1>5 DEF StartWorker
  <2>2. thread[w].pc = "made"
    BY <2>1 DEF Waking
  <2>3. thread[w].msg = NoMsg
    BY <2>1, <2>2 DEF WorkersHold, Sent
  <2> HIDE DEF w
  <2>4. Goes(w, "loop")[w].pc = "loop" /\ Goes(w, "loop")[w].msg = thread[w].msg
        /\ \A u \in Threads \ {w} : Goes(w, "loop")[u] = thread[u]
    BY <1>b, <2>1, ThreadMoves DEF Pcs
  <2> QED BY <1>b, <2>1, <2>3, <2>4, CalmWhenOneMoves DEF WorkerPcs, Sent
<1>6. ASSUME NEW h \in Hosts, Connect(h) PROVE Calm
  <2>1. UNCHANGED <<emitted, by, spool>> /\ (Schedules(Tool) \/ UNCHANGED thread)
    BY <1>6 DEF Connect
  <2> QED BY <2>1, <1>c, CalmWhenNobodyMoves DEF Callers
<1>7. ASSUME NEW h \in Hosts, Close(h) PROVE Calm
  <2>1. UNCHANGED <<emitted, by, spool>> /\ (Disconnected \/ UNCHANGED thread)
    BY <1>7 DEF Close
  <2> QED BY <2>1, <1>d, CalmWhenNobodyMoves
<1>8. CASE LoseConnection
  BY <1>8, <1>d DEF LoseConnection
<1>9. CASE DrainRequested
  BY <1>9, <1>c DEF DrainRequested, Callers
<1>10. CASE UNCHANGED <<emitted, by, spool, thread>>
  BY <1>10, CalmWhenNobodyMoves
<1>11. \A t \in Threads : Queue(t) \/ Abandon(t) => t \in Senders
  BY InHandEmitted DEF Queue, Abandon
<1> QED
  BY <1>1, <1>2, <1>3, <1>4, <1>5, <1>6, <1>7, <1>8, <1>9, <1>10, <1>11
  DEF Next, ToolStep, WorkerStep, CallerStep, HostStep, SessionStep, vars, Takes,
      Take, Admit, Accept, Refuse, Confirm, Retire, Restart, Age

-----------------------------------------------------------------------------
(* What the tool's threads and its spool account for                       *)

ToolSide == SendersInOrder /\ WorkersHold /\ SpoolInOrder /\ Accounted

LEMMA CalmKeeps ==
  ASSUME TypeOK, ToolSide, HostsHold, [Next]_vars, Calm
  PROVE  ToolSide'
<1> USE DEF ToolSide
<1>0. /\ emitted' = emitted /\ by' = by /\ spool' = spool /\ Emitted' = Emitted
      /\ \A m : InSpool(m)' <=> InSpool(m)
      /\ \A m : Settled(m) => Settled(m)'
  BY SettledStays DEF Calm, Emitted, InSpool
<1>1. SendersInOrder'
  <2>1. ASSUME NEW s \in Senders
        PROVE  /\ thread'[s].pc \in {"idle", "send", "wait", "released", "queue"}
               /\ thread'[s].pc = "idle" <=> thread'[s].msg = NoMsg
               /\ thread'[s].msg = thread[s].msg
    BY DEF Calm, SendersInOrder, SenderPcs
  <2> QED BY <1>0, <2>1 DEF SendersInOrder
<1>2. WorkersHold'
  <2>1. ASSUME NEW w \in Workers
        PROVE  /\ thread'[w].pc \in WorkerPcs
               /\ thread'[w].pc \in Sent =>
                    /\ thread'[w].msg \in Emitted
                    /\ InSpool(thread'[w].msg) \/ Settled(thread'[w].msg)
               /\ thread'[w].pc = "answered" => Settled(thread'[w].msg)
               /\ thread'[w].pc \notin Sent => thread'[w].msg = NoMsg
    <3>1. /\ thread'[w].pc \in WorkerPcs
          /\ thread'[w].pc = "answered" => thread[w].pc = "answered"
          /\ thread'[w].pc \in Sent =>
               thread[w].pc \in Sent /\ thread'[w].msg = thread[w].msg
          /\ thread'[w].pc \notin Sent => thread'[w].msg = NoMsg
      BY DEF Calm
    <3>2. "answered" \in Sent
      BY DEF Sent
    <3> QED BY <3>1, <3>2 DEF WorkersHold
  <2> QED BY <1>0, <2>1 DEF WorkersHold, WorkerPcs
<1>3. SpoolInOrder'
  BY <1>0 DEF SpoolInOrder
<1>4. Accounted'
  <2>1. \A m : Held(m) => Held(m)'
    BY DEF Held, Calm
  <2> QED BY <1>0, <2>1 DEF Accounted
<1> QED BY <1>1, <1>2, <1>3, <1>4

LEMMA EmitDoes ==
  ASSUME TypeOK, NEW s \in Senders, Emit(s)
  PROVE  /\ thread[s].pc = "idle" /\ UNCHANGED spool
         /\ emitted + 1 \in Msgs /\ emitted + 1 \notin Emitted
         /\ Emitted' = Emitted \cup {emitted + 1}
         /\ thread'[s].msg = emitted + 1
         /\ thread'[s].pc = IF MustSpool THEN "queue" ELSE "send"
         /\ \A t \in Threads \ {s} : thread'[t] = thread[t]
         /\ by'[emitted + 1] = s
         /\ \A m \in Emitted : by'[m] = by[m]
<1>1. emitted + 1 \in Msgs /\ emitted \in Nat
  BY LinkAssumption DEF Emit, TypeOK, Msgs
<1>2. emitted + 1 \notin Emitted /\ Emitted' = Emitted \cup {emitted + 1}
  BY <1>1 DEF Emit, Emitted
<1>3. /\ by' = [by EXCEPT ![emitted + 1] = s] /\ UNCHANGED spool
      /\ thread[s].pc = "idle"
  BY DEF Emit
<1>4. by'[emitted + 1] = s /\ \A m \in Emitted : by'[m] = by[m]
  <2>1. Emitted \subseteq Msgs
    BY LinkAssumption DEF TypeOK, Emitted, Msgs
  <2>2. by \in [Msgs -> Senders \cup {NoThread}]
    BY DEF TypeOK
  <2> QED BY <1>1, <1>2, <1>3, <2>1, <2>2
<1> DEFINE p == IF MustSpool THEN "queue" ELSE "send"
<1>5. p \in Pcs /\ s \in Threads
  BY DEF Pcs, Threads
<1>6. thread' = Holds(s, p, emitted + 1)
  BY DEF Emit, Holds
<1> HIDE DEF p
<1>7. /\ thread'[s].pc = p /\ thread'[s].msg = emitted + 1
      /\ \A t \in Threads \ {s} : thread'[t] = thread[t]
  BY <1>1, <1>5, <1>6, ThreadTakes
<1> QED BY <1>1, <1>2, <1>3, <1>4, <1>7 DEF p

LEMMA EmitKeeps ==
  ASSUME TypeOK, ToolSide, HostsHold, [Next]_vars, NEW s \in Senders, Emit(s)
  PROVE  ToolSide'
<1> USE DEF ToolSide
<1>0. PICK e : e = emitted + 1
  OBVIOUS
<1>1. /\ thread[s].pc = "idle" /\ UNCHANGED spool
      /\ e \in Msgs /\ e \notin Emitted /\ Emitted' = Emitted \cup {e}
      /\ thread'[s].msg = e /\ thread'[s].pc \in {"queue", "send"}
      /\ \A t \in Threads \ {s} : thread'[t] = thread[t]
      /\ by'[e] = s /\ \A m \in Emitted : by'[m] = by[m]
  BY <1>0, EmitDoes
<1>2. /\ \A m \in Emitted : m <= e
      /\ e \in Nat /\ e # NoMsg
  BY <1>0 DEF Emitted, TypeOK, NoMsg
<1>3. \A m : InSpool(m)' <=> InSpool(m)
  BY <1>1 DEF InSpool
<1>4. \A m : InSpool(m) => m \in Emitted
  BY DEF InSpool, SpoolInOrder
<1>5. /\ \A t \in Senders : t # s => t \in Threads \ {s}
      /\ \A w \in Workers : w \in Threads \ {s}
  BY LinkAssumption DEF Threads
<1>s. \A m : Settled(m) => Settled(m)'
  BY SettledStays
<1>6. SendersInOrder'
  <2>1. \A m \in Emitted' : by'[m] \in Senders
    BY <1>1 DEF SendersInOrder
  <2>2. ASSUME NEW t \in Senders
        PROVE  /\ thread'[t].pc \in {"idle", "send", "wait", "released", "queue"}
               /\ thread'[t].pc = "idle" <=> thread'[t].msg = NoMsg
               /\ thread'[t].msg # NoMsg =>
                    /\ thread'[t].msg \in Emitted' /\ by'[thread'[t].msg] = t
                    /\ ~InSpool(thread'[t].msg)
                    /\ \A m \in Emitted' : by'[m] = t => m <= thread'[t].msg
    <3>1. CASE t = s
      BY <3>1, <1>1, <1>2, <1>4
    <3>2. CASE t # s
      <4>1. thread'[t] = thread[t]
        BY <3>2, <1>1, <1>5
      <4>2. \A m \in Emitted' : by'[m] = t => m \in Emitted /\ by[m] = t
        BY <3>2, <1>1
      <4> QED BY <4>1, <4>2, <1>1 DEF SendersInOrder
    <3> QED BY <3>1, <3>2
  <2> QED BY <1>3, <2>1, <2>2 DEF SendersInOrder
<1>7. WorkersHold'
  <2>1. \A w \in Workers : thread'[w] = thread[w]
    BY <1>1, <1>5
  <2> QED BY <1>1, <1>3, <1>s, <2>1 DEF WorkersHold
<1>8. SpoolInOrder'
  BY <1>1 DEF SpoolInOrder
<1>9. Accounted'
  <2>1. ASSUME NEW m \in Emitted PROVE (Held(m) \/ InSpool(m) \/ Settled(m))'
    <3>1. CASE Held(m)
      <4>1. PICK t \in Senders : thread[t].msg = m
        BY <3>1 DEF Held
      <4>2. m # NoMsg
        BY DEF Emitted, NoMsg
      <4>3. t # s
        BY <1>1, <4>1, <4>2 DEF SendersInOrder
      <4> QED BY <1>1, <1>5, <4>1, <4>3 DEF Held
    <3> QED BY <3>1, <1>3, <1>s DEF Accounted
  <2>2. Held(e)'
    BY <1>1 DEF Held
  <2> QED BY <1>1, <2>1, <2>2 DEF Accounted
<1> QED BY <1>6, <1>7, <1>8, <1>9

LEMMA QueueKeeps ==
  ASSUME TypeOK, ToolSide, HostsHold, [Next]_vars, NEW s \in Senders, Queue(s)
  PROVE  ToolSide'
<1> USE DEF ToolSide
<1>0. PICK q : q = thread[s].msg
  OBVIOUS
<1>1. /\ thread[s].pc = "queue" /\ spool' = Spooled(q) /\ thread' = Rests(s, "idle")
      /\ emitted' = emitted /\ by' = by /\ Emitted' = Emitted
  BY <1>0 DEF Queue, Emitted
<1>2. /\ q \in Emitted /\ by[q] = s /\ ~InSpool(q)
      /\ \A m \in Emitted : by[m] = s => m <= q
  BY <1>0, <1>1 DEF SendersInOrder
<1>3. Emitted \subseteq Nat \ {NoMsg} /\ Emitted \subseteq Msgs
  BY LinkAssumption DEF Emitted, TypeOK, NoMsg, Msgs
<1>4. /\ s \in Threads /\ \A t \in Senders : t # s => t \in Threads \ {s}
      /\ \A w \in Workers : w \in Threads \ {s}
  BY LinkAssumption DEF Threads
<1>5. /\ thread'[s].pc = "idle" /\ thread'[s].msg = NoMsg
      /\ \A t \in Threads \ {s} : thread'[t] = thread[t]
  BY <1>1, <1>4, ThreadMoves DEF Pcs
<1>s. \A m : Settled(m) => Settled(m)'
  BY SettledStays
<1>6. PICK d \in {0, 1} :
         /\ d = (IF Len(spool) < SpoolLimit THEN 0 ELSE 1)
         /\ d = 1 => Len(spool) >= 1 /\ Head(spool) = spool[1]
         /\ Len(spool) \in Nat /\ DOMAIN spool = 1..Len(spool)
         /\ DOMAIN spool' = 1..(Len(spool) + 1 - d)
         /\ \A i \in 1..(Len(spool) - d) : spool'[i] = spool[i + d]
         /\ spool'[Len(spool) + 1 - d] = q
  BY <1>1, <1>2, <1>3, SpooledIs
<1>7. \A m : InSpool(m)' => InSpool(m) \/ m = q
  <2>1. ASSUME NEW i \in DOMAIN spool', i # Len(spool) + 1 - d
        PROVE  i + d \in DOMAIN spool /\ spool'[i] = spool[i + d]
    BY <1>6, <2>1
  <2> QED BY <1>6, <2>1 DEF InSpool
<1>8. InSpool(q)'
  <2>1. Len(spool) + 1 - d \in DOMAIN spool'
    BY <1>6
  <2> QED BY <1>6, <2>1 DEF InSpool
<1>9. \A m : InSpool(m) => InSpool(m)' \/ Settled(m)'
  <2>1. ASSUME NEW m, NEW i \in DOMAIN spool, spool[i] = m
        PROVE  InSpool(m)' \/ Settled(m)'
    <3>1. CASE i > d
      <4>1. i - d \in DOMAIN spool' /\ spool'[i - d] = spool[i]
        BY <1>6, <3>1
      <4> QED BY <2>1, <4>1 DEF InSpool
    <3>2. CASE ~(i > d)
      <4>1. d = 1 /\ i = 1
        BY <1>6, <3>2
      <4>2. m \in overwritten'
        BY <1>6, <2>1, <4>1 DEF Queue
      <4> QED BY <4>2 DEF Settled, Excused
    <3> QED BY <3>1, <3>2
  <2> QED BY <2>1 DEF InSpool
<1>10. SendersInOrder'
  <2>1. ASSUME NEW t \in Senders
        PROVE  /\ thread'[t].pc \in {"idle", "send", "wait", "released", "queue"}
               /\ thread'[t].pc = "idle" <=> thread'[t].msg = NoMsg
               /\ thread'[t].msg # NoMsg =>
                    /\ thread'[t].msg \in Emitted /\ by[thread'[t].msg] = t
                    /\ \A m : InSpool(m)' => m # thread'[t].msg
                    /\ \A m \in Emitted : by[m] = t => m <= thread'[t].msg
    <3>1. CASE t = s
      BY <3>1, <1>5
    <3>2. CASE t # s
      <4>1. thread'[t] = thread[t]
        BY <3>2, <1>4, <1>5
      <4>2. /\ thread[t].pc \in {"idle", "send", "wait", "released", "queue"}
            /\ thread[t].pc = "idle" <=> thread[t].msg = NoMsg
            /\ thread[t].msg # NoMsg =>
                 /\ thread[t].msg \in Emitted /\ by[thread[t].msg] = t
                 /\ ~InSpool(thread[t].msg)
                 /\ \A m \in Emitted : by[m] = t => m <= thread[t].msg
        BY DEF SendersInOrder
      <4>3. ASSUME thread[t].msg # NoMsg, NEW m, InSpool(m)'
            PROVE  m # thread[t].msg
        BY <4>2, <4>3, <1>2, <1>7, <3>2
      <4> QED BY <4>1, <4>2, <4>3
    <3> QED BY <3>1, <3>2
  <2>2. \A m \in Emitted : by[m] \in Senders
    BY DEF SendersInOrder
  <2>3. \A i \in DOMAIN spool' : \A m : spool'[i] = m => InSpool(m)'
    BY DEF InSpool
  <2>4. ASSUME NEW t \in Senders, thread'[t].msg # NoMsg,
               NEW i \in DOMAIN spool', spool'[i] = thread'[t].msg
        PROVE  FALSE
    BY <2>1, <2>3, <2>4
  <2> QED BY <1>1, <2>1, <2>2, <2>4 DEF SendersInOrder, InSpool
<1>11. WorkersHold'
  <2>1. \A w \in Workers : thread'[w] = thread[w]
    BY <1>4, <1>5
  <2> QED BY <1>1, <1>9, <1>s, <2>1 DEF WorkersHold
<1>12. SpoolInOrder'
  <2>1. \A i \in DOMAIN spool' : spool'[i] \in Emitted
    <3>1. \A m : InSpool(m) => m \in Emitted
      BY DEF InSpool, SpoolInOrder
    <3>2. \A i \in DOMAIN spool' : \A m : spool'[i] = m => InSpool(m)'
      BY DEF InSpool
    <3> QED BY <1>2, <1>7, <3>1, <3>2
  <2>2. ASSUME NEW i \in DOMAIN spool', NEW j \in DOMAIN spool', i < j,
               by[spool'[i]] = by[spool'[j]]
        PROVE  spool'[i] < spool'[j]
    <3>1. i + d \in DOMAIN spool /\ spool'[i] = spool[i + d]
      BY <1>6, <2>2
    <3>2. CASE j = Len(spool) + 1 - d
      <4>1. spool'[j] = q /\ by[spool'[i]] = s /\ InSpool(spool'[i])
        BY <1>2, <1>6, <2>2, <3>1, <3>2 DEF InSpool
      <4>2. spool'[i] \in Emitted
        BY <2>1
      <4>3. spool'[i] <= q /\ spool'[i] # q
        BY <1>2, <4>1, <4>2
      <4>4. spool'[i] \in Nat /\ q \in Nat /\ spool'[j] = q
        BY <1>2, <1>3, <4>1, <4>2
      <4> QED BY <4>3, <4>4
    <3>3. CASE j # Len(spool) + 1 - d
      <4>1. j + d \in DOMAIN spool /\ spool'[j] = spool[j + d] /\ i + d < j + d
        BY <1>6, <2>2, <3>3
      <4> QED BY <2>2, <3>1, <4>1 DEF SpoolInOrder
    <3> QED BY <3>2, <3>3
  <2> QED BY <1>1, <2>1, <2>2 DEF SpoolInOrder
<1>13. Accounted'
  <2>1. ASSUME NEW m \in Emitted PROVE (Held(m) \/ InSpool(m) \/ Settled(m))'
    <3>1. CASE Held(m)
      <4>1. PICK t \in Senders : thread[t].msg = m
        BY <3>1 DEF Held
      <4>2. CASE t = s
        BY <1>0, <1>8, <4>1, <4>2
      <4>3. CASE t # s
        BY <1>4, <1>5, <4>1, <4>3 DEF Held
      <4> QED BY <4>2, <4>3
    <3> QED BY <3>1, <1>9, <1>s DEF Accounted
  <2> QED BY <1>1, <2>1 DEF Accounted
<1> QED BY <1>10, <1>11, <1>12, <1>13

LEMMA AbandonKeeps ==
  ASSUME TypeOK, ToolSide, HostsHold, [Next]_vars, NEW s \in Senders, Abandon(s)
  PROVE  ToolSide'
<1> USE DEF ToolSide
<1>0. PICK q : q = thread[s].msg
  OBVIOUS
<1>1. /\ thread' = Rests(s, "idle") /\ q \in abandoned'
      /\ emitted' = emitted /\ by' = by /\ spool' = spool /\ Emitted' = Emitted
      /\ \A m : InSpool(m)' <=> InSpool(m)
  BY <1>0 DEF Abandon, Emitted, InSpool
<1>2. /\ s \in Threads /\ \A t \in Senders : t # s => t \in Threads \ {s}
      /\ \A w \in Workers : w \in Threads \ {s}
  BY LinkAssumption DEF Threads
<1>3. /\ thread'[s].pc = "idle" /\ thread'[s].msg = NoMsg
      /\ \A t \in Threads \ {s} : thread'[t] = thread[t]
  BY <1>1, <1>2, ThreadMoves DEF Pcs
<1>s. (\A m : Settled(m) => Settled(m)') /\ Settled(q)'
  BY <1>1, SettledStays DEF Settled, Excused
<1>4. SendersInOrder'
  <2>1. ASSUME NEW t \in Senders
        PROVE  \/ thread'[t] = thread[t]
               \/ thread'[t].pc = "idle" /\ thread'[t].msg = NoMsg
    BY <1>2, <1>3
  <2> QED BY <1>1, <2>1 DEF SendersInOrder
<1>5. WorkersHold'
  <2>1. \A w \in Workers : thread'[w] = thread[w]
    BY <1>2, <1>3
  <2> QED BY <1>1, <1>s, <2>1 DEF WorkersHold
<1>6. SpoolInOrder'
  BY <1>1 DEF SpoolInOrder
<1>7. Accounted'
  <2>1. ASSUME NEW m \in Emitted PROVE (Held(m) \/ InSpool(m) \/ Settled(m))'
    <3>1. CASE Held(m)
      <4>1. PICK t \in Senders : thread[t].msg = m
        BY <3>1 DEF Held
      <4>2. CASE t = s
        BY <1>0, <1>s, <4>1, <4>2
      <4>3. CASE t # s
        BY <1>2, <1>3, <4>1, <4>3 DEF Held
      <4> QED BY <4>2, <4>3
    <3> QED BY <3>1, <1>1, <1>s DEF Accounted
  <2> QED BY <1>1, <2>1 DEF Accounted
<1> QED BY <1>4, <1>5, <1>6, <1>7

LEMMA DrainLoopDoes ==
  ASSUME TypeOK, NEW w \in Workers, DrainLoop(w)
  PROVE  /\ thread[w].pc = "loop"
         /\ \A t \in Threads \ {w} : thread'[t] = thread[t]
         /\ \/ /\ peer # NoHost /\ spool # <<>> /\ thread'[w].pc = "send"
               /\ thread'[w].msg = spool[1] /\ 1 \in DOMAIN spool
            \/ thread'[w].pc = "leaving" /\ thread'[w].msg = thread[w].msg
<1>1. w \in Threads
  BY DEF Threads
<1>2. CASE peer # NoHost /\ spool # <<>>
  <2>1. Head(spool) \in Msgs /\ Head(spool) = spool[1] /\ 1 \in DOMAIN spool
    BY <1>2, Shortened DEF TypeOK
  <2>2. PICK m \in Msgs : m = Head(spool)
    BY <2>1
  <2>3. /\ thread' = Holds(w, "send", m)
        /\ thread[w].pc = "loop" /\ "send" \in Pcs
    BY <1>2, <2>2 DEF DrainLoop, Pcs, Holds
  <2>4. /\ thread'[w].pc = "send" /\ thread'[w].msg = m
        /\ \A t \in Threads \ {w} : thread'[t] = thread[t]
    BY <1>1, <2>3, ThreadTakes
  <2> QED BY <1>2, <2>1, <2>2, <2>3, <2>4
<1>3. CASE ~(peer # NoHost /\ spool # <<>>)
  BY <1>1, <1>3, ThreadMoves DEF DrainLoop, Pcs
<1> QED BY <1>2, <1>3

LEMMA DrainLoopKeeps ==
  ASSUME TypeOK, ToolSide, HostsHold, [Next]_vars, NEW w \in Workers, DrainLoop(w)
  PROVE  ToolSide'
<1> USE DEF ToolSide
<1>1. /\ emitted' = emitted /\ by' = by /\ spool' = spool /\ Emitted' = Emitted
      /\ \A m : InSpool(m)' <=> InSpool(m)
  BY DEF DrainLoop, Emitted, InSpool
<1>2. /\ \A t \in Senders : t \in Threads \ {w}
      /\ \A v \in Workers : v # w => v \in Threads \ {w}
  BY LinkAssumption DEF Threads
<1>3. /\ thread[w].pc = "loop"
      /\ \A t \in Threads \ {w} : thread'[t] = thread[t]
      /\ \/ /\ thread'[w].pc = "send"
            /\ thread'[w].msg = spool[1] /\ 1 \in DOMAIN spool
         \/ thread'[w].pc = "leaving" /\ thread'[w].msg = thread[w].msg
  BY DrainLoopDoes
<1>4. \A t \in Senders : thread'[t] = thread[t]
  BY <1>2, <1>3
<1>s. \A m : Settled(m) => Settled(m)'
  BY SettledStays
<1>5. SendersInOrder'
  BY <1>1, <1>4 DEF SendersInOrder
<1>6. WorkersHold'
  <2>1. ASSUME NEW v \in Workers
        PROVE  /\ thread'[v].pc \in WorkerPcs
               /\ thread'[v].pc \in Sent =>
                    /\ thread'[v].msg \in Emitted
                    /\ \E m : m = thread'[v].msg /\ (InSpool(m) \/ Settled(m))
               /\ thread'[v].pc = "answered" => \E m : m = thread'[v].msg /\ Settled(m)
               /\ thread'[v].pc \notin Sent => thread'[v].msg = NoMsg
    <3>1. CASE v = w
      <4>1. CASE thread'[w].pc = "send" /\ thread'[w].msg = spool[1] /\ 1 \in DOMAIN spool
        <5>1. InSpool(spool[1]) /\ spool[1] \in Emitted
          BY <4>1 DEF InSpool, SpoolInOrder
        <5> QED BY <3>1, <4>1, <5>1 DEF WorkerPcs, Sent
      <4>2. CASE thread'[w].pc = "leaving" /\ thread'[w].msg = thread[w].msg
        <5>1. thread[w].msg = NoMsg
          BY <1>3 DEF WorkersHold, Sent
        <5> QED BY <3>1, <4>2, <5>1 DEF WorkerPcs, Sent
      <4> QED BY <1>3, <4>1, <4>2
    <3>2. CASE v # w
      <4>1. thread'[v] = thread[v]
        BY <1>2, <1>3, <3>2
      <4> QED BY <4>1 DEF WorkersHold, WorkerPcs
    <3> QED BY <3>1, <3>2
  <2> QED BY <1>1, <1>s, <2>1 DEF WorkersHold, WorkerPcs
<1>7. SpoolInOrder'
  BY <1>1 DEF SpoolInOrder
<1>8. Accounted'
  <2>1. \A m : Held(m) => Held(m)'
    BY <1>4 DEF Held
  <2> QED BY <1>1, <1>s, <2>1 DEF Accounted
<1> QED BY <1>5, <1>6, <1>7, <1>8

LEMMA DrainNextKeeps ==
  ASSUME TypeOK, ToolSide, HostsHold, [Next]_vars, NEW w \in Workers, DrainNext(w)
  PROVE  ToolSide'
<1> USE DEF ToolSide
<1>0. PICK q : q = thread[w].msg
  OBVIOUS
<1>1. /\ emitted' = emitted /\ by' = by /\ Emitted' = Emitted
      /\ spool' = Drained(q) /\ thread' = Rests(w, "loop") /\ thread[w].pc = "answered"
  BY <1>0 DEF DrainNext, Emitted
<1>2. /\ w \in Threads /\ \A t \in Senders : t \in Threads \ {w}
      /\ \A v \in Workers : v # w => v \in Threads \ {w}
  BY LinkAssumption DEF Threads
<1>3. /\ thread'[w].pc = "loop" /\ thread'[w].msg = NoMsg
      /\ \A t \in Threads \ {w} : thread'[t] = thread[t]
  BY <1>1, <1>2, ThreadMoves DEF Pcs
<1>4. \A t \in Senders : thread'[t] = thread[t]
  BY <1>2, <1>3
<1>s. (\A m : Settled(m) => Settled(m)') /\ Settled(q)'
  <2>1. Settled(q)
    BY <1>0, <1>1 DEF WorkersHold
  <2> QED BY <2>1, SettledStays
<1>5. \/ spool' = spool
      \/ /\ Len(spool) \in Nat /\ DOMAIN spool = 1..Len(spool)
         /\ Len(spool) >= 1 /\ spool[1] = q
         /\ DOMAIN spool' = 1..(Len(spool) - 1)
         /\ \A i \in 1..(Len(spool) - 1) : spool'[i] = spool[i + 1]
  BY <1>1, DrainedIs
<1>6. \A m : InSpool(m)' => InSpool(m)
  <2>1. CASE spool' = spool
    BY <2>1 DEF InSpool
  <2>2. CASE spool' # spool
    <3>1. \A i \in DOMAIN spool' : i + 1 \in DOMAIN spool /\ spool'[i] = spool[i + 1]
      BY <1>5, <2>2
    <3> QED BY <3>1 DEF InSpool
  <2> QED BY <2>1, <2>2
<1>7. \A m : InSpool(m) => InSpool(m)' \/ Settled(m)'
  <2>1. CASE spool' = spool
    BY <2>1 DEF InSpool
  <2>2. CASE spool' # spool
    <3>1. ASSUME NEW m, NEW i \in DOMAIN spool, spool[i] = m, i # 1
          PROVE  i - 1 \in DOMAIN spool' /\ spool'[i - 1] = m
      <4>1. i - 1 \in 1..(Len(spool) - 1) /\ i = (i - 1) + 1
        BY <1>5, <2>2, <3>1
      <4> QED BY <1>5, <2>2, <3>1, <4>1
    <3>2. \A m : \A i \in DOMAIN spool : spool[i] = m => InSpool(m)' \/ m = q
      BY <1>5, <2>2, <3>1 DEF InSpool
    <3> QED BY <1>s, <3>2 DEF InSpool
  <2> QED BY <2>1, <2>2
<1>8. SendersInOrder'
  <2>1. \A i \in DOMAIN spool' : \E k \in DOMAIN spool : spool'[i] = spool[k]
    BY <1>6 DEF InSpool
  <2> QED BY <1>1, <1>4, <2>1 DEF SendersInOrder, InSpool
<1>9. WorkersHold'
  <2>1. ASSUME NEW v \in Workers
        PROVE  \/ thread'[v] = thread[v]
               \/ thread'[v].pc = "loop" /\ thread'[v].msg = NoMsg
    BY <1>2, <1>3
  <2> QED BY <1>1, <1>7, <1>s, <2>1 DEF WorkersHold, Sent
<1>10. SpoolInOrder'
  <2>1. CASE spool' = spool
    BY <1>1, <2>1 DEF SpoolInOrder
  <2>2. CASE spool' # spool
    <3>1. \A i \in DOMAIN spool' : i + 1 \in DOMAIN spool /\ spool'[i] = spool[i + 1]
      BY <1>5, <2>2
    <3>2. \A i, j \in DOMAIN spool' : i < j => i + 1 < j + 1
      BY <1>5, <2>2
    <3> QED BY <1>1, <3>1, <3>2 DEF SpoolInOrder
  <2> QED BY <2>1, <2>2
<1>11. Accounted'
  <2>1. \A m : Held(m) => Held(m)'
    BY <1>4 DEF Held
  <2> QED BY <1>1, <1>7, <1>s, <2>1 DEF Accounted
<1> QED BY <1>8, <1>9, <1>10, <1>11

(* Who hears an answer lets go of a message that is settled: stored, or    *)
(* counted as refused or as acknowledged without being stored.             *)
LEMMA AnswerDoes ==
  ASSUME TypeOK, HostsHold, [Next]_vars, NEW h \in Hosts, Answer(h)
  PROVE  /\ UNCHANGED <<emitted, by, spool>>
         /\ \A t \in Threads :
              \/ thread'[t] = thread[t]
              \/ /\ thread[t].pc = "wait" /\ thread[t].msg = host[h].msg
                 /\ \A m : m = thread[t].msg => Settled(m)'
                 /\ IF t \in Senders
                    THEN thread'[t].pc = "idle" /\ thread'[t].msg = NoMsg
                    ELSE thread'[t].pc = "answered" /\ thread'[t].msg = thread[t].msg
<1> DEFINE q == host[h].msg
           heard == {t \in Threads : /\ thread[t].pc = "wait" /\ thread[t].msg = q /\ peer = h
                                     /\ (keeping \/ host[h].bytes = tries[q] - 1)}
<1>1. /\ UNCHANGED <<emitted, by, spool>> /\ host[h].pc = "answering"
      /\ thread' = [t \in Threads |->
             IF t \notin heard THEN thread[t]
             ELSE IF t \in Senders THEN [pc |-> "idle", msg |-> NoMsg]
             ELSE [pc |-> "answered", msg |-> q]]
      /\ heard # {} /\ ~host[h].ack => q \in refused'
      /\ heard # {} /\ host[h].ack /\ ~host[h].kept => q \in unkept'
  BY DEF Answer
<1>2. host[h].ack \in BOOLEAN /\ host[h].kept \in BOOLEAN
  BY DEF TypeOK, Host
<1>3. ASSUME NEW m, m = q, heard # {} PROVE Settled(m)'
  <2>1. CASE ~host[h].ack \/ ~host[h].kept
    <3>1. m \in refused' \cup unkept'
      BY <1>1, <1>2, <1>3, <2>1
    <3> QED BY <3>1 DEF Settled, Excused
  <2>2. CASE host[h].kept
    <3>1. Stored(m)
      BY <1>1, <1>3, <2>2 DEF HostsHold
    <3> QED BY <3>1, SettledStays DEF Settled
  <2> QED BY <1>2, <2>1, <2>2
<1>4. ASSUME NEW t \in Threads
      PROVE  \/ thread'[t] = thread[t]
             \/ /\ thread[t].pc = "wait" /\ thread[t].msg = q /\ heard # {}
                /\ IF t \in Senders
                   THEN thread'[t].pc = "idle" /\ thread'[t].msg = NoMsg
                   ELSE thread'[t].pc = "answered" /\ thread'[t].msg = q
  BY <1>1
<1> HIDE DEF heard, q
<1>5. \A t \in Threads :
        \/ thread'[t] = thread[t]
        \/ /\ thread[t].pc = "wait" /\ thread[t].msg = q
           /\ \A m : m = thread[t].msg => Settled(m)'
           /\ IF t \in Senders
              THEN thread'[t].pc = "idle" /\ thread'[t].msg = NoMsg
              ELSE thread'[t].pc = "answered" /\ thread'[t].msg = thread[t].msg
  BY <1>3, <1>4
<1> QED BY <1>1, <1>5 DEF q

LEMMA AnswerKeeps ==
  ASSUME TypeOK, ToolSide, HostsHold, [Next]_vars, NEW h \in Hosts, Answer(h)
  PROVE  ToolSide'
<1> USE DEF ToolSide
<1>1. /\ emitted' = emitted /\ by' = by /\ spool' = spool /\ Emitted' = Emitted
      /\ \A m : InSpool(m)' <=> InSpool(m)
  BY DEF Answer, Emitted, InSpool
<1>2. /\ \A t \in Senders : t \in Threads /\ t \notin Workers
      /\ \A w \in Workers : w \in Threads /\ w \notin Senders
  BY LinkAssumption DEF Threads
<1>3. ASSUME NEW t \in Threads
      PROVE  \/ thread'[t] = thread[t]
             \/ /\ thread[t].pc = "wait"
                /\ \A m : m = thread[t].msg => Settled(m)'
                /\ IF t \in Senders
                   THEN thread'[t].pc = "idle" /\ thread'[t].msg = NoMsg
                   ELSE thread'[t].pc = "answered" /\ thread'[t].msg = thread[t].msg
  BY AnswerDoes
<1>s. \A m : Settled(m) => Settled(m)'
  BY SettledStays
<1>4. SendersInOrder'
  <2>1. ASSUME NEW t \in Senders
        PROVE  \/ thread'[t] = thread[t]
               \/ thread'[t].pc = "idle" /\ thread'[t].msg = NoMsg
    BY <1>2, <1>3
  <2> QED BY <1>1, <2>1 DEF SendersInOrder
<1>5. WorkersHold'
  <2>1. ASSUME NEW w \in Workers
        PROVE  /\ thread'[w].pc \in WorkerPcs
               /\ thread'[w].pc \in Sent =>
                    /\ thread'[w].msg \in Emitted
                    /\ \A m : m = thread'[w].msg => (InSpool(m) \/ Settled(m)')
               /\ thread'[w].pc = "answered" => \A m : m = thread'[w].msg => Settled(m)'
               /\ thread'[w].pc \notin Sent => thread'[w].msg = NoMsg
    <3>1. CASE thread'[w] = thread[w]
      BY <3>1, <1>s DEF WorkersHold, WorkerPcs
    <3>2. CASE thread'[w] # thread[w]
      <4>1. /\ thread[w].pc = "wait" /\ thread'[w].pc = "answered"
            /\ \A m : m = thread[w].msg => Settled(m)'
            /\ thread'[w].msg = thread[w].msg
        BY <1>2, <1>3, <3>2
      <4>2. thread[w].msg \in Emitted
        BY <4>1 DEF WorkersHold, Sent
      <4> QED BY <4>1, <4>2 DEF WorkerPcs, Sent
    <3> QED BY <3>1, <3>2
  <2> QED BY <1>1, <2>1 DEF WorkersHold, WorkerPcs
<1>6. SpoolInOrder'
  BY <1>1 DEF SpoolInOrder
<1>7. Accounted'
  <2>1. ASSUME NEW m \in Emitted, Held(m) PROVE (Held(m) \/ Settled(m))'
    <3>1. PICK t \in Senders : thread[t].msg = m
      BY <2>1 DEF Held
    <3>2. thread'[t] = thread[t] \/ Settled(m)'
      BY <1>2, <1>3, <3>1
    <3> QED BY <3>1, <3>2 DEF Held
  <2> QED BY <1>1, <1>s, <2>1 DEF Accounted
<1> QED BY <1>4, <1>5, <1>6, <1>7

LEMMA ToolSideStep ==
  ASSUME TypeOK, ToolSide, Waking, HostsHold, [Next]_vars
  PROVE  ToolSide'
<1>1. CASE ~Takes
  BY <1>1, CalmSteps, CalmKeeps DEF ToolSide
<1>2. CASE Takes
  BY <1>2, EmitKeeps, QueueKeeps, AbandonKeeps, DrainLoopKeeps, DrainNextKeeps,
     AnswerKeeps DEF Takes
<1> QED BY <1>1, <1>2

-----------------------------------------------------------------------------
(* Started workers, hosts and journal                                      *)

LEMMA WakingStep ==
  ASSUME TypeOK, ToolSide, Waking, HostsHold, [Next]_vars
  PROVE  Waking'
<1> USE DEF toolKind, toolVars, hostVars, serviceVars, history
<1>a. /\ \A t \in Senders : t \in Threads /\ t \notin Workers /\ t \in Callers
      /\ \A w \in Workers : w \in Threads /\ w \notin Senders
      /\ \A c \in Callers : waking[c] \in {"no", "schedule"} \cup Workers
      /\ "no" \notin Workers /\ "schedule" \notin Workers
  BY LinkAssumption DEF Threads, Callers, TypeOK
(* A thread that is neither created nor at rest moves: nobody waits on it. *)
<1>m. ASSUME UNCHANGED waking,
             \A s \in Senders : thread'[s].pc # "idle" => waking[s] = "no",
             \A w \in Workers : thread[w].pc = "made" => thread'[w].pc = "made"
      PROVE  Waking'
  BY <1>a, <1>m DEF Waking
<1>o. ASSUME UNCHANGED waking, NEW t \in Threads,
             \A u \in Threads \ {t} : thread'[u] = thread[u],
             thread[t].pc \notin {"idle", "made"}
      PROVE  Waking'
  <2>1. ASSUME NEW s \in Senders, thread'[s].pc # "idle" PROVE waking[s] = "no"
    BY <1>a, <1>o, <2>1 DEF Waking
  <2>2. ASSUME NEW w \in Workers, thread[w].pc = "made" PROVE thread'[w].pc = "made"
    BY <1>a, <1>o, <2>2
  <2> QED BY <1>m, <1>o, <2>1, <2>2
<1>c. ASSUME NEW c \in Callers, Schedules(c), c \in Senders => thread[c].pc = "idle"
      PROVE  Waking'
  <2>1. /\ \A d \in Callers \ {c} : waking'[d] = waking[d]
        /\ \/ UNCHANGED thread /\ waking'[c] = "no"
           \/ \E w \in Workers :
                 /\ thread[w].pc = "off" /\ thread'[w].pc = "made"
                 /\ thread'[w].msg = thread[w].msg
                 /\ \A u \in Threads \ {w} : thread'[u] = thread[u]
                 /\ waking'[c] = w
    BY <1>c, Scheduling
  <2>2. CASE UNCHANGED thread /\ waking'[c] = "no"
    BY <1>a, <2>1, <2>2 DEF Waking
  <2>3. CASE ~(UNCHANGED thread /\ waking'[c] = "no")
    <3>1. PICK w \in Workers :
            /\ thread[w].pc = "off" /\ thread'[w].pc = "made" /\ waking'[c] = w
            /\ \A u \in Threads \ {w} : thread'[u] = thread[u]
      BY <2>1, <2>3
    <3>2. \A d \in Callers : waking[d] # w
      BY <3>1 DEF Waking
    <3>3. ASSUME NEW s \in Senders, thread'[s].pc # "idle" PROVE waking'[s] = "no"
      BY <1>a, <1>c, <2>1, <3>1, <3>3 DEF Waking
    <3>4. ASSUME NEW d \in Callers, waking'[d] \in Workers
          PROVE  thread'[waking'[d]].pc = "made"
      BY <1>a, <2>1, <3>1, <3>2, <3>4 DEF Waking
    <3>5. ASSUME NEW d \in Callers, NEW e \in Callers, waking'[d] \in Workers,
                 waking'[d] = waking'[e]
          PROVE  d = e
      BY <2>1, <3>1, <3>2, <3>5 DEF Waking
    <3> QED BY <3>3, <3>4, <3>5 DEF Waking
  <2> QED BY <2>2, <2>3
<1>d. ASSUME Disconnected, UNCHANGED waking PROVE Waking'
  <2>1. \A t \in Threads : \/ thread'[t] = thread[t]
                           \/ thread[t].pc = "wait" /\ thread'[t].pc = "released"
    BY <1>d, Releases
  <2>2. ASSUME NEW s \in Senders, thread'[s].pc # "idle" PROVE waking[s] = "no"
    BY <1>a, <2>1, <2>2 DEF Waking
  <2>3. ASSUME NEW w \in Workers, thread[w].pc = "made" PROVE thread'[w].pc = "made"
    BY <1>a, <2>1, <2>3
  <2> QED BY <1>d, <1>m, <2>2, <2>3
<1>u. ASSUME UNCHANGED <<thread, waking>> PROVE Waking'
  BY <1>u DEF Waking
<1>1. ASSUME NEW s \in Senders, Emit(s) PROVE Waking'
  <2>1. /\ UNCHANGED waking /\ waking[s] = "no"
        /\ \A t \in Threads \ {s} : thread'[t] = thread[t]
    BY <1>1, EmitDoes DEF Emit
  <2>2. ASSUME NEW t \in Senders, thread'[t].pc # "idle" PROVE waking[t] = "no"
    BY <1>a, <2>1, <2>2 DEF Waking
  <2>3. ASSUME NEW w \in Workers, thread[w].pc = "made" PROVE thread'[w].pc = "made"
    BY <1>a, <2>1, <2>3
  <2> QED BY <1>m, <2>1, <2>2, <2>3
<1>2. ASSUME NEW t \in Threads, Send(t) PROVE Waking'
  <2>1. UNCHANGED waking /\ thread[t].pc = "send"
        /\ (thread' = Fails(t) \/ thread' = Goes(t, "wait"))
    BY <1>2 DEF Send
  <2>2. \A u \in Threads \ {t} : thread'[u] = thread[u]
    BY <2>1, Failing, ThreadMoves DEF Pcs
  <2> QED BY <1>o, <2>1, <2>2
<1>3. ASSUME NEW t \in Threads, GiveUp(t) PROVE Waking'
  <2>1. UNCHANGED waking /\ thread[t].pc \in {"released", "wait"} /\ thread' = Fails(t)
    BY <1>3 DEF GiveUp
  <2> QED BY <1>o, <2>1, Failing
<1>4. ASSUME NEW t \in Threads, Queue(t) PROVE Waking'
  <2>1. /\ thread[t].pc = "queue" /\ thread' = Rests(t, "idle")
        /\ waking' = [waking EXCEPT ![t] = IF spool = <<>> THEN "schedule" ELSE "no"]
    BY <1>4 DEF Queue
  <2>2. t \in Senders /\ t \in Callers
    BY <2>1, <1>a, InHandEmitted DEF ToolSide
  <2>t. thread'[t].pc = "idle" /\ \A u \in Threads \ {t} : thread'[u] = thread[u]
    BY <2>1, ThreadMoves DEF Pcs
  <2>w. /\ waking'[t] \in {"no", "schedule"}
        /\ \A d \in Callers \ {t} : waking'[d] = waking[d]
    BY <2>1, <2>2 DEF TypeOK
  <2>3. /\ thread'[t].pc = "idle" /\ \A u \in Threads \ {t} : thread'[u] = thread[u]
        /\ waking'[t] \in {"no", "schedule"}
        /\ \A d \in Callers \ {t} : waking'[d] = waking[d]
    BY <2>t, <2>w
  <2>4. ASSUME NEW s \in Senders, thread'[s].pc # "idle" PROVE waking'[s] = "no"
    BY <1>a, <2>3, <2>4 DEF Waking
  <2>5. ASSUME NEW d \in Callers, waking'[d] \in Workers
        PROVE  d # t /\ waking'[d] = waking[d] /\ thread'[waking'[d]] = thread[waking[d]]
    BY <1>a, <2>2, <2>3, <2>5
  <2> QED BY <2>4, <2>5 DEF Waking
<1>5. ASSUME NEW t \in Threads, Abandon(t) PROVE Waking'
  <2>1. thread[t].pc = "queue" /\ thread' = Rests(t, "idle") /\ UNCHANGED waking
    BY <1>5 DEF Abandon
  <2>2. \A u \in Threads \ {t} : thread'[u] = thread[u]
    BY <2>1, ThreadMoves DEF Pcs
  <2> QED BY <1>o, <2>1, <2>2
<1>6. ASSUME NEW w \in Workers, DrainLoop(w) PROVE Waking'
  <2>1. UNCHANGED waking
    BY <1>6 DEF DrainLoop
  <2> QED BY <1>a, <1>o, <1>6, <2>1, DrainLoopDoes
<1>7. ASSUME NEW w \in Workers, DrainNext(w) PROVE Waking'
  <2>1. thread[w].pc = "answered" /\ thread' = Rests(w, "loop") /\ UNCHANGED waking
    BY <1>7 DEF DrainNext
  <2>2. w \in Threads /\ \A u \in Threads \ {w} : thread'[u] = thread[u]
    BY <1>a, <2>1, ThreadMoves DEF Pcs
  <2> QED BY <1>o, <2>1, <2>2
<1>8. ASSUME NEW w \in Workers, Ends(w) PROVE Waking'
  <2>1. thread[w].pc = "leaving" /\ thread' = Goes(w, "off") /\ UNCHANGED waking
    BY <1>8 DEF Ends
  <2>2. w \in Threads /\ \A u \in Threads \ {w} : thread'[u] = thread[u]
    BY <1>a, <2>1, ThreadMoves DEF Pcs
  <2> QED BY <1>o, <2>1, <2>2
<1>9. ASSUME NEW t \in Senders, Schedule(t) PROVE Waking'
  <2>1. thread[t].pc = "idle"
    BY <1>9, <1>a DEF Schedule, Waking
  <2> QED BY <1>9, <1>a, <1>c, <2>1 DEF Schedule
<1>10. ASSUME NEW c \in Callers, StartWorker(c) PROVE Waking'
  <2> DEFINE w == waking[c]
  <2>1. /\ w \in Workers /\ thread' = Goes(w, "loop") /\ waking' = [waking EXCEPT ![c] = "no"]
    BY <1>10 DEF StartWorker
  <2>2. /\ thread[w].pc = "made" /\ \A d \in Callers : waking[d] = w => d = c
    BY <2>1 DEF Waking
  <2>3. waking[c] = w
    OBVIOUS
  <2> HIDE DEF w
  <2>t. \A u \in Threads \ {w} : thread'[u] = thread[u]
    BY <1>a, <2>1, ThreadMoves DEF Pcs
  <2>w. waking'[c] = "no" /\ \A d \in Callers \ {c} : waking'[d] = waking[d]
    BY <2>1 DEF TypeOK
  <2>4. /\ \A u \in Threads \ {w} : thread'[u] = thread[u]
        /\ waking'[c] = "no" /\ \A d \in Callers \ {c} : waking'[d] = waking[d]
    BY <2>t, <2>w
  <2>5. ASSUME NEW s \in Senders, thread'[s].pc # "idle" PROVE waking'[s] = "no"
    BY <1>a, <2>1, <2>4, <2>5 DEF Waking
  <2>6. ASSUME NEW d \in Callers, waking'[d] \in Workers
        PROVE  waking'[d] = waking[d] /\ thread'[waking'[d]] = thread[waking[d]]
    BY <1>a, <2>2, <2>4, <2>6
  <2> QED BY <2>5, <2>6 DEF Waking
<1>11. ASSUME NEW h \in Hosts, Answer(h) PROVE Waking'
  <2>1. UNCHANGED waking
    BY <1>11 DEF Answer
  <2>2. \A t \in Threads : thread'[t] = thread[t] \/ thread[t].pc = "wait"
    BY <1>11, AnswerDoes
  <2>3. ASSUME NEW s \in Senders, thread'[s].pc # "idle" PROVE waking[s] = "no"
    BY <1>a, <2>2, <2>3 DEF Waking
  <2>4. ASSUME NEW w \in Workers, thread[w].pc = "made" PROVE thread'[w].pc = "made"
    BY <1>a, <2>2, <2>4
  <2> QED BY <1>m, <2>1, <2>3, <2>4
<1>12. ASSUME NEW h \in Hosts, Close(h) PROVE Waking'
  BY <1>12, <1>d, <1>u DEF Close
<1>13. ASSUME NEW h \in Hosts, Connect(h) PROVE Waking'
  <2>1. Tool \in Callers /\ Tool \notin Senders
    BY LinkAssumption DEF Callers, Threads
  <2> QED BY <1>13, <1>c, <1>u, <2>1 DEF Connect
<1>14. CASE LoseConnection
  BY <1>14, <1>d DEF LoseConnection
<1>15. CASE DrainRequested
  <2>1. Tool \in Callers /\ Tool \notin Senders
    BY LinkAssumption DEF Callers, Threads
  <2> QED BY <1>15, <1>c, <2>1 DEF DrainRequested
<1> QED
  BY <1>u, <1>1, <1>2, <1>3, <1>4, <1>5, <1>6, <1>7, <1>8, <1>9, <1>10, <1>11, <1>12,
     <1>13, <1>14, <1>15
  DEF Next, ToolStep, WorkerStep, CallerStep, HostStep, SessionStep, vars,
      Take, Admit, Accept, Refuse, Confirm, Retire, Restart, Age

LEMMA HostsHoldStep ==
  ASSUME TypeOK, ToolSide, HostsHold, [Next]_vars
  PROVE  HostsHold'
<1> USE DEF toolKind, toolVars, hostVars, serviceVars, history
<1>a. /\ Emitted \subseteq Emitted'
      /\ \A m : Stored(m) => Stored(m)'
  <2>1. emitted' = emitted \/ emitted' = emitted + 1
    BY Frame DEF Emit
  <2>2. Emitted \subseteq Emitted'
    BY <2>1 DEF Emitted, TypeOK
  <2> QED BY <2>2, SettledStays
(* What a step must show: about the handler, and about the queue.          *)
<1> DEFINE Fine(h) == /\ host'[h].pc # "idle" => host'[h].msg \in Emitted'
                      /\ host'[h].pc = "storing" => host'[h].gen \in Hosts
                      /\ host'[h].pc = "answering" =>
                           /\ \A m : host'[h].kept /\ m = host'[h].msg => Stored(m)'
                           /\ host'[h].ack => host'[h].kept \/ host'[h].retired
           Sound(h) == \A i \in DOMAIN inbox'[h] : inbox'[h][i].msg \in Emitted'
<1>f. ASSUME \A h \in Hosts : Fine(h) /\ Sound(h) PROVE HostsHold'
  BY <1>f DEF HostsHold
<1>g. ASSUME NEW h \in Hosts, host'[h] = host[h] PROVE Fine(h)
  BY <1>g, <1>a DEF HostsHold
<1>i. ASSUME NEW h \in Hosts, inbox'[h] = inbox[h] PROVE Sound(h)
  BY <1>i, <1>a DEF HostsHold
<1> HIDE DEF Fine, Sound
<1>u. ASSUME UNCHANGED <<host, inbox>> PROVE HostsHold'
  BY <1>u, <1>f, <1>g, <1>i
(* A handler answers.                                                      *)
<1>w. ASSUME NEW h \in Hosts, NEW a \in BOOLEAN, NEW k \in BOOLEAN,
             host' = Answers(h, a, k), UNCHANGED inbox,
             host[h].pc \in {"handling", "storing"},
             \A m : k /\ m = host[h].msg => Stored(m)',
             a => k \/ host[h].retired
      PROVE  HostsHold'
  <2>1. /\ host'[h].pc = "answering" /\ host'[h].ack = a /\ host'[h].kept = k
        /\ host'[h].msg = host[h].msg /\ host'[h].retired = host[h].retired
        /\ \A g \in Hosts \ {h} : host'[g] = host[g]
    BY <1>w, HostAnswers
  <2>2. host[h].msg \in Emitted'
    BY <1>w, <1>a DEF HostsHold
  <2>3. Fine(h)
    BY <2>1, <2>2, <1>w DEF Fine
  <2> QED BY <1>f, <1>g, <1>i, <1>w, <2>1, <2>3
<1>1. ASSUME NEW t \in Threads, Send(t) PROVE HostsHold'
  <2>1. CASE peer = NoHost
    BY <1>1, <2>1, <1>u DEF Send
  <2>2. CASE peer # NoHost
    <3> DEFINE e == [msg |-> thread[t].msg, bytes |-> Bytes(thread[t].msg)]
    <3>1. /\ inbox' = Received(peer, e) /\ UNCHANGED host /\ thread[t].pc = "send"
      BY <1>1, <2>2 DEF Send
    <3>2. thread[t].msg \in Emitted /\ Emitted \subseteq Msgs
      BY <3>1, InHandEmitted DEF ToolSide, Sent
    <3>3. e \in [msg : Msgs, bytes : Nat] /\ e.msg \in Emitted
      BY <3>2 DEF Bytes, TypeOK
    <3>4. peer \in Hosts
      BY <2>2, LinkAssumption DEF TypeOK, Hosts, NoHost
    <3> HIDE DEF e
    <3>5. inbox \in [Hosts -> Seq([msg : Msgs, bytes : Nat])]
      BY DEF TypeOK
    <3>6. \A h \in Hosts : inbox'[h] = inbox[h] \/ (h = peer /\ inbox'[h] = Append(inbox[h], e))
      BY <3>1, <3>4, <3>5 DEF Received
    <3>7. ASSUME NEW h \in Hosts, inbox'[h] = Append(inbox[h], e) PROVE Sound(h)
      <4>1. /\ inbox[h] \in Seq([msg : Msgs, bytes : Nat]) /\ Len(inbox[h]) \in Nat
            /\ DOMAIN inbox[h] = 1..Len(inbox[h])
            /\ DOMAIN inbox'[h] = 1..(Len(inbox[h]) + 1)
            /\ \A i \in 1..Len(inbox[h]) : inbox'[h][i] = inbox[h][i]
            /\ inbox'[h][Len(inbox[h]) + 1] = e
        <5>1. inbox[h] \in Seq([msg : Msgs, bytes : Nat])
          BY <3>5
        <5>2. /\ Len(inbox[h]) \in Nat /\ DOMAIN inbox[h] = 1..Len(inbox[h])
              /\ DOMAIN Append(inbox[h], e) = 1..(Len(inbox[h]) + 1)
              /\ \A i \in 1..Len(inbox[h]) : Append(inbox[h], e)[i] = inbox[h][i]
              /\ Append(inbox[h], e)[Len(inbox[h]) + 1] = e
          BY <3>3, <5>1, Appended
        <5> QED BY <3>7, <5>1, <5>2
      <4>2. \A i \in 1..Len(inbox[h]) : inbox[h][i].msg \in Emitted
        BY <4>1 DEF HostsHold
      <4>3. \A i \in 1..(Len(inbox[h]) + 1) : i \in 1..Len(inbox[h]) \/ i = Len(inbox[h]) + 1
        BY <4>1
      <4> QED BY <1>a, <3>3, <4>1, <4>2, <4>3 DEF Sound
    <3> QED BY <1>f, <1>g, <1>i, <3>1, <3>6, <3>7
  <2> QED BY <2>1, <2>2
<1>2. ASSUME NEW h \in Hosts, Take(h) PROVE HostsHold'
  <2>1. /\ host'[h].pc = "handling" /\ host'[h].msg = inbox[h][1].msg
        /\ \A g \in Hosts \ {h} : host'[g] = host[g] /\ inbox'[g] = inbox[g]
        /\ inbox'[h] = Tail(inbox[h]) /\ inbox[h] # <<>>
    BY <1>2, HostTakes
  <2>2. /\ Len(inbox[h]) \in Nat \ {0} /\ DOMAIN inbox[h] = 1..Len(inbox[h])
        /\ DOMAIN inbox'[h] = 1..(Len(inbox[h]) - 1)
        /\ \A i \in 1..(Len(inbox[h]) - 1) : inbox'[h][i] = inbox[h][i + 1]
    BY <2>1, Shortened DEF TypeOK
  <2>3. \A i \in 1..Len(inbox[h]) : inbox[h][i].msg \in Emitted
    BY <2>2 DEF HostsHold
  <2>4. Fine(h)
    BY <1>a, <2>1, <2>2, <2>3 DEF Fine
  <2>5. Sound(h)
    <3>1. \A i \in 1..(Len(inbox[h]) - 1) : i + 1 \in 1..Len(inbox[h])
      BY <2>2
    <3> QED BY <1>a, <2>2, <2>3, <3>1 DEF Sound
  <2> QED BY <1>f, <1>g, <1>i, <2>1, <2>4, <2>5
<1>3. ASSUME NEW h \in Hosts, Admit(h) PROVE HostsHold'
  <2>1. /\ host'[h].pc = "storing" /\ host'[h].msg = host[h].msg /\ host'[h].gen = last
        /\ host[h].pc = "handling" /\ \A g \in Hosts \ {h} : host'[g] = host[g]
        /\ UNCHANGED inbox
    BY <1>3, HostAdmits DEF Admit
  <2>2. host[h].msg \in Emitted /\ last \in Hosts
    BY <2>1 DEF HostsHold, TypeOK
  <2>3. Fine(h)
    BY <1>a, <2>1, <2>2 DEF Fine
  <2> QED BY <1>f, <1>g, <1>i, <2>1, <2>3
<1>4. ASSUME NEW h \in Hosts, Accept(h) PROVE HostsHold'
  <2>1. host' = Answers(h, TRUE, TRUE) /\ host[h].pc = "storing" /\ UNCHANGED inbox
    BY <1>4 DEF Accept
  <2>2. ASSUME NEW m, m = host[h].msg PROVE Stored(m)'
    <3>1. CASE Repeats(host[h].msg, host[h].gen)
      BY <2>2, <3>1, SettledStays DEF Repeats
    <3>2. CASE ~Repeats(host[h].msg, host[h].gen)
      <4> DEFINE e == [msg |-> host[h].msg, gen |-> host[h].gen]
      <4>1. journal' = Append(journal, e)
        BY <1>4, <3>2 DEF Accept
      <4>2. host[h].msg \in Msgs /\ host[h].gen \in Hosts
        BY <2>1, LinkAssumption DEF HostsHold, Emitted, Msgs, TypeOK
      <4>3. e \in [msg : Msgs, gen : Hosts] /\ e.msg = m
        BY <4>2, <2>2
      <4> HIDE DEF e
      <4>4. /\ Len(journal) + 1 \in DOMAIN journal'
            /\ journal'[Len(journal) + 1] = e
        BY <4>1, <4>3, Appended DEF TypeOK
      <4> QED BY <4>3, <4>4 DEF Stored
    <3> QED BY <3>1, <3>2
  <2> QED BY <1>w, <2>1, <2>2
<1>5. ASSUME NEW h \in Hosts, Refuse(h) PROVE HostsHold'
  <2>1. /\ host' = Answers(h, FALSE, FALSE) /\ UNCHANGED inbox
        /\ host[h].pc \in {"handling", "storing"}
    BY <1>5 DEF Refuse, AckOf
  <2> QED BY <1>w, <2>1
<1>6. ASSUME NEW h \in Hosts, Confirm(h) PROVE HostsHold'
  <2>1. /\ host' = Answers(h, TRUE, FALSE) /\ UNCHANGED inbox
        /\ host[h].pc = "handling" /\ host[h].retired
    BY <1>6 DEF Confirm
  <2> QED BY <1>w, <2>1
<1>7. ASSUME NEW h \in Hosts, Answer(h) PROVE HostsHold'
  <2>1. /\ host'[h].pc = "idle" /\ \A g \in Hosts \ {h} : host'[g] = host[g]
        /\ UNCHANGED inbox
    BY <1>7, HostAnswered DEF Answer
  <2>2. Fine(h)
    BY <2>1 DEF Fine
  <2> QED BY <1>f, <1>g, <1>i, <2>1, <2>2
<1>8. ASSUME NEW h \in Hosts, Retire(h) \/ Close(h) PROVE HostsHold'
  <2>1. \A g \in Hosts :
          /\ host'[g].pc = host[g].pc /\ host'[g].msg = host[g].msg
          /\ host'[g].gen = host[g].gen /\ host'[g].ack = host[g].ack
          /\ host'[g].kept = host[g].kept
          /\ host[g].retired => host'[g].retired
    BY <1>8, HostGoes
  <2>2. ASSUME NEW g \in Hosts PROVE Fine(g)
    BY <1>a, <2>1 DEF Fine, HostsHold
  <2>3. ASSUME NEW g \in Hosts PROVE Sound(g)
    <3>1. inbox'[g] = inbox[g] \/ inbox'[g] = <<>>
      BY <1>8 DEF Retire, Close, TypeOK
    <3> QED BY <1>i, <3>1 DEF Sound
  <2> QED BY <1>f, <2>2, <2>3
<1>9. CASE Restart
  <2>1. last + 1 \in Hosts
    BY <1>9, LinkAssumption DEF Restart, TypeOK, Hosts
  <2>2. /\ host'[last + 1].pc = "idle" /\ UNCHANGED inbox
        /\ \A g \in Hosts \ {last + 1} : host'[g] = host[g]
    BY <1>9, <2>1 DEF Restart, NewHost, TypeOK
  <2>3. Fine(last + 1)
    BY <2>2 DEF Fine
  <2> QED BY <1>f, <1>g, <1>i, <2>2, <2>3
<1> QED
  BY <1>u, <1>1, <1>2, <1>3, <1>4, <1>5, <1>6, <1>7, <1>8, <1>9
  DEF Next, ToolStep, WorkerStep, CallerStep, HostStep, SessionStep, vars,
      Emit, GiveUp, Queue, Abandon, DrainLoop, DrainNext, Ends, Schedule, StartWorker,
      Connect, LoseConnection, DrainRequested, Age

LEMMA JournalHoldsStep ==
  ASSUME TypeOK, ToolSide, HostsHold, JournalHolds, [Next]_vars
  PROVE  JournalHolds'
<1>a. /\ Emitted \subseteq Emitted' /\ last' \in Nat /\ last' >= last /\ last \in Nat
  <2>1. /\ emitted' = emitted \/ emitted' = emitted + 1
        /\ last' = last \/ last' = last + 1
    BY Frame DEF Emit, Restart
  <2>2. Emitted \subseteq Emitted'
    BY <2>1 DEF Emitted, TypeOK
  <2>3. last \in Nat
    BY LinkAssumption DEF TypeOK, Hosts
  <2> QED BY <2>1, <2>2, <2>3
<1>b. \A i \in DOMAIN journal : journal[i].gen \in Nat
  <2>1. journal \in Seq([msg : Msgs, gen : Hosts])
    BY DEF TypeOK
  <2>2. \A i \in DOMAIN journal : journal[i] \in [msg : Msgs, gen : Hosts]
    BY <2>1, ElementOfSeq, LenProperties
  <2>3. Hosts \subseteq Nat
    BY LinkAssumption DEF Hosts
  <2> QED BY <2>2, <2>3
<1>1. \/ UNCHANGED aged
      \/ UNCHANGED journal /\ aged' = {i \in DOMAIN journal : journal[i].gen < last}
  BY Frame DEF Age
<1>2. CASE UNCHANGED journal
  <2>1. aged' \subseteq {i \in DOMAIN journal : journal[i].gen < last}
    BY <1>1, <1>2 DEF JournalHolds
  <2>2. \A i \in DOMAIN journal : journal[i].gen < last => journal[i].gen < last'
    BY <1>a, <1>b
  <2> QED BY <1>2, <1>a, <2>1, <2>2 DEF JournalHolds
<1>3. CASE ~UNCHANGED journal
  <2>1. PICK h \in Hosts :
          /\ host[h].pc = "storing" /\ host[h].msg \in Emitted
          /\ Len(journal) \in Nat /\ DOMAIN journal = 1..Len(journal)
          /\ DOMAIN journal' = 1..(Len(journal) + 1)
          /\ \A i \in 1..Len(journal) : journal'[i] = journal[i]
          /\ journal'[Len(journal) + 1] = [msg |-> host[h].msg, gen |-> host[h].gen]
    BY <1>3, JournalSteps
  <2>2. \A i \in DOMAIN journal' : i \in DOMAIN journal \/ i = Len(journal) + 1
    BY <2>1
  <2>3. \A i \in DOMAIN journal' : journal'[i].msg \in Emitted
    BY <2>1, <2>2 DEF JournalHolds
  <2>4. ASSUME NEW i \in aged PROVE i \in DOMAIN journal' /\ journal'[i].gen < last'
    <3>1. i \in DOMAIN journal /\ journal[i].gen < last
      BY DEF JournalHolds
    <3>2. i \in DOMAIN journal' /\ journal'[i] = journal[i]
      BY <2>1, <3>1
    <3> QED BY <1>a, <1>b, <3>1, <3>2
  <2> QED BY <1>1, <1>3, <1>a, <2>3, <2>4 DEF JournalHolds
<1> QED BY <1>2, <1>3

-----------------------------------------------------------------------------
(* One after another                                                       *)

LEMMA Emitting ==
  ASSUME TypeOK, [Next]_vars
  PROVE  /\ Emitted \subseteq Emitted' /\ \A m \in Emitted : by'[m] = by[m]
         /\ \A m \in Emitted' : m \in Emitted \/ \E s \in Senders : Emit(s) /\ m = emitted + 1
<1>1. ASSUME NEW s \in Senders, Emit(s)
      PROVE  /\ Emitted' = Emitted \cup {emitted + 1} /\ \A m \in Emitted : by'[m] = by[m]
  BY <1>1, EmitDoes
<1>2. (\E s \in Senders : Emit(s)) \/ UNCHANGED <<emitted, by>>
  BY Frame
<1>3. CASE UNCHANGED <<emitted, by>>
  BY <1>3 DEF Emitted
<1> QED BY <1>1, <1>2, <1>3

(* What a handler is about was in its hand or in its queue.                *)
LEMMA HandlersTake ==
  ASSUME TypeOK, [Next]_vars, NEW h \in Hosts, host'[h].pc # "idle"
  PROVE  \/ host[h].pc # "idle" /\ host'[h].msg = host[h].msg
         \/ \E i \in DOMAIN inbox[h] : inbox[h][i].msg = host'[h].msg
<1> USE DEF toolKind, toolVars, hostVars, serviceVars, history
<1> DEFINE Same == host[h].pc # "idle" /\ host'[h].msg = host[h].msg
           Queued == \E i \in DOMAIN inbox[h] : inbox[h][i].msg = host'[h].msg
<1>1. ASSUME host'[h] = host[h] PROVE Same \/ Queued
  BY <1>1
<1>2. ASSUME NEW g \in Hosts, Take(g) PROVE Same \/ Queued
  <2>1. CASE g = h
    <3>1. host'[h].msg = inbox[h][1].msg /\ inbox[h] # <<>>
      BY <1>2, <2>1, HostTakes
    <3>2. 1 \in DOMAIN inbox[h]
      BY <3>1, Shortened DEF TypeOK
    <3> QED BY <3>1, <3>2
  <2>2. CASE g # h
    BY <1>1, <1>2, <2>2, HostTakes
  <2> QED BY <2>1, <2>2
<1>3. ASSUME NEW g \in Hosts, Admit(g) PROVE Same \/ Queued
  <2>1. /\ host'[g].msg = host[g].msg /\ host[g].pc = "handling"
        /\ \A k \in Hosts \ {g} : host'[k] = host[k]
    BY <1>3, HostAdmits
  <2> QED BY <1>1, <2>1
<1>4. ASSUME NEW g \in Hosts, Accept(g) \/ Refuse(g) \/ Confirm(g) PROVE Same \/ Queued
  <2>1. /\ \E a, k \in BOOLEAN : host' = Answers(g, a, k)
        /\ host[g].pc \in {"handling", "storing"}
    BY <1>4 DEF Accept, Refuse, Confirm, AckOf
  <2>2. host'[g].msg = host[g].msg /\ \A k \in Hosts \ {g} : host'[k] = host[k]
    BY <2>1, HostAnswers
  <2> QED BY <1>1, <2>1, <2>2
<1>5. ASSUME NEW g \in Hosts, Answer(g) PROVE Same \/ Queued
  BY <1>1, <1>5, HostAnswered
<1>6. ASSUME NEW g \in Hosts, Retire(g) \/ Close(g) PROVE Same \/ Queued
  <2>1. host'[h].pc = host[h].pc /\ host'[h].msg = host[h].msg
    BY <1>6, HostGoes
  <2> QED BY <2>1
<1>7. ASSUME Restart PROVE Same \/ Queued
  <2>1. last + 1 \in Hosts
    BY <1>7, LinkAssumption DEF Restart, TypeOK, Hosts
  <2>2. /\ host'[last + 1].pc = "idle"
        /\ \A g \in Hosts \ {last + 1} : host'[g] = host[g]
    BY <1>7, <2>1 DEF Restart, NewHost, TypeOK
  <2> QED BY <1>1, <2>2
<1>8. ASSUME UNCHANGED host PROVE Same \/ Queued
  BY <1>1, <1>8
<1> HIDE DEF Same, Queued
<1>9. Same \/ Queued
  BY <1>2, <1>3, <1>4, <1>5, <1>6, <1>7, <1>8
  DEF Next, ToolStep, WorkerStep, CallerStep, HostStep, SessionStep, vars,
      Emit, Send, GiveUp, Queue, Abandon, DrainLoop, DrainNext, Ends, Schedule,
      StartWorker, Connect, LoseConnection, DrainRequested, Age
<1> QED BY <1>9 DEF Same, Queued

(* What is in a host's queue was there, or a thread was sending it.        *)
LEMMA QueuesTake ==
  ASSUME TypeOK, ToolSide, [Next]_vars, NEW h \in Hosts, NEW i \in DOMAIN inbox'[h]
  PROVE  \/ \E k \in DOMAIN inbox[h] : inbox[h][k].msg = inbox'[h][i].msg
         \/ \E t \in Threads : thread[t].pc = "send" /\ thread[t].msg = inbox'[h][i].msg
<1> USE DEF toolKind, toolVars, hostVars, serviceVars, history
<1> DEFINE Was == \E k \in DOMAIN inbox[h] : inbox[h][k].msg = inbox'[h][i].msg
           Is == \E t \in Threads : thread[t].pc = "send" /\ thread[t].msg = inbox'[h][i].msg
<1>0. inbox \in [Hosts -> Seq([msg : Msgs, bytes : Nat])]
  BY DEF TypeOK
<1>1. ASSUME inbox'[h] = inbox[h] PROVE Was \/ Is
  BY <1>1
<1>2. ASSUME NEW t \in Threads, Send(t) PROVE Was \/ Is
  <2> DEFINE e == [msg |-> thread[t].msg, bytes |-> Bytes(thread[t].msg)]
  <2>1. thread[t].pc = "send" /\ (UNCHANGED inbox \/ inbox' = Received(peer, e))
    BY <1>2 DEF Send
  <2>2. e.msg = thread[t].msg /\ e \in [msg : Msgs, bytes : Nat]
    <3>1. thread[t].msg \in Emitted /\ Emitted \subseteq Msgs
      BY <2>1, InHandEmitted DEF ToolSide, Sent
    <3> QED BY <3>1 DEF Bytes, TypeOK
  <2> HIDE DEF e
  <2>3. inbox'[h] = inbox[h] \/ inbox'[h] = Append(inbox[h], e)
    BY <1>0, <2>1 DEF Received
  <2>4. CASE inbox'[h] = Append(inbox[h], e)
    <3>1. inbox[h] \in Seq([msg : Msgs, bytes : Nat])
      BY <1>0
    <3>2. /\ Len(inbox[h]) \in Nat /\ DOMAIN inbox[h] = 1..Len(inbox[h])
          /\ DOMAIN Append(inbox[h], e) = 1..(Len(inbox[h]) + 1)
          /\ \A k \in 1..Len(inbox[h]) : Append(inbox[h], e)[k] = inbox[h][k]
          /\ Append(inbox[h], e)[Len(inbox[h]) + 1] = e
      BY <2>2, <3>1, Appended
    <3>3. i \in DOMAIN inbox[h] \/ i = Len(inbox[h]) + 1
      BY <2>4, <3>2
    <3>4. CASE i \in DOMAIN inbox[h]
      BY <2>4, <3>2, <3>4
    <3>5. CASE i = Len(inbox[h]) + 1
      BY <2>1, <2>2, <2>4, <3>2, <3>5
    <3> QED BY <3>3, <3>4, <3>5
  <2> QED BY <1>1, <2>3, <2>4
<1>3. ASSUME NEW g \in Hosts, Take(g) PROVE Was \/ Is
  <2>1. /\ \A k \in Hosts \ {g} : inbox'[k] = inbox[k]
        /\ inbox'[g] = Tail(inbox[g]) /\ inbox[g] # <<>>
    BY <1>3, HostTakes
  <2>2. CASE g = h
    <3>0. inbox[h] \in Seq([msg : Msgs, bytes : Nat])
      BY <1>0
    <3>1. /\ Len(inbox[h]) \in Nat \ {0} /\ DOMAIN inbox[h] = 1..Len(inbox[h])
          /\ DOMAIN inbox'[h] = 1..(Len(inbox[h]) - 1)
          /\ \A k \in 1..(Len(inbox[h]) - 1) : inbox'[h][k] = inbox[h][k + 1]
      <4>1. inbox[h] # <<>> /\ inbox'[h] = Tail(inbox[h])
        BY <2>1, <2>2
      <4>2. /\ Len(inbox[h]) \in Nat \ {0} /\ DOMAIN inbox[h] = 1..Len(inbox[h])
            /\ DOMAIN Tail(inbox[h]) = 1..(Len(inbox[h]) - 1)
            /\ \A k \in 1..(Len(inbox[h]) - 1) : Tail(inbox[h])[k] = inbox[h][k + 1]
        BY <3>0, <4>1, Shortened
      <4> QED BY <4>1, <4>2
    <3>2. i + 1 \in DOMAIN inbox[h] /\ inbox'[h][i] = inbox[h][i + 1]
      BY <3>1
    <3> QED BY <3>2
  <2> QED BY <1>1, <2>1, <2>2
<1>4. ASSUME NEW g \in Hosts, Retire(g) PROVE Was \/ Is
  BY <1>1, <1>4, <1>0 DEF Retire
<1>5. ASSUME UNCHANGED inbox PROVE Was \/ Is
  BY <1>1, <1>5
<1> HIDE DEF Was, Is
<1>6. Was \/ Is
  BY <1>2, <1>3, <1>4, <1>5
  DEF Next, ToolStep, WorkerStep, CallerStep, HostStep, SessionStep, vars,
      Emit, GiveUp, Queue, Abandon, DrainLoop, DrainNext, Ends, Schedule, Admit, Accept,
      Refuse, Confirm, Answer, Close, Restart,
      StartWorker, Connect, LoseConnection, DrainRequested, Age
<1> QED BY <1>6 DEF Was, Is

(* A thread starts on a message of an empty spool, or on its head.         *)
LEMMA ThreadsTake ==
  ASSUME TypeOK, ToolSide, Waking, HostsHold, [Next]_vars,
         NEW t \in Threads, thread'[t].pc \in Sent
  PROVE  \/ thread[t].pc \in Sent /\ thread'[t].msg = thread[t].msg
         \/ \E s \in Senders : /\ Emit(s) /\ thread'[t].msg = emitted + 1 /\ spool = <<>>
         \/ \E w \in Workers : /\ DrainLoop(w) /\ 1 \in DOMAIN spool
                               /\ thread'[t].msg = spool[1]
<1>1. CASE ~Takes
  <2>1. Calm
    BY <1>1, CalmSteps DEF ToolSide
  <2> QED BY <2>1 DEF Calm, Threads
<1>2. ASSUME NEW s \in Senders, Emit(s)
      PROVE  \/ thread[t].pc \in Sent /\ thread'[t].msg = thread[t].msg
             \/ thread'[t].msg = emitted + 1 /\ spool = <<>>
  <2>1. /\ \A u \in Threads \ {s} : thread'[u] = thread[u]
        /\ thread'[s].msg = emitted + 1
        /\ thread'[s].pc = IF MustSpool THEN "queue" ELSE "send"
    BY <1>2, EmitDoes
  <2>2. CASE t = s
    BY <2>1, <2>2 DEF MustSpool, Sent
  <2> QED BY <2>1, <2>2
<1>3. ASSUME NEW s \in Senders, Queue(s) \/ Abandon(s)
      PROVE  thread[t].pc \in Sent /\ thread'[t].msg = thread[t].msg
  <2>1. thread' = Rests(s, "idle") /\ s \in Threads
    BY <1>3 DEF Queue, Abandon, Threads
  <2>2. thread'[s].pc = "idle" /\ \A u \in Threads \ {s} : thread'[u] = thread[u]
    BY <2>1, ThreadMoves DEF Pcs
  <2> QED BY <2>2 DEF Sent
<1>4. ASSUME NEW w \in Workers, DrainLoop(w)
      PROVE  \/ thread[t].pc \in Sent /\ thread'[t].msg = thread[t].msg
             \/ 1 \in DOMAIN spool /\ thread'[t].msg = spool[1]
  <2>1. /\ \A u \in Threads \ {w} : thread'[u] = thread[u]
        /\ \/ 1 \in DOMAIN spool /\ thread'[w].msg = spool[1]
           \/ thread'[w].pc = "leaving"
    BY <1>4, DrainLoopDoes
  <2> QED BY <2>1 DEF Sent
<1>5. ASSUME NEW w \in Workers, DrainNext(w)
      PROVE  thread[t].pc \in Sent /\ thread'[t].msg = thread[t].msg
  <2>1. thread' = Rests(w, "loop") /\ w \in Threads
    BY <1>5 DEF DrainNext, Threads
  <2>2. thread'[w].pc = "loop" /\ \A u \in Threads \ {w} : thread'[u] = thread[u]
    BY <2>1, ThreadMoves DEF Pcs
  <2> QED BY <2>2 DEF Sent
<1>6. ASSUME NEW h \in Hosts, Answer(h)
      PROVE  thread[t].pc \in Sent /\ thread'[t].msg = thread[t].msg
  <2>1. \/ thread'[t] = thread[t]
        \/ thread[t].pc = "wait" /\ thread'[t].pc = "idle"
        \/ thread[t].pc = "wait" /\ thread'[t].msg = thread[t].msg
    BY <1>6, AnswerDoes
  <2> QED BY <2>1 DEF Sent
<1> QED BY <1>1, <1>2, <1>3, <1>4, <1>5, <1>6 DEF Takes

LEMMA UnderEmitted ==
  ASSUME TypeOK, ToolSide, HostsHold, JournalHolds, NEW n, Under(n)
  PROVE  n \in Emitted
<1>1. Stored(n) => n \in Emitted
  BY DEF Stored, JournalHolds
<1>2. \A t \in Threads : thread[t].pc \in Sent => thread[t].msg \in Emitted
  BY InHandEmitted DEF ToolSide
<1>3. \A h \in Hosts : /\ host[h].pc # "idle" => host[h].msg \in Emitted
                       /\ \A i \in DOMAIN inbox[h] : inbox[h][i].msg \in Emitted
  BY DEF HostsHold
<1> QED BY <1>1, <1>2, <1>3 DEF Under

LEMMA UnderStep ==
  ASSUME TypeOK, ToolSide, Waking, HostsHold, [Next]_vars, NEW n, Under(n)'
  PROVE  \/ Under(n)
         \/ \E s \in Senders : Emit(s) /\ n = emitted + 1 /\ spool = <<>>
         \/ \E w \in Workers : DrainLoop(w) /\ 1 \in DOMAIN spool /\ n = spool[1]
<1>1. CASE Stored(n)'
  <2>1. CASE UNCHANGED journal
    BY <1>1, <2>1 DEF Stored, Under
  <2>2. CASE ~UNCHANGED journal
    <3>1. PICK h \in Hosts :
            /\ host[h].pc = "storing"
            /\ Len(journal) \in Nat /\ DOMAIN journal = 1..Len(journal)
            /\ DOMAIN journal' = 1..(Len(journal) + 1)
            /\ \A i \in 1..Len(journal) : journal'[i] = journal[i]
            /\ journal'[Len(journal) + 1] = [msg |-> host[h].msg, gen |-> host[h].gen]
      BY <2>2, JournalSteps
    <3>2. PICK i \in DOMAIN journal' : journal'[i].msg = n
      BY <1>1 DEF Stored
    <3>3. CASE i \in DOMAIN journal
      BY <3>1, <3>2, <3>3 DEF Stored, Under
    <3>4. CASE i = Len(journal) + 1
      BY <3>1, <3>2, <3>4 DEF Under
    <3> QED BY <3>1, <3>3, <3>4
  <2> QED BY <2>1, <2>2
<1>2. ASSUME NEW t \in Threads, thread'[t].msg = n, thread'[t].pc \in Sent
      PROVE  \/ Under(n)
             \/ \E s \in Senders : Emit(s) /\ n = emitted + 1 /\ spool = <<>>
             \/ \E w \in Workers : DrainLoop(w) /\ 1 \in DOMAIN spool /\ n = spool[1]
  <2>1. thread[t].pc \in Sent /\ thread[t].msg = n => Under(n)
    BY DEF Under
  <2> QED BY <1>2, <2>1, ThreadsTake
<1>3. ASSUME NEW h \in Hosts, host'[h].msg = n, host'[h].pc # "idle"
      PROVE  Under(n)
  BY <1>3, HandlersTake DEF Under
<1>4. ASSUME NEW h \in Hosts, NEW i \in DOMAIN inbox'[h], inbox'[h][i].msg = n
      PROVE  Under(n)
  BY <1>4, QueuesTake DEF Under, Sent
<1> QED BY <1>1, <1>2, <1>3, <1>4 DEF Under

LEMMA OneAfterAnotherStep ==
  ASSUME TypeOK, ToolSide, Waking, HostsHold, JournalHolds, OneAfterAnother, [Next]_vars
  PROVE  OneAfterAnother'
<1> SUFFICES ASSUME NEW m \in Emitted', NEW n \in Emitted', m < n, by'[m] = by'[n], Under(n)'
             PROVE  Settled(m)'
  BY DEF OneAfterAnother
<1>a. emitted \in Nat /\ Emitted = 1..emitted
  BY DEF TypeOK, Emitted
<1>s. Settled(m) => Settled(m)'
  BY SettledStays
<1>1. CASE Under(n)
  <2>1. n \in Emitted
    BY <1>1, UnderEmitted
  <2>2. m \in Emitted
    BY <2>1, <1>a, Emitting
  <2>3. by[m] = by[n]
    BY <2>1, <2>2, Emitting
  <2> QED BY <1>1, <1>s, <2>1, <2>2, <2>3 DEF OneAfterAnother
<1>2. ASSUME NEW s \in Senders, Emit(s), n = emitted + 1, spool = <<>>
      PROVE  Settled(m)
  <2>1. m \in Emitted
    BY <1>2, <1>a, Emitting
  <2>2. by[m] = s /\ thread[s].pc = "idle"
    BY <1>2, <2>1, EmitDoes
  <2>3. ~Held(m)
    <3>1. SUFFICES ASSUME NEW t \in Senders, thread[t].msg = m PROVE FALSE
      BY DEF Held
    <3>2. m # NoMsg
      BY <2>1 DEF Emitted, NoMsg
    <3>3. t = s
      BY <2>2, <3>1, <3>2 DEF ToolSide, SendersInOrder
    <3> QED BY <2>2, <3>1, <3>2, <3>3 DEF ToolSide, SendersInOrder
  <2>4. ~InSpool(m)
    BY <1>2 DEF InSpool
  <2> QED BY <2>1, <2>3, <2>4 DEF ToolSide, Accounted
<1>3. ASSUME NEW w \in Workers, DrainLoop(w), 1 \in DOMAIN spool, n = spool[1]
      PROVE  Settled(m)
  <2>1. n \in Emitted
    BY <1>3 DEF ToolSide, SpoolInOrder
  <2>2. m \in Emitted
    BY <2>1, <1>a, Emitting
  <2>3. by[m] = by[n]
    BY <2>1, <2>2, Emitting
  <2>4. m \in Nat /\ n \in Nat
    BY <1>a, <2>1, <2>2
  <2>5. ~Held(m)
    <3>1. SUFFICES ASSUME NEW t \in Senders, thread[t].msg = m PROVE FALSE
      BY DEF Held
    <3>2. m # NoMsg
      BY <2>2 DEF Emitted, NoMsg
    <3>3. n <= m
      BY <2>1, <2>3, <3>1, <3>2 DEF ToolSide, SendersInOrder
    <3> QED BY <2>4, <3>3
  <2>6. ~InSpool(m)
    <3>1. SUFFICES ASSUME NEW k \in DOMAIN spool, spool[k] = m PROVE FALSE
      BY DEF InSpool
    <3>2. k \in Nat /\ k >= 1 /\ k # 1
      BY <1>3, <2>4, <3>1, LenProperties DEF TypeOK
    <3>3. n < m
      BY <1>3, <2>3, <3>1, <3>2 DEF ToolSide, SpoolInOrder
    <3> QED BY <2>4, <3>3
  <2> QED BY <2>2, <2>5, <2>6 DEF ToolSide, Accounted
<1> QED BY <1>1, <1>2, <1>3, <1>s, UnderStep

-----------------------------------------------------------------------------
(* The rows of the journal                                                 *)

(* The first row that satisfies P, as FirstRow chooses it.                 *)
LEMMA FirstOf ==
  ASSUME NEW J, NEW len \in Nat, DOMAIN J = 1..len, NEW m,
         \E i \in DOMAIN J : J[i].msg = m
  PROVE  LET f == CHOOSE i \in DOMAIN J :
                    J[i].msg = m /\ \A j \in 1..(i - 1) : J[j].msg # m
         IN  /\ f \in DOMAIN J /\ J[f].msg = m
             /\ \A i \in DOMAIN J : J[i].msg = m => f <= i
<1> DEFINE Rows == {i \in DOMAIN J : J[i].msg = m}
           IsFirst(i) == J[i].msg = m /\ \A j \in 1..(i - 1) : J[j].msg # m
           f == CHOOSE i \in DOMAIN J : IsFirst(i)
<1>1. Rows \subseteq Nat /\ Rows # {}
  OBVIOUS
<1>2. PICK x \in Rows : \A y \in Rows : x <= y
  <2> HIDE DEF Rows
  <2> QED BY <1>1, Smallest
<1>3. x \in DOMAIN J /\ IsFirst(x)
  <2>1. ASSUME NEW j \in 1..(x - 1), J[j].msg = m PROVE FALSE
    <3>1. j \in Rows
      BY <2>1
    <3> QED BY <1>1, <1>2, <2>1, <3>1
  <2> QED BY <1>2, <2>1
<1>4. f \in DOMAIN J /\ IsFirst(f)
  <2> HIDE DEF IsFirst
  <2> QED BY <1>3
<1>5. ASSUME NEW i \in DOMAIN J, J[i].msg = m PROVE f <= i
  <2> HIDE DEF f
  <2> QED BY <1>4, <1>5
<1> QED BY <1>4, <1>5

LEMMA FirstRowIs ==
  ASSUME TypeOK, NEW m, Stored(m)
  PROVE  /\ FirstRow(m) \in DOMAIN journal /\ journal[FirstRow(m)].msg = m
         /\ \A i \in DOMAIN journal : journal[i].msg = m => FirstRow(m) <= i
<1>1. Len(journal) \in Nat /\ DOMAIN journal = 1..Len(journal)
  BY LenProperties DEF TypeOK
<1> QED BY <1>1, FirstOf DEF Stored, FirstRow

(* The newest row of a message, and what journal.append compares with it.  *)
LEMMA LatestIs ==
  ASSUME TypeOK, NEW m, Stored(m)
  PROVE  /\ Latest(m) \in DOMAIN journal /\ journal[Latest(m)].msg = m
         /\ \A i \in DOMAIN journal : journal[i].msg = m => i <= Latest(m)
<1> DEFINE IsLatest(i) == /\ journal[i].msg = m
                           /\ \A j \in DOMAIN journal : journal[j].msg = m => j <= i
           Above == {Len(journal) - i : i \in {j \in DOMAIN journal : journal[j].msg = m}}
<1>1. Len(journal) \in Nat /\ DOMAIN journal = 1..Len(journal)
  BY LenProperties DEF TypeOK
<1>2. Above \subseteq Nat /\ Above # {}
  BY <1>1 DEF Stored
<1>3. PICK a \in Above : \A b \in Above : a <= b
  <2> HIDE DEF Above
  <2> QED BY <1>2, Smallest
<1>4. PICK x \in DOMAIN journal : journal[x].msg = m /\ a = Len(journal) - x
  BY <1>3
<1>5. IsLatest(x)
  <2>1. ASSUME NEW j \in DOMAIN journal, journal[j].msg = m PROVE j <= x
    <3>1. Len(journal) - j \in Above
      BY <2>1
    <3>2. a <= Len(journal) - j
      BY <1>3, <3>1
    <3> QED BY <1>1, <1>4, <3>2
  <2> QED BY <1>4, <2>1
<1>6. Latest(m) = CHOOSE i \in DOMAIN journal : IsLatest(i)
  BY DEF Latest
<1>7. Latest(m) \in DOMAIN journal /\ IsLatest(Latest(m))
  <2> HIDE DEF IsLatest
  <2> QED BY <1>4, <1>5, <1>6
<1> QED BY <1>7

(* A row that is added is the first one of a message only where there was  *)
(* none.                                                                   *)
LEMMA FirstRowStays ==
  ASSUME TypeOK, TypeOK', HostsHold, [Next]_vars, NEW m, Stored(m)'
  PROVE  IF Stored(m)
         THEN FirstRow(m)' = FirstRow(m) /\ FirstRow(m) \in 1..Len(journal)
         ELSE /\ FirstRow(m)' = Len(journal) + 1
              /\ \E h \in Hosts : host[h].pc = "storing" /\ host[h].msg = m
<1>0. Len(journal) \in Nat /\ DOMAIN journal = 1..Len(journal)
  BY LenProperties DEF TypeOK
<1>1. CASE UNCHANGED journal
  <2>1. Stored(m) /\ FirstRow(m)' = FirstRow(m)
    BY <1>1 DEF Stored, FirstRow
  <2> QED BY <1>0, <2>1, FirstRowIs
<1>2. CASE ~UNCHANGED journal
  <2>1. PICK h \in Hosts :
          /\ host[h].pc = "storing"
          /\ DOMAIN journal' = 1..(Len(journal) + 1)
          /\ \A i \in 1..Len(journal) : journal'[i] = journal[i]
          /\ journal'[Len(journal) + 1] = [msg |-> host[h].msg, gen |-> host[h].gen]
    BY <1>2, JournalSteps
  <2>2. PICK f : f = FirstRow(m)'
    OBVIOUS
  <2>3. /\ f \in DOMAIN journal' /\ journal'[f].msg = m
        /\ \A i \in DOMAIN journal' : journal'[i].msg = m => f <= i
    <3>1. /\ f = CHOOSE i \in DOMAIN journal' :
                   journal'[i].msg = m /\ \A j \in 1..(i - 1) : journal'[j].msg # m
          /\ \E i \in DOMAIN journal' : journal'[i].msg = m
      BY <2>2 DEF FirstRow, Stored
    <3>2. Len(journal) + 1 \in Nat
      BY <1>0
    <3> QED BY <2>1, <3>1, <3>2, FirstOf
  <2>4. CASE Stored(m)
    <3>1. /\ FirstRow(m) \in 1..Len(journal) /\ journal[FirstRow(m)].msg = m
          /\ \A i \in DOMAIN journal : journal[i].msg = m => FirstRow(m) <= i
      BY <1>0, <2>4, FirstRowIs
    <3>2. f <= FirstRow(m)
      BY <1>0, <2>1, <2>3, <3>1
    <3>3. f \in 1..Len(journal)
      BY <1>0, <2>1, <2>3, <3>1, <3>2
    <3>4. FirstRow(m) <= f
      BY <1>0, <2>1, <2>3, <3>1, <3>3
    <3> QED BY <1>0, <2>2, <2>4, <3>1, <3>2, <3>3, <3>4
  <2>5. CASE ~Stored(m)
    <3>1. \A i \in 1..Len(journal) : journal'[i].msg # m
      BY <1>0, <2>1, <2>5 DEF Stored
    <3>2. f = Len(journal) + 1
      BY <1>0, <2>1, <2>3, <3>1
    <3> QED BY <2>1, <2>2, <2>3, <2>5, <3>2
  <2> QED BY <2>4, <2>5
<1> QED BY <1>1, <1>2

LEMMA OrderedStep ==
  ASSUME TypeOK, TypeOK', ToolSide, HostsHold, JournalHolds, OneAfterAnother, Ordered,
         [Next]_vars
  PROVE  Ordered'
<1> SUFFICES ASSUME NEW m \in Emitted', NEW n \in Emitted', m \notin Excused', n \notin Excused',
                    m < n, by'[m] = by'[n], Stored(m)', Stored(n)'
             PROVE  (FirstRow(m) < FirstRow(n))'
  BY DEF Ordered, Emitted
<1>1. m \notin Excused /\ n \notin Excused
  BY Frozen
<1>2. ASSUME NEW k, Stored(k)'
      PROVE  IF Stored(k)
             THEN FirstRow(k)' = FirstRow(k) /\ FirstRow(k) \in 1..Len(journal)
             ELSE /\ FirstRow(k)' = Len(journal) + 1
                  /\ \E h \in Hosts : host[h].pc = "storing" /\ host[h].msg = k
  BY <1>2, FirstRowStays
<1>3. ASSUME NEW k, Stored(k)' PROVE k \in Emitted
  <2>1. CASE Stored(k)
    BY <2>1 DEF Stored, JournalHolds
  <2>2. CASE ~Stored(k)
    <3>1. PICK h \in Hosts : host[h].pc = "storing" /\ host[h].msg = k
      BY <1>2, <1>3, <2>2
    <3> QED BY <3>1 DEF HostsHold
  <2> QED BY <2>1, <2>2
<1>4. m \in Emitted /\ n \in Emitted /\ by[m] = by[n]
  BY <1>3, Emitting
<1>5. Len(journal) \in Nat
  BY LenProperties DEF TypeOK
<1>6. CASE Stored(m) /\ Stored(n)
  <2>1. FirstRow(m) < FirstRow(n)
    BY <1>1, <1>4, <1>6 DEF Ordered, Emitted
  <2> QED BY <1>2, <1>6, <2>1
<1>7. CASE Stored(m) /\ ~Stored(n)
  BY <1>2, <1>5, <1>7
<1>8. CASE ~Stored(m)
  <2>1. PICK h \in Hosts : host[h].pc = "storing" /\ host[h].msg = m
    BY <1>2, <1>8
  <2>2. Under(n)
    <3>1. CASE Stored(n)
      BY <3>1 DEF Under
    <3>2. CASE ~Stored(n)
      BY <1>2, <3>2 DEF Under
    <3> QED BY <3>1, <3>2
  <2>3. Settled(m)
    BY <1>4, <2>2 DEF OneAfterAnother
  <2> QED BY <1>1, <1>8, <2>3 DEF Settled
<1> QED BY <1>6, <1>7, <1>8

LEMMA RepeatsRecognisedStep ==
  ASSUME TypeOK, HostsHold, JournalHolds, RepeatsRecognised, [Next]_vars
  PROVE  RepeatsRecognised'
<1>0. Len(journal) \in Nat /\ DOMAIN journal = 1..Len(journal)
  BY LenProperties DEF TypeOK
<1>k. keeping' = keeping
  BY Frozen
<1>a. aged \subseteq aged'
  <2>1. \/ UNCHANGED aged
        \/ aged' = {i \in DOMAIN journal : journal[i].gen < last}
    BY Frame DEF Age
  <2> QED BY <2>1 DEF JournalHolds
<1>1. CASE UNCHANGED journal
  BY <1>1, <1>a, <1>k DEF RepeatsRecognised
<1>2. CASE ~UNCHANGED journal
  <2>1. PICK h \in Hosts :
          /\ ~Repeats(host[h].msg, host[h].gen)
          /\ DOMAIN journal' = 1..(Len(journal) + 1)
          /\ \A i \in 1..Len(journal) : journal'[i] = journal[i]
          /\ journal'[Len(journal) + 1] = [msg |-> host[h].msg, gen |-> host[h].gen]
    BY <1>2, JournalSteps
  <2> SUFFICES ASSUME NEW i \in DOMAIN journal', NEW j \in DOMAIN journal',
                      keeping, i < j, journal'[i].msg = journal'[j].msg
               PROVE  /\ i \in aged'
                      /\ \/ journal'[i].gen # journal'[j].gen
                         \/ \E k \in (i + 1)..(j - 1) : journal'[k].msg = journal'[i].msg
    BY <1>k DEF RepeatsRecognised
  <2>2. i \in DOMAIN journal /\ journal'[i] = journal[i]
    BY <1>0, <2>1
  <2>3. CASE j \in DOMAIN journal
    <3>1. journal'[j] = journal[j]
      BY <1>0, <2>1, <2>3
    <3>2. /\ i \in aged
          /\ \/ journal[i].gen # journal[j].gen
             \/ \E k \in (i + 1)..(j - 1) : journal[k].msg = journal[i].msg
      BY <2>2, <2>3, <3>1 DEF RepeatsRecognised
    <3>3. \A k \in (i + 1)..(j - 1) : journal'[k] = journal[k]
      BY <1>0, <2>1, <2>2, <2>3
    <3> QED BY <1>a, <2>2, <3>1, <3>2, <3>3
  <2>4. CASE j = Len(journal) + 1
    <3> DEFINE q == host[h].msg
               l == Latest(q)
    <3>1. journal[i].msg = q /\ Stored(q) /\ journal'[j].gen = host[h].gen
      BY <2>1, <2>2, <2>4 DEF Stored
    <3>2. journal[l].gen # host[h].gen /\ l \in aged
      BY <2>1, <3>1 DEF Repeats
    <3>3. l \in DOMAIN journal /\ journal[l].msg = q /\ i <= l
      BY <2>2, <3>1, LatestIs
    <3> HIDE DEF l, q
    <3>4. CASE i = l
      BY <1>a, <2>2, <3>1, <3>2, <3>4
    <3>5. CASE i # l
      <4>1. i < l /\ l \in (i + 1)..(j - 1) /\ journal'[l] = journal[l]
        BY <1>0, <2>1, <2>2, <2>4, <3>3, <3>5
      <4>2. i \in aged
        BY <2>2, <3>1, <3>3, <4>1 DEF RepeatsRecognised
      <4> QED BY <1>a, <2>2, <3>1, <3>3, <4>1, <4>2
    <3> QED BY <3>4, <3>5
  <2> QED BY <1>0, <2>1, <2>3, <2>4
<1> QED BY <1>1, <1>2

-----------------------------------------------------------------------------
(* The invariant                                                           *)

LEMMA LinkInit == Init => LinkInv
<1> SUFFICES ASSUME Init PROVE LinkInv
  OBVIOUS
<1>1. TypeOK
  BY TypeInit
<1>2. /\ Emitted = {} /\ DOMAIN spool = {} /\ DOMAIN journal = {} /\ aged = {}
      /\ \A h \in Hosts : DOMAIN inbox[h] = {}
  BY EmptySeq DEF Init, Emitted
<1>3. \A h \in Hosts : host[h].pc = "idle"
  BY DEF Init, NewHost
<1>4. /\ \A s \in Senders : thread[s].pc = "idle" /\ thread[s].msg = NoMsg
      /\ \A w \in Workers : thread[w].pc = "off" /\ thread[w].msg = NoMsg
      /\ \A c \in Callers : waking[c] = "no"
  BY LinkAssumption DEF Init, Threads
<1>5. SendersInOrder
  BY <1>2, <1>4 DEF SendersInOrder
<1>6. WorkersHold
  BY <1>4 DEF WorkersHold, Sent
<1>7. Waking
  BY <1>4, LinkAssumption DEF Waking
<1>8. SpoolInOrder /\ HostsHold /\ JournalHolds
  BY <1>2, <1>3 DEF SpoolInOrder, HostsHold, JournalHolds
<1>9. Accounted /\ OneAfterAnother /\ Ordered /\ RepeatsRecognised
  BY <1>2 DEF Accounted, OneAfterAnother, Ordered, RepeatsRecognised, Emitted
<1> QED BY <1>1, <1>5, <1>6, <1>7, <1>8, <1>9 DEF LinkInv

LEMMA LinkStep == LinkInv /\ [Next]_vars => LinkInv'
<1> SUFFICES ASSUME LinkInv, [Next]_vars PROVE LinkInv'
  OBVIOUS
<1>1. /\ TypeOK /\ ToolSide /\ Waking /\ HostsHold /\ JournalHolds
      /\ OneAfterAnother /\ Ordered /\ RepeatsRecognised
  BY DEF LinkInv, ToolSide
<1>2. TypeOK'
  BY <1>1, TypeStep DEF ToolSide
<1>3. ToolSide'
  BY <1>1, ToolSideStep
<1>4. Waking' /\ HostsHold' /\ JournalHolds'
  BY <1>1, WakingStep, HostsHoldStep, JournalHoldsStep
<1>5. OneAfterAnother'
  BY <1>1, OneAfterAnotherStep
<1>6. Ordered'
  BY <1>1, <1>2, OrderedStep
<1>7. RepeatsRecognised'
  BY <1>1, RepeatsRecognisedStep
<1> QED BY <1>2, <1>3, <1>4, <1>5, <1>6, <1>7 DEF LinkInv, ToolSide

LEMMA LinkAlways == Spec => []LinkInv
<1>1. Init => LinkInv
  BY LinkInit
<1>2. LinkInv /\ [Next]_vars => LinkInv'
  BY LinkStep
<1> QED BY <1>1, <1>2, PTL DEF Spec

(* Every variable of the link keeps to its type: no queue of the tool      *)
(* outgrows its limit, and no handler is about a message that was never    *)
(* emitted.                                                                *)
THEOREM LinkTypes == Spec => []TypeOK
<1>1. LinkInv => TypeOK
  BY DEF LinkInv
<1> QED BY <1>1, LinkAlways, PTL

(* An event the tool emitted is stored, spooled or in a sender's hand      *)
(* unless one of the four excuses of Excused holds for it: the drain pops  *)
(* what was answered and nothing else (simulator/equipment.py:733).        *)
THEOREM LinkLosesNothing == Spec => []NothingLost
<1>1. LinkInv => NothingLost
  <2> SUFFICES ASSUME LinkInv, NEW m \in Emitted
               PROVE  \/ Stored(m) \/ InHand(m)
                      \/ \E i \in DOMAIN spool : spool[i] = m
                      \/ m \in Excused
    BY DEF NothingLost, Emitted
  <2>1. Held(m) \/ InSpool(m) \/ Settled(m)
    BY DEF LinkInv, Accounted
  <2>2. CASE Held(m)
    <3>1. PICK s \in Senders : thread[s].msg = m
      BY <2>2 DEF Held
    <3>2. m # NoMsg
      BY DEF Emitted, NoMsg
    <3>3. thread[s].pc \in {"send", "wait", "released", "queue"}
      BY <3>1, <3>2 DEF LinkInv, SendersInOrder
    <3> QED BY <3>1, <3>3 DEF InHand, Threads
  <2> QED BY <2>1, <2>2 DEF InSpool, Settled
<1> QED BY <1>1, LinkAlways, PTL

(* The events of one thread of the tool reach the journal in the order in  *)
(* which it emitted them, whatever the number of hosts, drain workers and  *)
(* failures in between (simulator/equipment.py:683).                       *)
THEOREM LinkKeepsOrder == Spec => []Ordered
<1>1. LinkInv => Ordered
  BY DEF LinkInv
<1> QED BY <1>1, LinkAlways, PTL

(* A host that is not being retired answers ACKC6=0 only for a message     *)
(* that is in the journal (gateway/host.py:328).                           *)
THEOREM AckMeansStored == Spec => []AckedIsStored
<1>1. LinkInv => AckedIsStored
  BY DEF LinkInv, HostsHold, AckedIsStored
<1> QED BY <1>1, LinkAlways, PTL

(* A second row of a message whose system bytes are kept appears only      *)
(* after the window, and in another generation than the row before it      *)
(* (journal.py:334).                                                       *)
THEOREM RepeatsAreRecognised == Spec => []RepeatsRecognised
<1>1. LinkInv => RepeatsRecognised
  BY DEF LinkInv
<1> QED BY <1>1, LinkAlways, PTL
=============================================================================
