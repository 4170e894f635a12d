------------------------ MODULE Subscription_proofs -------------------------
(* The subscription of a tool for every number of bands, workers, attempts, *)
(* sessions and lost connections: what a host lists as accepted reports,    *)
(* a worker whose session is over sends nothing, and nothing is deleted     *)
(* once a band was accepted.                                                *)
EXTENDS Subscription, SequenceTheorems, TLAPS

ResetOps == {"disable all", "unlink all", "undefine all"}
BandOps == {"define", "delete", "redefine", "link", "enable"}

(* In a round trip with the tool.                                           *)
Asks(r, O) == r.pc \in {"waiting", "answered"} /\ r.op \in O

(* What a worker's record says by itself: it has the host of its own        *)
(* session, and has judged only the bands before the one it is at.          *)
Good(r) ==
  /\ r.pc # "off" => r.epoch # 0
  /\ r.pc \notin {"off", "begin"} => r.host = r.epoch
  /\ r.pc \in {"begin", "waiting"} => r.ack = NoAnswer
  /\ r.pc = "begin" => r.op = "online"
  /\ \A b \in Bands : b >= r.band => r.results[b] = "untried"
  /\ r.pc \in {"begin", "attempt"} \/ Asks(r, {"online"} \cup ResetOps) => r.band = 1
  /\ Asks(r, ResetOps) => r.attempt = 1
  /\ Asks(r, BandOps) => r.band \in Bands
  /\ r.pc = "pausing" => r.attempt < MaxAttempts

Records == \A w \in Workers : Good(worker[w]) /\ worker[w].epoch <= epoch

Current(w) == Active(w) /\ worker[w].epoch = epoch

(* A message that has a sender is the only one of his; he is of the         *)
(* connection, waits for the answer and asked just that.                    *)
Asked ==
  /\ ~stopped => epoch # 0
  /\ up => ~stopped
  /\ \A i \in DOMAIN wire : wire[i].op \in BandOps => wire[i].band \in Bands
  /\ \A w \in Workers : \A i, j \in DOMAIN wire :
       wire[i].from = w /\ wire[j].from = w => i = j
  /\ \A w \in Workers : \A i \in DOMAIN wire : wire[i].from = w =>
       /\ up /\ Current(w) /\ worker[w].pc = "waiting"
       /\ worker[w].op = wire[i].op /\ worker[w].band = wire[i].band

(* While no two workers share a connection, the message that waits for its  *)
(* answer is the last.                                                      *)
Alone == \A y, z \in Workers : Current(y) /\ Current(z) => y = z
Newest == \A i \in DOMAIN wire : wire[i].from # NoWorker => i = Len(wire)

(* The band reports, and nothing under way can change that.                 *)
Safe(b) ==
  /\ Reporting(b)
  /\ \A i \in DOMAIN wire : wire[i].op \notin ResetOps
                            /\ (wire[i].band = b => wire[i].op \notin BandOps)

(* The worker changes the tool, and has not yet told its host.              *)
Busy(r) == r.pc = "band" \/ Asks(r, BandOps \cup ResetOps)

(* What the worker knows of the band it is at.                              *)
Linkable(b) == b \notin refuses /\ report[b] = "ours"
Progress(w) ==
  LET r == worker[w]
  IN  /\ r.pc = "answered" /\ r.ack # NoAnswer => wire = <<>>
      /\ r.pc = "answered" /\ r.ack = 0 =>
           /\ r.op \in {"define", "redefine", "link", "enable"} => Linkable(r.band)
           /\ r.op \in {"link", "enable"} => r.band \in linked
           /\ r.op = "enable" => r.band \in enabled
      /\ r.pc = "waiting" /\ Pending(w) /\ r.op \in {"link", "enable"} =>
           /\ Len(wire) = 1 /\ Linkable(r.band)
           /\ r.op = "enable" => r.band \in linked

Kept(w) == \A b \in Bands : worker[w].results[b] = "accepted" => Safe(b)
Listed == (\A w \in Workers : Current(w) => ~Busy(worker[w]))
            => \A b \in Bands : results[b] = "accepted" => Safe(b)

Subscribed ==
  ~crowded => /\ Alone /\ Newest /\ Listed
              /\ \A w \in Workers : Current(w) => Progress(w) /\ Kept(w)

SubInv == TypeOK /\ Records /\ Asked /\ Subscribed

-----------------------------------------------------------------------------
(* Sequences of messages.                                                   *)

LEMMA Appended ==
  ASSUME NEW S, NEW q \in Seq(S), NEW m \in S
  PROVE  /\ Append(q, m) \in Seq(S) /\ Len(Append(q, m)) = Len(q) + 1
         /\ DOMAIN Append(q, m) = 1..(Len(q) + 1) /\ DOMAIN q = 1..Len(q)
         /\ Len(q) \in Nat
         /\ \A i \in DOMAIN q : Append(q, m)[i] = q[i]
         /\ Append(q, m)[Len(q) + 1] = m
BY AppendProperties

LEMMA Shortened ==
  ASSUME NEW S, NEW q \in Seq(S), q # <<>>
  PROVE  /\ Tail(q) \in Seq(S) /\ Len(Tail(q)) = Len(q) - 1 /\ Head(q) \in S
         /\ Head(q) = q[1] /\ Len(q) \in Nat \ {0} /\ DOMAIN q = 1..Len(q)
         /\ DOMAIN Tail(q) = 1..(Len(q) - 1)
         /\ \A i \in DOMAIN Tail(q) : i + 1 \in DOMAIN q /\ Tail(q)[i] = q[i + 1]
<1>1. Len(q) \in Nat \ {0}
  BY EmptySeq
<1> QED
  BY <1>1, HeadTailProperties

LEMMA MessageIs ==
  ASSUME NEW op \in Ops, NEW b \in 1..(NBands + 1), NEW w \in Workers \cup {NoWorker}
  PROVE  [op |-> op, band |-> b, from |-> w] \in Message
BY DEF Message

(* Messages whose sender is gone stay, but for their sender.                *)
LEMMA ForgottenDoes ==
  ASSUME wire \in Seq(Message), NEW W
  PROVE  /\ Forgotten(W) \in Seq(Message) /\ DOMAIN Forgotten(W) = DOMAIN wire
         /\ Len(Forgotten(W)) = Len(wire)
         /\ \A i \in DOMAIN wire :
              /\ Forgotten(W)[i].op = wire[i].op
              /\ Forgotten(W)[i].band = wire[i].band
              /\ Forgotten(W)[i].from = IF wire[i].from \in W THEN NoWorker
                                        ELSE wire[i].from
<1>1. \A i \in DOMAIN wire : wire[i] \in Message
  OBVIOUS
<1>2. \A i \in DOMAIN wire :
        LET m == IF wire[i].from \in W THEN [wire[i] EXCEPT !.from = NoWorker]
                 ELSE wire[i]
        IN  /\ m \in Message /\ m.op = wire[i].op /\ m.band = wire[i].band
            /\ m.from = IF wire[i].from \in W THEN NoWorker ELSE wire[i].from
  BY <1>1 DEF Message
<1>3. DOMAIN Forgotten(W) = 1..Len(wire) /\ DOMAIN wire = 1..Len(wire) /\ Len(wire) \in Nat
  BY DEF Forgotten
<1>4. Forgotten(W) \in Seq(Message)
  BY <1>2, <1>3, SeqDef DEF Forgotten
<1>5. Len(Forgotten(W)) = Len(wire)
  BY <1>3, <1>4
<1> QED
  BY <1>2, <1>3, <1>4, <1>5 DEF Forgotten

-----------------------------------------------------------------------------
(* Steps of one worker.                                                     *)

LEMMA Senders ==
  ASSUME SubInv, NEW i \in DOMAIN wire, wire[i].from # NoWorker
  PROVE  wire[i].from \in Workers
<1>1. wire[i] \in Message
  BY DEF SubInv, TypeOK
<1> QED BY <1>1 DEF Message

LEMMA Unsent ==
  ASSUME SubInv, NEW w \in Workers, worker[w].pc # "waiting"
  PROVE  \A i \in DOMAIN wire : wire[i].from # w
BY SubscriptionAssumption DEF SubInv, Asked, SubscriptionAssumption

(* It sends nothing, and tells the host of its results, if anything.        *)
LEMMA Moves ==
  ASSUME SubInv, NEW w \in Workers, NEW r, r \in Worker, Good(r),
         Active(w), r.pc = "off" \/ r.epoch = worker[w].epoch,
         r.epoch <= epoch,
         \A i \in DOMAIN wire : wire[i].from # w,
         r.pc # "answered" \/ r.ack = NoAnswer,
         \A b \in Bands : r.results[b] = "accepted" =>
            worker[w].results[b] = "accepted" \/ (~crowded /\ Current(w) => Safe(b)),
         worker' = [worker EXCEPT ![w] = r],
         UNCHANGED <<setting, tool, wire, epoch, stopped, up, crowded, budget>>,
         \/ results' = results /\ (Busy(worker[w]) => Busy(r) /\ r.pc # "off")
         \/ /\ worker[w].pc = "band"
            /\ results' = IF worker[w].host = epoch THEN worker[w].results ELSE results
  PROVE  SubInv'
<1>1. worker'[w] = r /\ \A v \in Workers \ {w} : worker'[v] = worker[v]
  BY DEF SubInv, TypeOK
<1>2. TypeOK'
  <2>1. worker[w].results \in [Bands -> Verdicts] /\ worker' \in [Workers -> Worker]
    BY DEF SubInv, TypeOK, Worker
  <2>2. results' \in [Bands -> Verdicts]
    BY <2>1 DEF SubInv, TypeOK
  <2> QED BY <2>1, <2>2 DEF SubInv, TypeOK, setting, tool
<1>3. Records'
  BY <1>1 DEF SubInv, Records, Good, Asks
<1>4. \A v \in Workers : Current(v)' => Current(v)
  BY <1>1 DEF Current, Active
<1>5. \A v \in Workers \ {w} : Current(v)' = Current(v)
  BY <1>1 DEF Current, Active
<1>6. Asked'
  BY <1>1, <1>5 DEF SubInv, Asked
<1>7. \A b : Safe(b)' = Safe(b)
  BY DEF Safe, Reporting, setting, tool
<1>8. ASSUME ~crowded PROVE Alone' /\ Newest'
  BY <1>4, <1>8 DEF SubInv, Subscribed, Alone, Newest
<1>9. ASSUME ~crowded, NEW v \in Workers, Current(v)' PROVE Progress(v)' /\ Kept(v)'
  <2>1. CASE v = w
    <3>1. Progress(w)'
      BY <1>1 DEF Progress, Pending, NoAnswer, Good
    <3>2. Kept(w)'
      BY <1>1, <1>4, <1>7, <1>9, <2>1 DEF Kept, SubInv, Subscribed
    <3> QED BY <2>1, <3>1, <3>2
  <2>2. CASE v # w
    <3>1. Progress(v) /\ Kept(v)
      BY <1>4, <1>9 DEF SubInv, Subscribed
    <3> QED
      BY <1>1, <1>7, <2>2, <3>1 DEF Progress, Kept, Pending, Linkable, setting, tool
  <2> QED BY <2>1, <2>2
<1>10. ASSUME ~crowded PROVE Listed'
  <2>1. CASE results' = results /\ (Busy(worker[w]) => Busy(r) /\ r.pc # "off")
    <3>1. (\A v \in Workers : Current(v)' => ~Busy(worker'[v]))
            => \A v \in Workers : Current(v) => ~Busy(worker[v])
      <4> SUFFICES ASSUME \A v \in Workers : Current(v)' => ~Busy(worker'[v]),
                          NEW v \in Workers, Current(v), Busy(worker[v])
                   PROVE  FALSE
        OBVIOUS
      <4>1. CASE v = w
        BY <1>1, <2>1, <4>1 DEF Current, Active
      <4>2. CASE v # w
        BY <1>1, <1>5, <4>2
      <4> QED BY <4>1, <4>2
    <3> QED BY <1>7, <1>10, <2>1, <3>1 DEF SubInv, Subscribed, Listed
  <2>2. CASE /\ worker[w].pc = "band"
             /\ results' = IF worker[w].host = epoch THEN worker[w].results ELSE results
    <3>1. worker[w].host = worker[w].epoch
      BY <2>2 DEF SubInv, Records, Good
    <3>2. CASE worker[w].host = epoch
      <4>1. Kept(w)
        BY <1>10, <3>1, <3>2 DEF SubInv, Subscribed, Current
      <4> QED BY <1>7, <2>2, <3>2, <4>1 DEF Kept, Listed
    <3>3. CASE worker[w].host # epoch
      <4>1. ~Current(w) /\ results' = results
        BY <2>2, <3>1, <3>3 DEF Current
      <4>2. (\A v \in Workers : Current(v)' => ~Busy(worker'[v]))
              => \A v \in Workers : Current(v) => ~Busy(worker[v])
        BY <1>1, <1>5, <4>1
      <4> QED BY <1>7, <1>10, <4>1, <4>2 DEF SubInv, Subscribed, Listed
    <3> QED BY <3>2, <3>3
  <2> QED BY <2>1, <2>2
<1>11. Subscribed'
  BY <1>8, <1>9, <1>10 DEF Subscribed
<1> QED BY <1>2, <1>3, <1>6, <1>11 DEF SubInv

(* It sends a message, and only it has to do with the tool.                 *)
LEMMA Asking ==
  ASSUME SubInv, NEW w \in Workers, NEW op \in Ops, NEW r, r \in Worker, Good(r),
         Current(w), up, worker[w].pc # "waiting",
         r.pc = "waiting", r.op = op, r.epoch = epoch,
         r.results = worker[w].results, Busy(worker[w]) => Busy(r),
         op \in {"link", "enable"} /\ ~crowded =>
           wire = <<>> /\ Linkable(r.band) /\ (op = "enable" => r.band \in linked),
         worker' = [worker EXCEPT ![w] = r],
         wire' = Append(wire, [op |-> op, band |-> r.band, from |-> w]),
         UNCHANGED <<setting, tool, session, crowded, budget>>
  PROVE  SubInv'
<1> DEFINE m == [op |-> op, band |-> r.band, from |-> w]
<1>1. worker'[w] = r /\ \A v \in Workers \ {w} : worker'[v] = worker[v]
  BY DEF SubInv, TypeOK
<1>2. /\ m \in Message /\ m.op = op /\ m.band = r.band /\ m.from = w
      /\ wire' = Append(wire, m)
  BY MessageIs DEF Worker
<1> HIDE DEF m
<1>3. /\ wire' \in Seq(Message) /\ Len(wire') = Len(wire) + 1
      /\ DOMAIN wire' = 1..(Len(wire) + 1) /\ DOMAIN wire = 1..Len(wire)
      /\ Len(wire) \in Nat
      /\ \A i \in DOMAIN wire : wire'[i] = wire[i]
      /\ wire'[Len(wire) + 1] = m
  <2>1. wire \in Seq(Message)
    BY DEF SubInv, TypeOK
  <2> QED BY <1>2, <2>1, Appended
<1>4. TypeOK'
  <2>1. worker' \in [Workers -> Worker]
    BY DEF SubInv, TypeOK
  <2> QED BY <1>3, <2>1 DEF SubInv, TypeOK, setting, tool, session
<1>5. Records'
  <2>1. epoch \in Nat /\ epoch' = epoch
    BY DEF SubInv, TypeOK, Epochs, session
  <2> QED BY <1>1, <2>1 DEF SubInv, Records
<1>6. Current(w)' /\ \A v \in Workers \ {w} : Current(v)' = Current(v)
  BY <1>1 DEF Current, Active, session
<1>7. \A i \in DOMAIN wire : wire[i].from # w
  BY Unsent
<1>8. Asked'
  <2>1. ASSUME NEW v \in Workers, NEW i \in DOMAIN wire', wire'[i].from = v
        PROVE  /\ up' /\ Current(v)' /\ worker'[v].pc = "waiting"
               /\ worker'[v].op = wire'[i].op /\ worker'[v].band = wire'[i].band
    <3>1. CASE i = Len(wire) + 1
      <4>1. wire'[i] = m
        BY <1>3, <3>1
      <4>2. v = w
        BY <1>2, <2>1, <4>1
      <4> QED BY <1>1, <1>2, <1>6, <4>1, <4>2 DEF session
    <3>2. CASE i \in DOMAIN wire
      <4>1. wire'[i] = wire[i]
        BY <1>3, <3>2
      <4>2. v # w /\ wire[i].from = v
        BY <1>7, <2>1, <3>2, <4>1
      <4> QED
        BY <1>1, <1>6, <3>2, <4>1, <4>2 DEF SubInv, Asked, session
    <3> QED BY <1>3, <3>1, <3>2
  <2>2. \A v \in Workers : \A i, j \in DOMAIN wire' :
          wire'[i].from = v /\ wire'[j].from = v => i = j
    <3>1. \A v \in Workers : \A i, j \in DOMAIN wire :
            wire[i].from = v /\ wire[j].from = v => i = j
      BY DEF SubInv, Asked
    <3> QED BY <1>2, <1>3, <1>7, <3>1
  <2>3. \A i \in DOMAIN wire' : wire'[i].op \in BandOps => wire'[i].band \in Bands
    <3>1. op \in BandOps => r.band \in Bands
      BY DEF Good, Asks
    <3>2. \A i \in DOMAIN wire : wire[i].op \in BandOps => wire[i].band \in Bands
      BY DEF SubInv, Asked
    <3> QED BY <1>2, <1>3, <3>1, <3>2
  <2> QED BY <2>1, <2>2, <2>3 DEF SubInv, Asked, session
<1>9. ASSUME ~crowded PROVE Alone' /\ Newest'
  <2>1. Alone /\ Newest
    BY <1>9 DEF SubInv, Subscribed
  <2>2. Alone'
    BY <1>6, <2>1 DEF Alone
  <2>3. \A i \in DOMAIN wire : wire[i].from = NoWorker
    BY <1>7, <2>1, Senders DEF SubInv, Asked, Alone
  <2> QED BY <1>3, <2>2, <2>3 DEF Newest
<1>10. ASSUME NEW b \in Bands, Safe(b), op \notin ResetOps,
              b = r.band => op \notin BandOps
       PROVE  Safe(b)'
  <2>1. Reporting(b)'
    BY <1>10 DEF Safe, Reporting, setting, tool
  <2>2. \A i \in DOMAIN wire' : wire'[i].op \notin ResetOps
                                /\ (wire'[i].band = b => wire'[i].op \notin BandOps)
    BY <1>2, <1>3, <1>10 DEF Safe
  <2> QED BY <2>1, <2>2 DEF Safe
<1>11. ASSUME NEW b \in Bands, r.results[b] = "accepted"
       PROVE  op \notin ResetOps /\ (b = r.band => op \notin BandOps)
  <2>1. ~(b >= r.band)
    BY <1>11 DEF Good
  <2>2. b \in Nat /\ b >= 1 /\ r.band \in Int
    BY SubscriptionAssumption DEF Bands, Worker, SubscriptionAssumption
  <2> QED BY <2>1, <2>2 DEF Good, Asks
<1>12. ASSUME ~crowded, NEW v \in Workers, Current(v)' PROVE Progress(v)' /\ Kept(v)'
  <2>1. v = w
    BY <1>6, <1>9, <1>12 DEF Alone
  <2>2. Kept(w)
    BY <1>12 DEF SubInv, Subscribed
  <2>3. Kept(w)'
    BY <1>1, <1>10, <1>11, <2>2 DEF Kept
  <2>4. Progress(w)'
    <3>1. op \in {"link", "enable"} => Len(wire') = 1
      BY <1>3, <1>12
    <3> QED BY <1>1, <1>12, <3>1 DEF Progress, Linkable, setting, tool
  <2> QED BY <2>1, <2>3, <2>4
<1>13. ASSUME ~crowded PROVE Listed'
  <2>1. CASE Busy(r)
    BY <1>1, <1>6, <2>1 DEF Listed
  <2>2. CASE ~Busy(r)
    <3>1. op \notin ResetOps \cup BandOps
      BY <2>2 DEF Busy, Asks
    <3>2. Listed
      BY <1>13 DEF SubInv, Subscribed
    <3>3. (\A v \in Workers : Current(v)' => ~Busy(worker'[v]))
            => \A v \in Workers : Current(v) => ~Busy(worker[v])
      BY <1>1, <1>6, <2>2
    <3> QED BY <1>10, <3>1, <3>2, <3>3 DEF Listed, session
  <2> QED BY <2>1, <2>2
<1>14. Subscribed'
  BY <1>9, <1>12, <1>13 DEF Subscribed
<1> QED BY <1>4, <1>5, <1>8, <1>14 DEF SubInv

LEMMA SendsKeeps ==
  ASSUME SubInv, NEW w \in Workers, NEW op \in Ops \ {"online"},
         worker[w].pc \in {"attempt", "band", "answered", "finish"},
         Sends(worker[w], w, op),
         op \in BandOps => worker[w].band \in Bands,
         op \in ResetOps => worker[w].attempt = 1 /\ worker[w].band = 1,
         Busy(worker[w]) => op \in BandOps \cup ResetOps,
         op \in {"link", "enable"} /\ ~crowded /\ Current(w) =>
           /\ wire = <<>> /\ Linkable(worker[w].band)
           /\ op = "enable" => worker[w].band \in linked,
         UNCHANGED <<setting, tool, session, crowded, budget>>
  PROVE  SubInv'
<1>1. worker[w] \in Worker /\ Good(worker[w]) /\ worker[w].epoch <= epoch
  BY DEF SubInv, TypeOK, Records
<1>2. ASSUME NEW p \in {"waiting", "answered"}, NEW r,
             r = [worker[w] EXCEPT !.pc = p, !.op = op, !.ack = NoAnswer]
      PROVE  /\ r \in Worker /\ r.pc = p /\ r.op = op /\ r.ack = NoAnswer
             /\ r.epoch = worker[w].epoch /\ r.host = worker[w].host
             /\ r.attempt = worker[w].attempt /\ r.band = worker[w].band
             /\ r.results = worker[w].results
  BY <1>1, <1>2 DEF Worker, Acks
<1>3. ASSUME NEW p \in {"waiting", "answered"}, NEW r,
             r = [worker[w] EXCEPT !.pc = p, !.op = op, !.ack = NoAnswer]
      PROVE  Good(r) /\ (Busy(worker[w]) => Busy(r))
  <2>1. op # "online"
    OBVIOUS
  <2> QED BY <1>1, <1>2, <1>3, <2>1 DEF Good, Asks, Busy
<1>4. CASE up /\ ~stopped /\ worker[w].host = epoch
  <2>1. PICK r : /\ r = [worker[w] EXCEPT !.pc = "waiting", !.op = op, !.ack = NoAnswer]
                 /\ worker' = [worker EXCEPT ![w] = r]
                 /\ wire' = Append(wire, [op |-> op, band |-> worker[w].band, from |-> w])
    BY <1>4 DEF Sends, HostOf
  <2>2. /\ r \in Worker /\ r.pc = "waiting" /\ r.op = op
        /\ r.epoch = worker[w].epoch /\ r.band = worker[w].band
        /\ r.results = worker[w].results
    BY <1>2, <2>1
  <2>3. Good(r) /\ (Busy(worker[w]) => Busy(r))
    BY <1>3, <2>1
  <2>4. Current(w)
    BY <1>1, <1>4 DEF Good, Current, Active
  <2>5. worker[w].epoch = epoch
    BY <2>4 DEF Current
  <2> QED BY <1>4, <2>1, <2>2, <2>3, <2>4, <2>5, Asking
<1>5. CASE ~(up /\ ~stopped /\ worker[w].host = epoch)
  <2>1. PICK r : /\ r = [worker[w] EXCEPT !.pc = "answered", !.op = op, !.ack = NoAnswer]
                 /\ worker' = [worker EXCEPT ![w] = r]
                 /\ wire' = wire
    BY <1>5 DEF Sends, HostOf
  <2>2. /\ r \in Worker /\ r.pc = "answered" /\ r.ack = NoAnswer
        /\ r.epoch = worker[w].epoch /\ r.results = worker[w].results
    BY <1>2, <2>1
  <2>3. Good(r) /\ (Busy(worker[w]) => Busy(r))
    BY <1>3, <2>1
  <2>4. /\ UNCHANGED <<setting, tool, wire, epoch, stopped, up, crowded, budget>>
        /\ results' = results
    BY <2>1 DEF session
  <2>5. \A i \in DOMAIN wire : wire[i].from # w
    BY Unsent
  <2> QED BY <1>1, <2>1, <2>2, <2>3, <2>4, <2>5, Moves DEF Active
<1> QED BY <1>4, <1>5

(* Its record becomes that of a worker that has only the finish to do.      *)
LEMMA Ended ==
  ASSUME NEW w \in Workers, NEW r, worker[w] \in Worker, Good(worker[w]), Active(w),
         \/ /\ r = [Off EXCEPT !.pc = "finish", !.epoch = worker[w].epoch,
                               !.host = worker[w].host]
            /\ worker[w].pc # "begin"
         \/ r = Off
  PROVE  /\ r \in Worker /\ Good(r) /\ r.pc \in {"finish", "off"}
         /\ r.pc # "off" => r.epoch = worker[w].epoch
         /\ r.pc = "off" => r.epoch = 0
         /\ \A b \in Bands : r.results[b] = "untried"
<1>1. NoResults \in [Bands -> Verdicts] /\ \A b \in Bands : NoResults[b] = "untried"
  BY DEF NoResults, Verdicts
<1>2. 0 \in Epochs /\ 1 \in 1..MaxAttempts /\ 1 \in 1..(NBands + 1)
  BY SubscriptionAssumption DEF SubscriptionAssumption, Epochs
<1>3. /\ Off.pc = "off" /\ Off.epoch = 0 /\ Off.host = 0 /\ Off.attempt = 1
      /\ Off.band = 1 /\ Off.op = "online" /\ Off.ack = NoAnswer
      /\ Off.results = NoResults
  BY DEF Off
<1>4. Off \in Worker
  BY <1>1, <1>2 DEF Off, Worker, Acks, Ops
<1>5. CASE r = Off
  BY <1>1, <1>3, <1>4, <1>5 DEF Good, Asks
<1>6. CASE r = [Off EXCEPT !.pc = "finish", !.epoch = worker[w].epoch,
                           !.host = worker[w].host] /\ worker[w].pc # "begin"
  <2>1. /\ r.pc = "finish" /\ r.epoch = worker[w].epoch /\ r.host = worker[w].host
        /\ r.band = 1 /\ r.results = NoResults
    BY <1>6 DEF Off
  <2>2. r \in Worker
    BY <1>4, <1>6 DEF Worker
  <2> QED BY <1>1, <1>6, <2>1, <2>2 DEF Good, Asks, Active
<1> QED BY <1>5, <1>6

LEMMA LeavesKeeps ==
  ASSUME SubInv, NEW w \in Workers, Leaves(w), Active(w), ~Busy(worker[w]),
         worker[w].pc # "waiting",
         UNCHANGED <<setting, tool, wire, epoch, stopped, up, results, crowded, budget>>
  PROVE  SubInv'
<1>1. PICK r : r = Off /\ worker' = [worker EXCEPT ![w] = r]
  BY DEF Leaves
<1>2. worker[w] \in Worker /\ Good(worker[w]) /\ epoch \in Nat
  BY DEF SubInv, TypeOK, Records, Epochs
<1>3. /\ r \in Worker /\ Good(r) /\ r.epoch = 0
      /\ \A b \in Bands : r.results[b] = "untried"
  BY <1>1, <1>2, Ended DEF Off
<1>4. r.pc = "off" /\ r.epoch <= epoch
  BY <1>1, <1>2, <1>3 DEF Off
<1>5. \A i \in DOMAIN wire : wire[i].from # w
  BY Unsent
<1> QED BY <1>1, <1>3, <1>4, <1>5, Moves

LEMMA FinishesKeeps ==
  ASSUME SubInv, NEW w \in Workers, Finishes(w),
         worker[w].pc \in {"attempt", "band", "pausing"},
         UNCHANGED <<setting, tool, wire, epoch, stopped, up, crowded, budget>>,
         \/ results' = results /\ ~Busy(worker[w])
         \/ /\ worker[w].pc = "band"
            /\ results' = IF worker[w].host = epoch THEN worker[w].results ELSE results
  PROVE  SubInv'
<1>1. PICK r : /\ r = [Off EXCEPT !.pc = "finish", !.epoch = worker[w].epoch,
                                  !.host = worker[w].host]
               /\ worker' = [worker EXCEPT ![w] = r]
  BY DEF Finishes
<1>2. /\ worker[w] \in Worker /\ Good(worker[w]) /\ Active(w)
      /\ worker[w].epoch <= epoch
  BY DEF SubInv, TypeOK, Records, Active
<1>3. /\ r \in Worker /\ Good(r) /\ \A b \in Bands : r.results[b] = "untried"
  <2>1. \/ /\ r = [Off EXCEPT !.pc = "finish", !.epoch = worker[w].epoch,
                             !.host = worker[w].host]
           /\ worker[w].pc # "begin"
        \/ r = Off
    BY <1>1
  <2> HIDE <1>1
  <2> QED BY <1>2, <2>1, Ended
<1>4. r.pc = "finish" /\ r.epoch = worker[w].epoch
  BY <1>1 DEF Off
<1>5. \A i \in DOMAIN wire : wire[i].from # w
  BY Unsent
<1> QED BY <1>1, <1>2, <1>3, <1>4, <1>5, Moves

-----------------------------------------------------------------------------
(* Steps of the tool and of the session.                                    *)

LEMMA ResetsAre == {Resets[i] : i \in 1..3} = ResetOps
<1>1. Resets[1] = "disable all" /\ Resets[2] = "unlink all" /\ Resets[3] = "undefine all"
  BY DEF Resets
<1>2. \A i : i \in 1..3 <=> i = 1 \/ i = 2 \/ i = 3
  OBVIOUS
<1> QED BY <1>1, <1>2 DEF ResetOps

(* Every message but the delete-alls leaves the other bands alone; one that *)
(* is acknowledged has done what it asks for.                               *)
LEMMA EffectDoes ==
  ASSUME TypeOK, NEW op \in Ops, NEW b \in 1..(NBands + 1), op \in BandOps => b \in Bands
  PROVE  /\ Effect(op, b)[1] \in [Bands -> {"none", "other", "ours"}]
         /\ Effect(op, b)[2] \subseteq Bands /\ Effect(op, b)[3] \subseteq Bands
         /\ Effect(op, b)[4] \in {0, 3, 4}
         /\ \A c \in Bands : op \notin ResetOps /\ (c = b => op \notin BandOps) =>
              /\ Effect(op, b)[1][c] = report[c]
              /\ c \in linked => c \in Effect(op, b)[2]
              /\ c \in enabled => c \in Effect(op, b)[3]
         /\ op \in {"define", "redefine"} /\ Effect(op, b)[4] = 0 =>
              b \notin refuses /\ Effect(op, b)[1][b] = "ours"
         /\ op \in {"link", "enable"} /\ Linkable(b) /\ (op = "enable" => b \in linked) =>
              /\ Effect(op, b)[1][b] = "ours" /\ b \in Effect(op, b)[2]
              /\ op = "enable" => b \in Effect(op, b)[3]
<1> DEFINE R == [Bands -> {"none", "other", "ours"}]
           Does(r, l, n, k) ==
             /\ r \in R /\ l \subseteq Bands /\ n \subseteq Bands /\ k \in {0, 3, 4}
             /\ \A c \in Bands : op \notin ResetOps /\ (c = b => op \notin BandOps) =>
                  r[c] = report[c] /\ (c \in linked => c \in l) /\ (c \in enabled => c \in n)
             /\ op \in {"define", "redefine"} /\ k = 0 => b \notin refuses /\ r[b] = "ours"
             /\ op \in {"link", "enable"} /\ Linkable(b) /\ (op = "enable" => b \in linked) =>
                  r[b] = "ours" /\ b \in l /\ (op = "enable" => b \in n)
<1>0. SUFFICES \E r, l, n, k : Effect(op, b) = <<r, l, n, k>> /\ Does(r, l, n, k)
  OBVIOUS
<1>1. \A k \in {3, 4} : op \in BandOps /\ (op \in {"link", "enable"} => ~Linkable(b))
                        => Does(report, linked, enabled, k)
  <2>1. report \in R /\ linked \subseteq Bands /\ enabled \subseteq Bands
    BY DEF TypeOK
  <2> QED BY <2>1
<1>2. CASE op \in {"define", "redefine"}
  <2>1. b \in Bands /\ Effect(op, b) = DefineReport(b)
    BY <1>2 DEF Effect, BandOps
  <2>2. CASE b \in refuses
    <3>1. Effect(op, b) = <<report, linked, enabled, 4>>
      BY <2>1, <2>2 DEF DefineReport, Keeps
    <3> QED BY <1>1, <1>2, <3>1 DEF BandOps
  <2>3. CASE b \notin refuses /\ collides /\ report[b] # "none"
    <3>1. Effect(op, b) = <<report, linked, enabled, 3>>
      BY <2>1, <2>3 DEF DefineReport, Keeps
    <3> QED BY <1>1, <1>2, <3>1 DEF BandOps
  <2>4. CASE b \notin refuses /\ ~(collides /\ report[b] # "none")
    <3>1. Effect(op, b) = <<[report EXCEPT ![b] = "ours"], linked, enabled, 0>>
      BY <2>1, <2>4 DEF DefineReport
    <3>2. Does([report EXCEPT ![b] = "ours"], linked, enabled, 0)
      BY <1>2, <2>1, <2>4 DEF TypeOK, BandOps, ResetOps
    <3> QED BY <3>1, <3>2
  <2> QED BY <2>2, <2>3, <2>4
<1>3. CASE op = "delete"
  <2>1. b \in Bands /\ Effect(op, b) = DeleteReport(b)
    BY <1>3 DEF Effect, BandOps
  <2>2. CASE b \in refuses
    <3>1. Effect(op, b) = <<report, linked, enabled, 4>>
      BY <2>1, <2>2 DEF DeleteReport, Keeps
    <3> QED BY <1>1, <1>3, <3>1 DEF BandOps
  <2>3. CASE b \notin refuses
    <3>1. Effect(op, b) = <<[report EXCEPT ![b] = "none"], linked \ {b}, enabled, 0>>
      BY <2>1, <2>3 DEF DeleteReport, Undefined
    <3>2. Does([report EXCEPT ![b] = "none"], linked \ {b}, enabled, 0)
      BY <1>3, <2>1 DEF TypeOK, BandOps, ResetOps
    <3> QED BY <3>1, <3>2
  <2> QED BY <2>2, <2>3
<1>4. CASE op = "link"
  <2>1. b \in Bands /\ Effect(op, b) = LinkEvent(b)
    BY <1>4 DEF Effect, BandOps
  <2>2. CASE b \in refuses
    <3>1. Effect(op, b) = <<report, linked, enabled, 4>>
      BY <2>1, <2>2 DEF LinkEvent, Keeps
    <3> QED BY <1>1, <1>4, <2>2, <3>1 DEF BandOps, Linkable
  <2>3. CASE b \notin refuses /\ report[b] = "none"
    <3>1. Effect(op, b) = <<report, linked, enabled, 3>>
      BY <2>1, <2>3 DEF LinkEvent, Keeps
    <3> QED BY <1>1, <1>4, <2>3, <3>1 DEF BandOps, Linkable
  <2>4. CASE b \notin refuses /\ report[b] # "none"
    <3>1. Effect(op, b) = <<report, linked \cup {b}, enabled, 0>>
      BY <2>1, <2>4 DEF LinkEvent
    <3>2. Does(report, linked \cup {b}, enabled, 0)
      BY <1>4, <2>1 DEF TypeOK, BandOps, ResetOps, Linkable
    <3> QED BY <3>1, <3>2
  <2> QED BY <2>2, <2>3, <2>4
<1>5. CASE op = "enable"
  <2>1. /\ b \in Bands
        /\ Effect(op, b) = <<report, linked, enabled \cup ({b} \ refuses), 0>>
    BY <1>5 DEF Effect, EnableEvents, BandOps
  <2>2. Does(report, linked, enabled \cup ({b} \ refuses), 0)
    BY <1>5, <2>1 DEF TypeOK, BandOps, ResetOps, Linkable
  <2> QED BY <2>1, <2>2
<1>6. CASE op \in {"online", "finish"}
  <2>1. Effect(op, b) = <<report, linked, enabled, 0>>
    BY <1>6 DEF Effect, Keeps
  <2>2. Does(report, linked, enabled, 0)
    BY <1>6 DEF TypeOK, BandOps, ResetOps
  <2> QED BY <2>1, <2>2
<1>7. CASE op \in ResetOps
  <2>1. Effect(op, b) = DeleteAll(op)
    BY <1>7 DEF Effect, ResetOps
  <2>2. PICK r, l, n : /\ Effect(op, b) = <<r, l, n, 0>>
                       /\ r \in R /\ l \subseteq Bands /\ n \subseteq Bands
    <3>1. report \in R /\ linked \subseteq Bands /\ enabled \subseteq Bands
          /\ [c \in Bands |-> "none"] \in R
      BY DEF TypeOK
    <3>2. \/ Effect(op, b) = <<report, linked, {}, 0>>
          \/ Effect(op, b) = <<report, {}, enabled, 0>>
          \/ Effect(op, b) = <<[c \in Bands |-> "none"], {}, enabled, 0>>
      BY <1>7, <2>1 DEF DeleteAll, ResetOps
    <3> QED BY <3>1, <3>2
  <2>3. Does(r, l, n, 0)
    BY <1>7, <2>2 DEF ResetOps
  <2> QED BY <2>2, <2>3
<1>8. op \in {"define", "redefine", "delete", "link", "enable", "online", "finish"} \cup ResetOps
  BY ResetsAre DEF Ops
<1> QED BY <1>2, <1>3, <1>4, <1>5, <1>6, <1>7, <1>8

LEMMA HandleStep == ASSUME SubInv, Handle PROVE SubInv'
<1> DEFINE m == Head(wire)
           e == Effect(m.op, m.band)
<1>1. /\ wire \in Seq(Message) /\ wire # <<>>
      /\ wire' = Tail(wire)
      /\ report' = e[1] /\ linked' = e[2] /\ enabled' = e[3]
      /\ worker' = IF m.from = NoWorker THEN worker
                   ELSE [worker EXCEPT ![m.from].pc = "answered", ![m.from].ack = e[4]]
      /\ UNCHANGED <<setting, session, crowded, budget>>
  BY DEF Handle, Takes, SubInv, TypeOK
<1>2. /\ m \in Message /\ m = wire[1] /\ Len(wire) \in Nat \ {0}
      /\ DOMAIN wire = 1..Len(wire) /\ wire' \in Seq(Message)
      /\ DOMAIN wire' = 1..(Len(wire) - 1) /\ Len(wire') = Len(wire) - 1
      /\ \A i \in DOMAIN wire' : i + 1 \in DOMAIN wire /\ wire'[i] = wire[i + 1]
  BY <1>1, Shortened
<1>3. /\ m.op \in Ops /\ m.band \in 1..(NBands + 1)
      /\ m.op \in BandOps => m.band \in Bands
      /\ m.from \in Workers \cup {NoWorker}
  <2>1. 1 \in DOMAIN wire
    BY <1>2
  <2> QED BY <1>2, <2>1 DEF Message, SubInv, Asked
<1> HIDE DEF m
<1>4. /\ e[1] \in [Bands -> {"none", "other", "ours"}]
      /\ e[2] \subseteq Bands /\ e[3] \subseteq Bands
      /\ e[4] \in {0, 3, 4}
      /\ \A c \in Bands : m.op \notin ResetOps /\ (c = m.band => m.op \notin BandOps) =>
           /\ e[1][c] = report[c]
           /\ c \in linked => c \in e[2]
           /\ c \in enabled => c \in e[3]
      /\ m.op \in {"define", "redefine"} /\ e[4] = 0 =>
           m.band \notin refuses /\ e[1][m.band] = "ours"
      /\ m.op \in {"link", "enable"} /\ Linkable(m.band)
           /\ (m.op = "enable" => m.band \in linked) =>
           /\ e[1][m.band] = "ours" /\ m.band \in e[2]
           /\ m.op = "enable" => m.band \in e[3]
  BY <1>3, EffectDoes DEF SubInv
<1> HIDE DEF e
<1>5. \A v \in Workers : v # m.from => worker'[v] = worker[v]
  BY <1>1 DEF SubInv, TypeOK
<1>6. m.from \in Workers =>
        /\ worker[m.from].pc = "waiting" /\ Current(m.from)
        /\ worker[m.from].op = m.op /\ worker[m.from].band = m.band
        /\ worker[m.from] \in Worker
        /\ worker'[m.from] = [worker[m.from] EXCEPT !.pc = "answered", !.ack = e[4]]
  <2> SUFFICES ASSUME m.from \in Workers
               PROVE  /\ worker[m.from].pc = "waiting" /\ Current(m.from)
                      /\ worker[m.from].op = m.op /\ worker[m.from].band = m.band
                      /\ worker[m.from] \in Worker
                      /\ worker'[m.from] =
                           [worker[m.from] EXCEPT !.pc = "answered", !.ack = e[4]]
    OBVIOUS
  <2>1. 1 \in DOMAIN wire /\ wire[1].from = m.from
    BY <1>2
  <2>2. /\ worker[m.from].pc = "waiting" /\ Current(m.from)
        /\ worker[m.from].op = m.op /\ worker[m.from].band = m.band
    BY <1>2, <2>1 DEF SubInv, Asked
  <2>3. worker \in [Workers -> Worker]
    BY DEF SubInv, TypeOK
  <2>4. m.from # NoWorker
    BY SubscriptionAssumption DEF SubscriptionAssumption
  <2>5. worker' = [worker EXCEPT ![m.from].pc = "answered", ![m.from].ack = e[4]]
    BY <1>1, <2>4
  <2>6. worker'[m.from] = [worker[m.from] EXCEPT !.pc = "answered", !.ack = e[4]]
    BY <2>3, <2>5
  <2> QED BY <2>2, <2>3, <2>6
<1>7. m.from \in Workers =>
        /\ worker'[m.from].pc = "answered" /\ worker'[m.from].ack = e[4]
        /\ worker'[m.from].op = m.op /\ worker'[m.from].band = m.band
        /\ worker'[m.from].epoch = worker[m.from].epoch
        /\ worker'[m.from].results = worker[m.from].results
        /\ worker'[m.from] \in Worker /\ Good(worker'[m.from])
  <2> SUFFICES ASSUME m.from \in Workers
               PROVE  /\ worker'[m.from].pc = "answered" /\ worker'[m.from].ack = e[4]
                      /\ worker'[m.from].op = m.op /\ worker'[m.from].band = m.band
                      /\ worker'[m.from].epoch = worker[m.from].epoch
                      /\ worker'[m.from].results = worker[m.from].results
                      /\ worker'[m.from] \in Worker /\ Good(worker'[m.from])
    OBVIOUS
  <2>1. PICK r : r = worker'[m.from]
    OBVIOUS
  <2>2. PICK q : q = worker[m.from]
    OBVIOUS
  <2>3. /\ q \in Worker /\ q.pc = "waiting" /\ q.op = m.op /\ q.band = m.band /\ Good(q)
        /\ r = [q EXCEPT !.pc = "answered", !.ack = e[4]]
    BY <1>6, <2>1, <2>2 DEF SubInv, Records
  <2>4. /\ r.pc = "answered" /\ r.ack = e[4] /\ r.op = q.op /\ r.band = q.band
        /\ r.epoch = q.epoch /\ r.results = q.results /\ r.host = q.host
        /\ r.attempt = q.attempt /\ r \in Worker
    BY <1>4, <2>3 DEF Worker, Acks
  <2>5. Good(r)
    BY <2>3, <2>4 DEF Good, Asks
  <2> QED BY <2>1, <2>2, <2>3, <2>4, <2>5
<1>8. TypeOK'
  <2>1. worker' \in [Workers -> Worker]
    BY <1>1, <1>5, <1>6, <1>7 DEF SubInv, TypeOK
  <2> QED BY <1>1, <1>2, <1>4, <2>1 DEF SubInv, TypeOK, setting, session
<1>9. epoch' = epoch /\ up' = up /\ stopped' = stopped /\ results' = results
  BY <1>1 DEF session
<1>10. \A v \in Workers : Current(v)' = Current(v) /\ Busy(worker'[v]) = Busy(worker[v])
                         /\ worker'[v].results = worker[v].results
  BY <1>5, <1>6, <1>7, <1>9 DEF Current, Active, Busy, Asks
<1>11. Records'
  <2>1. \A v \in Workers : Good(worker[v]) /\ worker[v].epoch <= epoch
    BY DEF SubInv, Records
  <2>2. \A v \in Workers : Good(worker'[v]) /\ worker'[v].epoch <= epoch'
    BY <1>5, <1>7, <1>9, <2>1
  <2> QED BY <2>2 DEF Records
<1>12. Asked'
  <2>1. \A v \in Workers : \A i, j \in DOMAIN wire' :
          wire'[i].from = v /\ wire'[j].from = v => i = j
    <3> SUFFICES ASSUME NEW v \in Workers, NEW i \in DOMAIN wire', NEW j \in DOMAIN wire',
                        wire'[i].from = v, wire'[j].from = v
                 PROVE  i = j
      OBVIOUS
    <3>1. i + 1 = j + 1
      BY <1>2 DEF SubInv, Asked
    <3> QED BY <1>2, <3>1
  <2>2. ASSUME NEW v \in Workers, NEW i \in DOMAIN wire', wire'[i].from = v
        PROVE  /\ up' /\ Current(v)' /\ worker'[v].pc = "waiting"
               /\ worker'[v].op = wire'[i].op /\ worker'[v].band = wire'[i].band
    <3>1. i + 1 \in DOMAIN wire /\ wire[i + 1].from = v /\ i + 1 # 1 /\ 1 \in DOMAIN wire
      BY <1>2, <2>2
    <3>2. v # m.from
      BY <1>2, <3>1 DEF SubInv, Asked
    <3>3. /\ up /\ Current(v) /\ worker[v].pc = "waiting"
          /\ worker[v].op = wire[i + 1].op /\ worker[v].band = wire[i + 1].band
      BY <3>1 DEF SubInv, Asked
    <3> QED BY <1>2, <1>5, <1>9, <1>10, <2>2, <3>2, <3>3
  <2>3. \A i \in DOMAIN wire' : wire'[i].op \in BandOps => wire'[i].band \in Bands
    BY <1>2 DEF SubInv, Asked
  <2> QED BY <1>9, <2>1, <2>2, <2>3 DEF SubInv, Asked
<1>13. ASSUME NEW b \in Bands, Safe(b) PROVE Safe(b)'
  <2>1. 1 \in DOMAIN wire
    BY <1>2
  <2>2. m.op \notin ResetOps /\ (b = m.band => m.op \notin BandOps)
    BY <1>2, <1>13, <2>1 DEF Safe
  <2>3. Reporting(b)'
    BY <1>1, <1>4, <1>13, <2>2 DEF Safe, Reporting, setting
  <2> QED BY <1>2, <1>13, <2>3 DEF Safe
<1>14. ASSUME ~crowded PROVE Subscribed'
  <2>1. /\ Alone /\ Newest /\ Listed
        /\ \A w \in Workers : Current(w) => Progress(w) /\ Kept(w)
    BY <1>14 DEF SubInv, Subscribed
  <2>2. Alone'
    BY <1>10, <2>1 DEF Alone
  <2>3. Newest'
    <3> SUFFICES ASSUME NEW i \in DOMAIN wire', wire'[i].from # NoWorker
                 PROVE  i = Len(wire')
      BY DEF Newest
    <3>1. i + 1 = Len(wire)
      BY <1>2, <2>1 DEF Newest
    <3> QED BY <1>2, <3>1
  <2>4. Listed'
    BY <1>9, <1>10, <1>13, <2>1 DEF Listed
  <2>5. ASSUME NEW v \in Workers, Current(v)' PROVE Progress(v)' /\ Kept(v)'
    <3>1. Current(v) /\ Progress(v) /\ Kept(v)
      BY <1>10, <2>1, <2>5
    <3>2. Kept(v)'
      BY <1>10, <1>13, <3>1 DEF Kept
    <3>3. CASE v = m.from
      <4>1. Len(wire) = 1 /\ wire' = <<>>
        <5>1. 1 \in DOMAIN wire /\ wire[1].from = v
          BY <1>2, <3>3
        <5>2. v # NoWorker
          BY SubscriptionAssumption DEF SubscriptionAssumption
        <5>3. Len(wire) = 1
          BY <2>1, <5>1, <5>2 DEF Newest
        <5> QED BY <1>2, <5>3, EmptySeq
      <4>2. Pending(v)
        BY <1>2, <3>3 DEF Pending
      <4>3. m.op \in {"link", "enable"} =>
              Linkable(m.band) /\ (m.op = "enable" => m.band \in linked)
        BY <1>6, <3>1, <3>3, <4>2 DEF Progress
      <4>4. /\ worker'[v].pc = "answered" /\ worker'[v].ack = e[4]
            /\ worker'[v].op = m.op /\ worker'[v].band = m.band
        BY <1>7, <3>3
      <4>5. m.op \in {"define", "redefine", "link", "enable"} /\ e[4] = 0
              => m.band \notin refuses' /\ report'[m.band] = "ours"
        BY <1>1, <1>4, <4>3 DEF Linkable, setting
      <4>6. m.op \in {"link", "enable"} => m.band \in linked'
        BY <1>1, <1>4, <4>3
      <4>7. m.op = "enable" => m.band \in enabled'
        BY <1>1, <1>4, <4>3
      <4> QED BY <3>2, <4>1, <4>4, <4>5, <4>6, <4>7 DEF Progress, Linkable
    <3>4. CASE v # m.from
      <4>1. worker'[v] = worker[v]
        BY <1>5, <3>4
      <4>2. ~(worker[v].pc = "answered" /\ worker[v].ack # NoAnswer)
        BY <1>1, <3>1 DEF Progress
      <4>3. ~(worker[v].pc = "waiting" /\ Pending(v)' /\ worker[v].op \in {"link", "enable"})
        <5> SUFFICES ASSUME worker[v].pc = "waiting", Pending(v)',
                            worker[v].op \in {"link", "enable"}
                     PROVE  FALSE
          OBVIOUS
        <5>1. PICK i \in DOMAIN wire' : wire'[i].from = v
          BY DEF Pending
        <5>2. i + 1 \in DOMAIN wire /\ wire[i + 1].from = v /\ i + 1 > 1
          BY <1>2, <5>1
        <5>3. Len(wire) = 1
          BY <3>1, <5>2 DEF Progress, Pending
        <5> QED BY <1>2, <5>2, <5>3
      <4> QED BY <3>2, <4>1, <4>2, <4>3 DEF Progress, NoAnswer
    <3> QED BY <3>3, <3>4
  <2> QED BY <1>1, <2>2, <2>3, <2>4, <2>5 DEF Subscribed
<1> QED BY <1>1, <1>8, <1>11, <1>12, <1>14 DEF SubInv, Subscribed

(* Senders of messages are forgotten: all of them, when the connection goes, *)
(* or those of workers that stop waiting.                                   *)
LEMMA Forgets ==
  ASSUME SubInv, NEW W \in SUBSET Workers, wire' = Forgotten(W),
         worker' \in [Workers -> Worker],
         \A v \in Workers :
            \/ worker'[v] = worker[v]
            \/ /\ v \in W /\ worker[v].pc = "waiting"
               /\ worker'[v] = [worker[v] EXCEPT !.pc = "answered"],
         up' = up \/ (~up' /\ W = Workers), up' => ~stopped',
         stopped' = stopped \/ stopped', up' \in BOOLEAN, stopped' \in BOOLEAN,
         budget' \in 0..MaxTroubles,
         UNCHANGED <<setting, tool, epoch, results, crowded>>
  PROVE  SubInv'
<1>1. /\ wire' \in Seq(Message) /\ DOMAIN wire' = DOMAIN wire /\ Len(wire') = Len(wire)
      /\ \A i \in DOMAIN wire :
           /\ wire'[i].op = wire[i].op /\ wire'[i].band = wire[i].band
           /\ wire'[i].from = IF wire[i].from \in W THEN NoWorker ELSE wire[i].from
  BY ForgottenDoes DEF SubInv, TypeOK
<1>2. NoWorker \notin Workers
  BY SubscriptionAssumption DEF SubscriptionAssumption
<1>3. \A i \in DOMAIN wire : \A v \in Workers :
        wire'[i].from = v => wire[i].from = v /\ v \notin W
  BY <1>1, <1>2
<1>4. ASSUME NEW v \in Workers
      PROVE  /\ Good(worker'[v]) /\ worker'[v].epoch = worker[v].epoch
             /\ worker'[v].results = worker[v].results
             /\ worker'[v].band = worker[v].band /\ worker'[v].op = worker[v].op
             /\ worker'[v].ack = worker[v].ack
             /\ Current(v)' = Current(v) /\ Busy(worker'[v]) = Busy(worker[v])
             /\ \/ worker'[v] = worker[v]
                \/ worker'[v].pc = "answered" /\ worker'[v].ack = NoAnswer
             /\ v \notin W => worker'[v] = worker[v]
  <2>1. PICK q : q = worker[v] /\ q \in Worker /\ Good(q)
    BY DEF SubInv, TypeOK, Records
  <2>2. CASE worker'[v] = worker[v]
    BY <2>1, <2>2 DEF Current, Active
  <2>3. CASE /\ v \in W /\ worker[v].pc = "waiting"
             /\ worker'[v] = [worker[v] EXCEPT !.pc = "answered"]
    <3>1. PICK r : r = worker'[v] /\ r = [q EXCEPT !.pc = "answered"] /\ q.pc = "waiting"
      BY <2>1, <2>3
    <3>2. /\ r.pc = "answered" /\ r.epoch = q.epoch /\ r.results = q.results
          /\ r.band = q.band /\ r.op = q.op /\ r.ack = q.ack /\ r.host = q.host
          /\ r.attempt = q.attempt /\ q.ack = NoAnswer
      BY <2>1, <3>1 DEF Worker, Good
    <3>3. Good(r) /\ Busy(r) = Busy(q)
      BY <2>1, <3>1, <3>2 DEF Good, Asks, Busy
    <3>4. Current(v)' = Current(v)
      BY <2>1, <2>3, <3>1, <3>2 DEF Current, Active
    <3> QED
      BY <2>1, <2>3, <3>1, <3>2, <3>3, <3>4
  <2> QED BY <2>2, <2>3
<1>5. TypeOK'
  BY <1>1 DEF SubInv, TypeOK, setting, tool
<1>6. Records'
  <2>1. \A v \in Workers : worker[v].epoch <= epoch
    BY DEF SubInv, Records
  <2> QED BY <1>4, <2>1 DEF Records
<1>7. Asked'
  <2>1. \A v \in Workers : \A i, j \in DOMAIN wire' :
          wire'[i].from = v /\ wire'[j].from = v => i = j
    BY <1>1, <1>3 DEF SubInv, Asked
  <2>2. ASSUME NEW v \in Workers, NEW i \in DOMAIN wire', wire'[i].from = v
        PROVE  /\ up' /\ Current(v)' /\ worker'[v].pc = "waiting"
               /\ worker'[v].op = wire'[i].op /\ worker'[v].band = wire'[i].band
    <3>1. v \notin W /\ wire[i].from = v /\ i \in DOMAIN wire
      BY <1>1, <1>3, <2>2
    <3>2. worker'[v] = worker[v] /\ Current(v)' = Current(v)
      BY <1>4, <3>1
    <3>3. up' = up
      BY <3>1
    <3> QED BY <1>1, <3>1, <3>2, <3>3 DEF SubInv, Asked
  <2>3. \A i \in DOMAIN wire' : wire'[i].op \in BandOps => wire'[i].band \in Bands
    BY <1>1 DEF SubInv, Asked
  <2>4. ~stopped' => epoch' # 0
    BY DEF SubInv, Asked
  <2> QED BY <2>1, <2>2, <2>3, <2>4 DEF Asked
<1>8. \A b \in Bands : Safe(b) => Safe(b)'
  BY <1>1 DEF Safe, Reporting, setting, tool
<1>9. ASSUME ~crowded PROVE Subscribed'
  <2>1. /\ Alone /\ Newest /\ Listed
        /\ \A w \in Workers : Current(w) => Progress(w) /\ Kept(w)
    BY <1>9 DEF SubInv, Subscribed
  <2>2. Alone'
    BY <1>4, <2>1 DEF Alone
  <2>3. Newest'
    BY <1>1, <2>1 DEF Newest
  <2>4. Listed'
    BY <1>4, <1>8, <2>1 DEF Listed
  <2>5. ASSUME NEW v \in Workers, Current(v)' PROVE Progress(v)' /\ Kept(v)'
    <3>1. Progress(v) /\ Kept(v)
      BY <1>4, <2>1, <2>5
    <3>2. Kept(v)'
      BY <1>4, <1>8, <3>1 DEF Kept
    <3>3. Pending(v)' => Pending(v)
      BY <1>1, <1>3 DEF Pending
    <3>4. wire = <<>> => wire' = <<>>
      BY <1>1, EmptySeq
    <3>5. CASE worker'[v] = worker[v]
      BY <1>1, <3>1, <3>2, <3>3, <3>4, <3>5 DEF Progress, Linkable, setting, tool
    <3>6. CASE worker'[v].pc = "answered" /\ worker'[v].ack = NoAnswer
      BY <3>2, <3>6 DEF Progress, NoAnswer
    <3> QED BY <1>4, <3>5, <3>6
  <2> QED BY <2>2, <2>3, <2>4, <2>5 DEF Subscribed
<1> QED BY <1>5, <1>6, <1>7, <1>9 DEF SubInv, Subscribed

LEMMA StartStep == ASSUME SubInv, Start PROVE SubInv'
<1>1. /\ stopped /\ epoch < MaxEpoch /\ epoch' = epoch + 1 /\ ~stopped'
      /\ stopped' \in BOOLEAN /\ results' = NoResults
      /\ UNCHANGED <<setting, tool, wire, up, worker, crowded, budget>>
  BY DEF Start
<1>2. epoch \in Nat /\ epoch' \in Epochs /\ epoch' # 0
  BY <1>1, SubscriptionAssumption DEF SubInv, TypeOK, Epochs, SubscriptionAssumption
<1>3. TypeOK'
  BY <1>1, <1>2 DEF SubInv, TypeOK, setting, tool, NoResults, Verdicts
<1>4. \A v \in Workers : worker[v].epoch \in Int /\ worker[v].epoch <= epoch
  BY DEF SubInv, TypeOK, Worker, Epochs, Records
<1>5. Records'
  BY <1>1, <1>2, <1>4 DEF SubInv, Records
<1>6. ~up
  BY <1>1 DEF SubInv, Asked
<1>7. Asked'
  BY <1>1, <1>2, <1>6 DEF SubInv, Asked
<1>8. \A v \in Workers : ~Current(v)'
  BY <1>1, <1>2, <1>4 DEF Current, Active
<1>9. ASSUME ~crowded PROVE Newest'
  BY <1>1, <1>9 DEF SubInv, Subscribed, Newest
<1>10. Alone' /\ Listed'
  BY <1>1, <1>8 DEF Alone, Listed, NoResults
<1> QED
  BY <1>1, <1>3, <1>5, <1>7, <1>8, <1>9, <1>10 DEF SubInv, Subscribed

LEMMA ConnectStep == ASSUME SubInv, Connect PROVE SubInv'
<1>1. PICK w \in Workers :
        /\ ~stopped /\ ~up /\ up' = TRUE /\ ~Active(w)
        /\ worker' = [worker EXCEPT ![w] = [Off EXCEPT !.pc = "begin", !.epoch = epoch]]
        /\ crowded' = (crowded \/ \E v \in Workers : Active(v) /\ worker[v].epoch = epoch)
        /\ UNCHANGED <<setting, tool, wire, epoch, stopped, results, budget>>
  BY DEF Connect
<1>2. PICK r : r = [Off EXCEPT !.pc = "begin", !.epoch = epoch]
  OBVIOUS
<1>3. /\ r.pc = "begin" /\ r.epoch = epoch /\ r.host = 0 /\ r.attempt = 1 /\ r.band = 1
      /\ r.op = "online" /\ r.ack = NoAnswer /\ r.results = NoResults
  BY <1>2 DEF Off
<1>4. worker'[w] = r /\ \A v \in Workers \ {w} : worker'[v] = worker[v]
  BY <1>1, <1>2 DEF SubInv, TypeOK
<1>5. epoch \in Nat /\ epoch # 0 /\ epoch \in Epochs
  BY <1>1 DEF SubInv, TypeOK, Epochs, Asked
<1>6. r \in Worker
  <2>1. 0 \in Epochs /\ 1 \in 1..MaxAttempts /\ 1 \in 1..(NBands + 1)
    BY SubscriptionAssumption DEF SubscriptionAssumption, Epochs
  <2>2. NoResults \in [Bands -> Verdicts]
    BY DEF NoResults, Verdicts
  <2> QED BY <1>2, <1>5, <2>1, <2>2 DEF Off, Worker, Ops, Acks
<1>7. Good(r)
  BY <1>3, <1>5 DEF Good, Asks, NoResults
<1>8. TypeOK'
  <2>1. worker' \in [Workers -> Worker]
    BY <1>1, <1>2, <1>6 DEF SubInv, TypeOK
  <2>2. crowded' \in BOOLEAN
    BY <1>1 DEF SubInv, TypeOK
  <2> QED BY <1>1, <2>1, <2>2 DEF SubInv, TypeOK, setting, tool
<1>9. Records'
  BY <1>1, <1>3, <1>4, <1>5, <1>7 DEF SubInv, Records
<1>10. \A v \in Workers : \A i \in DOMAIN wire : wire[i].from # v
  BY <1>1 DEF SubInv, Asked
<1>11. Asked'
  BY <1>1, <1>10 DEF SubInv, Asked
<1>12. ASSUME ~crowded' PROVE Subscribed'
  <2>1. ~crowded /\ \A v \in Workers : ~Current(v)
    BY <1>1, <1>12 DEF Current
  <2>2. /\ Newest /\ Listed
    BY <2>1 DEF SubInv, Subscribed
  <2>3. \A v \in Workers : Current(v)' => v = w
    BY <1>1, <1>4, <2>1 DEF Current, Active
  <2>4. Alone' /\ Newest'
    BY <1>1, <2>2, <2>3 DEF Alone, Newest
  <2>5. \A b : Safe(b)' = Safe(b)
    BY <1>1 DEF Safe, Reporting, setting, tool
  <2>6. Listed'
    BY <1>1, <2>1, <2>2, <2>5 DEF Listed
  <2>7. Progress(w)' /\ Kept(w)'
    BY <1>3, <1>4 DEF Progress, Kept, NoResults
  <2> QED BY <2>3, <2>4, <2>6, <2>7 DEF Subscribed
<1> QED BY <1>8, <1>9, <1>11, <1>12 DEF SubInv, Subscribed

LEMMA StopStep == ASSUME SubInv, Stop PROVE SubInv'
<1>1. /\ stopped' = TRUE /\ up' = FALSE /\ wire' = Forgotten(Workers)
      /\ UNCHANGED <<setting, tool, epoch, results, worker, crowded, budget>>
  BY DEF Stop
<1> QED BY <1>1, Forgets DEF SubInv, TypeOK

LEMMA DisconnectStep == ASSUME SubInv, Disconnect PROVE SubInv'
<1>1. /\ up' = FALSE /\ wire' = Forgotten(Workers) /\ budget > 0 /\ budget' = budget - 1
      /\ UNCHANGED <<setting, tool, epoch, stopped, results, worker, crowded>>
  BY DEF Disconnect, Spend
<1>2. budget' \in 0..MaxTroubles
  BY <1>1, SubscriptionAssumption DEF SubInv, TypeOK, SubscriptionAssumption
<1> QED BY <1>1, <1>2, Forgets DEF SubInv, TypeOK

LEMMA TimeOutStep == ASSUME SubInv, NEW w \in Workers, TimeOut(w) PROVE SubInv'
<1>1. /\ worker[w].pc = "waiting" /\ wire' = Forgotten({w})
      /\ budget > 0 /\ budget' = budget - 1
      /\ worker' = [worker EXCEPT ![w].pc = "answered"]
      /\ UNCHANGED <<setting, tool, session, crowded>>
  BY DEF TimeOut, Spend, Goes
<1>2. budget' \in 0..MaxTroubles
  BY <1>1, SubscriptionAssumption DEF SubInv, TypeOK, SubscriptionAssumption
<1>3. worker[w] \in Worker
  BY DEF SubInv, TypeOK
<1>4. PICK r : r = [worker[w] EXCEPT !.pc = "answered"] /\ worker' = [worker EXCEPT ![w] = r]
  BY <1>1
<1>5. r \in Worker
  BY <1>3, <1>4 DEF Worker
<1>6. /\ worker' \in [Workers -> Worker] /\ worker'[w] = r
      /\ \A v \in Workers \ {w} : worker'[v] = worker[v]
  BY <1>4, <1>5 DEF SubInv, TypeOK
<1>7. UNCHANGED <<epoch, stopped, up, results>> /\ (up => ~stopped)
  BY <1>1 DEF session, SubInv, Asked
<1>8. \A v \in Workers :
        \/ worker'[v] = worker[v]
        \/ /\ v \in {w} /\ worker[v].pc = "waiting"
           /\ worker'[v] = [worker[v] EXCEPT !.pc = "answered"]
  BY <1>1, <1>4, <1>6
<1>9. /\ up' = up /\ stopped' = stopped /\ up \in BOOLEAN /\ stopped \in BOOLEAN
      /\ {w} \in SUBSET Workers
  BY <1>7 DEF SubInv, TypeOK
<1> QED BY <1>1, <1>2, <1>6, <1>7, <1>8, <1>9, Forgets

-----------------------------------------------------------------------------
(* Steps of the workers.                                                    *)

LEMMA WorkerFacts ==
  ASSUME SubInv, NEW w \in Workers
  PROVE  /\ worker[w] \in Worker /\ Good(worker[w])
         /\ worker[w].epoch \in Nat /\ epoch \in Nat /\ worker[w].epoch <= epoch
         /\ worker[w].results \in [Bands -> Verdicts]
         /\ worker[w].attempt \in 1..MaxAttempts /\ worker[w].band \in 1..(NBands + 1)
         /\ NBands \in Nat /\ MaxAttempts \in Nat
BY SubscriptionAssumption
DEF SubInv, TypeOK, Records, Worker, Epochs, SubscriptionAssumption

(* Only the place in the program changes.                                   *)
LEMMA GoesOn ==
  ASSUME SubInv, NEW w \in Workers,
         NEW p \in {"attempt", "band", "answered", "pausing"},
         Active(w), Goes(w, p), \A i \in DOMAIN wire : wire[i].from # w,
         p = "attempt" => worker[w].band = 1,
         p = "pausing" => worker[w].attempt < MaxAttempts,
         worker[w].pc # "begin",
         p = "answered" => worker[w].pc = "waiting",
         UNCHANGED <<setting, tool, wire, epoch, stopped, up, crowded, budget>>,
         \/ /\ results' = results
            /\ Busy(worker[w]) => p \in {"band", "answered"}
         \/ /\ worker[w].pc = "band"
            /\ results' = IF worker[w].host = epoch THEN worker[w].results ELSE results
  PROVE  SubInv'
<1>1. PICK r : r = [worker[w] EXCEPT !.pc = p] /\ worker' = [worker EXCEPT ![w] = r]
  BY DEF Goes
<1>2. /\ r \in Worker /\ r.pc = p /\ r.epoch = worker[w].epoch /\ r.host = worker[w].host
      /\ r.attempt = worker[w].attempt /\ r.band = worker[w].band /\ r.op = worker[w].op
      /\ r.ack = worker[w].ack /\ r.results = worker[w].results
  BY <1>1, WorkerFacts DEF Worker
<1>3. Good(r)
  BY <1>2, WorkerFacts DEF Good, Asks, Active
<1>4. r.pc # "answered" \/ r.ack = NoAnswer
  BY <1>2, WorkerFacts DEF Good
<1>5. Busy(worker[w]) /\ p \in {"band", "answered"} => Busy(r) /\ r.pc # "off"
  BY <1>2 DEF Busy, Asks
<1>6. r.epoch <= epoch
  BY <1>2, WorkerFacts
<1> QED BY <1>1, <1>2, <1>3, <1>4, <1>5, <1>6, Moves

LEMMA BeginStep == ASSUME SubInv, NEW w \in Workers, Begin(w) PROVE SubInv'
<1>1. worker[w].pc = "begin" /\ UNCHANGED <<setting, tool, session, crowded, budget>>
  BY DEF Begin
<1>2. /\ UNCHANGED <<setting, tool, epoch, stopped, up, crowded, budget>>
      /\ results' = results
  BY <1>1 DEF session
<1>3. ~Busy(worker[w])
  BY <1>1 DEF Busy, Asks
<1>4. CASE ~IsCurrent(w)
  <2>1. Leaves(w) /\ wire' = wire
    BY <1>4 DEF Begin
  <2> QED BY <1>1, <1>2, <1>3, <2>1, LeavesKeeps DEF Active
<1>5. CASE IsCurrent(w)
  <2>1. worker[w].epoch = epoch /\ ~stopped /\ up
    BY <1>5 DEF IsCurrent
  <2>2. Current(w)
    BY <1>1, <2>1 DEF Current, Active
  <2>3. CASE extras
    <3>1. PICK r : /\ r = [worker[w] EXCEPT !.host = epoch, !.pc = "waiting"]
                   /\ worker' = [worker EXCEPT ![w] = r]
      BY <1>5, <2>3 DEF Begin
    <3>2. /\ r \in Worker /\ r.pc = "waiting" /\ r.epoch = worker[w].epoch
          /\ r.host = epoch /\ r.attempt = worker[w].attempt /\ r.band = worker[w].band
          /\ r.op = worker[w].op /\ r.ack = worker[w].ack /\ r.results = worker[w].results
      BY <2>1, <3>1, WorkerFacts DEF Worker
    <3>3. wire' = Append(wire, [op |-> "online", band |-> r.band, from |-> w])
      BY <1>1, <1>5, <2>3, <3>2, WorkerFacts DEF Begin, Good
    <3>4. r.op = "online" /\ "online" \in Ops /\ "online" \notin {"link", "enable"}
      BY <1>1, <3>2, WorkerFacts DEF Good, Ops
    <3>5. Good(r)
      <4>1. ~Asks(r, ResetOps) /\ ~Asks(r, BandOps)
        BY <3>2, <3>4 DEF Asks, BandOps, ResetOps
      <4>2. Good(worker[w]) /\ worker[w].ack = NoAnswer /\ worker[w].band = 1
        BY <1>1, WorkerFacts DEF Good
      <4>3. worker[w].epoch # 0
        BY <1>1, <4>2 DEF Good
      <4>4. \A b \in Bands : b >= r.band => r.results[b] = "untried"
        BY <3>2, <4>2 DEF Good
      <4> QED BY <2>1, <3>2, <4>1, <4>2, <4>3, <4>4 DEF Good
    <3>6. worker[w].pc # "waiting" /\ r.epoch = epoch /\ up
      BY <1>1, <2>1, <3>2
    <3>7. worker' = [worker EXCEPT ![w] = r]
      BY <3>1
    <3>8. r \in Worker /\ r.pc = "waiting" /\ r.results = worker[w].results
      BY <3>2
    <3> QED
      BY <1>1, <1>3, <2>2, <3>3, <3>4, <3>5, <3>6, <3>7, <3>8, Asking
  <2>4. CASE ~extras
    <3>1. PICK r : /\ r = [worker[w] EXCEPT !.host = epoch, !.pc = "attempt"]
                   /\ worker' = [worker EXCEPT ![w] = r] /\ wire' = wire
      BY <1>5, <2>4 DEF Begin
    <3>2. /\ r \in Worker /\ r.pc = "attempt" /\ r.epoch = worker[w].epoch
          /\ r.host = epoch /\ r.attempt = worker[w].attempt /\ r.band = worker[w].band
          /\ r.results = worker[w].results
      BY <2>1, <3>1, WorkerFacts DEF Worker
    <3>3. Good(r)
      BY <1>1, <2>1, <3>2, WorkerFacts DEF Good, Asks
    <3>4. \A i \in DOMAIN wire : wire[i].from # w
      BY <1>1, Unsent
    <3> QED BY <1>1, <1>2, <1>3, <2>1, <3>1, <3>2, <3>3, <3>4, WorkerFacts, Moves DEF Active
  <2> QED BY <2>3, <2>4
<1> QED BY <1>4, <1>5

LEMMA AttemptStep == ASSUME SubInv, NEW w \in Workers, Attempt(w) PROVE SubInv'
<1>1. /\ worker[w].pc = "attempt" /\ UNCHANGED <<setting, tool, session, crowded, budget>>
      /\ worker[w].band = 1
  BY WorkerFacts DEF Attempt, Good
<1>2. /\ UNCHANGED <<setting, tool, epoch, stopped, up, crowded, budget>>
      /\ results' = results
  BY <1>1 DEF session
<1>3. ~Busy(worker[w]) /\ \A i \in DOMAIN wire : wire[i].from # w
  BY <1>1, Unsent DEF Busy, Asks
<1>4. CASE ~Owns(w)
  <2>1. Finishes(w) /\ wire' = wire
    BY <1>4 DEF Attempt
  <2> QED BY <1>1, <1>2, <1>3, <2>1, FinishesKeeps
<1>5. CASE Owns(w) /\ ResetsAt(worker[w].attempt)
  <2>1. Sends(worker[w], w, "disable all") /\ worker[w].attempt = 1
    BY <1>5 DEF Attempt, ResetsAt
  <2>2. "disable all" \in Ops \ {"online"} /\ "disable all" \in ResetOps
        /\ "disable all" \notin BandOps
    BY ResetsAre DEF Ops, ResetOps, BandOps
  <2> QED BY <1>1, <2>1, <2>2, SendsKeeps
<1>6. CASE Owns(w) /\ ~ResetsAt(worker[w].attempt)
  <2>1. Goes(w, "band") /\ wire' = wire
    BY <1>6 DEF Attempt
  <2> QED BY <1>1, <1>2, <1>3, <2>1, GoesOn DEF Active
<1> QED BY <1>4, <1>5, <1>6

LEMMA BandSends ==
  /\ BandOps \subseteq Ops \ {"online"} /\ BandOps \cap ResetOps = {}
  /\ ResetOps \subseteq Ops \ {"online"} /\ "finish" \in Ops \ {"online"}
  /\ "finish" \notin BandOps \cup ResetOps
BY ResetsAre DEF BandOps, Ops, ResetOps

LEMMA NextBandStep == ASSUME SubInv, NEW w \in Workers, NextBand(w) PROVE SubInv'
<1>1. /\ worker[w].pc = "band" /\ worker[w].band <= NBands
      /\ Sends(worker[w], w, "define")
      /\ UNCHANGED <<setting, tool, session, crowded, budget>>
  BY DEF NextBand
<1>2. worker[w].band \in Bands
  BY <1>1, WorkerFacts DEF Bands
<1>3. "define" \in BandOps
  BY DEF BandOps
<1> QED BY <1>1, <1>2, <1>3, BandSends, SendsKeeps

LEMMA EndAttemptStep == ASSUME SubInv, NEW w \in Workers, EndAttempt(w) PROVE SubInv'
<1>1. /\ worker[w].pc = "band"
      /\ results' = IF worker[w].host = epoch THEN worker[w].results ELSE results
      /\ UNCHANGED <<setting, tool, wire, epoch, stopped, up, crowded, budget>>
  BY DEF EndAttempt
<1>2. CASE RetriesAfter(w)
  <2>1. Goes(w, "pausing") /\ worker[w].attempt < MaxAttempts
    BY <1>2 DEF EndAttempt, RetriesAfter
  <2>2. \A i \in DOMAIN wire : wire[i].from # w
    BY <1>1, Unsent
  <2> QED BY <1>1, <2>1, <2>2, GoesOn DEF Active
<1>3. CASE ~RetriesAfter(w)
  <2>1. Finishes(w)
    BY <1>3 DEF EndAttempt
  <2> QED BY <1>1, <2>1, FinishesKeeps
<1> QED BY <1>2, <1>3

LEMMA RetryStep == ASSUME SubInv, NEW w \in Workers, Retry(w) PROVE SubInv'
<1>1. worker[w].pc = "pausing" /\ UNCHANGED <<setting, tool, wire, session, crowded, budget>>
  BY DEF Retry
<1>2. /\ UNCHANGED <<setting, tool, wire, epoch, stopped, up, crowded, budget>>
      /\ results' = results
  BY <1>1 DEF session
<1>3. ~Busy(worker[w])
  BY <1>1 DEF Busy, Asks
<1>4. CASE stopped
  <2>1. Finishes(w)
    BY <1>4 DEF Retry
  <2>2. worker[w].pc \in {"attempt", "band", "pausing"}
    BY <1>1
  <2>3. UNCHANGED <<setting, tool, wire, epoch, stopped, up, crowded, budget>>
    BY <1>1, <1>2
  <2>4. results' = results /\ ~Busy(worker[w])
    BY <1>2, <1>3
  <2> QED BY <2>1, <2>2, <2>3, <2>4, FinishesKeeps
<1>5. CASE ~stopped
  <2>1. PICK r : /\ r = [worker[w] EXCEPT !.pc = "attempt", !.attempt = @ + 1,
                                          !.band = 1, !.results = NoResults]
                 /\ worker' = [worker EXCEPT ![w] = r]
    <3>1. worker' = [worker EXCEPT ![w] =
                      [worker[w] EXCEPT !.pc = "attempt", !.attempt = worker[w].attempt + 1,
                                        !.band = 1, !.results = NoResults]]
      <4>1. worker \in [Workers -> Worker] /\ worker[w] \in Worker
        BY DEF SubInv, TypeOK
      <4>2. worker' = [worker EXCEPT ![w].pc = "attempt", ![w].attempt = @ + 1,
                                     ![w].band = 1, ![w].results = NoResults]
        BY <1>5 DEF Retry
      <4> QED BY <4>1, <4>2 DEF Worker
    <3> QED BY <3>1
  <2>2. worker[w].attempt + 1 \in 1..MaxAttempts /\ 1 \in 1..(NBands + 1)
    BY <1>1, WorkerFacts DEF Good
  <2>3. NoResults \in [Bands -> Verdicts] /\ \A b \in Bands : NoResults[b] = "untried"
    BY DEF NoResults, Verdicts
  <2>4. /\ r \in Worker /\ r.pc = "attempt" /\ r.epoch = worker[w].epoch
        /\ r.host = worker[w].host /\ r.band = 1 /\ r.results = NoResults
    BY <2>1, <2>2, <2>3, WorkerFacts DEF Worker
  <2>5. Good(r)
    BY <1>1, <2>3, <2>4, WorkerFacts DEF Good, Asks
  <2>6. \A i \in DOMAIN wire : wire[i].from # w
    BY <1>1, Unsent
  <2> QED BY <1>1, <1>2, <1>3, <2>1, <2>3, <2>4, <2>5, <2>6, WorkerFacts, Moves DEF Active
<1> QED BY <1>4, <1>5

LEMMA FinishStep == ASSUME SubInv, NEW w \in Workers, Finish(w) PROVE SubInv'
<1>1. worker[w].pc = "finish" /\ UNCHANGED <<setting, tool, session, crowded, budget>>
  BY DEF Finish
<1>2. /\ UNCHANGED <<setting, tool, epoch, stopped, up, crowded, budget>>
      /\ results' = results
  BY <1>1 DEF session
<1>3. ~Busy(worker[w])
  BY <1>1 DEF Busy, Asks
<1>4. CASE extras /\ Owns(w)
  <2>1. Sends(worker[w], w, "finish")
    BY <1>4 DEF Finish
  <2> QED BY <1>1, <1>3, <2>1, BandSends, SendsKeeps
<1>5. CASE ~(extras /\ Owns(w))
  <2>1. Leaves(w) /\ wire' = wire
    BY <1>5 DEF Finish
  <2> QED BY <1>1, <1>2, <1>3, <2>1, LeavesKeeps DEF Active
<1> QED BY <1>4, <1>5

LEMMA ExpiresStep == ASSUME SubInv, NEW w \in Workers, Expires(w) PROVE SubInv'
<1>1. /\ worker[w].pc = "waiting" /\ ~Pending(w) /\ Goes(w, "answered")
      /\ UNCHANGED <<setting, tool, wire, session, crowded, budget>>
  BY DEF Expires
<1>2. \A i \in DOMAIN wire : wire[i].from # w
  BY <1>1 DEF Pending
<1>3. /\ UNCHANGED <<setting, tool, wire, epoch, stopped, up, crowded, budget>>
      /\ results' = results
  BY <1>1 DEF session
<1> QED BY <1>1, <1>2, <1>3, GoesOn DEF Active

LEMMA ResetAnsweredStep ==
  ASSUME SubInv, NEW w \in Workers, ResetAnswered(w) PROVE SubInv'
<1>1. PICK i \in 1..3 :
        /\ worker[w].op = Resets[i]
        /\ IF i < 3 THEN Sends(worker[w], w, Resets[i + 1])
           ELSE Goes(w, "band") /\ UNCHANGED wire
  BY DEF ResetAnswered
<1>2. /\ worker[w].pc = "answered"
      /\ UNCHANGED <<setting, tool, session, crowded, budget>>
  BY DEF ResetAnswered
<1>3. worker[w].op \in ResetOps
  BY <1>1, ResetsAre
<1>4. worker[w].attempt = 1 /\ worker[w].band = 1
  BY <1>2, <1>3, WorkerFacts DEF Good, Asks
<1>5. CASE i < 3
  <2>1. Resets[i + 1] \in ResetOps
    <3>1. i + 1 \in 1..3
      BY <1>5
    <3> QED BY <3>1, ResetsAre
  <2>2. PICK op : op = Resets[i + 1]
    OBVIOUS
  <2>3. Sends(worker[w], w, op) /\ op \in ResetOps /\ op \notin {"link", "enable"}
    BY <1>1, <1>5, <2>1, <2>2 DEF ResetOps
  <2> QED BY <1>2, <1>4, <2>3, BandSends, SendsKeeps
<1>6. CASE ~(i < 3)
  <2>1. Goes(w, "band") /\ wire' = wire
    BY <1>1, <1>6
  <2>2. \A k \in DOMAIN wire : wire[k].from # w
    BY <1>2, Unsent
  <2>3. /\ UNCHANGED <<setting, tool, epoch, stopped, up, crowded, budget>>
        /\ results' = results
    BY <1>2 DEF session
  <2> QED BY <1>2, <2>1, <2>2, <2>3, GoesOn DEF Active
<1> QED BY <1>5, <1>6

LEMMA OtherAnsweredStep ==
  ASSUME SubInv, NEW w \in Workers, OtherAnswered(w) PROVE SubInv'
<1>1. /\ worker[w].pc = "answered"
      /\ UNCHANGED <<setting, tool, wire, session, crowded, budget>>
  BY DEF OtherAnswered
<1>2. /\ UNCHANGED <<setting, tool, wire, epoch, stopped, up, crowded, budget>>
      /\ results' = results
  BY <1>1 DEF session
<1>3. worker[w].op \in {"online", "finish"} => ~Busy(worker[w])
  BY <1>1 DEF Busy, Asks, BandOps, ResetOps
<1>4. CASE worker[w].op = "online" /\ Goes(w, "attempt")
  <2>1. worker[w].band = 1
    BY <1>1, <1>4, WorkerFacts DEF Good, Asks
  <2>2. \A k \in DOMAIN wire : wire[k].from # w
    BY <1>1, Unsent
  <2> QED BY <1>1, <1>2, <1>3, <1>4, <2>1, <2>2, GoesOn DEF Active
<1>5. CASE worker[w].op = "finish" /\ Leaves(w)
  BY <1>1, <1>2, <1>3, <1>5, LeavesKeeps DEF Active
<1> QED BY <1>4, <1>5 DEF OtherAnswered

(* A band goes on only with what was acknowledged.                          *)
LEMMA FollowsIs ==
  ASSUME NEW r, r.op \in BandOps
  PROVE  /\ Follows(r) \in {"link", "delete", "redefine", "enable", "accepted", "refused"}
         /\ Follows(r) = "link" => r.ack = 0 /\ r.op \in {"define", "redefine"}
         /\ Follows(r) = "enable" => r.ack = 0 /\ r.op = "link"
         /\ Follows(r) = "accepted" =>
              r.ack = 0 /\ (r.op = "enable" \/ (r.op = "link" /\ r.band \in quiet))
BY DEF Follows, AfterDefine, AfterLink, BandOps

LEMMA BandAnsweredStep ==
  ASSUME SubInv, NEW w \in Workers, BandAnswered(w) PROVE SubInv'
<1>1. /\ worker[w].pc = "answered" /\ worker[w].op \in BandOps
      /\ UNCHANGED <<setting, tool, session, crowded, budget>>
  BY DEF BandAnswered, BandOps
<1>2. PICK next : next = Follows(worker[w])
  OBVIOUS
<1>3. /\ next \in {"link", "delete", "redefine", "enable", "accepted", "refused"}
      /\ next = "link" => worker[w].ack = 0 /\ worker[w].op \in {"define", "redefine"}
      /\ next = "enable" => worker[w].ack = 0 /\ worker[w].op = "link"
      /\ next = "accepted" =>
           /\ worker[w].ack = 0
           /\ worker[w].op = "enable" \/ (worker[w].op = "link" /\ worker[w].band \in quiet)
  BY <1>1, <1>2, FollowsIs
<1>4. worker[w].band \in Bands
  BY <1>1, WorkerFacts DEF Good, Asks
<1>5. ASSUME ~crowded, Current(w), worker[w].ack = 0
      PROVE  /\ wire = <<>>
             /\ worker[w].op \in {"define", "redefine", "link", "enable"}
                  => Linkable(worker[w].band)
             /\ worker[w].op \in {"link", "enable"} => worker[w].band \in linked
             /\ worker[w].op = "enable" => worker[w].band \in enabled
  <2>1. Progress(w)
    BY <1>5 DEF SubInv, Subscribed
  <2> QED BY <1>1, <1>5, <2>1 DEF Progress, NoAnswer
<1>6. CASE next \in Verdicts
  <2>1. next \in {"accepted", "refused"}
    BY <1>3, <1>6 DEF Verdicts
  <2>2. PICK r : r = Settled(worker[w], next) /\ worker' = [worker EXCEPT ![w] = r]
                 /\ wire' = wire
    BY <1>2, <1>6 DEF BandAnswered
  <2>3. /\ r.pc = "band" /\ r.epoch = worker[w].epoch /\ r.host = worker[w].host
        /\ r.attempt = worker[w].attempt /\ r.band = worker[w].band + 1
        /\ r.results = [worker[w].results EXCEPT ![worker[w].band] = next]
        /\ r \in Worker
    <3>1. worker[w].band + 1 \in 1..(NBands + 1)
      BY <1>4, WorkerFacts DEF Bands
    <3> QED BY <1>4, <2>1, <2>2, <3>1, WorkerFacts DEF Settled, Worker, Verdicts
  <2>4. Good(r)
    <3>1. \A b \in Bands : b >= r.band => r.results[b] = "untried"
      BY <1>4, <2>3, WorkerFacts DEF Good, Bands
    <3> QED BY <1>1, <2>3, <3>1, WorkerFacts DEF Good, Asks
  <2>5. ASSUME NEW b \in Bands, r.results[b] = "accepted"
        PROVE  worker[w].results[b] = "accepted" \/ (~crowded /\ Current(w) => Safe(b))
    <3>1. CASE b # worker[w].band
      BY <2>3, <2>5, <3>1, WorkerFacts
    <3>2. CASE b = worker[w].band
      <4>1. next = "accepted"
        BY <1>4, <2>3, <2>5, <3>2, WorkerFacts
      <4>2. ASSUME ~crowded, Current(w) PROVE Safe(b)
        <5>1. wire = <<>> /\ Reporting(b)
          BY <1>3, <1>5, <3>2, <4>1, <4>2 DEF Reporting, Linkable
        <5> QED BY <5>1 DEF Safe
      <4> QED BY <4>2
    <3> QED BY <3>1, <3>2
  <2>6. /\ UNCHANGED <<setting, tool, wire, epoch, stopped, up, crowded, budget>>
        /\ results' = results
    BY <1>1, <2>2 DEF session
  <2>7. \A i \in DOMAIN wire : wire[i].from # w
    BY <1>1, Unsent
  <2>8. Busy(r)
    BY <2>3 DEF Busy
  <2> QED
    BY <1>1, <2>2, <2>3, <2>4, <2>5, <2>6, <2>7, <2>8, WorkerFacts, Moves DEF Active
<1>7. CASE next \notin Verdicts
  <2>1. Sends(worker[w], w, next)
    BY <1>2, <1>7 DEF BandAnswered
  <2>2. next \in {"link", "delete", "redefine", "enable"}
    BY <1>3, <1>7 DEF Verdicts
  <2>3. next \in BandOps
    BY <2>2 DEF BandOps
  <2>4. next \in Ops \ {"online"} /\ next \notin ResetOps
    BY <2>3, BandSends
  <2>5. next \in {"link", "enable"} /\ ~crowded /\ Current(w) =>
          /\ wire = <<>> /\ Linkable(worker[w].band)
          /\ next = "enable" => worker[w].band \in linked
    BY <1>3, <1>5
  <2> QED BY <1>1, <1>4, <2>1, <2>3, <2>4, <2>5, SendsKeeps
<1> QED BY <1>6, <1>7

-----------------------------------------------------------------------------
(* What the subscription promises.                                          *)

LEMMA SubInit == Init => SubInv
<1> SUFFICES ASSUME Init PROVE SubInv
  OBVIOUS
<1>1. /\ wire = <<>> /\ epoch = 0 /\ stopped = TRUE /\ up = FALSE /\ results = NoResults
      /\ worker = [w \in Workers |-> Off] /\ crowded = FALSE /\ budget = MaxTroubles
      /\ resetFirst \in BOOLEAN /\ collides \in BOOLEAN /\ extras \in BOOLEAN
      /\ report = [b \in Bands |-> "other"] /\ linked = Bands /\ enabled = {}
  BY DEF Init
<1>2. NBands \in Bands /\ 1 \in Bands /\ MaxTroubles \in Nat /\ MaxEpoch \in Nat
  BY SubscriptionAssumption DEF SubscriptionAssumption, Bands
<1>3. quiet \subseteq Bands /\ refuses \subseteq Bands
  BY <1>2 DEF Init
<1>4. NoResults \in [Bands -> Verdicts] /\ \A b \in Bands : NoResults[b] = "untried"
  BY DEF NoResults, Verdicts
<1>5. /\ Off.pc = "off" /\ Off.epoch = 0 /\ Off.band = 1 /\ Off.results = NoResults
  BY DEF Off
<1>6. Off \in Worker
  <2>1. 0 \in Epochs /\ 1 \in 1..MaxAttempts /\ 1 \in 1..(NBands + 1)
    BY SubscriptionAssumption DEF SubscriptionAssumption, Epochs
  <2> QED BY <1>4, <2>1 DEF Off, Worker, Acks, Ops
<1>7. Good(Off)
  BY <1>4, <1>5 DEF Good, Asks
<1>8. TypeOK
  <2>1. wire \in Seq(Message)
    BY <1>1
  <2>2. worker \in [Workers -> Worker]
    BY <1>1, <1>6
  <2>3. report \in [Bands -> {"none", "other", "ours"}]
    BY <1>1
  <2>4. epoch \in Epochs /\ budget \in 0..MaxTroubles
    BY <1>1, <1>2 DEF Epochs
  <2> QED BY <1>1, <1>3, <1>4, <2>1, <2>2, <2>3, <2>4 DEF TypeOK
<1>9. Records
  BY <1>1, <1>5, <1>7 DEF Records
<1>10. Asked
  BY <1>1 DEF Asked
<1>11. \A w \in Workers : ~Current(w)
  BY <1>1, <1>5 DEF Current, Active
<1>12. Subscribed
  BY <1>1, <1>4, <1>11 DEF Subscribed, Alone, Newest, Listed
<1> QED BY <1>8, <1>9, <1>10, <1>12 DEF SubInv

LEMMA SubStep == SubInv /\ [Next]_vars => SubInv'
<1> SUFFICES ASSUME SubInv, [Next]_vars PROVE SubInv'
  OBVIOUS
<1>1. CASE Handle \/ Start \/ Stop \/ Connect \/ Disconnect
  BY <1>1, HandleStep, StartStep, StopStep, ConnectStep, DisconnectStep
<1>2. ASSUME NEW w \in Workers, TimeOut(w) PROVE SubInv'
  BY <1>2, TimeOutStep
<1>3. ASSUME NEW w \in Workers, WorkerStep(w) PROVE SubInv'
  BY <1>3, BeginStep, AttemptStep, NextBandStep, EndAttemptStep, RetryStep, FinishStep,
     BandAnsweredStep, ResetAnsweredStep, OtherAnsweredStep, ExpiresStep
  DEF WorkerStep
<1>4. CASE UNCHANGED vars
  <2>1. \A w \in Workers : Pending(w)' = Pending(w) /\ Current(w)' = Current(w)
    BY <1>4 DEF vars, Pending, Current, Active, session
  <2>2. \A b : Safe(b)' = Safe(b)
    BY <1>4 DEF vars, Safe, Reporting, tool, setting
  <2>3. TypeOK' /\ Records' /\ Asked'
    BY <1>4, <2>1 DEF vars, SubInv, TypeOK, Records, Asked, session, tool, setting
  <2>4. Subscribed'
    BY <1>4, <2>1, <2>2
    DEF vars, SubInv, Subscribed, Alone, Newest, Listed, Progress, Kept, Linkable,
        session, tool, setting
  <2> QED BY <2>3, <2>4 DEF SubInv
<1> QED BY <1>1, <1>2, <1>3, <1>4 DEF Next

(* What goes out is sent by a worker of the present session; a delete-all,  *)
(* by one in its first attempt that has not come to a band.                 *)
LEMMA SendsSays ==
  ASSUME SubInv, NEW w \in Workers, NEW op, Sends(worker[w], w, op),
         worker[w].pc \notin {"off", "begin"}
  PROVE  \/ wire' = wire
         \/ /\ wire' = Append(wire, [op |-> op, band |-> worker[w].band, from |-> w])
            /\ worker[w].epoch = epoch /\ ~stopped
BY WorkerFacts DEF Sends, HostOf, Good

SentBy(w, op) ==
  /\ \E b : wire' = Append(wire, [op |-> op, band |-> b, from |-> w])
  /\ worker[w].epoch = epoch /\ ~stopped
  /\ op \in ResetOps => worker[w].attempt = 1 /\ worker[w].band = 1

LEMMA WorkerSends ==
  ASSUME SubInv, NEW w \in Workers, WorkerStep(w)
  PROVE  wire' = wire \/ \E op : SentBy(w, op)
<1>1. CASE Begin(w)
  <2>1. "online" \notin ResetOps
    BY DEF ResetOps
  <2> QED BY <1>1, <2>1 DEF Begin, SentBy, IsCurrent
<1>2. CASE Attempt(w)
  <2>1. worker[w].pc = "attempt" /\ worker[w].band = 1
    BY <1>2, WorkerFacts DEF Attempt, Good
  <2>2. \/ wire' = wire
        \/ Sends(worker[w], w, "disable all") /\ worker[w].attempt = 1
    BY <1>2 DEF Attempt, ResetsAt
  <2> QED BY <2>1, <2>2, SendsSays DEF SentBy
<1>3. CASE NextBand(w)
  <2>1. worker[w].pc = "band" /\ Sends(worker[w], w, "define") /\ "define" \notin ResetOps
    BY <1>3 DEF NextBand, ResetOps
  <2> QED BY <2>1, SendsSays DEF SentBy
<1>4. CASE EndAttempt(w) \/ Retry(w) \/ OtherAnswered(w) \/ Expires(w)
  BY <1>4 DEF EndAttempt, Retry, OtherAnswered, Expires
<1>5. CASE Finish(w)
  <2>1. /\ worker[w].pc = "finish" /\ "finish" \notin ResetOps
        /\ wire' = wire \/ Sends(worker[w], w, "finish")
    BY <1>5 DEF Finish, ResetOps
  <2> QED BY <2>1, SendsSays DEF SentBy
<1>6. CASE BandAnswered(w)
  <2>1. PICK next : next = Follows(worker[w])
    OBVIOUS
  <2>2. /\ worker[w].pc = "answered" /\ worker[w].op \in BandOps
        /\ wire' = wire \/ Sends(worker[w], w, next)
    BY <1>6, <2>1 DEF BandAnswered, BandOps
  <2>3. next \in {"link", "delete", "redefine", "enable", "accepted", "refused"}
    BY <2>1, <2>2, FollowsIs
  <2>4. next \notin ResetOps
    BY <2>3 DEF ResetOps
  <2> QED BY <2>2, <2>4, SendsSays DEF SentBy
<1>7. CASE ResetAnswered(w)
  <2>1. worker[w].pc = "answered" /\ worker[w].op \in ResetOps
    BY <1>7, ResetsAre DEF ResetAnswered
  <2>2. worker[w].attempt = 1 /\ worker[w].band = 1
    BY <2>1, WorkerFacts DEF Good, Asks
  <2>3. wire' = wire \/ \E i \in 1..3 : Sends(worker[w], w, Resets[i + 1])
    BY <1>7 DEF ResetAnswered
  <2> QED BY <2>1, <2>2, <2>3, SendsSays DEF SentBy
<1> QED BY <1>1, <1>2, <1>3, <1>4, <1>5, <1>6, <1>7 DEF WorkerStep

LEMMA NextSends ==
  ASSUME SubInv, [Next]_vars, NEW w \in Workers,
         Len(wire') > Len(wire), wire'[Len(wire')].from = w
  PROVE  /\ worker[w].epoch = epoch /\ ~stopped
         /\ wire'[Len(wire')].op \in ResetOps => worker[w].attempt = 1 /\ ~Accepted(w)
<1>1. wire \in Seq(Message) /\ Len(wire) \in Nat
  BY DEF SubInv, TypeOK
<1>2. wire' # wire
  BY <1>1
<1>3. ~Handle
  BY <1>1, Shortened DEF Handle
<1>4. ~Stop /\ ~Disconnect /\ \A v \in Workers : ~TimeOut(v)
  BY <1>1, ForgottenDoes DEF Stop, Disconnect, TimeOut
<1>5. ~Start /\ ~Connect /\ ~UNCHANGED vars
  BY <1>2 DEF Start, Connect, vars
<1>6. PICK v \in Workers : WorkerStep(v)
  BY <1>3, <1>4, <1>5 DEF Next
<1>7. PICK op : SentBy(v, op)
  BY <1>2, <1>6, WorkerSends
<1>8. PICK b : wire' = Append(wire, [op |-> op, band |-> b, from |-> v])
  BY <1>7 DEF SentBy
<1>9. wire'[Len(wire')] = [op |-> op, band |-> b, from |-> v]
  <2>1. PICK m : m = [op |-> op, band |-> b, from |-> v]
    OBVIOUS
  <2>2. wire \in Seq(Message \cup {m})
    BY <1>1
  <2> QED BY <1>8, <2>1, <2>2, Appended
<1>10. v = w /\ wire'[Len(wire')].op = op
  BY <1>9
<1>11. worker[w].band = 1 => ~Accepted(w)
  BY WorkerFacts DEF Good, Accepted, Bands
<1> QED BY <1>7, <1>10, <1>11 DEF SentBy

(* Every variable keeps its type: no worker goes past the last band or the  *)
(* last attempt.                                                            *)
THEOREM SubscriptionTypes == Spec => []TypeOK
<1>1. SubInv => TypeOK
  BY DEF SubInv
<1> QED BY <1>1, SubInit, SubStep, PTL DEF Spec

(* When the workers are done, the bands a host lists as accepted report, in *)
(* its own layout, whatever was refused, answered too late or sent by a     *)
(* connection before (secs_runtime.py:282).                                 *)
THEOREM AcceptedReport == Spec => []AcceptedBandsReport
<1>1. SubInv => AcceptedBandsReport
  BY DEF SubInv, Subscribed, Listed, Safe, AcceptedBandsReport, Idle, Current
<1> QED BY <1>1, SubInit, SubStep, PTL DEF Spec

(* A worker whose session is over, or replaced, sends nothing on the        *)
(* connection of the next one (secs_runtime.py:196).                        *)
THEOREM SilentOnceSuperseded == Spec => SupersededSilent
<1>1. SubInv /\ [Next]_vars =>
        \A w \in Workers :
          Len(wire') > Len(wire) /\ wire'[Len(wire')].from = w
            => worker[w].epoch = epoch /\ ~stopped
  BY NextSends
<1> QED BY <1>1, SubInit, SubStep, PTL DEF Spec, SupersededSilent

(* A worker sends its delete-alls in its first attempt and before it has a  *)
(* band accepted, so no retry and no late answer takes a band away again    *)
(* (secs_runtime.py:208).                                                   *)
THEOREM ResetsComeFirst == Spec => NoLateReset
<1>1. SubInv /\ [Next]_vars =>
        \A w \in Workers :
          Len(wire') > Len(wire) /\ wire'[Len(wire')].from = w
            /\ wire'[Len(wire')].op \in {Resets[i] : i \in 1..3}
            => worker[w].attempt = 1 /\ ~Accepted(w)
  BY NextSends, ResetsAre
<1> QED BY <1>1, SubInit, SubStep, PTL DEF Spec, NoLateReset
=============================================================================
