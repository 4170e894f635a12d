----------------------------- MODULE Subscription ---------------------------
(***************************************************************************)
(* Setting up event reporting on a tool when it connects: the provisioning *)
(* workers of secs_runtime.py, each of which runs the subscription of      *)
(* gateway/event_subscription.py band by band on the host it captured, and *)
(* the tool's handlers of S2F33, S2F35 and S2F37.  A band is one report    *)
(* and one event, as the families of a file that has bands are independent.*)
(* The tool takes the messages in order, also those of a connection that   *)
(* has ended meanwhile; their answers are lost.                            *)
(***************************************************************************)
EXTENDS Integers, Sequences, FiniteSets

CONSTANTS
  Workers,      (* provisioning threads                                     *)
  NoWorker,
  NBands,       (* bands of the subscription file, in its order             *)
  MaxAttempts,  (* SUBSCRIBE_MAX_ATTEMPTS                                   *)
  MaxEpoch,     (* bound: starts of the session                             *)
  MaxTroubles   (* bound: connections lost, answers that come too late      *)

Bands == 1..NBands
Epochs == 0..MaxEpoch

ASSUME SubscriptionAssumption ==
  /\ NoWorker \notin Workers /\ NBands \in Nat \ {0}
  /\ MaxAttempts \in Nat \ {0} /\ MaxEpoch \in Nat /\ MaxTroubles \in Nat

VARIABLES
  (* the configuration and the kind of tool                                 *)
  resetFirst,   (* reset_subscription_on_connect                            *)
  extras,       (* request_online and enable_alarms or drain_spool_on_connect *)
  quiet,        (* bands none of whose events are enabled in the file       *)
  collides,     (* the tool answers DRACK=3 instead of redefining           *)
  refuses,      (* bands the tool refuses                                   *)
  (* the tool                                                               *)
  report,       (* _report_definitions: whose layout each report has        *)
  linked, enabled,
  wire,         (* messages to the tool                                     *)
  (* the session                                                            *)
  epoch, stopped, up,
  results,      (* host.subscription_band_results                           *)
  worker,
  (* history and bounds                                                     *)
  crowded,      (* two workers were active on one connection                *)
  budget

setting == <<resetFirst, extras, quiet, collides, refuses>>
tool == <<report, linked, enabled>>
session == <<epoch, stopped, up, results>>
vars == <<setting, tool, wire, session, worker, crowded, budget>>

Resets == <<"disable all", "unlink all", "undefine all">>
Ops == {"online", "define", "delete", "redefine", "link", "enable",
        "finish"} \cup {Resets[i] : i \in 1..3}
NoAnswer == -1
Acks == {NoAnswer, 0, 3, 4}
Verdicts == {"untried", "accepted", "refused"}
NoResults == [b \in Bands |-> "untried"]

(* A worker with the generation whose host it captured, the band it is at  *)
(* and the message it sent last.                                           *)
Worker == [pc : {"off", "begin", "attempt", "band", "waiting", "answered",
                 "pausing", "finish"},
           epoch : Epochs, host : Epochs, attempt : 1..MaxAttempts,
           band : 1..(NBands + 1), op : Ops, ack : Acks,
           results : [Bands -> Verdicts]]
Message == [op : Ops, band : 1..(NBands + 1), from : Workers \cup {NoWorker}]

TypeOK ==
  /\ resetFirst \in BOOLEAN /\ collides \in BOOLEAN /\ extras \in BOOLEAN
  /\ quiet \subseteq Bands /\ refuses \subseteq Bands
  /\ report \in [Bands -> {"none", "other", "ours"}]
  /\ linked \subseteq Bands /\ enabled \subseteq Bands
  /\ wire \in Seq(Message)
  /\ epoch \in Epochs /\ stopped \in BOOLEAN /\ up \in BOOLEAN
  /\ results \in [Bands -> Verdicts]
  /\ worker \in [Workers -> Worker]
  /\ crowded \in BOOLEAN /\ budget \in 0..MaxTroubles

Off == [pc |-> "off", epoch |-> 0, host |-> 0, attempt |-> 1, band |-> 1,
        op |-> "online", ack |-> NoAnswer, results |-> NoResults]

(* The tool holds the reports and links of another host.  One kind has     *)
(* DRACK=3 for a report it has, and a quiet band; the other, the NexGen MG, *)
(* redefines the report and refuses a band; its machine has the options.    *)
Init ==
  /\ resetFirst \in BOOLEAN /\ collides \in BOOLEAN
  /\ ~(resetFirst /\ collides) /\ extras = ~collides
  /\ quiet = IF collides THEN {NBands} ELSE {}
  /\ refuses = IF collides THEN {} ELSE {1}
  /\ report = [b \in Bands |-> "other"] /\ linked = Bands
  /\ enabled = {} /\ wire = <<>>
  /\ epoch = 0 /\ stopped = TRUE /\ up = FALSE /\ results = NoResults
  /\ worker = [w \in Workers |-> Off]
  /\ crowded = FALSE /\ budget = MaxTroubles

Spend == budget > 0 /\ budget' = budget - 1
Active(w) == worker[w].pc # "off"

-----------------------------------------------------------------------------
(* The tool                                                                *)

Takes(r, l, e) == report' = r /\ linked' = l /\ enabled' = e
Undefined(b) == [report EXCEPT ![b] = "none"]
Keeps(ack) == <<report, linked, enabled, ack>>

(* What a message makes of the tool's reports, links and enabled events,   *)
(* and the acknowledgement.  A list that fails in one place is refused as  *)
(* a whole; a deleted report takes its links along.                        *)
DefineReport(b) ==
  IF b \in refuses THEN Keeps(4)
  ELSE IF collides /\ report[b] # "none" THEN Keeps(3)
  ELSE <<[report EXCEPT ![b] = "ours"], linked, enabled, 0>>

DeleteReport(b) ==
  IF b \in refuses THEN Keeps(4)
  ELSE <<Undefined(b), linked \ {b}, enabled, 0>>

LinkEvent(b) ==
  IF b \in refuses THEN Keeps(4)
  ELSE IF report[b] = "none" THEN Keeps(3)
  ELSE <<report, linked \cup {b}, enabled, 0>>

(* A zero-length list stands for every event.                              *)
EnableEvents(B) == <<report, linked, enabled \cup (IF B = {} THEN Bands ELSE B \ refuses), 0>>

DeleteAll(op) ==
  CASE op = "disable all" -> <<report, linked, {}, 0>>
    [] op = "unlink all" -> <<report, {}, enabled, 0>>
    [] op = "undefine all" -> <<[b \in Bands |-> "none"], {}, enabled, 0>>

Effect(op, b) ==
  CASE op \in {"define", "redefine"} -> DefineReport(b)
    [] op = "delete" -> DeleteReport(b)
    [] op = "link" -> LinkEvent(b)
    [] op = "enable" -> EnableEvents({b})
    [] op \in {"online", "finish"} -> Keeps(0)
    [] OTHER -> DeleteAll(op)

Handle ==
  /\ wire # <<>> /\ wire' = Tail(wire)
  /\ LET m == Head(wire)
         done == Effect(m.op, m.band)
     IN /\ Takes(done[1], done[2], done[3])
        /\ worker' = IF m.from = NoWorker THEN worker
                     ELSE [worker EXCEPT ![m.from].pc = "answered",
                                         ![m.from].ack = done[4]]
  /\ UNCHANGED <<setting, session, crowded, budget>>

-----------------------------------------------------------------------------
(* The session                                                             *)

(* Nobody answers the messages under way.                                  *)
Forgotten(W) == [i \in DOMAIN wire |->
  IF wire[i].from \in W THEN [wire[i] EXCEPT !.from = NoWorker] ELSE wire[i]]

(* stop() joins its workers; the join expires on one that is in a round    *)
(* trip.                                                                   *)
Start ==
  /\ stopped /\ epoch < MaxEpoch
  /\ \A w \in Workers : worker[w].pc \in {"off", "waiting"}
  /\ epoch' = epoch + 1 /\ stopped' = FALSE /\ results' = NoResults
  /\ UNCHANGED <<setting, tool, wire, up, worker, crowded, budget>>

(* The host of the generation that starts.                                 *)
Stop ==
  /\ ~stopped /\ epoch < MaxEpoch
  /\ stopped' = TRUE /\ up' = FALSE /\ wire' = Forgotten(Workers)
  /\ UNCHANGED <<setting, tool, epoch, results, worker, crowded, budget>>

(* _on_connect: also when the connection of the same host comes back.      *)
Connect ==
  /\ ~stopped /\ ~up
  /\ up' = TRUE
  /\ \E w \in Workers :
       /\ ~Active(w)
       /\ worker' = [worker EXCEPT ![w] = [Off EXCEPT !.pc = "begin", !.epoch = epoch]]
  /\ crowded' = (crowded \/ \E w \in Workers : Active(w) /\ worker[w].epoch = epoch)
  /\ UNCHANGED <<setting, tool, wire, epoch, stopped, results, budget>>

Disconnect ==
  /\ up /\ Spend
  /\ up' = FALSE /\ wire' = Forgotten(Workers)
  /\ UNCHANGED <<setting, tool, epoch, stopped, results, worker, crowded>>

-----------------------------------------------------------------------------
(* The workers                                                             *)

IsCurrent(w) == worker[w].epoch = epoch /\ ~stopped /\ up
Owns(w) == IsCurrent(w) /\ worker[w].host = epoch

Goes(w, p) == worker' = [worker EXCEPT ![w].pc = p]
Leaves(w) == worker' = [worker EXCEPT ![w] = Off]
(* The rest of _provision_after_connect needs the generation and the host. *)
Finishes(w) == worker' = [worker EXCEPT ![w] =
  [Off EXCEPT !.pc = "finish", !.epoch = worker[w].epoch, !.host = worker[w].host]]

(* Mutant: the session's present host instead of the captured one.         *)
HostOf_current(w) == epoch
HostOf(w) == worker[w].host

(* A message goes out when the worker's host is the connected one; on any  *)
(* other the send fails at once.                                           *)
Sends(rec, w, op) ==
  IF up /\ ~stopped /\ HostOf(w) = epoch
  THEN /\ worker' = [worker EXCEPT ![w] =
                      [rec EXCEPT !.pc = "waiting", !.op = op, !.ack = NoAnswer]]
       /\ wire' = Append(wire, [op |-> op, band |-> rec.band, from |-> w])
  ELSE /\ worker' = [worker EXCEPT ![w] =
                      [rec EXCEPT !.pc = "answered", !.op = op, !.ack = NoAnswer]]
       /\ UNCHANGED wire

(* _provision_after_connect up to S1F17.                                   *)
Begin(w) ==
  /\ worker[w].pc = "begin"
  /\ IF ~IsCurrent(w) THEN Leaves(w) /\ UNCHANGED wire
     ELSE /\ worker' = [worker EXCEPT ![w].host = epoch,
                          ![w].pc = IF extras THEN "waiting" ELSE "attempt"]
          /\ wire' = IF extras
                     THEN Append(wire, [op |-> "online", band |-> 1, from |-> w])
                     ELSE wire
  /\ UNCHANGED <<setting, tool, session, crowded, budget>>

(* Mutant: the delete-all is sent with every attempt.                      *)
ResetsAt_always(n) == resetFirst

ResetsAt(n) == resetFirst /\ n = 1

(* _subscribe_with_retry at the head of an attempt.                        *)
Attempt(w) ==
  /\ worker[w].pc = "attempt"
  /\ IF ~Owns(w) THEN Finishes(w) /\ UNCHANGED wire
     ELSE IF ResetsAt(worker[w].attempt) THEN Sends(worker[w], w, "disable all")
     ELSE Goes(w, "band") /\ UNCHANGED wire
  /\ UNCHANGED <<setting, tool, session, crowded, budget>>

(* The head of the loop over the bands.                                    *)
NextBand(w) ==
  /\ worker[w].pc = "band" /\ worker[w].band <= NBands /\ Owns(w)
  /\ Sends(worker[w], w, "define")
  /\ UNCHANGED <<setting, tool, session, crowded, budget>>

Accepted(w) == \E b \in Bands : worker[w].results[b] = "accepted"

(* Mutant: an attempt that subscribed nothing is the last.                 *)
RetriesAfter_never(w) == FALSE

RetriesAfter(w) == ~Accepted(w) /\ worker[w].attempt < MaxAttempts

(* setup_subscriptions returns, at the end or because the session is not   *)
(* current any more.                                                       *)
EndAttempt(w) ==
  /\ worker[w].pc = "band" /\ (worker[w].band > NBands \/ ~Owns(w))
  /\ results' = IF worker[w].host = epoch THEN worker[w].results ELSE results
  /\ IF RetriesAfter(w) THEN Goes(w, "pausing") ELSE Finishes(w)
  /\ UNCHANGED <<setting, tool, wire, epoch, stopped, up, crowded, budget>>

(* The delay ends, or stop() wakes the worker.                             *)
Retry(w) ==
  /\ worker[w].pc = "pausing"
  /\ IF stopped THEN Finishes(w)
     ELSE worker' = [worker EXCEPT ![w].pc = "attempt", ![w].attempt = @ + 1,
                                   ![w].band = 1, ![w].results = NoResults]
  /\ UNCHANGED <<setting, tool, wire, session, crowded, budget>>

(* S6F23 or S5F3 where the machine asks for it, unless superseded.         *)
Finish(w) ==
  /\ worker[w].pc = "finish"
  /\ IF extras /\ Owns(w) THEN Sends(worker[w], w, "finish")
     ELSE Leaves(w) /\ UNCHANGED wire
  /\ UNCHANGED <<setting, tool, session, crowded, budget>>

Pending(w) == \E i \in DOMAIN wire : wire[i].from = w

(* T3 runs out; the end of a connection does not release the waiter.       *)
Expires(w) ==
  /\ worker[w].pc = "waiting" /\ ~Pending(w)
  /\ Goes(w, "answered")
  /\ UNCHANGED <<setting, tool, wire, session, crowded, budget>>

(* The tool is too slow.                                                   *)
TimeOut(w) ==
  /\ worker[w].pc = "waiting" /\ Pending(w) /\ Spend
  /\ wire' = Forgotten({w}) /\ Goes(w, "answered")
  /\ UNCHANGED <<setting, tool, session, crowded>>

(* The band is settled and the loop goes on.                               *)
Settled(rec, v) == [rec EXCEPT !.pc = "band", !.results[rec.band] = v,
                               !.band = rec.band + 1]

(* Mutant: a collision counts as a definition.                             *)
AfterDefine_taken(ack) == IF ack \in {0, 3} THEN "link" ELSE "refused"

(* define_reports: DRACK=3 is answered with a delete and one redefinition. *)
AfterDefine(ack) ==
  CASE ack = 0 -> "link" [] ack = 3 -> "delete" [] OTHER -> "refused"

(* enable_events sends nothing for a set without enabled events.           *)
AfterLink(b) == IF b \in quiet THEN "accepted" ELSE "enable"

(* What the worker does with an answer: the next message of the band, or   *)
(* its verdict.                                                            *)
Follows(rec) ==
  CASE rec.op = "define" -> AfterDefine(rec.ack)
    [] rec.op = "delete" -> IF rec.ack = 0 THEN "redefine" ELSE "refused"
    [] rec.op = "redefine" -> IF rec.ack = 0 THEN "link" ELSE "refused"
    [] rec.op = "link" -> IF rec.ack = 0 THEN AfterLink(rec.band) ELSE "refused"
    [] OTHER -> IF rec.ack = 0 THEN "accepted" ELSE "refused"

BandAnswered(w) ==
  /\ worker[w].pc = "answered"
  /\ worker[w].op \in {"define", "delete", "redefine", "link", "enable"}
  /\ LET rec == worker[w]
         next == Follows(rec)
     IN IF next \in Verdicts
        THEN worker' = [worker EXCEPT ![w] = Settled(rec, next)] /\ UNCHANGED wire
        ELSE Sends(rec, w, next)
  /\ UNCHANGED <<setting, tool, session, crowded, budget>>

(* reset_all goes on whatever the answer is.                               *)
ResetAnswered(w) ==
  /\ worker[w].pc = "answered"
  /\ \E i \in 1..3 : /\ worker[w].op = Resets[i]
                     /\ IF i < 3 THEN Sends(worker[w], w, Resets[i + 1])
                        ELSE Goes(w, "band") /\ UNCHANGED wire
  /\ UNCHANGED <<setting, tool, session, crowded, budget>>

OtherAnswered(w) ==
  /\ worker[w].pc = "answered"
  /\ \/ worker[w].op = "online" /\ Goes(w, "attempt")
     \/ worker[w].op = "finish" /\ Leaves(w)
  /\ UNCHANGED <<setting, tool, wire, session, crowded, budget>>

-----------------------------------------------------------------------------
WorkerStep(w) ==
  \/ Begin(w) \/ Attempt(w) \/ NextBand(w) \/ EndAttempt(w) \/ Retry(w)
  \/ Finish(w) \/ BandAnswered(w) \/ ResetAnswered(w) \/ OtherAnswered(w)
  \/ Expires(w)

Next ==
  \/ Handle \/ Start \/ Stop \/ Connect \/ Disconnect
  \/ \E w \in Workers : WorkerStep(w) \/ TimeOut(w)

Spec == Init /\ [][Next]_vars

(* The tool answers, threads run, waits expire; the service starts the     *)
(* session again and the connection comes back.                            *)
Fairness ==
  /\ WF_vars(Handle) /\ WF_vars(Start) /\ WF_vars(Connect)
  /\ \A w \in Workers : WF_vars(WorkerStep(w))
FairSpec == Spec /\ Fairness

-----------------------------------------------------------------------------
(* What the subscription promises                                          *)

Idle == \A w \in Workers : ~Active(w)

(* When the workers are done, the bands the host lists as accepted report: *)
(* the tool has their reports in this host's layout, their links, and,     *)
(* where the file asks for it, their events enabled.  Two workers on one   *)
(* connection (reconnection during a round trip) void this                 *)
(* (secs_runtime.py:282 "the accepted bands keep reporting").              *)
Reporting(b) ==
  report[b] = "ours" /\ b \in linked /\ (b \notin quiet => b \in enabled)
AcceptedBandsReport ==
  Idle /\ ~crowded =>
    \A b \in Bands : results[b] = "accepted" => Reporting(b)

(* A worker whose generation is over puts nothing on the connection of the *)
(* next one (secs_runtime.py:196).                                         *)
SupersededSilent ==
  [][\A w \in Workers :
       Len(wire') > Len(wire) /\ wire'[Len(wire')].from = w
         => worker[w].epoch = epoch /\ ~stopped]_vars

(* A delete-all is not sent on a connection after a band was accepted on   *)
(* it, unless two workers share it (secs_runtime.py:208).                  *)
NoLateReset ==
  [][\A w \in Workers :
       Len(wire') > Len(wire) /\ wire'[Len(wire')].from = w
         /\ wire'[Len(wire')].op \in {Resets[i] : i \in 1..3}
         => worker[w].attempt = 1 /\ ~Accepted(w)]_vars

(* A connection that holds is subscribed in the end, as long as there are  *)
(* more attempts than troubles: some band reports from then on             *)
(* (secs_runtime.py:190).                                                  *)
EventuallySubscribed ==
  <>[]up => <>[](crowded \/ \E b \in Bands : Reporting(b))

(* One request at a time waits for its answer on a connection              *)
(* (secs_runtime.py:63 "secsgem is not safe for concurrent                 *)
(* send_and_waitfor_response on one connection").                          *)
OneRoundTrip ==
  \A y, z \in Workers :
    y # z /\ Pending(y) /\ Pending(z) => worker[y].host # worker[z].host
=============================================================================
