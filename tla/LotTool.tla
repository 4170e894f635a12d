---- MODULE LotTool ----
(***************************************************************************)
(* The tool side of a lot, as the equipment simulators play it             *)
(* (simulator/nexgen_mg_simulator.py and simulator/secsgem_equipment.py):  *)
(* an outer loop that waits for the host, and one script per lot.          *)
(*                                                                         *)
(*   mg       one lot per load port at a time, the ports in threads of     *)
(*            their own; the outer loop joins them before the next batch.  *)
(*            When the host stops answering the simulator abandons the     *)
(*            lot; a fab tool goes on without spooling (OnGap).            *)
(*   davinci  one lot at a time on load port 1; the script pauses while    *)
(*            the link is down and what it could not send is spooled.      *)
(***************************************************************************)
EXTENDS Naturals, Sequences, FiniteSets, MachineProfiles, Subsequence

CONSTANTS
  MgPorts,      \* load_ports of the MG simulator
  MgEvents,     \* bound: the events of its script that an instance keeps
  Modules,      \* its process modules
  OnGap,        \* what an MG tool does when unanswered: {"abandon", "lose"}
  Refusals,     \* subscription bands it may refuse (--refuse-band), <<>> for none
  MaxBatches    \* bound: batches of lots (loop_lots stops there)

ASSUME ToolAssumption ==
  /\ IsFiniteSet(MgPorts) /\ "" \notin MgPorts /\ "NA" \notin Modules
  /\ OnGap \subseteq {"abandon", "lose"} /\ MaxBatches \in Nat \ {0}

\* A script ends with the carrier's removal, and steps follow a wafer's start.
ASSUME ScriptAssumption ==
  /\ "portCasRemoved" \in MgEvents
  /\ "pmStepStarted" \in MgEvents => "pmWaferStarted" \in MgEvents

VARIABLES
  tool,      \* [kind, gap, refused]: what machine this is; never changes
  linked,    \* communication_state is COMMUNICATING and the host subscribed
  main,      \* the outer loop
  lots,      \* the lot of each port: [at, lot, pm]; at is the script position
  started    \* _lot_counter

toolVars == <<tool, linked, main, lots, started>>

MgScript ==
  <<"portCasPlaced", "portCasMapped", "cassetteMapped",
    "processRecipeSelected", "processingStartedPort",
    "pmWaferStarted", "pmStepStarted", "pmStepFinished", "pmWaferFinished",
    "portReadyToUnload", "ProcessingCompleted", "portCasRemoved">>

DavinciScript ==
  <<"MaterialReceived", "CarrierIDRead", "CarrierClamped", "CtrlJobExecuting",
    "NeedsProcessing", "PmProcessingStarted", "PmProcessingFinished",
    "InProcess2Processed", "CtrlJobCompleted", "CarrierDeparted",
    "MaterialRemoved">>

MgSteps == Keep(MgScript, {i \in DOMAIN MgScript : MgScript[i] \in MgEvents})

Script == IF tool.kind = "mg" THEN MgSteps ELSE DavinciScript
Ports  == IF tool.kind = "mg" THEN MgPorts ELSE {"1"}

\* Names of lots, which a tool uses again after a while.
LotIds == <<"L1", "L2", "L3", "L4">>
LotId(n) == LotIds[1 + (n % Len(LotIds))]

NoLot == [at |-> 0, lot |-> 0, pm |-> "NA"]
Finished(p) == lots[p].at > Len(Script)
AtStep(p, name) == lots[p].at \in DOMAIN Script /\ Script[lots[p].at] = name

\* A wafer is in one module, and a module holds one wafer.
FreeModules == Modules \ {lots[q].pm : q \in Ports}

\* The module of a port's next event: one that is free for a wafer that
\* starts, and the one it started in until it has finished.  (The simulator
\* pairs each port with a module; a fab tool takes any that is free.)
ModuleOf(p) == IF AtStep(p, "pmWaferStarted") THEN FreeModules ELSE {lots[p].pm}

\* What is true of the next event of a port; a report carries part of it, and
\* never the number of the lot, which tells the events apart.
EventOf(p, pm) ==
  [name |-> Script[lots[p].at], port |-> p, pm |-> pm,
   lot |-> LotId(lots[p].lot), nr |-> lots[p].lot]

\* A refused band is never enabled: its events are fired and not sent.
Sent(p, pm) ==
  tool.kind = "mg" => MgBand(Script[lots[p].at], p, pm) # tool.refused

ToolInit ==
  /\ tool \in [kind : {"mg"}, gap : OnGap, refused : Refusals]
                \cup [kind : {"davinci"}, gap : {"pause"}, refused : {<<>>}]
  /\ linked = FALSE
  /\ main = "waiting"
  /\ lots = [p \in MgPorts \cup {"1"} |-> NoLot]
  /\ started = 0

\* _event_loop of the MG: nothing is fired before the host listens and its
\* subscription has settled; then one thread per port.  The notifications of
\* the process states around a batch carry no report.  The threads take the
\* lot indices under the emit lock: distinct ones, in an order nothing tells.
MgBatch ==
  LET order == CHOOSE o \in [Ports -> 1 .. Cardinality(Ports)] :
                 \A p, q \in Ports : p # q => o[p] # o[q]
  IN  /\ tool.kind = "mg" /\ main = "waiting" /\ linked
      /\ started < MaxBatches * Cardinality(Ports)
      /\ main' = "lots"
      /\ lots' = [p \in DOMAIN lots |->
                    IF p \in Ports
                    THEN [at |-> 1, lot |-> started + order[p], pm |-> "NA"]
                    ELSE NoLot]
      /\ started' = started + Cardinality(Ports)
      /\ UNCHANGED <<tool, linked>>

\* The joins: a batch ends when both lots were finished or abandoned.
MgJoin ==
  /\ tool.kind = "mg" /\ main = "lots" /\ \A p \in Ports : Finished(p)
  /\ main' = "waiting"
  /\ UNCHANGED <<tool, linked, lots, started>>

\* _event_loop and the top of _run_one_lot of the DaVinci.
DavinciLot ==
  /\ tool.kind = "davinci" /\ linked
  /\ main = "waiting" \/ Finished("1")
  /\ started < MaxBatches
  /\ started' = started + 1
  /\ main' = "lots"
  /\ lots' = [lots EXCEPT !["1"] =
                [at |-> 1, lot |-> started + 1, pm |-> "NA"]]
  /\ UNCHANGED <<tool, linked>>

ReadyToFire(p) == main = "lots" /\ lots[p].at \in DOMAIN Script

Advance(p, pm) ==
  /\ lots' = [lots EXCEPT ![p] =
                 [at |-> @.at + 1, lot |-> @.lot,
                  pm |-> IF AtStep(p, "pmWaferFinished") THEN "NA" ELSE pm]]
  /\ UNCHANGED <<tool, linked, main, started>>

\* Every _emit of the lot threads returns early once the host is gone.
Abandon(p) ==
  /\ lots' = [lots EXCEPT ![p] =
                 [at |-> Len(Script) + 1, lot |-> @.lot, pm |-> "NA"]]
  /\ UNCHANGED <<tool, linked, main, started>>

\* The event reaches the host and is acknowledged; _emit's guards and reply.
Answered(p, pm) ==
  ReadyToFire(p) /\ linked /\ Sent(p, pm) /\ pm \in ModuleOf(p) /\ Advance(p, pm)

\* Fired, filtered by the tool, and the script goes on.
NotSent(p, pm) ==
  ReadyToFire(p) /\ linked /\ ~Sent(p, pm) /\ pm \in ModuleOf(p) /\ Advance(p, pm)

\* The host is gone: the MG simulator abandons the lot, an MG tool goes on
\* and the event is lost, the DaVinci waits (it has no such step).
Unanswered(p, pm) ==
  /\ ReadyToFire(p) /\ ~linked /\ tool.kind = "mg" /\ pm \in ModuleOf(p)
  /\ IF tool.gap = "abandon" THEN Abandon(p) ELSE Advance(p, pm)

LinkDown == linked' = FALSE /\ UNCHANGED <<tool, main, lots, started>>
LinkUp   == ~linked /\ linked' = TRUE /\ UNCHANGED <<tool, main, lots, started>>
====
