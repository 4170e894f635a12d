---- MODULE MachineProfiles ----
(***************************************************************************)
(* The two machine profiles whose lots are attributed most differently     *)
(* (eap_middleware/profiles), reduced to the collection events of a lot    *)
(* and to what the mapper, the job tracker and the lot CSV writer read.    *)
(*                                                                         *)
(*   mg       NexGen MG: the number of a load port's event names the port, *)
(*            that of a process module's event names the module, and only  *)
(*            the wafer-level reports name both.                           *)
(*   davinci  DaVinci 200: one process module that is never named; the     *)
(*            carrier's reports name the port, those of the wafers do not. *)
(*                                                                         *)
(* The names stand for families of numbers: portCasPlaced for 130..133,    *)
(* pmWaferStarted for 212 and 312, and so on.                              *)
(***************************************************************************)

\* The canonical event types; everything but the material and the wafers is
\* "published, never acted on".
MgTypes ==
    [portCasPlaced         |-> "loaded",      portCasMapped     |-> "mapped",
     cassetteMapped        |-> "mapped",
     processRecipeSelected |-> "recipe_selected",
     processingStartedPort |-> "lot_start",   pmWaferStarted    |-> "wafer_start",
     pmStepStarted         |-> "recipe_step", pmStepFinished    |-> "recipe_step",
     pmWaferFinished       |-> "wafer_end",   portReadyToUnload |-> "lot_end",
     ProcessingCompleted   |-> "process_end", portCasRemoved    |-> "unloaded"]

\* The identifying variables of the reports; an event that is not listed has
\* no report, or one that identifies nothing.
MgReport(name) ==
    CASE name \in {"pmWaferStarted", "pmWaferFinished"} -> {"wafer", "lot", "port"}
      [] name \in {"pmStepFinished", "ProcessingCompleted"} -> {"lot", "port"}
      [] name \in {"cassetteMapped", "processRecipeSelected"} -> {"port"}
      [] OTHER -> {}

\* What the number of an event says by itself.
MgNamesPort   == {"portCasPlaced", "portCasMapped", "processingStartedPort",
                  "portReadyToUnload", "portCasRemoved"}
MgNamesModule == {"pmWaferStarted", "pmStepStarted", "pmStepFinished",
                  "pmWaferFinished"}

\* The module's events that do not name a port.
MgChamberEvents == {name \in MgNamesModule : "port" \notin MgReport(name)}

MgTransition(name) ==
    CASE name = "portCasPlaced"  -> "lp_activate_from_payload"
      [] name = "portCasRemoved" -> "lp_deactivate_from_payload"
      [] OTHER -> ""

\* One band per load port, per module and per report that may be refused.
MgBand(name, port, pm) ==
    CASE name \in MgNamesPort       -> <<"load_port", port>>
      [] name = "pmWaferFinished"   -> <<"wafer_metrics", pm>>
      [] name \in MgNamesModule     -> <<"process_module", pm>>
      [] name = "cassetteMapped"    -> <<"slot_map", "">>
      [] name = "processRecipeSelected" -> <<"recipe", "">>
      [] OTHER -> <<"core_gem", "">>

DavinciTypes ==
    [MaterialReceived     |-> "mounted",       CarrierIDRead       |-> "loaded",
     CarrierClamped       |-> "clamped",       CtrlJobExecuting    |-> "lot_start",
     NeedsProcessing      |-> "wafer_start",   PmProcessingStarted |-> "process_start",
     PmProcessingFinished |-> "process_end",   InProcess2Processed |-> "wafer_end",
     CtrlJobCompleted     |-> "lot_end",       CarrierDeparted     |-> "unloaded",
     MaterialRemoved      |-> "unmounted"]

DavinciReport(name) ==
    CASE name \in {"NeedsProcessing", "PmProcessingStarted",
                   "PmProcessingFinished", "InProcess2Processed"} -> {"wafer", "lot"}
      [] name \in {"CtrlJobExecuting", "CtrlJobCompleted"} -> {"job"}
      [] name = "CarrierDeparted" -> {}
      [] OTHER -> {"port"}

DavinciNamesPort == {"CarrierDeparted"}

DavinciChamberEvents == {"NeedsProcessing", "PmProcessingStarted",
                         "PmProcessingFinished", "InProcess2Processed"}

\* CarrierDeparted has the fixed transition of its port, which is the port
\* its number names.
DavinciTransition(name) ==
    CASE name = "MaterialReceived" -> "lp_activate_from_payload"
      [] name \in {"MaterialRemoved", "CarrierDeparted"} ->
             "lp_deactivate_from_payload"
      [] name = "CtrlJobExecuting" -> "ctrl_job_start"
      [] name = "CtrlJobCompleted" -> "ctrl_job_end"
      [] OTHER -> ""

\* MachineProfile: what a collection event is to the middleware.
Profiles ==
    [mg |-> [name \in DOMAIN MgTypes |->
        [type         |-> MgTypes[name],
         layout       |-> MgReport(name),
         namesPort    |-> name \in MgNamesPort,
         namesModule  |-> name \in MgNamesModule,
         chamberEvent |-> name \in MgChamberEvents,
         transition   |-> MgTransition(name),
         closes       |-> MgTypes[name] = "unloaded"]],
     davinci |-> [name \in DOMAIN DavinciTypes |->
        [type         |-> DavinciTypes[name],
         layout       |-> DavinciReport(name),
         namesPort    |-> name \in DavinciNamesPort,
         namesModule  |-> FALSE,
         chamberEvent |-> name \in DavinciChamberEvents,
         transition   |-> DavinciTransition(name),
         closes       |-> DavinciTypes[name] = "unloaded"]]]

\* csv_store.py: the types with a row in the lot file.
CsvEventTypes ==
    {"ready_to_load", "loaded", "clamped", "mapped", "mounted", "lot_start",
     "wafer_start", "process_start", "process_end", "wafer_end", "lot_end",
     "unmounted", "unclamped", "ready_to_unload", "unloaded", "unknown"}
====
