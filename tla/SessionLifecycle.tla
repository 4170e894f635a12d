-------------------------- MODULE SessionLifecycle --------------------------
(***************************************************************************)
(* Who starts and stops the secsgem sessions of a running service.         *)
(*                                                                         *)
(* Four threads do: the supervisor (a reconcile after an edit of the       *)
(* configuration, a restart command), the reconnect watchdog's restarters, *)
(* the storage monitor's transition callback, and the thread that calls    *)
(* stop().  The first two exclude one another with _reconcile_lock; the    *)
(* last two do not take it.                                                *)
(* A stop of a machine may raise after its session is gone, which leaves   *)
(* its old settings on record.                                             *)
(*                                                                         *)
(* A session object outlives its connections: every start() gives it a new *)
(* GatewayHost, every stop() retires the one it has.  Session objects and  *)
(* hosts are numbered, and a number no thread refers to is used again.     *)
(***************************************************************************)
EXTENDS Naturals, FiniteSets

CONSTANTS
  Machines,      \* the endpoints of the configuration
  Variants,      \* values of the settings that _restart_signature compares
  NSessions,     \* bound: SecsMachineSession objects of a machine in use at once
  NHosts,        \* bound: GatewayHost objects of a machine in use at once
  Debounce,      \* storage_safety.debounce_samples
  MaxRequests,   \* bound: edits of the configuration file and restart commands
  MaxFaults,     \* bound: starts and stops that raise, and connections that are lost
  MaxCriticals   \* bound: times the disk runs out

ASSUME LifecycleAssumption ==
  /\ NSessions \in Nat \ {0} /\ NHosts \in Nat \ {0} /\ Debounce \in Nat \ {0}
  /\ "off" \notin Variants /\ {"free", "supervisor"} \cap Machines = {}
  /\ {MaxRequests, MaxFaults, MaxCriticals} \subseteq Nat

Off == "off"                       \* disabled, removed, or not known
Settings == Variants \union {Off}
Sids  == 1 .. NSessions
Hosts == 1 .. NHosts

VARIABLES
  running,     \* _running
  down,        \* progress of stop(): "up", "joining", "stopping", "stopped"
               \* or "failed", when it raised
  file,        \* the configuration on disk
  applied,     \* the configuration of the revision last reconciled
  goal,        \* the configuration a reconcile in progress was given
  machines,    \* _machines_by_endpoint
  sessions,    \* _sessions, 0 when there is none
  settings,    \* what the session object of a machine was built from
  spent,       \* the current generation of a machine was given to a host
  host,        \* SecsMachineSession.host of every session object
  live,        \* hosts of a machine that are enabled and not retired
  wedged,      \* hosts whose connection will not come back by itself
  slot,        \* the host the tool is connected to: it serves one peer
  lock,        \* _reconcile_lock: "free", "supervisor", or a machine's restarter
  sup,         \* what the supervisor is doing; "broken": a reconcile is to raise,
               \* "dead": what it raised ended the thread
  job,         \* the reconcile worker of each machine
  restarter,   \* the Reconnect thread of each machine (_reconnect_inflight)
  teardown,    \* stop()'s progress with each machine
  storage,     \* the storage monitor and its transition callback
  overlap,     \* history: a storage transition ran while a session was restarted
  late,        \* history: stop() went by a thread that was starting a session
  unsettled,   \* history: machines the last reconcile raised on
  requests, faults, criticals

config  == <<file, applied, goal, machines, settings>>
objects == <<sessions, spent, host, live, wedged, slot>>
actors  == <<lock, sup, job, restarter, teardown, storage>>
bounds  == <<requests, faults, criticals>>
vars == <<running, down, config, objects, actors, overlap, late, unsettled, bounds>>

Idle == [pc |-> "idle", s |-> 0, next |-> Off, fresh |-> FALSE]
Calm == [pc |-> "idle", s |-> 0]

(***************************************************************************)
(* Session objects and hosts in use.                                       *)
(***************************************************************************)
InUse(m) ==
  {sessions[m], job[m].s, restarter[m].s, teardown[m].s}
    \union {p[2] : p \in {q \in storage.todo \union {storage.at} :
                            q # <<>> /\ q[1] = m}}

Pick(S) == CHOOSE x \in S : TRUE

FreeSessions(m) == Sids \ InUse(m)
FreeHosts(m) == Hosts \ (live[m] \union {host[m][s] : s \in InUse(m) \ {0}})

(***************************************************************************)
(* SecsMachineSession.start() in two steps: the new host replaces the old  *)
(* one in the session, whatever state that is in; then self.host is        *)
(* enabled, which raises when the port or the address is refused.          *)
(***************************************************************************)
Assign(m, s) ==
  /\ FreeHosts(m) # {}
  /\ host' = [host EXCEPT ![m][s] = Pick(FreeHosts(m))]
  /\ spent' = [spent EXCEPT ![m] = TRUE]
  /\ UNCHANGED <<sessions, live, wedged, slot>>

Enable(m, s) ==
  \/ /\ live' = [live EXCEPT ![m] = @ \union {host[m][s]}]
     /\ UNCHANGED faults
  \/ /\ faults < MaxFaults /\ faults' = faults + 1
     /\ UNCHANGED live

(***************************************************************************)
(* SecsMachineSession.stop(): retire() detaches the callbacks and closes   *)
(* the socket of the host the session has now.  A host that was enabled    *)
(* once and is retired is as good as none, unless it is enabled again.     *)
(***************************************************************************)
Enabling(m, s) == \/ job[m].pc = "enable" /\ job[m].s = s
                  \/ restarter[m].pc = "enable" /\ restarter[m].s = s
                  \/ storage.step = "enable" /\ storage.at = <<m, s>>

Retire(m, s) ==
  LET h == IF s = 0 THEN 0 ELSE host[m][s]
  IN  /\ host' = IF h \in live[m] /\ ~Enabling(m, s) THEN [host EXCEPT ![m][s] = 0]
                 ELSE host
      /\ live' = [live EXCEPT ![m] = @ \ {h}]
      /\ wedged' = [wedged EXCEPT ![m] = @ \ {h}]
      /\ slot' = [slot EXCEPT ![m] = IF @ = h THEN 0 ELSE @]
      /\ UNCHANGED <<sessions, spent>>

(***************************************************************************)
(* _advance_generation: the next host of the machine gets a generation of  *)
(* its own.                                                                *)
(***************************************************************************)
Advance(m) == spent' = [spent EXCEPT ![m] = FALSE]

(***************************************************************************)
(* _stop_machine: the guard is retired and the session taken off the list, *)
(* the session is stopped, and the machine is forgotten once its rows are  *)
(* flushed.                                                                *)
(***************************************************************************)
Unlist(m) ==
  /\ sessions' = [sessions EXCEPT ![m] = 0]
  /\ settings' = [settings EXCEPT ![m] = Off]
  /\ UNCHANGED <<spent, host, live, wedged, slot>>

Forget(m) == machines' = [machines EXCEPT ![m] = Off]

accepting == storage.state \in {"normal", "warning"}

Connected(m, s) == s # 0 /\ host[m][s] # 0 /\ slot[m] = host[m][s]

\* Defect: The changed settings of a running machine are not noticed.
Work_additions(m, want) ==
  CASE want[m] = Off /\ sessions[m] # 0  -> [Idle EXCEPT !.pc = "unlist"]
    [] want[m] # Off /\ machines[m] = Off ->
         [Idle EXCEPT !.pc = "register", !.next = want[m], !.fresh = TRUE]
    [] OTHER -> Idle

(***************************************************************************)
(* reconcile(): one worker per machine, all under the reconcile lock.      *)
(***************************************************************************)
Work(m, want) ==
  CASE want[m] = Off /\ sessions[m] # 0  -> [Idle EXCEPT !.pc = "unlist"]
    [] want[m] # Off /\ machines[m] = Off ->
         [Idle EXCEPT !.pc = "register", !.next = want[m], !.fresh = TRUE]
    [] want[m] # Off /\ machines[m] \notin {Off, want[m]} ->
         [Idle EXCEPT !.pc = "unlist", !.next = want[m]]
    [] OTHER -> Idle

Busy == sup \in {"reconcile", "restart", "broken"}

Reconcile ==
  /\ running /\ sup = "idle" /\ lock = "free" /\ file # applied
  /\ lock' = "supervisor" /\ sup' = "reconcile"
  /\ goal' = file
  /\ job' = [m \in Machines |-> Work(m, file)]
  /\ unsettled' = {}
  /\ UNCHANGED <<running, down, file, applied, machines, settings, objects,
                 restarter, teardown, storage, late, bounds>>

RestartCommand(m) ==
  /\ running /\ sup = "idle" /\ lock = "free"
  /\ requests < MaxRequests /\ requests' = requests + 1
  /\ machines[m] # Off
  /\ lock' = "supervisor" /\ sup' = "restart"
  /\ job' = [job EXCEPT ![m] = [Idle EXCEPT !.pc = "unlist",
                                            !.next = machines[m]]]
  /\ UNCHANGED <<running, down, config, objects, restarter, teardown, storage,
                 late, unsettled, faults, criticals>>

\* The lock is let go with the exception, and the revision stays the old
\* one; the supervisor's loop survives an OSError or a ConfigError only.
SupervisorDone ==
  /\ Busy /\ \A m \in Machines : job[m].pc = "idle"
  /\ sup' \in IF sup = "broken" THEN {"idle", "dead"} ELSE {"idle"}
  /\ lock' = "free"
  /\ applied' = IF sup = "reconcile" THEN goal ELSE applied
  /\ unsettled' = IF sup = "broken" THEN Machines ELSE unsettled
  /\ goal' = [m \in Machines |-> Off]
  /\ UNCHANGED <<running, down, file, machines, settings, objects, job,
                 restarter, teardown, storage, late, bounds>>

(***************************************************************************)
(* The steps of a worker: _stop_machine, then _start_machine.              *)
(***************************************************************************)
At(m, pc) == job[m].pc = pc
Go(m, pc) == job' = [job EXCEPT ![m].pc = pc]
Done(m)   == job' = [job EXCEPT ![m] = Idle]
WorkerFrame == UNCHANGED <<running, down, file, applied, goal, lock, sup,
                           restarter, teardown, storage, late, unsettled,
                           requests, criticals>>

WorkerUnlist(m) ==
  /\ At(m, "unlist") /\ Unlist(m)
  /\ job' = [job EXCEPT ![m].pc = "retire", ![m].s = sessions[m]]
  /\ UNCHANGED <<machines, faults>> /\ WorkerFrame

WorkerRetire(m) ==
  /\ At(m, "retire") /\ Retire(m, job[m].s)
  /\ job' = [job EXCEPT ![m].pc = "forget", ![m].s = 0]
  /\ UNCHANGED <<machines, settings, faults>> /\ WorkerFrame

WorkerForget(m) ==
  /\ At(m, "forget") /\ Forget(m)
  /\ IF job[m].next = Off THEN Done(m) ELSE Go(m, "register")
  /\ UNCHANGED <<settings, objects, faults>> /\ WorkerFrame

(***************************************************************************)
(* Between the two the simulator, the HTTP publisher and the CSV writer    *)
(* may raise.  A machine that was to be started again, or was disabled,    *)
(* stays on record with its old settings, and the reconcile goes on to set *)
(* the new revision.  A new machine whose start has raised is stopped by   *)
(* the handler itself, and the exception leaves reconcile(); a machine     *)
(* that never had a host has no rows that could not be written.            *)
(***************************************************************************)
WorkerStopFails(m) ==
  /\ At(m, "forget") /\ Done(m)
  /\ faults < MaxFaults /\ faults' = faults + 1
  /\ job[m].fresh => spent[m]
  /\ sup' = IF job[m].fresh THEN "broken" ELSE sup
  /\ unsettled' = IF sup = "restart" THEN unsettled ELSE unsettled \union {m}
  /\ UNCHANGED <<running, down, config, objects, lock, restarter, teardown,
                 storage, late, requests, criticals>>

(***************************************************************************)
(* The machine is recorded first; its profile, routes and generation may   *)
(* raise before it has a session.  A new machine is then stopped again, a  *)
(* restarted one stays recorded without a session.                         *)
(***************************************************************************)
WorkerRegister(m) ==
  /\ At(m, "register")
  /\ machines' = [machines EXCEPT ![m] = job[m].next]
  /\ \/ Go(m, "list") /\ UNCHANGED faults
     \/ /\ faults < MaxFaults /\ faults' = faults + 1
        /\ IF job[m].fresh
             THEN job' = [job EXCEPT ![m] = [Idle EXCEPT !.pc = "unlist",
                                                         !.fresh = TRUE]]
             ELSE Done(m)
  /\ UNCHANGED <<settings, objects>> /\ WorkerFrame

WorkerList(m) ==
  /\ At(m, "list") /\ FreeSessions(m) # {}
  /\ LET s == Pick(FreeSessions(m))
     IN  /\ sessions' = [sessions EXCEPT ![m] = s]
         /\ host' = [host EXCEPT ![m][s] = 0]
         /\ job' = [job EXCEPT ![m].pc = "check", ![m].s = s]
  /\ settings' = [settings EXCEPT ![m] = job[m].next]
  /\ Advance(m)
  /\ UNCHANGED <<machines, live, wedged, slot, faults>> /\ WorkerFrame

\* The simulator of a simulated machine may fail to start before the session does.
WorkerCheck(m) ==
  /\ At(m, "check")
  /\ \/ /\ IF accepting THEN Go(m, "assign") ELSE Done(m)
        /\ UNCHANGED faults
     \/ faults < MaxFaults /\ faults' = faults + 1 /\ Done(m)
  /\ UNCHANGED <<machines, settings, objects>> /\ WorkerFrame

WorkerAssign(m) ==
  /\ At(m, "assign") /\ Assign(m, job[m].s) /\ Go(m, "enable")
  /\ UNCHANGED <<machines, settings, faults>> /\ WorkerFrame

WorkerEnable(m) ==
  /\ At(m, "enable") /\ Enable(m, job[m].s) /\ Done(m)
  /\ UNCHANGED <<machines, settings, sessions, spent, host, wedged, slot>>
  /\ WorkerFrame

Worker(m) == \/ WorkerUnlist(m) \/ WorkerRetire(m) \/ WorkerForget(m)
             \/ WorkerStopFails(m) \/ WorkerRegister(m) \/ WorkerList(m) \/ WorkerCheck(m)
             \/ WorkerAssign(m) \/ WorkerEnable(m)

(***************************************************************************)
(* The reconnect watchdog.  It finds a listed session disconnected, and a  *)
(* thread of its own stops that session, then starts it again under the    *)
(* lock.  The first attempt is due a reconnect interval after the session  *)
(* was listed, which is longer than its start takes.                       *)
(***************************************************************************)
RestarterFrame == UNCHANGED <<running, down, config, sup, job, teardown,
                              storage, late, unsettled, requests, criticals>>

\* Defect: The watchdog goes on while the disk is full.
SpawnRestarter_anyStorage(m) ==
  /\ running
  /\ sessions[m] # 0 /\ machines[m] # Off /\ ~Connected(m, sessions[m])
  /\ restarter[m].pc = "idle"
  /\ job[m].pc \notin {"check", "assign", "enable"}
  /\ restarter' = [restarter EXCEPT ![m] = [pc |-> "stop", s |-> sessions[m]]]
  /\ UNCHANGED <<lock, objects, faults>> /\ RestarterFrame

\* Defect: The watchdog passes over a session that never had a host.
SpawnRestarter_started(m) ==
  /\ running /\ accepting
  /\ sessions[m] # 0 /\ machines[m] # Off /\ ~Connected(m, sessions[m])
  /\ host[m][sessions[m]] # 0
  /\ restarter[m].pc = "idle"
  /\ job[m].pc \notin {"check", "assign", "enable"}
  /\ restarter' = [restarter EXCEPT ![m] = [pc |-> "stop", s |-> sessions[m]]]
  /\ UNCHANGED <<lock, objects, faults>> /\ RestarterFrame

SpawnRestarter(m) ==
  /\ running /\ accepting
  /\ sessions[m] # 0 /\ machines[m] # Off /\ ~Connected(m, sessions[m])
  /\ restarter[m].pc = "idle"
  /\ job[m].pc \notin {"check", "assign", "enable"}
  /\ restarter' = [restarter EXCEPT ![m] = [pc |-> "stop", s |-> sessions[m]]]
  /\ UNCHANGED <<lock, objects, faults>> /\ RestarterFrame

\* Defect: The watchdog starts a session again without stopping it.
RestarterStop_skipped(m) ==
  /\ restarter[m].pc = "stop"
  /\ restarter' = [restarter EXCEPT ![m].pc = "lock"]
  /\ UNCHANGED <<lock, objects, faults>> /\ RestarterFrame

RestarterStop(m) ==
  /\ restarter[m].pc = "stop"
  /\ \/ /\ running /\ Retire(m, restarter[m].s)
        /\ restarter' = [restarter EXCEPT ![m].pc = "lock"]
     \/ /\ ~running
        /\ restarter' = [restarter EXCEPT ![m] = Calm]
        /\ UNCHANGED objects
  /\ UNCHANGED <<lock, faults>> /\ RestarterFrame

\* Defect: The restarter does not look whether its session was replaced.
RestarterCheck_anySession(m) ==
  /\ restarter[m].pc = "lock" /\ lock = "free"
  /\ IF running
       THEN /\ lock' = m /\ Advance(m)
            /\ restarter' = [restarter EXCEPT ![m].pc = "assign"]
       ELSE /\ restarter' = [restarter EXCEPT ![m] = Calm]
            /\ UNCHANGED <<lock, spent>>
  /\ UNCHANGED <<sessions, host, live, wedged, slot, faults>> /\ RestarterFrame

\* Defect: The restarter keeps the generation of the lost connection.
RestarterCheck_sameGeneration(m) ==
  /\ restarter[m].pc = "lock" /\ lock = "free"
  /\ IF running /\ sessions[m] = restarter[m].s
       THEN /\ lock' = m
            /\ restarter' = [restarter EXCEPT ![m].pc = "assign"]
       ELSE /\ restarter' = [restarter EXCEPT ![m] = Calm]
            /\ UNCHANGED lock
  /\ UNCHANGED <<objects, faults>> /\ RestarterFrame

RestarterCheck(m) ==
  /\ restarter[m].pc = "lock" /\ lock = "free"
  /\ IF running /\ sessions[m] = restarter[m].s
       THEN /\ lock' = m /\ Advance(m)
            /\ restarter' = [restarter EXCEPT ![m].pc = "assign"]
       ELSE /\ restarter' = [restarter EXCEPT ![m] = Calm]
            /\ UNCHANGED <<lock, spent>>
  /\ UNCHANGED <<sessions, host, live, wedged, slot, faults>> /\ RestarterFrame

RestarterAssign(m) ==
  /\ restarter[m].pc = "assign" /\ Assign(m, restarter[m].s)
  /\ restarter' = [restarter EXCEPT ![m].pc = "enable"]
  /\ UNCHANGED <<lock, faults>> /\ RestarterFrame

RestarterEnable(m) ==
  /\ restarter[m].pc = "enable" /\ Enable(m, restarter[m].s)
  /\ restarter' = [restarter EXCEPT ![m] = Calm]
  /\ lock' = "free"
  /\ UNCHANGED <<sessions, spent, host, wedged, slot>> /\ RestarterFrame

Restarter(m) == \/ RestarterStop(m) \/ RestarterCheck(m)
                \/ RestarterAssign(m) \/ RestarterEnable(m)

(***************************************************************************)
(* The storage monitor: a sample gives a target, a target that is seen     *)
(* Debounce times in a row becomes the state, and the change runs the      *)
(* transition callback on the monitor's thread.                            *)
(***************************************************************************)
Levels == {"critical", "low", "between", "free"}

Target(level) ==
  CASE level = "critical" -> "critical"
    [] level # "critical" /\ ~accepting ->
         IF level = "free" THEN "normal" ELSE "recovering"
    [] OTHER -> IF level = "low" THEN "warning" ELSE "normal"

\* forced is the path of a sample that failed: critical at once.
Counted(target) ==
  IF target = storage.candidate THEN storage.count + 1 ELSE 1

Settled(target, forced) ==
  (forced /\ target = "critical") \/ Counted(target) >= Debounce

\* What a settled target becomes; an integrity check stands before normal.
Reached(target, intact) ==
  IF target = "normal" /\ ~accepting /\ ~intact THEN "recovering" ELSE target

Listed == {<<m, sessions[m]>> : m \in {x \in Machines : sessions[x] # 0}}

\* _on_storage_transition starts with a snapshot of the sessions.
CallbackFor(state) ==
  CASE state \in {"critical", "recovering"} -> "quiesce"
    [] state = "normal" /\ ~accepting -> "recover"
    [] OTHER -> "idle"

Sample(level, forced, intact) ==
  LET target == IF forced THEN "critical" ELSE Target(level)
      state == Reached(target, intact)
      step == IF Listed = {} THEN "idle" ELSE CallbackFor(state)
  IN  /\ running /\ storage.step = "idle"
      /\ IF target = storage.state
           THEN /\ storage' = [storage EXCEPT !.candidate = "none", !.count = 0]
                /\ UNCHANGED criticals
           ELSE IF ~Settled(target, forced)
           THEN /\ storage' = [storage EXCEPT !.candidate = target,
                                              !.count = Counted(target)]
                /\ UNCHANGED criticals
           ELSE /\ state = "critical" => criticals < MaxCriticals
                /\ criticals' = IF state = "critical" THEN criticals + 1
                                                      ELSE criticals
                /\ storage' = [state |-> state, candidate |-> "none", count |-> 0,
                               step |-> step, at |-> <<>>,
                               todo |-> IF step = "idle" THEN {} ELSE Listed]
      /\ UNCHANGED <<running, down, config, objects, lock, sup, job, restarter,
                     teardown, late, unsettled, requests, faults>>

StorageFrame == UNCHANGED <<running, down, config, lock, sup, job, restarter,
                            teardown, late, unsettled, requests, criticals>>

Finished(todo) == [storage EXCEPT !.todo = todo, !.at = <<>>,
                                  !.step = IF todo = {} THEN "idle"
                                           ELSE IF @ = "quiesce" THEN @
                                           ELSE "recover"]

Quiesce(p) ==
  /\ storage.step = "quiesce" /\ p \in storage.todo
  /\ Retire(p[1], p[2])
  /\ storage' = Finished(storage.todo \ {p})
  /\ UNCHANGED faults /\ StorageFrame

\* A machine that was forgotten since the snapshot is passed over.
Recover(p) ==
  /\ storage.step = "recover" /\ p \in storage.todo
  /\ IF machines[p[1]] = Off
       THEN storage' = Finished(storage.todo \ {p}) /\ UNCHANGED spent
       ELSE /\ storage' = [storage EXCEPT !.step = "assign", !.at = p,
                                          !.todo = @ \ {p}]
            /\ Advance(p[1])
  /\ UNCHANGED <<sessions, host, live, wedged, slot, faults>> /\ StorageFrame

RecoverAssign ==
  /\ storage.step = "assign" /\ Assign(storage.at[1], storage.at[2])
  /\ storage' = [storage EXCEPT !.step = "enable"]
  /\ UNCHANGED faults /\ StorageFrame

RecoverEnable ==
  /\ storage.step = "enable" /\ Enable(storage.at[1], storage.at[2])
  /\ storage' = Finished(storage.todo)
  /\ UNCHANGED <<sessions, spent, host, wedged, slot>> /\ StorageFrame

Callback == \/ \E p \in storage.todo : Quiesce(p) \/ Recover(p)
            \/ RecoverAssign \/ RecoverEnable

(***************************************************************************)
(* stop(): no lock is taken.  It waits for the monitor and the supervisor, *)
(* each for a limited time, and not for the restarters.  It goes through   *)
(* the machines one after the other; when one of them raises, or the flush *)
(* of the rest does, the others keep their sessions until stop() is called *)
(* again.                                                                  *)
(***************************************************************************)
Starting == \/ Busy \/ storage.step # "idle"
            \/ \E m \in Machines : restarter[m].pc \in {"assign", "enable"}

Stop ==
  /\ down \in {"up", "failed"} /\ down' = "joining" /\ running' = FALSE
  /\ UNCHANGED <<config, objects, actors, late, unsettled, bounds>>

\* Defect: stop() has nothing to do for a session that is disconnected.
StopSessions_connected ==
  /\ down = "joining" /\ down' = "stopping"
  /\ late' = (late \/ Starting)
  /\ teardown' = [m \in Machines |-> IF ~Connected(m, sessions[m]) THEN Calm
                                     ELSE [Calm EXCEPT !.pc = "unlist"]]
  /\ UNCHANGED <<running, config, objects, lock, sup, job, restarter, storage,
                 unsettled, bounds>>

StopSessions ==
  /\ down = "joining" /\ down' = "stopping"
  /\ late' = (late \/ Starting)
  /\ teardown' = [m \in Machines |-> IF sessions[m] = 0 THEN Calm
                                     ELSE [Calm EXCEPT !.pc = "unlist"]]
  /\ UNCHANGED <<running, config, objects, lock, sup, job, restarter, storage,
                 unsettled, bounds>>

StopFrame == UNCHANGED <<running, down, file, applied, goal, lock, sup,
                         job, restarter, storage, late, unsettled, bounds>>

StopUnlist(m) ==
  /\ teardown[m].pc = "unlist" /\ Unlist(m)
  /\ \A x \in Machines : teardown[x].pc \in {"idle", "unlist"}
  /\ teardown' = [teardown EXCEPT ![m] = [pc |-> "retire", s |-> sessions[m]]]
  /\ UNCHANGED machines /\ StopFrame

StopRetire(m) ==
  /\ teardown[m].pc = "retire" /\ Retire(m, teardown[m].s)
  /\ teardown' = [teardown EXCEPT ![m] = [pc |-> "forget", s |-> 0]]
  /\ UNCHANGED <<machines, settings>> /\ StopFrame

StopForget(m) ==
  /\ teardown[m].pc = "forget" /\ Forget(m)
  /\ teardown' = [teardown EXCEPT ![m] = Calm]
  /\ UNCHANGED <<settings, objects>> /\ StopFrame

StopFails ==
  /\ down = "stopping" /\ faults < MaxFaults /\ faults' = faults + 1
  /\ \/ \E m \in Machines : teardown[m].pc = "forget"
     \/ \A m \in Machines : teardown[m].pc = "idle"
  /\ down' = "failed" /\ teardown' = [m \in Machines |-> Calm]
  /\ UNCHANGED <<running, config, objects, lock, sup, job, restarter, storage,
                 late, unsettled, requests, criticals>>

StopDone ==
  /\ down = "stopping" /\ \A m \in Machines : teardown[m].pc = "idle"
  /\ down' = "stopped"
  /\ UNCHANGED <<running, config, objects, actors, late, unsettled, bounds>>

(***************************************************************************)
(* The tool serves one peer; the link may be lost, for good as far as the  *)
(* host that had it is concerned.  An operator edits the file.             *)
(***************************************************************************)
Connect(m) ==
  /\ slot[m] = 0
  /\ \E h \in live[m] \ wedged[m] : slot' = [slot EXCEPT ![m] = h]
  /\ UNCHANGED <<running, down, config, sessions, spent, host, live, wedged,
                 actors, late, unsettled, bounds>>

Disconnect(m) ==
  /\ slot[m] # 0 /\ faults < MaxFaults /\ faults' = faults + 1
  /\ slot' = [slot EXCEPT ![m] = 0]
  /\ wedged' = [wedged EXCEPT ![m] = @ \union {slot[m]}]
  /\ UNCHANGED <<running, down, config, sessions, spent, host, live, actors,
                 late, unsettled, requests, criticals>>

EditFile ==
  /\ running /\ requests < MaxRequests /\ requests' = requests + 1
  /\ \E f \in [Machines -> Settings] : f # file /\ file' = f
  /\ UNCHANGED <<running, down, applied, goal, machines, settings, objects,
                 actors, late, unsettled, faults, criticals>>

Rest == down \in {"stopped", "failed"} /\ UNCHANGED vars

(***************************************************************************)
(* start() samples the storage, reconciles the configuration it was given, *)
(* and starts the watchdog and the supervisor.                             *)
(***************************************************************************)
Init ==
  /\ running = TRUE /\ down = "up"
  /\ \E v \in Variants : file = [m \in Machines |-> v]
  /\ applied = [m \in Machines |-> Off] /\ goal = applied
  /\ machines = applied /\ settings = applied
  /\ sessions = [m \in Machines |-> 0]
  /\ spent = [m \in Machines |-> FALSE]
  /\ host = [m \in Machines |-> [s \in Sids |-> 0]]
  /\ live = [m \in Machines |-> {}] /\ wedged = live
  /\ slot = sessions
  /\ lock = "free" /\ sup = "idle"
  /\ job = [m \in Machines |-> Idle]
  /\ restarter = [m \in Machines |-> Calm] /\ teardown = restarter
  /\ storage = [state |-> "normal", candidate |-> "none", count |-> 0,
                step |-> "idle", todo |-> {}, at |-> <<>>]
  /\ overlap = FALSE /\ late = FALSE /\ unsettled = {}
  /\ requests = 0 /\ faults = 0 /\ criticals = 0

Overlapping ==
  /\ storage.step # "idle"
  /\ \E m \in Machines : \/ job[m].pc # "idle" \/ restarter[m].pc # "idle"
                         \/ teardown[m].pc # "idle"

Step ==
  \/ Reconcile \/ SupervisorDone \/ Callback
  \/ \E m \in Machines :
       \/ RestartCommand(m) \/ Worker(m)
       \/ SpawnRestarter(m) \/ Restarter(m)
       \/ StopUnlist(m) \/ StopRetire(m) \/ StopForget(m)
       \/ Connect(m) \/ Disconnect(m)
  \/ \E level \in Levels, forced, intact \in BOOLEAN : Sample(level, forced, intact)
  \/ Stop \/ StopSessions \/ StopFails \/ StopDone \/ EditFile \/ Rest

Tracked(action) == action /\ overlap' = (overlap \/ Overlapping')

Next == Tracked(Step)

(***************************************************************************)
(* Every thread goes on with what it has begun, the supervisor and the     *)
(* watchdog keep polling, and stop() is bounded.  A tool that accepts      *)
(* connections is reached between two attempts of the watchdog, whose      *)
(* delay doubles after each.                                               *)
(***************************************************************************)
Fairness ==
  /\ WF_vars(Tracked(Reconcile)) /\ WF_vars(Tracked(SupervisorDone))
  /\ WF_vars(Tracked(Callback))
  /\ \A m \in Machines :
       /\ WF_vars(Tracked(Worker(m))) /\ WF_vars(Tracked(SpawnRestarter(m)))
       /\ WF_vars(Tracked(Restarter(m))) /\ SF_vars(Tracked(Connect(m)))

Spec == Init /\ [][Next]_vars /\ Fairness

-----------------------------------------------------------------------------
(* Every variable has its type, and the lock is held by who is at work. *)
TypeOK ==
  /\ running \in BOOLEAN
  /\ down \in {"up", "joining", "stopping", "stopped", "failed"}
  /\ {file, applied, goal, machines, settings} \subseteq [Machines -> Settings]
  /\ sessions \in [Machines -> 0 .. NSessions]
  /\ spent \in [Machines -> BOOLEAN]
  /\ host \in [Machines -> [Sids -> 0 .. NHosts]]
  /\ \A m \in Machines :
       /\ live[m] \subseteq Hosts /\ wedged[m] \subseteq live[m]
       /\ slot[m] \in live[m] \union {0}
       /\ job[m].s \in 0 .. NSessions /\ restarter[m].s \in 0 .. NSessions
       /\ restarter[m].pc \in {"assign", "enable"} <=> lock = m
  /\ lock = "supervisor" <=> Busy
  /\ sup \in {"idle", "reconcile", "restart", "broken", "dead"}
  /\ unsettled \subseteq Machines
  /\ storage.count < Debounce
  /\ {overlap, late} \subseteq BOOLEAN

(* A machine never has two hosts that are enabled: a second one would      *)
(* occupy the only peer slot of the tool.  The claim is for storage        *)
(* transitions and a stop() that do not run while a session is restarted.  *)
OneHost == ~overlap /\ ~late => \A m \in Machines : Cardinality(live[m]) <= 1

(* The same without the restriction, which is what the comments of         *)
(* retire() and of the restart command ask for.                            *)
OneHostAlways == \A m \in Machines : Cardinality(live[m]) <= 1

(* When no thread is at work on a machine, the only host it may have is    *)
(* that of its listed session, so that a later stop can retire it.         *)
HostsAreReachable ==
  ~overlap /\ ~late =>
    \A m \in Machines :
      /\ job[m].pc = "idle" /\ restarter[m].pc = "idle"
      /\ teardown[m].pc = "idle" /\ storage.step = "idle"
      => live[m] \subseteq {host[m][s] : s \in {sessions[m]} \ {0}}

(* Once stop() has returned no host is left, unless it went by a thread    *)
(* that was already starting one.                                          *)
StopLeavesNothing ==
  down = "stopped" /\ ~overlap /\ ~late => \A m \in Machines : live[m] = {}

(* When the disk is full and the callback is through, no tool is connected *)
(* to, for nothing it sends could be stored, unless by a host that a       *)
(* worker is about to retire.                                              *)
Quiesced ==
  ~accepting /\ storage.step = "idle" /\ ~overlap =>
    \A m \in Machines : live[m] # {} => \/ job[m].pc = "retire"
                                        \/ teardown[m].pc = "retire"

(* Between reconciles a session runs with the settings of the revision     *)
(* that the service reports as applied, if that one has the machine and    *)
(* the reconcile did not raise on it.                                      *)
SettingsAreApplied ==
  ~Busy /\ down = "up" =>
    \A m \in Machines \ unsettled : sessions[m] # 0 /\ applied[m] # Off =>
      settings[m] = applied[m] /\ machines[m] = applied[m]

(* What the run explores of it.                                            *)
AppliedIsRunning == ~overlap => SettingsAreApplied

(* The same without the exception, which does not hold: a machine whose    *)
(* old session was stopped, but not flushed, stays on record with its old  *)
(* settings while the new revision is set, and a restart command starts    *)
(* it with them (lifecycle.py:264-269, 311-312, control_plane.py:281).     *)
AppliedIsRunningAlways ==
  ~Busy /\ down = "up" =>
    \A m \in Machines : sessions[m] # 0 /\ applied[m] # Off =>
      settings[m] = applied[m]

(* And if it has not: a machine without a session, because its restart     *)
(* raised, stays on record when it is disabled, and a restart command      *)
(* starts it (control_plane.py:281, lifecycle.py:283-287).                 *)
DisabledIsStopped ==
  ~Busy /\ down = "up" =>
    \A m \in Machines : sessions[m] # 0 => applied[m] # Off

(* No two hosts of a machine share a generation, by which the journal      *)
(* tells a retransmission from a new event.                                *)
GenerationsAreFresh ==
  [][\A m \in Machines, s \in Sids :
       host'[m][s] \notin {0, host[m][s]} => ~spent[m] \/ overlap]_vars

(* A listed machine is connected again and again, whatever the order of    *)
(* requests, lost links, failed starts and storage transitions, once the   *)
(* disk has room and the service stays up.                                 *)
EventuallyConnected ==
  \A m \in Machines :
    <>[](running /\ accepting /\ ~overlap /\ sessions[m] # 0)
      => []<>Connected(m, sessions[m])
=============================================================================
