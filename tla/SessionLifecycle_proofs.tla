----------------------- MODULE SessionLifecycle_proofs -----------------------
(* Who holds the hosts of a machine, for every number of machines, sessions *)
(* and hosts.                                                               *)
(*                                                                          *)
(* The argument: the reconcile lock keeps the supervisor and the restarters *)
(* apart, and "late" and "overlap" mark the two threads that do not take    *)
(* it.  So whoever is about to start a session has the listed one, for      *)
(* which no host is enabled; and an enabled host belongs to the listed      *)
(* session or to one that somebody has in hand to retire it.                *)
EXTENDS SessionLifecycle, FiniteSetTheorems, TLAPS

WorkerPcs == {"idle", "unlist", "retire", "forget", "register", "list",
              "check", "assign", "enable"}
StartPcs == {"check", "assign", "enable"}
StoragePcs == {"idle", "quiesce", "recover", "assign", "enable"}
States == {"normal", "warning", "critical", "recovering"}

\* A number, or 0 for none.
NoOr(S) == S \cup {0}

Pairs == Machines \X Sids
Counts == 0 .. Debounce - 1
Jobs == [pc : WorkerPcs, s : NoOr(Sids), next : Settings, fresh : BOOLEAN]
Restarters == [pc : {"idle", "stop", "lock", "assign", "enable"},
               s : NoOr(Sids)]
Teardowns == [pc : {"idle", "unlist", "retire", "forget"}, s : NoOr(Sids)]
Storages == [state : States, candidate : States \cup {"none"},
             count : Counts, step : StoragePcs,
             todo : SUBSET Pairs, at : Pairs \cup {<<>>}]

ConfigTypes ==
  /\ file \in [Machines -> Settings] /\ applied \in [Machines -> Settings]
  /\ goal \in [Machines -> Settings] /\ machines \in [Machines -> Settings]
  /\ settings \in [Machines -> Settings]

ObjectTypes ==
  /\ sessions \in [Machines -> NoOr(Sids)]
  /\ spent \in [Machines -> BOOLEAN]
  /\ host \in [Machines -> [Sids -> NoOr(Hosts)]]
  /\ live \in [Machines -> SUBSET Hosts]
  /\ wedged \in [Machines -> SUBSET Hosts]
  /\ slot \in [Machines -> NoOr(Hosts)]

ActorTypes ==
  /\ running \in BOOLEAN
  /\ down \in {"up", "joining", "stopping", "stopped", "failed"}
  /\ lock \in Machines \cup {"free", "supervisor"}
  /\ sup \in {"idle", "reconcile", "restart", "broken", "dead"}
  /\ job \in [Machines -> Jobs] /\ restarter \in [Machines -> Restarters]
  /\ teardown \in [Machines -> Teardowns] /\ storage \in Storages
  /\ late \in BOOLEAN /\ unsettled \subseteq Machines

Types == ConfigTypes /\ ObjectTypes /\ ActorTypes /\ overlap \in BOOLEAN

\* Whoever starts a session has one, and it has the host that is being enabled.
InHand ==
  /\ storage.step \in {"assign", "enable"} => storage.at \in Pairs
  /\ \A m \in Machines : /\ job[m].pc \in StartPcs => job[m].s \in Sids
                         /\ restarter[m].pc # "idle" => restarter[m].s \in Sids

Fitted ==
  /\ storage.step = "enable" => host[storage.at[1]][storage.at[2]] # 0
  /\ \A m \in Machines :
       /\ job[m].pc = "enable" => host[m][job[m].s] # 0
       /\ restarter[m].pc = "enable" => host[m][restarter[m].s] # 0

Linked == \A m \in Machines : /\ wedged[m] \subseteq live[m]
                              /\ slot[m] \in live[m] \cup {0}

Locks ==
  /\ lock = "supervisor" <=> Busy
  /\ ~Busy => \A m \in Machines : job[m].pc = "idle"
  /\ \A m \in Machines : restarter[m].pc \in {"assign", "enable"} <=> lock = m

\* What stop() does with a machine once it took its session off the list.
Torn == {"retire", "forget"}

Stops ==
  /\ running <=> down = "up"
  /\ down # "stopping" => \A m \in Machines : teardown[m].pc = "idle"
  /\ late => ~running
  /\ ~late /\ down \in {"stopping", "stopped", "failed"} => ~Starting
  /\ \A m, x \in Machines :
       teardown[m].pc \in Torn /\ teardown[x].pc \in Torn => m = x

Watched == overlap \/ ~Overlapping

\* What the supervisor works towards.
Aim(m) == IF sup \in {"reconcile", "broken"} THEN goal[m] ELSE applied[m]

Follows == \A m \in Machines :
  /\ job[m].pc \in {"register", "list"} => job[m].next # Off
  /\ \/ job[m].pc \in {"list", "check", "assign", "enable"}
     \/ sup = "restart" /\ job[m].pc # "idle"
     => machines[m] \in {Off, job[m].next}
  /\ job[m].fresh => job[m].pc # "idle" /\ sup # "restart"
  /\ m \notin unsettled /\ Aim(m) # Off => IF job[m].pc = "idle" THEN machines[m] \in {Off, Aim(m)}
                     ELSE job[m].next \in {Off, Aim(m)}

Unlisted == \A m \in Machines :
  job[m].pc \in {"retire", "forget", "register", "list"} => sessions[m] = 0

\* A session is started by the thread that listed it, or found it disconnected.
Fresh == \A m \in Machines :
  job[m].pc \in StartPcs /\ restarter[m].pc # "idle" => restarter[m].s # job[m].s

Listing == ~late => \A m \in Machines :
  /\ teardown[m].pc \in {"retire", "forget"} => sessions[m] = 0
  /\ job[m].pc \in StartPcs => sessions[m] = job[m].s
  /\ job[m].pc = "list" => machines[m] # Off
  /\ restarter[m].pc \in {"assign", "enable"} => sessions[m] = restarter[m].s
  /\ sessions[m] # 0 => settings[m] = machines[m] /\ machines[m] # Off
  /\ sessions[m] # 0 /\ down \in {"stopping", "stopped"} => teardown[m].pc = "unlist"

\* The next host of a machine gets a generation that no host had.
Generations == ~overlap => \A m \in Machines :
  \/ job[m].pc \in {"check", "assign"} \/ restarter[m].pc = "assign"
  \/ storage.step = "assign" /\ storage.at[1] = m
  => ~spent[m]

\* Who can retire the host of a session object: the list, and who took it off.
Owner(m, s) == \/ sessions[m] = s
               \/ job[m].pc = "retire" /\ job[m].s = s
               \/ teardown[m].pc = "retire" /\ teardown[m].s = s

OwnedAt(m) == \A h \in live[m] : \E s \in Sids : Owner(m, s) /\ host[m][s] = h

Owned == ~overlap /\ ~(late /\ accepting) => \A m \in Machines : OwnedAt(m)

\* A step that enables no host and leaves the enabled ones to their owners.
Keeps(m) ==
  /\ live'[m] \subseteq live[m]
  /\ \A s \in Sids : Owner(m, s) /\ host[m][s] \in live'[m] =>
                       Owner(m, s)' /\ host'[m][s] = host[m][s]

Starts == \/ \E m \in Machines : \/ WorkerAssign(m) \/ WorkerEnable(m)
                                 \/ RestarterAssign(m) \/ RestarterEnable(m)
          \/ RecoverAssign \/ RecoverEnable

\* A session that is about to be started has no enabled host.
Empty == ~overlap /\ ~late => \A m \in Machines :
  /\ job[m].pc \in StartPcs => live[m] = {}
  /\ restarter[m].pc \in {"lock", "assign", "enable"} /\ sessions[m] = restarter[m].s
       => live[m] = {}

Served(p) == sessions[p[1]] = p[2]

\* The storage callback goes through the sessions that were and are listed.
Callbacks == ~overlap =>
  /\ storage.step # "idle" => \A p \in storage.todo : Served(p)
  /\ storage.step \in {"assign", "enable"} => Served(storage.at) /\ storage.at \notin storage.todo
  /\ storage.step \in {"recover", "assign", "enable"} =>
       accepting /\ \A p \in storage.todo : live[p[1]] = {}
  /\ storage.step \in {"assign", "enable"} => live[storage.at[1]] = {}
  /\ storage.step = "quiesce" => ~accepting

\* While the disk is full nobody starts a session, and none that the callback
\* is through with has an enabled host.
Quiet == ~overlap /\ ~accepting => \A m \in Machines :
  /\ job[m].pc \notin {"assign", "enable"}
  /\ restarter[m].pc \notin {"assign", "enable"}
  /\ restarter[m].pc # "idle" => sessions[m] # restarter[m].s
  /\ sessions[m] # 0 /\ (storage.step = "idle" \/ <<m, sessions[m]>> \notin storage.todo)
        => host[m][sessions[m]] \notin live[m]

USE DEF Busy, Torn

Basics == Types /\ InHand /\ Fitted /\ Linked /\ Locks /\ Stops /\ Watched

-----------------------------------------------------------------------------
(* The constants, as the types use them.                                    *)
LEMMA Ranges ==
  /\ Off \in Settings /\ 0 \notin Sids /\ 0 \notin Hosts
  /\ 0 .. NSessions = NoOr(Sids) /\ 0 .. NHosts = NoOr(Hosts)
  /\ 0 \in Counts
BY LifecycleAssumption DEF Settings, Sids, Hosts, NoOr, Counts

(* What a step does to the history of overlaps.                             *)
LEMMA Tracks ==
  ASSUME Types, Watched, [Next]_vars
  PROVE  /\ Step \/ UNCHANGED vars
         /\ overlap' \in BOOLEAN /\ (overlap => overlap')
         /\ Watched'
<1>1. CASE Next
  BY <1>1 DEF Next, Tracked, Types, Watched, Overlapping
<1>2. CASE UNCHANGED vars
  <2>1. Overlapping' = Overlapping
    BY <1>2 DEF vars, objects, actors, Overlapping
  <2> QED BY <1>2, <2>1 DEF vars, Types, Watched
<1> QED BY <1>1, <1>2

(* A session number that is given out is one no thread refers to, and a     *)
(* host that is given out is not enabled.                                   *)
LEMMA FreeIsFree ==
  ASSUME Types, NEW m \in Machines
  PROVE  /\ FreeSessions(m) # {} =>
              LET s == Pick(FreeSessions(m))
              IN  /\ s \in Sids /\ s # sessions[m] /\ s # job[m].s
                  /\ s # restarter[m].s /\ s # teardown[m].s
                  /\ storage.at # <<m, s>> /\ <<m, s>> \notin storage.todo
         /\ FreeHosts(m) # {} =>
              Pick(FreeHosts(m)) \in Hosts /\ Pick(FreeHosts(m)) \notin live[m]
<1>1. ASSUME FreeSessions(m) # {}
      PROVE  LET s == Pick(FreeSessions(m))
             IN  /\ s \in Sids /\ s # sessions[m] /\ s # job[m].s
                 /\ s # restarter[m].s /\ s # teardown[m].s
                 /\ storage.at # <<m, s>> /\ <<m, s>> \notin storage.todo
  <2> DEFINE s == Pick(FreeSessions(m))
  <2>1. s \in FreeSessions(m)
    BY <1>1 DEF Pick
  <2>2. s \in Sids /\ s \notin InUse(m)
    BY <2>1 DEF FreeSessions
  <2> HIDE DEF s
  <2>3. ASSUME NEW p \in storage.todo \cup {storage.at}, p = <<m, s>>
        PROVE  s \in InUse(m)
    BY <2>3 DEF InUse
  <2>4. {sessions[m], job[m].s, restarter[m].s, teardown[m].s} \subseteq InUse(m)
    BY DEF InUse
  <2>5. storage.at # <<m, s>> /\ <<m, s>> \notin storage.todo
    BY <2>2, <2>3
  <2> QED BY <2>2, <2>4, <2>5 DEF s
<1>2. ASSUME FreeHosts(m) # {} PROVE Pick(FreeHosts(m)) \in FreeHosts(m)
  BY <1>2 DEF Pick
<1> QED BY <1>1, <1>2 DEF FreeHosts
(* What a sample of the disk space leads to.                                *)
(* Listing a new session changes the job of its machine alone.              *)
LEMMA WorkerListDoes ==
  ASSUME Types, NEW m \in Machines, WorkerList(m)
  PROVE  /\ \A x \in Machines \ {m} : job'[x] = job[x]
         /\ job'[m].pc = "check" /\ job'[m].s \in Sids /\ job'[m].s # restarter[m].s
         /\ UNCHANGED <<restarter, storage>>
<1> DEFINE s == Pick(FreeSessions(m))
<1>1. s \in Sids /\ s # restarter[m].s
  BY FreeIsFree DEF WorkerList
<1>2. /\ job' = [job EXCEPT ![m] = [job[m] EXCEPT !.pc = "check", !.s = s]]
      /\ UNCHANGED <<restarter, storage>>
  BY DEF WorkerList, WorkerFrame
<1> HIDE DEF s
<1>3. job \in [Machines -> Jobs]
  BY DEF Types, ActorTypes
<1> QED BY <1>1, <1>2, <1>3 DEF Jobs

(* Starting to work on a new host.                                          *)
LEMMA WorkerAssignDoes ==
  ASSUME Types, InHand, NEW m \in Machines, WorkerAssign(m)
  PROVE  /\ job[m].pc = "assign" /\ job[m].s \in Sids
         /\ \A x \in Machines \ {m} : job'[x] = job[x] /\ host'[x] = host[x]
         /\ job'[m].pc = "enable" /\ job'[m].s = job[m].s
         /\ host'[m][job[m].s] # 0
         /\ \A t \in Sids \ {job[m].s} : host'[m][t] = host[m][t]
         /\ UNCHANGED <<restarter, storage>>
<1> DEFINE h == Pick(FreeHosts(m))
           s == job[m].s
<1>1. job[m].pc = "assign" /\ s \in Sids
  BY DEF WorkerAssign, At, InHand, StartPcs
<1>2. h # 0
  BY FreeIsFree, Ranges DEF WorkerAssign, Assign
<1>3. host' = [host EXCEPT ![m][s] = h] /\ UNCHANGED <<restarter, storage>>
  BY DEF WorkerAssign, Assign, WorkerFrame
<1>4. job' = [job EXCEPT ![m].pc = "enable"]
  BY DEF WorkerAssign, Go
<1> HIDE DEF h
<1>5. job \in [Machines -> Jobs] /\ host \in [Machines -> [Sids -> NoOr(Hosts)]]
  BY DEF Types, ActorTypes, ObjectTypes
<1>6. /\ \A x \in Machines \ {m} : job'[x] = job[x]
      /\ job'[m].pc = "enable" /\ job'[m].s = s
  BY <1>4, <1>5 DEF Jobs
<1>7. /\ \A x \in Machines \ {m} : host'[x] = host[x]
      /\ host'[m][s] = h /\ \A t \in Sids \ {s} : host'[m][t] = host[m][t]
  BY <1>1, <1>3, <1>5
<1> QED BY <1>1, <1>2, <1>3, <1>6, <1>7

LEMMA SampleDoes ==
  ASSUME Types, NEW l \in Levels, NEW f \in BOOLEAN, NEW i \in BOOLEAN, Sample(l, f, i)
  PROVE  /\ running /\ storage.step = "idle"
         /\ \/ storage'.state = storage.state /\ storage'.step = "idle"
            \/ /\ storage'.state \in States
               /\ IF Listed = {} THEN storage'.step = "idle"
                  ELSE IF storage'.state \in {"critical", "recovering"}
                  THEN storage'.step = "quiesce" /\ storage'.todo = Listed
                  ELSE IF ~accepting
                  THEN storage'.step = "recover" /\ storage'.todo = Listed
                  ELSE storage'.step = "idle"
<1> DEFINE target == IF f THEN "critical" ELSE Target(l)
           state == Reached(target, i)
           step == IF Listed = {} THEN "idle" ELSE CallbackFor(state)
<1>1. target \in States /\ state \in States
  BY DEF Target, Reached, States
<1>2. ~accepting => state # "warning"
  BY DEF Target, Reached, accepting
<1>3. step = IF Listed = {} THEN "idle"
             ELSE IF state \in {"critical", "recovering"} THEN "quiesce"
             ELSE IF ~accepting THEN "recover" ELSE "idle"
  BY <1>1, <1>2 DEF CallbackFor, States
<1>4. running /\ storage.step = "idle"
  BY DEF Sample
<1>5. \/ storage' = [storage EXCEPT !.candidate = "none", !.count = 0]
      \/ storage' = [storage EXCEPT !.candidate = target, !.count = Counted(target)]
      \/ storage' = [state |-> state, candidate |-> "none", count |-> 0,
                     step |-> step, at |-> <<>>,
                     todo |-> IF step = "idle" THEN {} ELSE Listed]
  BY DEF Sample
<1>6. storage \in Storages
  BY DEF Types, ActorTypes
<1> HIDE DEF target, state, step
<1>7. CASE \/ storage' = [storage EXCEPT !.candidate = "none", !.count = 0]
           \/ storage' = [storage EXCEPT !.candidate = target,
                                         !.count = Counted(target)]
  BY <1>4, <1>6, <1>7 DEF Storages
<1>8. CASE storage' = [state |-> state, candidate |-> "none", count |-> 0,
                       step |-> step, at |-> <<>>,
                       todo |-> IF step = "idle" THEN {} ELSE Listed]
  BY <1>1, <1>3, <1>4, <1>8
<1> QED BY <1>5, <1>7, <1>8

(* Who keeps whom out.                                                      *)
LEMMA Excludes ==
  ASSUME Types, Locks, Stops, NEW m \in Machines
  PROVE  /\ job[m].pc # "idle" =>
              /\ \A x \in Machines : restarter[x].pc \notin {"assign", "enable"}
              /\ ~late => down \in {"up", "joining"} /\ teardown[m].pc = "idle"
         /\ restarter[m].pc \in {"assign", "enable"} =>
              /\ \A x \in Machines : job[x].pc = "idle"
              /\ \A x \in Machines \ {m} : restarter[x].pc \notin {"assign", "enable"}
              /\ ~late => down \in {"up", "joining"} /\ teardown[m].pc = "idle"
         /\ storage.step # "idle" /\ ~late =>
              down \in {"up", "joining"} /\ teardown[m].pc = "idle"
         /\ teardown[m].pc # "idle" => down = "stopping"
<1>1. m \notin {"free", "supervisor"}
  BY LifecycleAssumption
<1>2. job[m].pc # "idle" => Busy /\ lock = "supervisor"
  BY DEF Locks
<1>3. \A x \in Machines : restarter[x].pc \in {"assign", "enable"} => lock = x
  BY DEF Locks
<1>4. \A x \in Machines : lock = x => ~Busy
  BY LifecycleAssumption DEF Locks
<1>5. ~Busy => \A x \in Machines : job[x].pc = "idle"
  BY DEF Locks
<1>6. ~late /\ Starting => down \in {"up", "joining"}
  BY DEF Stops, Types, ActorTypes
<1>7. down \in {"up", "joining"} => teardown[m].pc = "idle"
  BY DEF Stops
<1>8. teardown[m].pc # "idle" => down = "stopping"
  BY DEF Stops
<1> QED BY <1>1, <1>2, <1>3, <1>4, <1>5, <1>6, <1>7, <1>8 DEF Starting

(* What a restarter does before it starts its session.                      *)
LEMMA RestarterDoes ==
  ASSUME Types, NEW m \in Machines
  PROVE  /\ RestarterStop(m) =>
              /\ restarter[m].pc = "stop"
              /\ \A x \in Machines \ {m} : restarter'[x] = restarter[x]
              /\ \/ restarter'[m].pc = "lock" /\ restarter'[m].s = restarter[m].s
                 \/ restarter'[m].pc = "idle" /\ UNCHANGED objects
         /\ RestarterCheck(m) =>
              /\ restarter[m].pc = "lock"
              /\ \A x \in Machines \ {m} : restarter'[x] = restarter[x]
              /\ \/ /\ restarter'[m].pc = "assign" /\ restarter'[m].s = restarter[m].s
                    /\ sessions[m] = restarter[m].s /\ running /\ lock' = m
                    /\ spent' = [spent EXCEPT ![m] = FALSE]
                 \/ restarter'[m].pc = "idle" /\ UNCHANGED <<lock, spent>>
<1>1. restarter \in [Machines -> Restarters]
  BY DEF Types, ActorTypes
<1>2. ASSUME RestarterStop(m)
      PROVE  /\ restarter[m].pc = "stop"
             /\ \A x \in Machines \ {m} : restarter'[x] = restarter[x]
             /\ \/ restarter'[m].pc = "lock" /\ restarter'[m].s = restarter[m].s
                \/ restarter'[m].pc = "idle" /\ UNCHANGED objects
  BY <1>1, <1>2 DEF RestarterStop, Restarters, Calm
<1>3. ASSUME RestarterCheck(m)
      PROVE  /\ restarter[m].pc = "lock"
             /\ \A x \in Machines \ {m} : restarter'[x] = restarter[x]
             /\ \/ /\ restarter'[m].pc = "assign" /\ restarter'[m].s = restarter[m].s
                   /\ sessions[m] = restarter[m].s /\ running /\ lock' = m
                   /\ spent' = [spent EXCEPT ![m] = FALSE]
                \/ restarter'[m].pc = "idle" /\ UNCHANGED <<lock, spent>>
  BY <1>1, <1>3 DEF RestarterCheck, Restarters, Calm, Advance
<1> QED BY <1>2, <1>3

(* A machine is put on record by its own worker.                            *)
LEMMA WorkerRegisterDoes ==
  ASSUME Types, NEW m \in Machines, WorkerRegister(m)
  PROVE  /\ job'[m].pc \in {"list", "unlist", "idle"}
         /\ \A x \in Machines \ {m} : job'[x] = job[x]
<1>1. job \in [Machines -> Jobs]
  BY DEF Types, ActorTypes
<1>2. CASE Go(m, "list")
  BY <1>1, <1>2 DEF Go, Jobs
<1>3. CASE job' = [job EXCEPT ![m] = [Idle EXCEPT !.pc = "unlist", !.fresh = TRUE]]
  BY <1>1, <1>3 DEF Idle
<1>4. CASE Done(m)
  BY <1>1, <1>4 DEF Done, Idle
<1> QED BY <1>2, <1>3, <1>4 DEF WorkerRegister

(* A stop of a machine that raises ends its worker and nothing else.        *)
LEMMA WorkerStopFailsDoes ==
  ASSUME Types, NEW m \in Machines, WorkerStopFails(m)
  PROVE  /\ job[m].pc = "forget" /\ job'[m] = Idle
         /\ \A x \in Machines : x # m => job'[x] = job[x]
         /\ sup' \in {sup, "broken"} /\ (sup' # sup => job[m].fresh)
         /\ (sup # "restart" => unsettled' = unsettled \cup {m})
         /\ unsettled \subseteq unsettled' /\ unsettled' \subseteq unsettled \cup {m}
         /\ UNCHANGED <<running, down, config, objects, lock, restarter, teardown,
                        storage, late>>
<1>1. job' = [job EXCEPT ![m] = Idle] /\ job[m].pc = "forget"
  BY DEF WorkerStopFails, At, Done
<1>2. job \in [Machines -> Jobs]
  BY DEF Types, ActorTypes
<1>3. /\ sup' \in {sup, "broken"} /\ (sup' # sup => job[m].fresh)
      /\ unsettled' = IF sup = "restart" THEN unsettled ELSE unsettled \cup {m}
      /\ UNCHANGED <<running, down, config, objects, lock, restarter, teardown,
                     storage, late>>
  BY DEF WorkerStopFails
<1>4. /\ sup # "restart" => unsettled' = unsettled \cup {m}
      /\ unsettled \subseteq unsettled' /\ unsettled' \subseteq unsettled \cup {m}
  BY <1>3
<1>5. job'[m] = Idle /\ \A x \in Machines : x # m => job'[x] = job[x]
  BY <1>1, <1>2
<1> QED BY <1>1, <1>3, <1>4, <1>5

(* A stop() that raises leaves the machines it has not come to as they are. *)
LEMMA StopFailsDoes ==
  ASSUME Types, Stops, StopFails
  PROVE  /\ down = "stopping" /\ down' = "failed"
         /\ \A x \in Machines : teardown'[x] = Calm /\ teardown[x].pc # "retire"
         /\ teardown' \in [Machines -> Teardowns]
         /\ UNCHANGED <<running, config, objects, lock, sup, job, restarter, storage,
                        late, unsettled>>
<1>1. Calm \in Teardowns
  BY DEF Calm, Teardowns, NoOr
<1>2. \A x \in Machines : teardown[x].pc # "retire"
  BY DEF StopFails, Stops
<1> QED BY <1>1, <1>2 DEF StopFails

(* Retiring the host of one session leaves the others their hosts.          *)
LEMMA RetireKeeps ==
  ASSUME Types, NEW m \in Machines, NEW s \in NoOr(Sids), Retire(m, s), NEW x \in Machines
  PROVE  /\ live'[x] \subseteq live[x] /\ UNCHANGED <<sessions, spent>>
         /\ x # m => live'[x] = live[x] /\ host'[x] = host[x]
         /\ \A t \in Sids : /\ host'[x][t] \in {host[x][t], 0}
                            /\ host[x][t] \in live'[x] =>
                                 host'[x][t] = host[x][t] /\ (x = m => t # s)
<1> DEFINE h == IF s = 0 THEN 0 ELSE host[m][s]
<1>1. live' = [live EXCEPT ![m] = live[m] \ {h}] /\ UNCHANGED <<sessions, spent>>
  BY DEF Retire
<1>2. host' = host \/ (s # 0 /\ host' = [host EXCEPT ![m][s] = 0])
  BY Ranges DEF Retire, Types, ObjectTypes
<1>3. \A t \in Sids : t = s => host[m][t] = h
  BY Ranges
<1> HIDE DEF h
<1> QED BY <1>1, <1>2, <1>3 DEF Types, ObjectTypes, NoOr

(* The types of the configurations.                                         *)
LEMMA ConfigStep ==
  ASSUME Types, Watched, [Next]_vars
  PROVE  ConfigTypes'
<1> USE DEF Types, config, objects, actors, bounds, ConfigTypes
<1>1. CASE Reconcile
  BY <1>1, Ranges DEF Reconcile
<1>2. ASSUME NEW m \in Machines, RestartCommand(m) PROVE ConfigTypes'
  BY <1>2, Ranges DEF RestartCommand
<1>3. CASE SupervisorDone
  BY <1>3, Ranges DEF SupervisorDone
<1>4. ASSUME NEW m \in Machines, WorkerUnlist(m) PROVE ConfigTypes'
  BY <1>4, Ranges DEF WorkerUnlist, At, Unlist, WorkerFrame
<1>5. ASSUME NEW m \in Machines, WorkerRetire(m) PROVE ConfigTypes'
  BY <1>5, Ranges DEF WorkerRetire, At, Retire, WorkerFrame
<1>6. ASSUME NEW m \in Machines, WorkerForget(m) PROVE ConfigTypes'
  BY <1>6, Ranges DEF WorkerForget, At, Go, Done, Forget, WorkerFrame
<1>7. ASSUME NEW m \in Machines, WorkerRegister(m) PROVE ConfigTypes'
  BY <1>7, Ranges DEF WorkerRegister, At, Go, Done, WorkerFrame, ActorTypes,
     Jobs
<1>8. ASSUME NEW m \in Machines, WorkerList(m) PROVE ConfigTypes'
  BY <1>8, Ranges DEF WorkerList, At, Advance, WorkerFrame, ActorTypes, Jobs
<1>9. ASSUME NEW m \in Machines, WorkerCheck(m) PROVE ConfigTypes'
  BY <1>9, Ranges DEF WorkerCheck, At, Go, Done, WorkerFrame
<1>10. ASSUME NEW m \in Machines, WorkerAssign(m) PROVE ConfigTypes'
  BY <1>10, Ranges DEF WorkerAssign, At, Go, Assign, WorkerFrame
<1>11. ASSUME NEW m \in Machines, WorkerEnable(m) PROVE ConfigTypes'
  BY <1>11, Ranges DEF WorkerEnable, At, Done, Enable, WorkerFrame
<1>12. ASSUME NEW m \in Machines, SpawnRestarter(m) PROVE ConfigTypes'
  BY <1>12, Ranges DEF SpawnRestarter, RestarterFrame
<1>13. ASSUME NEW m \in Machines, RestarterStop(m) PROVE ConfigTypes'
  BY <1>13, Ranges DEF RestarterStop, Retire, RestarterFrame
<1>14. ASSUME NEW m \in Machines, RestarterCheck(m) PROVE ConfigTypes'
  BY <1>14, Ranges DEF RestarterCheck, Advance, RestarterFrame
<1>15. ASSUME NEW m \in Machines, RestarterAssign(m) PROVE ConfigTypes'
  BY <1>15, Ranges DEF RestarterAssign, Assign, RestarterFrame
<1>16. ASSUME NEW m \in Machines, RestarterEnable(m) PROVE ConfigTypes'
  BY <1>16, Ranges DEF RestarterEnable, Enable, RestarterFrame
<1>17. ASSUME NEW p \in storage.todo, Quiesce(p) PROVE ConfigTypes'
  BY <1>17, Ranges DEF Quiesce, Retire, Finished, StorageFrame
<1>18. ASSUME NEW p \in storage.todo, Recover(p) PROVE ConfigTypes'
  BY <1>18, Ranges DEF Recover, Advance, Finished, StorageFrame
<1>19. CASE RecoverAssign
  BY <1>19, Ranges DEF RecoverAssign, Assign, StorageFrame
<1>20. CASE RecoverEnable
  BY <1>20, Ranges DEF RecoverEnable, Enable, Finished, StorageFrame
<1>21. ASSUME NEW l \in Levels, NEW f \in BOOLEAN, NEW i \in BOOLEAN,
            Sample(l, f, i) PROVE ConfigTypes'
  BY <1>21, Ranges DEF Sample
<1>22. CASE Stop
  BY <1>22, Ranges DEF Stop
<1>23. CASE StopSessions
  BY <1>23, Ranges DEF StopSessions
<1>24. ASSUME NEW m \in Machines, StopUnlist(m) PROVE ConfigTypes'
  BY <1>24, Ranges DEF StopUnlist, Unlist, StopFrame
<1>25. ASSUME NEW m \in Machines, StopRetire(m) PROVE ConfigTypes'
  BY <1>25, Ranges DEF StopRetire, Retire, StopFrame
<1>26. ASSUME NEW m \in Machines, StopForget(m) PROVE ConfigTypes'
  BY <1>26, Ranges DEF StopForget, Forget, StopFrame
<1>27. CASE StopDone
  BY <1>27, Ranges DEF StopDone
<1>28. ASSUME NEW m \in Machines, Connect(m) PROVE ConfigTypes'
  BY <1>28, Ranges DEF Connect
<1>29. ASSUME NEW m \in Machines, Disconnect(m) PROVE ConfigTypes'
  BY <1>29, Ranges DEF Disconnect
<1>30. CASE EditFile
  BY <1>30, Ranges DEF EditFile
<1>31. CASE UNCHANGED vars
  BY <1>31, Ranges DEF vars
<1>32. ASSUME NEW m \in Machines, WorkerStopFails(m) PROVE ConfigTypes'
  BY <1>32, WorkerStopFailsDoes DEF config
<1>33. CASE StopFails
  BY <1>33 DEF StopFails
<1> QED
  BY <1>1, <1>2, <1>3, <1>4, <1>5, <1>6, <1>7, <1>8, <1>9, <1>10, <1>11,
     <1>12, <1>13, <1>14, <1>15, <1>16, <1>17, <1>18, <1>19, <1>20, <1>21,
     <1>22, <1>23, <1>24, <1>25, <1>26, <1>27, <1>28, <1>29, <1>30, <1>31, <1>32, <1>33,
     Tracks DEF Step, Callback, Worker, Restarter, Rest

(* The types of the session objects and hosts.                              *)
LEMMA ObjectStep ==
  ASSUME Types, InHand, Fitted, Watched, [Next]_vars
  PROVE  ObjectTypes'
<1> USE DEF Types, objects, ObjectTypes, NoOr
<1>1. CASE Reconcile
  BY <1>1 DEF Reconcile
<1>2. ASSUME NEW m \in Machines, RestartCommand(m) PROVE ObjectTypes'
  BY <1>2 DEF RestartCommand
<1>3. CASE SupervisorDone
  BY <1>3 DEF SupervisorDone
<1>4. ASSUME NEW m \in Machines, WorkerUnlist(m) PROVE ObjectTypes'
  BY <1>4 DEF WorkerUnlist, At, Unlist, WorkerFrame
<1>5. ASSUME NEW m \in Machines, WorkerRetire(m) PROVE ObjectTypes'
  BY <1>5 DEF WorkerRetire, At, Retire, WorkerFrame
<1>6. ASSUME NEW m \in Machines, WorkerForget(m) PROVE ObjectTypes'
  BY <1>6 DEF WorkerForget, At, Go, Done, Forget, WorkerFrame
<1>7. ASSUME NEW m \in Machines, WorkerRegister(m) PROVE ObjectTypes'
  BY <1>7 DEF WorkerRegister, At, Go, Done, WorkerFrame
<1>8. ASSUME NEW m \in Machines, WorkerList(m) PROVE ObjectTypes'
  BY <1>8, FreeIsFree DEF WorkerList, At, Advance, WorkerFrame
<1>9. ASSUME NEW m \in Machines, WorkerCheck(m) PROVE ObjectTypes'
  BY <1>9 DEF WorkerCheck, At, Go, Done, WorkerFrame
<1>10. ASSUME NEW m \in Machines, WorkerAssign(m) PROVE ObjectTypes'
  BY <1>10, FreeIsFree DEF WorkerAssign, At, Go, Assign, WorkerFrame
<1>11. ASSUME NEW m \in Machines, WorkerEnable(m) PROVE ObjectTypes'
  <2>1. host[m][job[m].s] \in Hosts
    BY <1>11 DEF WorkerEnable, Fitted, InHand, StartPcs, ObjectTypes, At, Jobs, NoOr
  <2> QED BY <1>11, <2>1 DEF WorkerEnable, Enable, WorkerFrame
<1>12. ASSUME NEW m \in Machines, SpawnRestarter(m) PROVE ObjectTypes'
  BY <1>12 DEF SpawnRestarter, RestarterFrame
<1>13. ASSUME NEW m \in Machines, RestarterStop(m) PROVE ObjectTypes'
  <2>1. CASE Retire(m, restarter[m].s)
    BY <1>13, <2>1 DEF Retire
  <2>2. CASE UNCHANGED objects
    BY <2>2
  <2> QED BY <1>13, <2>1, <2>2 DEF RestarterStop
<1>14. ASSUME NEW m \in Machines, RestarterCheck(m) PROVE ObjectTypes'
  BY <1>14 DEF RestarterCheck, Advance, RestarterFrame
<1>15. ASSUME NEW m \in Machines, RestarterAssign(m) PROVE ObjectTypes'
  BY <1>15, FreeIsFree DEF RestarterAssign, Assign, RestarterFrame
<1>16. ASSUME NEW m \in Machines, RestarterEnable(m) PROVE ObjectTypes'
  <2>1. host[m][restarter[m].s] \in Hosts
    BY <1>16 DEF RestarterEnable, Fitted, InHand, StartPcs, ObjectTypes, Restarters, NoOr
  <2> QED BY <1>16, <2>1 DEF RestarterEnable, Enable, RestarterFrame
<1>17. ASSUME NEW p \in storage.todo, Quiesce(p) PROVE ObjectTypes'
  BY <1>17 DEF Quiesce, Retire, Finished, StorageFrame
<1>18. ASSUME NEW p \in storage.todo, Recover(p) PROVE ObjectTypes'
  BY <1>18 DEF Recover, Advance, Finished, StorageFrame
<1>19. CASE RecoverAssign
  BY <1>19, FreeIsFree DEF RecoverAssign, Assign, StorageFrame
<1>20. CASE RecoverEnable
  <2> DEFINE x == storage.at[1]
              s == storage.at[2]
  <2>1. x \in Machines /\ s \in Sids /\ storage.at = <<x, s>>
    BY <1>20 DEF RecoverEnable, InHand, Pairs
  <2>2. host[x][s] \in Hosts
    BY <1>20, <2>1 DEF RecoverEnable, Fitted, ObjectTypes, NoOr
  <2> HIDE DEF x, s
  <2>3. live' = [live EXCEPT ![x] = @ \cup {host[x][s]}] \/ UNCHANGED live
    BY <1>20 DEF RecoverEnable, Enable, x, s
  <2>4. live' \in [Machines -> SUBSET Hosts]
    BY <2>1, <2>2, <2>3
  <2> QED BY <1>20, <2>4 DEF RecoverEnable, StorageFrame
<1>21. ASSUME NEW l \in Levels, NEW f \in BOOLEAN, NEW i \in BOOLEAN,
            Sample(l, f, i) PROVE ObjectTypes'
  BY <1>21 DEF Sample
<1>22. CASE Stop
  BY <1>22 DEF Stop
<1>23. CASE StopSessions
  BY <1>23 DEF StopSessions
<1>24. ASSUME NEW m \in Machines, StopUnlist(m) PROVE ObjectTypes'
  BY <1>24 DEF StopUnlist, Unlist, StopFrame
<1>25. ASSUME NEW m \in Machines, StopRetire(m) PROVE ObjectTypes'
  BY <1>25 DEF StopRetire, Retire, StopFrame
<1>26. ASSUME NEW m \in Machines, StopForget(m) PROVE ObjectTypes'
  BY <1>26 DEF StopForget, Forget, StopFrame
<1>27. CASE StopDone
  BY <1>27 DEF StopDone
<1>28. ASSUME NEW m \in Machines, Connect(m) PROVE ObjectTypes'
  BY <1>28 DEF Connect
<1>29. ASSUME NEW m \in Machines, Disconnect(m) PROVE ObjectTypes'
  BY <1>29 DEF Disconnect
<1>30. CASE EditFile
  BY <1>30 DEF EditFile
<1>31. CASE UNCHANGED vars
  BY <1>31 DEF vars
<1>32. ASSUME NEW m \in Machines, WorkerStopFails(m) PROVE ObjectTypes'
  BY <1>32, WorkerStopFailsDoes DEF objects
<1>33. CASE StopFails
  BY <1>33 DEF StopFails
<1> QED
  BY <1>1, <1>2, <1>3, <1>4, <1>5, <1>6, <1>7, <1>8, <1>9, <1>10, <1>11,
     <1>12, <1>13, <1>14, <1>15, <1>16, <1>17, <1>18, <1>19, <1>20, <1>21,
     <1>22, <1>23, <1>24, <1>25, <1>26, <1>27, <1>28, <1>29, <1>30, <1>31, <1>32, <1>33,
     Tracks DEF Step, Callback, Worker, Restarter, Rest

(* A job keeps its type when it moves on.                                   *)
LEMMA JobChanges ==
  ASSUME NEW j \in Jobs, NEW pc \in WorkerPcs, NEW s \in NoOr(Sids)
  PROVE  /\ [j EXCEPT !.pc = pc] \in Jobs
         /\ [j EXCEPT !.pc = pc, !.s = s] \in Jobs
BY DEF Jobs

(* The types of the threads.                                                *)
LEMMA ActorStep ==
  ASSUME Types, Watched, [Next]_vars
  PROVE  ActorTypes'
<1> USE DEF Types, actors, ActorTypes
<1>1. CASE Reconcile
  <2>1. \A m \in Machines : Work(m, file) \in Jobs
    BY Ranges DEF Work, Jobs, WorkerPcs, Idle, ActorTypes, ConfigTypes, NoOr
  <2> QED BY <1>1, <2>1 DEF Reconcile
<1>2. ASSUME NEW m \in Machines, RestartCommand(m) PROVE ActorTypes'
  <2>1. [Idle EXCEPT !.pc = "unlist", !.next = machines[m]] \in Jobs
    BY <1>2, Ranges DEF RestartCommand, Jobs, WorkerPcs, Idle, ActorTypes,
       ConfigTypes, NoOr
  <2> QED BY <1>2, <2>1 DEF RestartCommand
<1>3. CASE SupervisorDone
  BY <1>3 DEF SupervisorDone
<1>4. ASSUME NEW m \in Machines, WorkerUnlist(m) PROVE ActorTypes'
  <2>1. [job[m] EXCEPT !.pc = "retire", !.s = sessions[m]] \in Jobs
    BY JobChanges DEF WorkerPcs, ObjectTypes
  <2> QED BY <1>4, <2>1 DEF WorkerUnlist, At, Unlist, WorkerFrame
<1>5. ASSUME NEW m \in Machines, WorkerRetire(m) PROVE ActorTypes'
  <2>1. [job[m] EXCEPT !.pc = "forget", !.s = 0] \in Jobs
    BY JobChanges DEF WorkerPcs, NoOr
  <2> QED BY <1>5, <2>1 DEF WorkerRetire, At, Retire, WorkerFrame
<1>6. ASSUME NEW m \in Machines, WorkerForget(m) PROVE ActorTypes'
  <2>1. Idle \in Jobs
    BY <1>6, Ranges DEF WorkerForget, Jobs, WorkerPcs, Idle, ActorTypes,
       ConfigTypes, NoOr
  <2>2. [job[m] EXCEPT !.pc = "register"] \in Jobs
    BY <1>6, Ranges DEF WorkerForget, Jobs, WorkerPcs, Idle, ActorTypes,
       ConfigTypes, NoOr
  <2> QED BY <1>6, <2>1, <2>2 DEF WorkerForget, At, Go, Done, Forget,
     WorkerFrame
<1>7. ASSUME NEW m \in Machines, WorkerRegister(m) PROVE ActorTypes'
  <2>1. Idle \in Jobs
    BY <1>7, Ranges DEF WorkerRegister, Jobs, WorkerPcs, Idle, ActorTypes,
       ConfigTypes, NoOr
  <2>2. [job[m] EXCEPT !.pc = "list"] \in Jobs
    BY JobChanges DEF WorkerPcs, NoOr
  <2>3. [Idle EXCEPT !.pc = "unlist", !.fresh = TRUE] \in Jobs
    BY <1>7, Ranges DEF WorkerRegister, Jobs, WorkerPcs, Idle, ActorTypes,
       ConfigTypes, NoOr
  <2> QED BY <1>7, <2>1, <2>2, <2>3 DEF WorkerRegister, At, Go, Done,
     WorkerFrame
<1>8. ASSUME NEW m \in Machines, WorkerList(m) PROVE ActorTypes'
  <2> DEFINE s == Pick(FreeSessions(m))
  <2>1. s \in Sids
    BY <1>8, FreeIsFree DEF WorkerList
  <2>2. job' = [job EXCEPT ![m] = [job[m] EXCEPT !.pc = "check", !.s = s]]
    BY <1>8 DEF WorkerList
  <2> HIDE DEF s
  <2>3. [job[m] EXCEPT !.pc = "check", !.s = s] \in Jobs
    BY <2>1, JobChanges DEF WorkerPcs, NoOr
  <2> QED BY <1>8, <2>2, <2>3 DEF WorkerList, WorkerFrame
<1>9. ASSUME NEW m \in Machines, WorkerCheck(m) PROVE ActorTypes'
  <2>1. Idle \in Jobs
    BY <1>9, Ranges DEF WorkerCheck, Jobs, WorkerPcs, Idle, ActorTypes,
       ConfigTypes, NoOr
  <2>2. [job[m] EXCEPT !.pc = "assign"] \in Jobs
    BY <1>9, Ranges DEF WorkerCheck, Jobs, WorkerPcs, Idle, ActorTypes,
       ConfigTypes, NoOr
  <2> QED BY <1>9, <2>1, <2>2 DEF WorkerCheck, At, Go, Done, WorkerFrame
<1>10. ASSUME NEW m \in Machines, WorkerAssign(m) PROVE ActorTypes'
  <2>1. [job[m] EXCEPT !.pc = "enable"] \in Jobs
    BY <1>10, Ranges DEF WorkerAssign, Jobs, WorkerPcs, Idle, ActorTypes,
       ConfigTypes, NoOr
  <2> QED BY <1>10, <2>1 DEF WorkerAssign, At, Go, Assign, WorkerFrame
<1>11. ASSUME NEW m \in Machines, WorkerEnable(m) PROVE ActorTypes'
  <2>1. Idle \in Jobs
    BY <1>11, Ranges DEF WorkerEnable, Jobs, WorkerPcs, Idle, ActorTypes,
       ConfigTypes, NoOr
  <2> QED BY <1>11, <2>1 DEF WorkerEnable, At, Done, Enable, WorkerFrame
<1>12. ASSUME NEW m \in Machines, SpawnRestarter(m) PROVE ActorTypes'
  <2>1. [pc |-> "stop", s |-> sessions[m]] \in Restarters
    BY <1>12 DEF SpawnRestarter, Restarters, ActorTypes, Calm, NoOr, ObjectTypes
  <2> QED BY <1>12, <2>1 DEF SpawnRestarter, RestarterFrame
<1>13. ASSUME NEW m \in Machines, RestarterStop(m) PROVE ActorTypes'
  <2>1. [restarter[m] EXCEPT !.pc = "lock"] \in Restarters
    BY <1>13 DEF RestarterStop, Restarters, ActorTypes, Calm, NoOr
  <2>2. Calm \in Restarters
    BY <1>13 DEF RestarterStop, Restarters, ActorTypes, Calm, NoOr
  <2> QED BY <1>13, <2>1, <2>2 DEF RestarterStop, Retire, RestarterFrame
<1>14. ASSUME NEW m \in Machines, RestarterCheck(m) PROVE ActorTypes'
  <2>1. [restarter[m] EXCEPT !.pc = "assign"] \in Restarters
    BY <1>14 DEF RestarterCheck, Restarters, ActorTypes, Calm, NoOr
  <2>2. Calm \in Restarters
    BY <1>14 DEF RestarterCheck, Restarters, ActorTypes, Calm, NoOr
  <2> QED BY <1>14, <2>1, <2>2 DEF RestarterCheck, Advance, RestarterFrame
<1>15. ASSUME NEW m \in Machines, RestarterAssign(m) PROVE ActorTypes'
  <2>1. [restarter[m] EXCEPT !.pc = "enable"] \in Restarters
    BY <1>15 DEF RestarterAssign, Restarters, ActorTypes, Calm, NoOr
  <2> QED BY <1>15, <2>1 DEF RestarterAssign, Assign, RestarterFrame
<1>16. ASSUME NEW m \in Machines, RestarterEnable(m) PROVE ActorTypes'
  <2>1. Calm \in Restarters
    BY <1>16 DEF RestarterEnable, Restarters, ActorTypes, Calm, NoOr
  <2> QED BY <1>16, <2>1 DEF RestarterEnable, Enable, RestarterFrame
<1>17. ASSUME NEW p \in storage.todo, Quiesce(p) PROVE ActorTypes'
  <2>1. Finished(storage.todo \ {p}) \in Storages
    BY DEF Finished, Storages, StoragePcs, States, ActorTypes
  <2> QED BY <1>17, <2>1 DEF Quiesce, StorageFrame
<1>18. ASSUME NEW p \in storage.todo, Recover(p) PROVE ActorTypes'
  <2>1. Finished(storage.todo \ {p}) \in Storages
    BY DEF Finished, Storages, StoragePcs, States, ActorTypes
  <2>2. [storage EXCEPT !.step = "assign", !.at = p, !.todo = @ \ {p}] \in Storages
    BY DEF Storages, StoragePcs, States, ActorTypes
  <2> QED BY <1>18, <2>1, <2>2 DEF Recover, StorageFrame
<1>19. CASE RecoverAssign
  <2>1. [storage EXCEPT !.step = "enable"] \in Storages
    BY DEF Storages, StoragePcs, States, ActorTypes
  <2> QED BY <1>19, <2>1 DEF RecoverAssign, StorageFrame
<1>20. CASE RecoverEnable
  <2>1. Finished(storage.todo) \in Storages
    BY DEF Finished, Storages, StoragePcs, States, ActorTypes
  <2> QED BY <1>20, <2>1 DEF RecoverEnable, StorageFrame
<1>21. ASSUME NEW l \in Levels, NEW f \in BOOLEAN, NEW i \in BOOLEAN,
            Sample(l, f, i) PROVE ActorTypes'
  <2> DEFINE target == IF f THEN "critical" ELSE Target(l)
              state == Reached(target, i)
              step == IF Listed = {} THEN "idle" ELSE CallbackFor(state)
  <2>1. target \in States /\ state \in States
    BY DEF Target, Reached, States
  <2>2. step \in StoragePcs
    BY DEF CallbackFor, StoragePcs
  <2>3. Listed \subseteq Pairs
    BY DEF Listed, Pairs, ObjectTypes, NoOr
  <2>4. [storage EXCEPT !.candidate = "none", !.count = 0] \in Storages
    BY Ranges DEF Storages, ActorTypes
  <2>5. ~Settled(target, f) =>
          [storage EXCEPT !.candidate = target, !.count = Counted(target)] \in Storages
    <3>1. storage.count \in Counts
      BY DEF Storages, ActorTypes
    <3>2. ~Settled(target, f) => Counted(target) \in Counts
      BY <3>1, LifecycleAssumption DEF Settled, Counted, Counts
    <3> QED BY <2>1, <3>2 DEF Storages, ActorTypes
  <2>6. [state |-> state, candidate |-> "none", count |-> 0, step |-> step,
         at |-> <<>>, todo |-> IF step = "idle" THEN {} ELSE Listed] \in Storages
    BY <2>1, <2>2, <2>3, Ranges DEF Storages
  <2>7. \/ storage' = [storage EXCEPT !.candidate = "none", !.count = 0]
        \/ /\ ~Settled(target, f)
           /\ storage' = [storage EXCEPT !.candidate = target,
                                         !.count = Counted(target)]
        \/ storage' = [state |-> state, candidate |-> "none", count |-> 0,
                       step |-> step, at |-> <<>>,
                       todo |-> IF step = "idle" THEN {} ELSE Listed]
    BY <1>21 DEF Sample
  <2>8. storage' \in Storages
    BY <2>4, <2>5, <2>6, <2>7
  <2> QED BY <1>21, <2>8 DEF Sample
<1>22. CASE Stop
  BY <1>22 DEF Stop
<1>23. CASE StopSessions
  <2>1. Calm \in Teardowns
    BY <1>23 DEF StopSessions, Teardowns, ActorTypes, Calm, NoOr
  <2>2. [Calm EXCEPT !.pc = "unlist"] \in Teardowns
    BY <1>23 DEF StopSessions, Teardowns, ActorTypes, Calm, NoOr
  <2> QED BY <1>23, <2>1, <2>2 DEF StopSessions, Starting
<1>24. ASSUME NEW m \in Machines, StopUnlist(m) PROVE ActorTypes'
  <2>1. [pc |-> "retire", s |-> sessions[m]] \in Teardowns
    BY <1>24 DEF StopUnlist, Teardowns, ActorTypes, Calm, NoOr, ObjectTypes
  <2> QED BY <1>24, <2>1 DEF StopUnlist, Unlist, StopFrame
<1>25. ASSUME NEW m \in Machines, StopRetire(m) PROVE ActorTypes'
  <2>1. [pc |-> "forget", s |-> 0] \in Teardowns
    BY <1>25 DEF StopRetire, Teardowns, ActorTypes, Calm, NoOr
  <2> QED BY <1>25, <2>1 DEF StopRetire, Retire, StopFrame
<1>26. ASSUME NEW m \in Machines, StopForget(m) PROVE ActorTypes'
  <2>1. Calm \in Teardowns
    BY <1>26 DEF StopForget, Teardowns, ActorTypes, Calm, NoOr
  <2> QED BY <1>26, <2>1 DEF StopForget, Forget, StopFrame
<1>27. CASE StopDone
  BY <1>27 DEF StopDone
<1>28. ASSUME NEW m \in Machines, Connect(m) PROVE ActorTypes'
  BY <1>28 DEF Connect
<1>29. ASSUME NEW m \in Machines, Disconnect(m) PROVE ActorTypes'
  BY <1>29 DEF Disconnect
<1>30. CASE EditFile
  BY <1>30 DEF EditFile
<1>31. CASE UNCHANGED vars
  BY <1>31 DEF vars
<1>32. ASSUME NEW m \in Machines, WorkerStopFails(m) PROVE ActorTypes'
  <2>1. Idle \in Jobs
    BY Ranges DEF Jobs, WorkerPcs, Idle, NoOr
  <2>2. job' = [job EXCEPT ![m] = Idle]
    BY <1>32 DEF WorkerStopFails, Done
  <2>3. job' \in [Machines -> Jobs]
    BY <2>1, <2>2
  <2> QED BY <1>32, <2>3, WorkerStopFailsDoes
<1>33. CASE StopFails
  <2>1. Calm \in Teardowns
    BY DEF Teardowns, Calm, NoOr
  <2> QED BY <1>33, <2>1 DEF StopFails
<1> QED
  BY <1>1, <1>2, <1>3, <1>4, <1>5, <1>6, <1>7, <1>8, <1>9, <1>10, <1>11,
     <1>12, <1>13, <1>14, <1>15, <1>16, <1>17, <1>18, <1>19, <1>20, <1>21,
     <1>22, <1>23, <1>24, <1>25, <1>26, <1>27, <1>28, <1>29, <1>30, <1>31, <1>32, <1>33,
     Tracks DEF Step, Callback, Worker, Restarter, Rest

LEMMA TypesStep ==
  ASSUME Types, InHand, Fitted, Watched, [Next]_vars
  PROVE  Types'
BY ConfigStep, ObjectStep, ActorStep, Tracks DEF Types

(* Whoever starts a session has one.                                        *)
LEMMA InHandStep ==
  ASSUME Types, InHand, Watched, [Next]_vars
  PROVE  InHand'
<1> USE DEF InHand, StartPcs, Types, actors, ActorTypes
<1>1. CASE Reconcile
  BY <1>1 DEF Reconcile, Jobs, Idle, Work
<1>2. ASSUME NEW m \in Machines, RestartCommand(m) PROVE InHand'
  BY <1>2 DEF RestartCommand, Jobs, Idle
<1>3. CASE SupervisorDone
  BY <1>3 DEF SupervisorDone
<1>4. ASSUME NEW m \in Machines, WorkerUnlist(m) PROVE InHand'
  BY <1>4 DEF WorkerUnlist, At, Unlist, WorkerFrame, Jobs, Idle
<1>5. ASSUME NEW m \in Machines, WorkerRetire(m) PROVE InHand'
  BY <1>5 DEF WorkerRetire, At, WorkerFrame, Jobs, Idle
<1>6. ASSUME NEW m \in Machines, WorkerForget(m) PROVE InHand'
  BY <1>6 DEF WorkerForget, At, Go, Done, Forget, WorkerFrame, Jobs, Idle
<1>7. ASSUME NEW m \in Machines, WorkerRegister(m) PROVE InHand'
  <2>1. CASE Go(m, "list")
    BY <1>7, <2>1 DEF WorkerRegister, At, Go, Done, WorkerFrame, Jobs, Idle
  <2>2. CASE job' = [job EXCEPT ![m] = [Idle EXCEPT !.pc = "unlist",
                                                     !.fresh = TRUE]]
    BY <1>7, <2>2 DEF WorkerRegister, At, Go, Done, WorkerFrame, Jobs, Idle
  <2>3. CASE Done(m)
    BY <1>7, <2>3 DEF WorkerRegister, At, Go, Done, WorkerFrame, Jobs, Idle
  <2> QED BY <1>7, <2>1, <2>2, <2>3 DEF WorkerRegister
<1>8. ASSUME NEW m \in Machines, WorkerList(m) PROVE InHand'
  <2>1. job[m].pc = "list"
    BY <1>8 DEF WorkerList, At
  <2> QED BY <1>8, <2>1, WorkerListDoes
<1>9. ASSUME NEW m \in Machines, WorkerCheck(m) PROVE InHand'
  BY <1>9 DEF WorkerCheck, At, Go, Done, WorkerFrame, Jobs, Idle
<1>10. ASSUME NEW m \in Machines, WorkerAssign(m) PROVE InHand'
  BY <1>10 DEF WorkerAssign, At, Go, WorkerFrame, Jobs, Idle
<1>11. ASSUME NEW m \in Machines, WorkerEnable(m) PROVE InHand'
  BY <1>11 DEF WorkerEnable, At, Done, WorkerFrame, Jobs, Idle
<1>12. ASSUME NEW m \in Machines, SpawnRestarter(m) PROVE InHand'
  BY <1>12 DEF SpawnRestarter, RestarterFrame, Restarters, Calm, ObjectTypes,
     NoOr
<1>13. ASSUME NEW m \in Machines, RestarterStop(m) PROVE InHand'
  BY <1>13 DEF RestarterStop, RestarterFrame, Restarters, Calm
<1>14. ASSUME NEW m \in Machines, RestarterCheck(m) PROVE InHand'
  BY <1>14 DEF RestarterCheck, RestarterFrame, Restarters, Calm
<1>15. ASSUME NEW m \in Machines, RestarterAssign(m) PROVE InHand'
  BY <1>15 DEF RestarterAssign, RestarterFrame, Restarters, Calm
<1>16. ASSUME NEW m \in Machines, RestarterEnable(m) PROVE InHand'
  BY <1>16 DEF RestarterEnable, RestarterFrame, Restarters, Calm
<1>17. ASSUME NEW p \in storage.todo, Quiesce(p) PROVE InHand'
  BY <1>17 DEF Quiesce, Finished, StorageFrame, Storages
<1>18. ASSUME NEW p \in storage.todo, Recover(p) PROVE InHand'
  BY <1>18 DEF Recover, Finished, StorageFrame, Storages
<1>19. CASE RecoverAssign
  BY <1>19 DEF RecoverAssign, StorageFrame, Storages
<1>20. CASE RecoverEnable
  BY <1>20 DEF RecoverEnable, Finished, StorageFrame, Storages
<1>21. ASSUME NEW l \in Levels, NEW f \in BOOLEAN, NEW i \in BOOLEAN,
            Sample(l, f, i) PROVE InHand'
  BY <1>21, SampleDoes DEF Sample
<1>22. CASE Stop
  BY <1>22 DEF Stop
<1>23. CASE StopSessions
  BY <1>23 DEF StopSessions, Teardowns, Calm
<1>24. ASSUME NEW m \in Machines, StopUnlist(m) PROVE InHand'
  BY <1>24 DEF StopUnlist, Unlist, StopFrame, Teardowns, Calm
<1>25. ASSUME NEW m \in Machines, StopRetire(m) PROVE InHand'
  BY <1>25 DEF StopRetire, StopFrame, Teardowns, Calm
<1>26. ASSUME NEW m \in Machines, StopForget(m) PROVE InHand'
  BY <1>26 DEF StopForget, Forget, StopFrame, Teardowns, Calm
<1>27. CASE StopDone
  BY <1>27 DEF StopDone
<1>28. ASSUME NEW m \in Machines, Connect(m) PROVE InHand'
  BY <1>28 DEF Connect
<1>29. ASSUME NEW m \in Machines, Disconnect(m) PROVE InHand'
  BY <1>29 DEF Disconnect
<1>30. CASE EditFile
  BY <1>30 DEF EditFile
<1>31. CASE UNCHANGED vars
  BY <1>31 DEF vars
<1>32. ASSUME NEW m \in Machines, WorkerStopFails(m) PROVE InHand'
  BY <1>32, WorkerStopFailsDoes DEF Idle
<1>33. CASE StopFails
  BY <1>33 DEF StopFails
<1> QED
  BY <1>1, <1>2, <1>3, <1>4, <1>5, <1>6, <1>7, <1>8, <1>9, <1>10, <1>11,
     <1>12, <1>13, <1>14, <1>15, <1>16, <1>17, <1>18, <1>19, <1>20, <1>21,
     <1>22, <1>23, <1>24, <1>25, <1>26, <1>27, <1>28, <1>29, <1>30, <1>31, <1>32, <1>33,
     Tracks DEF Step, Callback, Worker, Restarter, Rest

(* A host that is being enabled stays, when nobody else touches it.         *)
LEMMA FittedKept ==
  ASSUME InHand, Fitted,
         \A x \in Machines : job'[x].pc # "enable" \/ job'[x] = job[x],
         \A x \in Machines : restarter'[x].pc # "enable" \/ restarter'[x] = restarter[x],
         storage'.step # "enable" \/ storage' = storage,
         \A x \in Machines, s \in Sids : Enabling(x, s) => host'[x][s] = host[x][s]
  PROVE  Fitted'
<1>1. ASSUME NEW m \in Machines, job'[m].pc = "enable" PROVE host'[m][job'[m].s] # 0
  <2>1. Enabling(m, job[m].s) /\ job[m].s \in Sids
    BY <1>1 DEF Enabling, InHand, StartPcs
  <2> QED BY <1>1, <2>1 DEF Fitted
<1>2. ASSUME NEW m \in Machines, restarter'[m].pc = "enable"
      PROVE  host'[m][restarter'[m].s] # 0
  <2>1. Enabling(m, restarter[m].s) /\ restarter[m].s \in Sids
    BY <1>2 DEF Enabling, InHand
  <2> QED BY <1>2, <2>1 DEF Fitted
<1>3. ASSUME storage'.step = "enable"
      PROVE  host'[storage'.at[1]][storage'.at[2]] # 0
  <2>1. PICK m \in Machines, s \in Sids : storage.at = <<m, s>>
    BY <1>3 DEF InHand, Pairs
  <2>2. Enabling(m, s)
    BY <1>3, <2>1 DEF Enabling
  <2> QED BY <1>3, <2>1, <2>2 DEF Fitted
<1> QED BY <1>1, <1>2, <1>3 DEF Fitted

(* The host that is being enabled is there.                                 *)
LEMMA FittedAssign ==
  ASSUME Types, InHand, Fitted, NEW m \in Machines, WorkerAssign(m)
  PROVE  Fitted'
<1>1. ASSUME NEW x \in Machines, NEW t \in Sids, host[x][t] # 0
      PROVE  host'[x][t] # 0
  BY <1>1, WorkerAssignDoes
<1>2. storage'.step = "enable" => host'[storage'.at[1]][storage'.at[2]] # 0
  <2> SUFFICES ASSUME storage.step = "enable"
               PROVE  host'[storage.at[1]][storage.at[2]] # 0
    BY WorkerAssignDoes
  <2>1. storage.at[1] \in Machines /\ storage.at[2] \in Sids
    BY DEF InHand, Pairs
  <2> QED BY <2>1, <1>1 DEF Fitted
<1>3. ASSUME NEW x \in Machines
      PROVE  /\ job'[x].pc = "enable" => host'[x][job'[x].s] # 0
             /\ restarter'[x].pc = "enable" => host'[x][restarter'[x].s] # 0
  <2>1. restarter'[x].pc = "enable" => host'[x][restarter'[x].s] # 0
    BY <1>1, WorkerAssignDoes DEF InHand, Fitted
  <2>2. CASE x = m
    BY <2>1, <2>2, WorkerAssignDoes
  <2>3. CASE x # m
    <3>1. job'[x] = job[x]
      BY <2>3, WorkerAssignDoes
    <3> QED BY <2>1, <3>1, <1>1 DEF InHand, StartPcs, Fitted
  <2> QED BY <2>2, <2>3
<1> QED BY <1>2, <1>3 DEF Fitted

LEMMA FittedStep ==
  ASSUME Types, InHand, Fitted, Locks, Watched, [Next]_vars
  PROVE  Fitted'
<1> USE DEF InHand, Fitted, StartPcs, Types, actors, objects, ActorTypes,
   ObjectTypes, Pairs
<1>1. CASE Reconcile
  BY <1>1 DEF Reconcile, Jobs, Idle, Work
<1>2. ASSUME NEW m \in Machines, RestartCommand(m) PROVE Fitted'
  BY <1>2 DEF RestartCommand, Jobs, Idle
<1>3. CASE SupervisorDone
  BY <1>3 DEF SupervisorDone
<1>4. ASSUME NEW m \in Machines, WorkerUnlist(m) PROVE Fitted'
  BY <1>4 DEF WorkerUnlist, At, Unlist, WorkerFrame, Jobs, Idle
<1>5. ASSUME NEW m \in Machines, WorkerRetire(m) PROVE Fitted'
  BY <1>5 DEF WorkerRetire, At, Retire, WorkerFrame, Jobs, Idle, Enabling
<1>6. ASSUME NEW m \in Machines, WorkerForget(m) PROVE Fitted'
  <2>1. CASE Done(m)
    BY <1>6, <2>1 DEF WorkerForget, At, Go, Done, Forget, WorkerFrame, Jobs,
       Idle
  <2>2. CASE Go(m, "register")
    BY <1>6, <2>2 DEF WorkerForget, At, Go, Done, Forget, WorkerFrame, Jobs,
       Idle
  <2> QED BY <1>6, <2>1, <2>2 DEF WorkerForget
<1>7. ASSUME NEW m \in Machines, WorkerRegister(m) PROVE Fitted'
  <2>1. CASE Go(m, "list")
    BY <1>7, <2>1 DEF WorkerRegister, At, Go, Done, WorkerFrame, Jobs, Idle
  <2>2. CASE job' = [job EXCEPT ![m] = [Idle EXCEPT !.pc = "unlist",
                                                     !.fresh = TRUE]]
    BY <1>7, <2>2 DEF WorkerRegister, At, Go, Done, WorkerFrame, Jobs, Idle
  <2>3. CASE Done(m)
    BY <1>7, <2>3 DEF WorkerRegister, At, Go, Done, WorkerFrame, Jobs, Idle
  <2> QED BY <1>7, <2>1, <2>2, <2>3 DEF WorkerRegister
<1>8. ASSUME NEW m \in Machines, WorkerList(m) PROVE Fitted'
  <2>1. \A x \in Machines : job'[x].pc # "enable" \/ job'[x] = job[x]
    BY <1>8 DEF WorkerList, WorkerFrame, Jobs
  <2>2. \A x \in Machines, s \in Sids : Enabling(x, s) => host'[x][s] = host[x][s]
    BY <1>8, FreeIsFree DEF WorkerList, Enabling, At
  <2>3. UNCHANGED <<restarter, storage>>
    BY <1>8 DEF WorkerList, WorkerFrame, Jobs
  <2> QED BY <2>1, <2>2, <2>3, FittedKept
<1>9. ASSUME NEW m \in Machines, WorkerCheck(m) PROVE Fitted'
  <2>1. CASE accepting /\ Go(m, "assign")
    BY <1>9, <2>1 DEF WorkerCheck, At, Go, Done, WorkerFrame, Jobs, Idle
  <2>2. CASE Done(m)
    BY <1>9, <2>2 DEF WorkerCheck, At, Go, Done, WorkerFrame, Jobs, Idle
  <2> QED BY <1>9, <2>1, <2>2 DEF WorkerCheck
<1>10. ASSUME NEW m \in Machines, WorkerAssign(m) PROVE Fitted'
  BY <1>10, FittedAssign
<1>11. ASSUME NEW m \in Machines, WorkerEnable(m) PROVE Fitted'
  BY <1>11 DEF WorkerEnable, At, Done, Enable, WorkerFrame, Jobs, Idle
<1>12. ASSUME NEW m \in Machines, SpawnRestarter(m) PROVE Fitted'
  BY <1>12 DEF SpawnRestarter, RestarterFrame, Restarters, Calm
<1>13. ASSUME NEW m \in Machines, RestarterStop(m) PROVE Fitted'
  <2>1. \A x \in Machines : restarter'[x].pc # "enable" \/ restarter'[x] = restarter[x]
    BY <1>13 DEF RestarterStop, RestarterFrame, Restarters, Calm
  <2>2. \A x \in Machines, s \in Sids : Enabling(x, s) => host'[x][s] = host[x][s]
    <3>1. CASE Retire(m, restarter[m].s)
      BY <3>1 DEF Retire
    <3>2. CASE UNCHANGED objects
      BY <3>2
    <3> QED BY <1>13, <3>1, <3>2 DEF RestarterStop
  <2>3. UNCHANGED <<job, storage>>
    BY <1>13 DEF RestarterStop, RestarterFrame, Restarters, Calm
  <2> QED BY <2>1, <2>2, <2>3, FittedKept
<1>14. ASSUME NEW m \in Machines, RestarterCheck(m) PROVE Fitted'
  <2>1. \A x \in Machines : restarter'[x].pc # "enable" \/ restarter'[x] = restarter[x]
    BY <1>14 DEF RestarterCheck, RestarterFrame, Restarters, Calm
  <2>2. \A x \in Machines, s \in Sids : Enabling(x, s) => host'[x][s] = host[x][s]
    BY <1>14 DEF RestarterCheck
  <2>3. UNCHANGED <<job, storage>>
    BY <1>14 DEF RestarterCheck, RestarterFrame, Restarters, Calm
  <2> QED BY <2>1, <2>2, <2>3, FittedKept
<1>15. ASSUME NEW m \in Machines, RestarterAssign(m) PROVE Fitted'
  BY <1>15, FreeIsFree, Ranges DEF RestarterAssign, Assign, RestarterFrame,
     Restarters, Calm
<1>16. ASSUME NEW m \in Machines, RestarterEnable(m) PROVE Fitted'
  BY <1>16 DEF RestarterEnable, Enable, RestarterFrame, Restarters, Calm
<1>17. ASSUME NEW p \in storage.todo, Quiesce(p) PROVE Fitted'
  BY <1>17 DEF Quiesce, Retire, Finished, StorageFrame, Storages, Enabling
<1>18. ASSUME NEW p \in storage.todo, Recover(p) PROVE Fitted'
  BY <1>18 DEF Recover, Advance, Finished, StorageFrame, Storages
<1>19. CASE RecoverAssign
  <2>1. storage.at \in Pairs /\ storage'.at = storage.at /\ storage'.step = "enable"
    BY <1>19 DEF RecoverAssign, Storages
  <2>2. PICK h \in Hosts : host' = [host EXCEPT ![storage.at[1]][storage.at[2]] = h]
    BY <1>19, <2>1, FreeIsFree DEF RecoverAssign, Assign
  <2>3. UNCHANGED <<job, restarter>>
    BY <1>19 DEF RecoverAssign, StorageFrame
  <2> QED BY <2>1, <2>2, <2>3, Ranges
<1>20. CASE RecoverEnable
  BY <1>20 DEF RecoverEnable, Enable, Finished, StorageFrame, Storages
<1>21. ASSUME NEW l \in Levels, NEW f \in BOOLEAN, NEW i \in BOOLEAN,
            Sample(l, f, i) PROVE Fitted'
  <2>1. storage'.step # "enable"
    BY <1>21, SampleDoes
  <2>2. UNCHANGED <<job, restarter, host>>
    BY <1>21 DEF Sample
  <2> QED BY <2>1, <2>2
<1>22. CASE Stop
  BY <1>22 DEF Stop
<1>23. CASE StopSessions
  BY <1>23 DEF StopSessions, Teardowns, Calm
<1>24. ASSUME NEW m \in Machines, StopUnlist(m) PROVE Fitted'
  BY <1>24 DEF StopUnlist, Unlist, StopFrame, Teardowns, Calm
<1>25. ASSUME NEW m \in Machines, StopRetire(m) PROVE Fitted'
  BY <1>25 DEF StopRetire, Retire, StopFrame, Teardowns, Calm, Enabling
<1>26. ASSUME NEW m \in Machines, StopForget(m) PROVE Fitted'
  BY <1>26 DEF StopForget, Forget, StopFrame, Teardowns, Calm
<1>27. CASE StopDone
  BY <1>27 DEF StopDone
<1>28. ASSUME NEW m \in Machines, Connect(m) PROVE Fitted'
  BY <1>28 DEF Connect
<1>29. ASSUME NEW m \in Machines, Disconnect(m) PROVE Fitted'
  BY <1>29 DEF Disconnect
<1>30. CASE EditFile
  BY <1>30 DEF EditFile
<1>31. CASE UNCHANGED vars
  BY <1>31 DEF vars
<1>32. ASSUME NEW m \in Machines, WorkerStopFails(m) PROVE Fitted'
  BY <1>32, WorkerStopFailsDoes DEF Idle
<1>33. CASE StopFails
  BY <1>33 DEF StopFails
<1> QED
  BY <1>1, <1>2, <1>3, <1>4, <1>5, <1>6, <1>7, <1>8, <1>9, <1>10, <1>11,
     <1>12, <1>13, <1>14, <1>15, <1>16, <1>17, <1>18, <1>19, <1>20, <1>21,
     <1>22, <1>23, <1>24, <1>25, <1>26, <1>27, <1>28, <1>29, <1>30, <1>31, <1>32, <1>33,
     Tracks DEF Step, Callback, Worker, Restarter, Rest

(* The connections are those of enabled hosts.                              *)
LEMMA LinkedStep ==
  ASSUME Types, Linked, Watched, [Next]_vars
  PROVE  Linked'
<1> USE DEF Linked, Types, objects, ObjectTypes, NoOr
<1>1. CASE Reconcile
  BY <1>1 DEF Reconcile
<1>2. ASSUME NEW m \in Machines, RestartCommand(m) PROVE Linked'
  BY <1>2 DEF RestartCommand
<1>3. CASE SupervisorDone
  BY <1>3 DEF SupervisorDone
<1>4. ASSUME NEW m \in Machines, WorkerUnlist(m) PROVE Linked'
  BY <1>4 DEF WorkerUnlist, At, Unlist, WorkerFrame
<1>5. ASSUME NEW m \in Machines, WorkerRetire(m) PROVE Linked'
  BY <1>5 DEF WorkerRetire, At, Retire, WorkerFrame
<1>6. ASSUME NEW m \in Machines, WorkerForget(m) PROVE Linked'
  BY <1>6 DEF WorkerForget, At, Go, Done, Forget, WorkerFrame
<1>7. ASSUME NEW m \in Machines, WorkerRegister(m) PROVE Linked'
  BY <1>7 DEF WorkerRegister, At, Go, Done, WorkerFrame
<1>8. ASSUME NEW m \in Machines, WorkerList(m) PROVE Linked'
  BY <1>8 DEF WorkerList, At, Advance, WorkerFrame
<1>9. ASSUME NEW m \in Machines, WorkerCheck(m) PROVE Linked'
  BY <1>9 DEF WorkerCheck, At, Go, Done, WorkerFrame
<1>10. ASSUME NEW m \in Machines, WorkerAssign(m) PROVE Linked'
  BY <1>10 DEF WorkerAssign, At, Go, Assign, WorkerFrame
<1>11. ASSUME NEW m \in Machines, WorkerEnable(m) PROVE Linked'
  BY <1>11 DEF WorkerEnable, At, Done, Enable, WorkerFrame
<1>12. ASSUME NEW m \in Machines, SpawnRestarter(m) PROVE Linked'
  BY <1>12 DEF SpawnRestarter, RestarterFrame
<1>13. ASSUME NEW m \in Machines, RestarterStop(m) PROVE Linked'
  BY <1>13 DEF RestarterStop, Retire, RestarterFrame
<1>14. ASSUME NEW m \in Machines, RestarterCheck(m) PROVE Linked'
  BY <1>14 DEF RestarterCheck, Advance, RestarterFrame
<1>15. ASSUME NEW m \in Machines, RestarterAssign(m) PROVE Linked'
  BY <1>15 DEF RestarterAssign, Assign, RestarterFrame
<1>16. ASSUME NEW m \in Machines, RestarterEnable(m) PROVE Linked'
  BY <1>16 DEF RestarterEnable, Enable, RestarterFrame
<1>17. ASSUME NEW p \in storage.todo, Quiesce(p) PROVE Linked'
  BY <1>17 DEF Quiesce, Retire, Finished, StorageFrame
<1>18. ASSUME NEW p \in storage.todo, Recover(p) PROVE Linked'
  BY <1>18 DEF Recover, Advance, Finished, StorageFrame
<1>19. CASE RecoverAssign
  BY <1>19 DEF RecoverAssign, Assign, StorageFrame
<1>20. CASE RecoverEnable
  BY <1>20 DEF RecoverEnable, Enable, Finished, StorageFrame
<1>21. ASSUME NEW l \in Levels, NEW f \in BOOLEAN, NEW i \in BOOLEAN,
            Sample(l, f, i) PROVE Linked'
  BY <1>21 DEF Sample
<1>22. CASE Stop
  BY <1>22 DEF Stop
<1>23. CASE StopSessions
  BY <1>23 DEF StopSessions
<1>24. ASSUME NEW m \in Machines, StopUnlist(m) PROVE Linked'
  BY <1>24 DEF StopUnlist, Unlist, StopFrame
<1>25. ASSUME NEW m \in Machines, StopRetire(m) PROVE Linked'
  BY <1>25 DEF StopRetire, Retire, StopFrame
<1>26. ASSUME NEW m \in Machines, StopForget(m) PROVE Linked'
  BY <1>26 DEF StopForget, Forget, StopFrame
<1>27. CASE StopDone
  BY <1>27 DEF StopDone
<1>28. ASSUME NEW m \in Machines, Connect(m) PROVE Linked'
  BY <1>28 DEF Connect
<1>29. ASSUME NEW m \in Machines, Disconnect(m) PROVE Linked'
  BY <1>29 DEF Disconnect
<1>30. CASE EditFile
  BY <1>30 DEF EditFile
<1>31. CASE UNCHANGED vars
  BY <1>31 DEF vars
<1>32. ASSUME NEW m \in Machines, WorkerStopFails(m) PROVE Linked'
  BY <1>32, WorkerStopFailsDoes
<1>33. CASE StopFails
  BY <1>33 DEF StopFails
<1> QED
  BY <1>1, <1>2, <1>3, <1>4, <1>5, <1>6, <1>7, <1>8, <1>9, <1>10, <1>11,
     <1>12, <1>13, <1>14, <1>15, <1>16, <1>17, <1>18, <1>19, <1>20, <1>21,
     <1>22, <1>23, <1>24, <1>25, <1>26, <1>27, <1>28, <1>29, <1>30, <1>31, <1>32, <1>33,
     Tracks DEF Step, Callback, Worker, Restarter, Rest

(* The lock is held by who is at work.                                      *)
LEMMA LocksStep ==
  ASSUME Types, Locks, Watched, [Next]_vars
  PROVE  Locks'
<1> USE DEF Locks, Types, actors, ActorTypes
<1>1. CASE Reconcile
  BY <1>1, LifecycleAssumption DEF Reconcile, Jobs, Idle
<1>2. ASSUME NEW m \in Machines, RestartCommand(m) PROVE Locks'
  BY <1>2, LifecycleAssumption DEF RestartCommand, Jobs, Idle
<1>3. CASE SupervisorDone
  BY <1>3, LifecycleAssumption DEF SupervisorDone
<1>4. ASSUME NEW m \in Machines, WorkerUnlist(m) PROVE Locks'
  BY <1>4 DEF WorkerUnlist, At, Unlist, WorkerFrame, Jobs, Idle
<1>5. ASSUME NEW m \in Machines, WorkerRetire(m) PROVE Locks'
  BY <1>5 DEF WorkerRetire, At, Retire, WorkerFrame, Jobs, Idle
<1>6. ASSUME NEW m \in Machines, WorkerForget(m) PROVE Locks'
  BY <1>6 DEF WorkerForget, At, Go, Done, Forget, WorkerFrame, Jobs, Idle
<1>7. ASSUME NEW m \in Machines, WorkerRegister(m) PROVE Locks'
  BY <1>7 DEF WorkerRegister, At, Go, Done, WorkerFrame, Jobs, Idle
<1>8. ASSUME NEW m \in Machines, WorkerList(m) PROVE Locks'
  BY <1>8 DEF WorkerList, At, Advance, WorkerFrame, Jobs, Idle
<1>9. ASSUME NEW m \in Machines, WorkerCheck(m) PROVE Locks'
  BY <1>9 DEF WorkerCheck, At, Go, Done, WorkerFrame, Jobs, Idle
<1>10. ASSUME NEW m \in Machines, WorkerAssign(m) PROVE Locks'
  BY <1>10 DEF WorkerAssign, At, Go, Assign, WorkerFrame, Jobs, Idle
<1>11. ASSUME NEW m \in Machines, WorkerEnable(m) PROVE Locks'
  BY <1>11 DEF WorkerEnable, At, Done, Enable, WorkerFrame, Jobs, Idle
<1>12. ASSUME NEW m \in Machines, SpawnRestarter(m) PROVE Locks'
  BY <1>12 DEF SpawnRestarter, RestarterFrame, Restarters, Calm
<1>13. ASSUME NEW m \in Machines, RestarterStop(m) PROVE Locks'
  BY <1>13 DEF RestarterStop, Retire, RestarterFrame, Restarters, Calm
<1>14. ASSUME NEW m \in Machines, RestarterCheck(m) PROVE Locks'
  BY <1>14, LifecycleAssumption DEF RestarterCheck, Advance, RestarterFrame,
     Restarters, Calm
<1>15. ASSUME NEW m \in Machines, RestarterAssign(m) PROVE Locks'
  BY <1>15 DEF RestarterAssign, Assign, RestarterFrame, Restarters, Calm
<1>16. ASSUME NEW m \in Machines, RestarterEnable(m) PROVE Locks'
  BY <1>16, LifecycleAssumption DEF RestarterEnable, Enable, RestarterFrame,
     Restarters, Calm
<1>17. ASSUME NEW p \in storage.todo, Quiesce(p) PROVE Locks'
  BY <1>17 DEF Quiesce, Retire, Finished, StorageFrame, Storages
<1>18. ASSUME NEW p \in storage.todo, Recover(p) PROVE Locks'
  BY <1>18 DEF Recover, Advance, Finished, StorageFrame, Storages
<1>19. CASE RecoverAssign
  BY <1>19 DEF RecoverAssign, Assign, StorageFrame, Storages
<1>20. CASE RecoverEnable
  BY <1>20 DEF RecoverEnable, Enable, Finished, StorageFrame, Storages
<1>21. ASSUME NEW l \in Levels, NEW f \in BOOLEAN, NEW i \in BOOLEAN,
            Sample(l, f, i) PROVE Locks'
  BY <1>21 DEF Sample, Storages
<1>22. CASE Stop
  BY <1>22 DEF Stop
<1>23. CASE StopSessions
  BY <1>23 DEF StopSessions, Teardowns, Calm
<1>24. ASSUME NEW m \in Machines, StopUnlist(m) PROVE Locks'
  BY <1>24 DEF StopUnlist, Unlist, StopFrame, Teardowns, Calm
<1>25. ASSUME NEW m \in Machines, StopRetire(m) PROVE Locks'
  BY <1>25 DEF StopRetire, Retire, StopFrame, Teardowns, Calm
<1>26. ASSUME NEW m \in Machines, StopForget(m) PROVE Locks'
  BY <1>26 DEF StopForget, Forget, StopFrame, Teardowns, Calm
<1>27. CASE StopDone
  BY <1>27 DEF StopDone
<1>28. ASSUME NEW m \in Machines, Connect(m) PROVE Locks'
  BY <1>28 DEF Connect
<1>29. ASSUME NEW m \in Machines, Disconnect(m) PROVE Locks'
  BY <1>29 DEF Disconnect
<1>30. CASE EditFile
  BY <1>30 DEF EditFile
<1>31. CASE UNCHANGED vars
  BY <1>31 DEF vars
<1>32. ASSUME NEW m \in Machines, WorkerStopFails(m) PROVE Locks'
  <2>1. Busy
    BY <1>32, WorkerStopFailsDoes
  <2>2. Busy'
    BY <1>32, <2>1, WorkerStopFailsDoes
  <2> QED BY <1>32, <2>1, <2>2, WorkerStopFailsDoes
<1>33. CASE StopFails
  BY <1>33 DEF StopFails
<1> QED
  BY <1>1, <1>2, <1>3, <1>4, <1>5, <1>6, <1>7, <1>8, <1>9, <1>10, <1>11,
     <1>12, <1>13, <1>14, <1>15, <1>16, <1>17, <1>18, <1>19, <1>20, <1>21,
     <1>22, <1>23, <1>24, <1>25, <1>26, <1>27, <1>28, <1>29, <1>30, <1>31, <1>32, <1>33,
     Tracks DEF Step, Callback, Worker, Restarter, Rest

(* What stop() waits for.                                                   *)
LEMMA StopsStep ==
  ASSUME Types, Locks, Stops, Watched, [Next]_vars
  PROVE  Stops'
<1> USE DEF Stops, Locks, Starting, Types, actors, ActorTypes
<1>1. CASE Reconcile
  BY <1>1 DEF Reconcile, Jobs, Idle
<1>2. ASSUME NEW m \in Machines, RestartCommand(m) PROVE Stops'
  BY <1>2 DEF RestartCommand, Jobs, Idle
<1>3. CASE SupervisorDone
  BY <1>3 DEF SupervisorDone
<1>4. ASSUME NEW m \in Machines, WorkerUnlist(m) PROVE Stops'
  BY <1>4 DEF WorkerUnlist, At, Unlist, WorkerFrame, Jobs, Idle
<1>5. ASSUME NEW m \in Machines, WorkerRetire(m) PROVE Stops'
  BY <1>5 DEF WorkerRetire, At, Retire, WorkerFrame, Jobs, Idle
<1>6. ASSUME NEW m \in Machines, WorkerForget(m) PROVE Stops'
  BY <1>6 DEF WorkerForget, At, Go, Done, Forget, WorkerFrame, Jobs, Idle
<1>7. ASSUME NEW m \in Machines, WorkerRegister(m) PROVE Stops'
  BY <1>7 DEF WorkerRegister, At, Go, Done, WorkerFrame, Jobs, Idle
<1>8. ASSUME NEW m \in Machines, WorkerList(m) PROVE Stops'
  BY <1>8 DEF WorkerList, At, Advance, WorkerFrame, Jobs, Idle
<1>9. ASSUME NEW m \in Machines, WorkerCheck(m) PROVE Stops'
  BY <1>9 DEF WorkerCheck, At, Go, Done, WorkerFrame, Jobs, Idle
<1>10. ASSUME NEW m \in Machines, WorkerAssign(m) PROVE Stops'
  BY <1>10 DEF WorkerAssign, At, Go, Assign, WorkerFrame, Jobs, Idle
<1>11. ASSUME NEW m \in Machines, WorkerEnable(m) PROVE Stops'
  BY <1>11 DEF WorkerEnable, At, Done, Enable, WorkerFrame, Jobs, Idle
<1>12. ASSUME NEW m \in Machines, SpawnRestarter(m) PROVE Stops'
  BY <1>12 DEF SpawnRestarter, RestarterFrame, Restarters, Calm
<1>13. ASSUME NEW m \in Machines, RestarterStop(m) PROVE Stops'
  BY <1>13 DEF RestarterStop, Retire, RestarterFrame, Restarters, Calm
<1>14. ASSUME NEW m \in Machines, RestarterCheck(m) PROVE Stops'
  BY <1>14 DEF RestarterCheck, Advance, RestarterFrame, Restarters, Calm
<1>15. ASSUME NEW m \in Machines, RestarterAssign(m) PROVE Stops'
  BY <1>15 DEF RestarterAssign, Assign, RestarterFrame, Restarters, Calm
<1>16. ASSUME NEW m \in Machines, RestarterEnable(m) PROVE Stops'
  BY <1>16 DEF RestarterEnable, Enable, RestarterFrame, Restarters, Calm
<1>17. ASSUME NEW p \in storage.todo, Quiesce(p) PROVE Stops'
  BY <1>17 DEF Quiesce, Retire, Finished, StorageFrame, Storages
<1>18. ASSUME NEW p \in storage.todo, Recover(p) PROVE Stops'
  BY <1>18 DEF Recover, Advance, Finished, StorageFrame, Storages
<1>19. CASE RecoverAssign
  BY <1>19 DEF RecoverAssign, Assign, StorageFrame, Storages
<1>20. CASE RecoverEnable
  BY <1>20 DEF RecoverEnable, Enable, Finished, StorageFrame, Storages
<1>21. ASSUME NEW l \in Levels, NEW f \in BOOLEAN, NEW i \in BOOLEAN,
            Sample(l, f, i) PROVE Stops'
  BY <1>21 DEF Sample, Storages
<1>22. CASE Stop
  BY <1>22 DEF Stop
<1>23. CASE StopSessions
  BY <1>23 DEF StopSessions, Teardowns, Calm
<1>24. ASSUME NEW m \in Machines, StopUnlist(m) PROVE Stops'
  BY <1>24 DEF StopUnlist, Unlist, StopFrame, Teardowns, Calm
<1>25. ASSUME NEW m \in Machines, StopRetire(m) PROVE Stops'
  BY <1>25 DEF StopRetire, Retire, StopFrame, Teardowns, Calm
<1>26. ASSUME NEW m \in Machines, StopForget(m) PROVE Stops'
  BY <1>26 DEF StopForget, Forget, StopFrame, Teardowns, Calm
<1>27. CASE StopDone
  BY <1>27 DEF StopDone
<1>28. ASSUME NEW m \in Machines, Connect(m) PROVE Stops'
  BY <1>28 DEF Connect
<1>29. ASSUME NEW m \in Machines, Disconnect(m) PROVE Stops'
  BY <1>29 DEF Disconnect
<1>30. CASE EditFile
  BY <1>30 DEF EditFile
<1>31. CASE UNCHANGED vars
  BY <1>31 DEF vars
<1>32. ASSUME NEW m \in Machines, WorkerStopFails(m) PROVE Stops'
  <2>1. Busy /\ Busy'
    BY <1>32, WorkerStopFailsDoes
  <2> QED BY <1>32, <2>1, WorkerStopFailsDoes
<1>33. CASE StopFails
  BY <1>33, StopFailsDoes DEF Calm
<1> QED
  BY <1>1, <1>2, <1>3, <1>4, <1>5, <1>6, <1>7, <1>8, <1>9, <1>10, <1>11,
     <1>12, <1>13, <1>14, <1>15, <1>16, <1>17, <1>18, <1>19, <1>20, <1>21,
     <1>22, <1>23, <1>24, <1>25, <1>26, <1>27, <1>28, <1>29, <1>30, <1>31, <1>32, <1>33,
     Tracks DEF Step, Callback, Worker, Restarter, Rest

(* A worker goes towards the configuration it was given.                    *)
LEMMA FollowsStep ==
  ASSUME Types, Locks, Follows, Watched, [Next]_vars
  PROVE  Follows'
<1> USE DEF Follows, Aim, Types, ActorTypes, ConfigTypes, config, actors
<1>1. CASE Reconcile
  BY <1>1 DEF Reconcile, Jobs, Idle, Work, Locks
<1>2. ASSUME NEW m \in Machines, RestartCommand(m) PROVE Follows'
  BY <1>2 DEF RestartCommand, Jobs, Idle, Locks
<1>3. CASE SupervisorDone
  BY <1>3 DEF SupervisorDone
<1>4. ASSUME NEW m \in Machines, WorkerUnlist(m) PROVE Follows'
  BY <1>4 DEF WorkerUnlist, At, Unlist, WorkerFrame, Jobs, Idle
<1>5. ASSUME NEW m \in Machines, WorkerRetire(m) PROVE Follows'
  BY <1>5 DEF WorkerRetire, At, Retire, WorkerFrame, Jobs, Idle
<1>6. ASSUME NEW m \in Machines, WorkerForget(m) PROVE Follows'
  <2>1. CASE Done(m)
    BY <1>6, <2>1 DEF WorkerForget, At, Go, Done, Forget, WorkerFrame, Jobs,
       Idle
  <2>2. CASE Go(m, "register")
    BY <1>6, <2>2 DEF WorkerForget, At, Go, Done, Forget, WorkerFrame, Jobs,
       Idle
  <2> QED BY <1>6, <2>1, <2>2 DEF WorkerForget
<1>7. ASSUME NEW m \in Machines, WorkerRegister(m) PROVE Follows'
  <2>1. CASE Go(m, "list")
    BY <1>7, <2>1 DEF WorkerRegister, At, Go, Done, WorkerFrame, Jobs, Idle
  <2>2. CASE /\ job[m].fresh
             /\ job' = [job EXCEPT ![m] = [Idle EXCEPT !.pc = "unlist",
                                                       !.fresh = TRUE]]
    BY <1>7, <2>2 DEF WorkerRegister, At, Go, Done, WorkerFrame, Jobs, Idle
  <2>3. CASE Done(m)
    BY <1>7, <2>3 DEF WorkerRegister, At, Go, Done, WorkerFrame, Jobs, Idle
  <2> QED BY <1>7, <2>1, <2>2, <2>3 DEF WorkerRegister
<1>8. ASSUME NEW m \in Machines, WorkerList(m) PROVE Follows'
  BY <1>8 DEF WorkerList, At, Advance, WorkerFrame, Jobs, Idle
<1>9. ASSUME NEW m \in Machines, WorkerCheck(m) PROVE Follows'
  <2>1. CASE accepting /\ Go(m, "assign")
    BY <1>9, <2>1 DEF WorkerCheck, At, Go, Done, WorkerFrame, Jobs, Idle
  <2>2. CASE Done(m)
    BY <1>9, <2>2 DEF WorkerCheck, At, Go, Done, WorkerFrame, Jobs, Idle
  <2> QED BY <1>9, <2>1, <2>2 DEF WorkerCheck
<1>10. ASSUME NEW m \in Machines, WorkerAssign(m) PROVE Follows'
  BY <1>10 DEF WorkerAssign, At, Go, Assign, WorkerFrame, Jobs, Idle
<1>11. ASSUME NEW m \in Machines, WorkerEnable(m) PROVE Follows'
  BY <1>11 DEF WorkerEnable, At, Done, Enable, WorkerFrame, Jobs, Idle
<1>12. ASSUME NEW m \in Machines, SpawnRestarter(m) PROVE Follows'
  BY <1>12 DEF SpawnRestarter, RestarterFrame, Restarters, Calm
<1>13. ASSUME NEW m \in Machines, RestarterStop(m) PROVE Follows'
  BY <1>13 DEF RestarterStop, Retire, RestarterFrame, Restarters, Calm
<1>14. ASSUME NEW m \in Machines, RestarterCheck(m) PROVE Follows'
  BY <1>14 DEF RestarterCheck, Advance, RestarterFrame, Restarters, Calm
<1>15. ASSUME NEW m \in Machines, RestarterAssign(m) PROVE Follows'
  BY <1>15 DEF RestarterAssign, Assign, RestarterFrame, Restarters, Calm
<1>16. ASSUME NEW m \in Machines, RestarterEnable(m) PROVE Follows'
  BY <1>16 DEF RestarterEnable, Enable, RestarterFrame, Restarters, Calm
<1>17. ASSUME NEW p \in storage.todo, Quiesce(p) PROVE Follows'
  BY <1>17 DEF Quiesce, Retire, Finished, StorageFrame, Storages
<1>18. ASSUME NEW p \in storage.todo, Recover(p) PROVE Follows'
  BY <1>18 DEF Recover, Advance, Finished, StorageFrame, Storages
<1>19. CASE RecoverAssign
  BY <1>19 DEF RecoverAssign, Assign, StorageFrame, Storages
<1>20. CASE RecoverEnable
  BY <1>20 DEF RecoverEnable, Enable, Finished, StorageFrame, Storages
<1>21. ASSUME NEW l \in Levels, NEW f \in BOOLEAN, NEW i \in BOOLEAN,
            Sample(l, f, i) PROVE Follows'
  BY <1>21 DEF Sample, Storages
<1>22. CASE Stop
  BY <1>22 DEF Stop
<1>23. CASE StopSessions
  BY <1>23 DEF StopSessions, Teardowns, Calm
<1>24. ASSUME NEW m \in Machines, StopUnlist(m) PROVE Follows'
  BY <1>24 DEF StopUnlist, Unlist, StopFrame, Teardowns, Calm
<1>25. ASSUME NEW m \in Machines, StopRetire(m) PROVE Follows'
  BY <1>25 DEF StopRetire, Retire, StopFrame, Teardowns, Calm
<1>26. ASSUME NEW m \in Machines, StopForget(m) PROVE Follows'
  BY <1>26 DEF StopForget, Forget, StopFrame, Teardowns, Calm
<1>27. CASE StopDone
  BY <1>27 DEF StopDone
<1>28. ASSUME NEW m \in Machines, Connect(m) PROVE Follows'
  BY <1>28 DEF Connect
<1>29. ASSUME NEW m \in Machines, Disconnect(m) PROVE Follows'
  BY <1>29 DEF Disconnect
<1>30. CASE EditFile
  BY <1>30 DEF EditFile
<1>31. CASE UNCHANGED vars
  BY <1>31 DEF vars
<1>32. ASSUME NEW m \in Machines, WorkerStopFails(m) PROVE Follows'
  <2>1. /\ job[m].pc = "forget" /\ job'[m].pc = "idle" /\ ~job'[m].fresh
        /\ \A x \in Machines : x # m => job'[x] = job[x]
        /\ unsettled \subseteq unsettled' /\ (sup # "restart" => m \in unsettled')
        /\ UNCHANGED <<machines, applied, goal>>
    BY <1>32, WorkerStopFailsDoes DEF Idle
  <2>2. Busy /\ (sup' # sup => sup # "restart" /\ sup' = "broken")
    BY <1>32, <2>1, WorkerStopFailsDoes DEF Locks
  <2>3. \A x \in Machines : Aim(x)' = Aim(x)
    BY <2>1, <2>2
  <2>4. machines[m] \in {Off, job[m].next} \/ m \in unsettled'
    BY <2>1
  <2> QED BY <2>1, <2>2, <2>3, <2>4
<1>33. CASE StopFails
  BY <1>33 DEF StopFails
<1> QED
  BY <1>1, <1>2, <1>3, <1>4, <1>5, <1>6, <1>7, <1>8, <1>9, <1>10, <1>11,
     <1>12, <1>13, <1>14, <1>15, <1>16, <1>17, <1>18, <1>19, <1>20, <1>21,
     <1>22, <1>23, <1>24, <1>25, <1>26, <1>27, <1>28, <1>29, <1>30, <1>31, <1>32, <1>33,
     Tracks DEF Step, Callback, Worker, Restarter, Rest

(* A machine being stopped or registered has no session.                    *)
LEMMA UnlistedStep ==
  ASSUME Types, Locks, Stops, Unlisted, Listing, Watched, [Next]_vars
  PROVE  Unlisted'
<1> USE DEF Unlisted, Types, ActorTypes, ObjectTypes, objects, actors
<1>1. CASE Reconcile
  BY <1>1 DEF Reconcile, Jobs, Idle, Work, Locks, Listing, Stops
<1>2. ASSUME NEW m \in Machines, RestartCommand(m) PROVE Unlisted'
  BY <1>2 DEF RestartCommand, Jobs, Idle
<1>3. CASE SupervisorDone
  BY <1>3 DEF SupervisorDone
<1>4. ASSUME NEW m \in Machines, WorkerUnlist(m) PROVE Unlisted'
  BY <1>4 DEF WorkerUnlist, At, Unlist, WorkerFrame, Jobs, Idle
<1>5. ASSUME NEW m \in Machines, WorkerRetire(m) PROVE Unlisted'
  BY <1>5 DEF WorkerRetire, At, Retire, WorkerFrame, Jobs, Idle
<1>6. ASSUME NEW m \in Machines, WorkerForget(m) PROVE Unlisted'
  <2>1. CASE Done(m)
    BY <1>6, <2>1 DEF WorkerForget, At, Go, Done, Forget, WorkerFrame, Jobs,
       Idle
  <2>2. CASE Go(m, "register")
    BY <1>6, <2>2 DEF WorkerForget, At, Go, Done, Forget, WorkerFrame, Jobs,
       Idle
  <2> QED BY <1>6, <2>1, <2>2 DEF WorkerForget
<1>7. ASSUME NEW m \in Machines, WorkerRegister(m) PROVE Unlisted'
  <2>1. CASE Go(m, "list")
    BY <1>7, <2>1 DEF WorkerRegister, At, Go, Done, WorkerFrame, Jobs, Idle
  <2>2. CASE job' = [job EXCEPT ![m] = [Idle EXCEPT !.pc = "unlist",
                                                     !.fresh = TRUE]]
    BY <1>7, <2>2 DEF WorkerRegister, At, Go, Done, WorkerFrame, Jobs, Idle
  <2>3. CASE Done(m)
    BY <1>7, <2>3 DEF WorkerRegister, At, Go, Done, WorkerFrame, Jobs, Idle
  <2> QED BY <1>7, <2>1, <2>2, <2>3 DEF WorkerRegister
<1>8. ASSUME NEW m \in Machines, WorkerList(m) PROVE Unlisted'
  BY <1>8 DEF WorkerList, At, Advance, WorkerFrame, Jobs, Idle
<1>9. ASSUME NEW m \in Machines, WorkerCheck(m) PROVE Unlisted'
  <2>1. CASE accepting /\ Go(m, "assign")
    BY <1>9, <2>1 DEF WorkerCheck, At, Go, Done, WorkerFrame, Jobs, Idle
  <2>2. CASE Done(m)
    BY <1>9, <2>2 DEF WorkerCheck, At, Go, Done, WorkerFrame, Jobs, Idle
  <2> QED BY <1>9, <2>1, <2>2 DEF WorkerCheck
<1>10. ASSUME NEW m \in Machines, WorkerAssign(m) PROVE Unlisted'
  BY <1>10 DEF WorkerAssign, At, Go, Assign, WorkerFrame, Jobs, Idle
<1>11. ASSUME NEW m \in Machines, WorkerEnable(m) PROVE Unlisted'
  BY <1>11 DEF WorkerEnable, At, Done, Enable, WorkerFrame, Jobs, Idle
<1>12. ASSUME NEW m \in Machines, SpawnRestarter(m) PROVE Unlisted'
  BY <1>12 DEF SpawnRestarter, RestarterFrame, Restarters, Calm
<1>13. ASSUME NEW m \in Machines, RestarterStop(m) PROVE Unlisted'
  BY <1>13 DEF RestarterStop, Retire, RestarterFrame, Restarters, Calm
<1>14. ASSUME NEW m \in Machines, RestarterCheck(m) PROVE Unlisted'
  BY <1>14 DEF RestarterCheck, Advance, RestarterFrame, Restarters, Calm
<1>15. ASSUME NEW m \in Machines, RestarterAssign(m) PROVE Unlisted'
  BY <1>15 DEF RestarterAssign, Assign, RestarterFrame, Restarters, Calm
<1>16. ASSUME NEW m \in Machines, RestarterEnable(m) PROVE Unlisted'
  BY <1>16 DEF RestarterEnable, Enable, RestarterFrame, Restarters, Calm
<1>17. ASSUME NEW p \in storage.todo, Quiesce(p) PROVE Unlisted'
  BY <1>17 DEF Quiesce, Retire, Finished, StorageFrame, Storages
<1>18. ASSUME NEW p \in storage.todo, Recover(p) PROVE Unlisted'
  BY <1>18 DEF Recover, Advance, Finished, StorageFrame, Storages
<1>19. CASE RecoverAssign
  BY <1>19 DEF RecoverAssign, Assign, StorageFrame, Storages
<1>20. CASE RecoverEnable
  BY <1>20 DEF RecoverEnable, Enable, Finished, StorageFrame, Storages
<1>21. ASSUME NEW l \in Levels, NEW f \in BOOLEAN, NEW i \in BOOLEAN,
            Sample(l, f, i) PROVE Unlisted'
  BY <1>21 DEF Sample, Storages
<1>22. CASE Stop
  BY <1>22 DEF Stop
<1>23. CASE StopSessions
  BY <1>23 DEF StopSessions, Teardowns, Calm
<1>24. ASSUME NEW m \in Machines, StopUnlist(m) PROVE Unlisted'
  BY <1>24 DEF StopUnlist, Unlist, StopFrame, Teardowns, Calm
<1>25. ASSUME NEW m \in Machines, StopRetire(m) PROVE Unlisted'
  BY <1>25 DEF StopRetire, Retire, StopFrame, Teardowns, Calm
<1>26. ASSUME NEW m \in Machines, StopForget(m) PROVE Unlisted'
  BY <1>26 DEF StopForget, Forget, StopFrame, Teardowns, Calm
<1>27. CASE StopDone
  BY <1>27 DEF StopDone
<1>28. ASSUME NEW m \in Machines, Connect(m) PROVE Unlisted'
  BY <1>28 DEF Connect
<1>29. ASSUME NEW m \in Machines, Disconnect(m) PROVE Unlisted'
  BY <1>29 DEF Disconnect
<1>30. CASE EditFile
  BY <1>30 DEF EditFile
<1>31. CASE UNCHANGED vars
  BY <1>31 DEF vars
<1>32. ASSUME NEW m \in Machines, WorkerStopFails(m) PROVE Unlisted'
  BY <1>32, WorkerStopFailsDoes DEF Idle
<1>33. CASE StopFails
  BY <1>33, StopFailsDoes
<1> QED
  BY <1>1, <1>2, <1>3, <1>4, <1>5, <1>6, <1>7, <1>8, <1>9, <1>10, <1>11,
     <1>12, <1>13, <1>14, <1>15, <1>16, <1>17, <1>18, <1>19, <1>20, <1>21,
     <1>22, <1>23, <1>24, <1>25, <1>26, <1>27, <1>28, <1>29, <1>30, <1>31, <1>32, <1>33,
     Tracks DEF Step, Callback, Worker, Restarter, Rest

(* A new session is not one that the watchdog found disconnected.           *)
LEMMA FreshStep ==
  ASSUME Types, Locks, Fresh, Watched, [Next]_vars
  PROVE  Fresh'
<1> USE DEF Fresh, StartPcs, Types, ActorTypes, ObjectTypes, objects, actors
<1>1. CASE Reconcile
  BY <1>1 DEF Reconcile, Jobs, Idle, Work
<1>2. ASSUME NEW m \in Machines, RestartCommand(m) PROVE Fresh'
  BY <1>2 DEF RestartCommand, Jobs, Idle
<1>3. CASE SupervisorDone
  BY <1>3 DEF SupervisorDone
<1>4. ASSUME NEW m \in Machines, WorkerUnlist(m) PROVE Fresh'
  BY <1>4 DEF WorkerUnlist, At, Unlist, WorkerFrame, Jobs, Idle
<1>5. ASSUME NEW m \in Machines, WorkerRetire(m) PROVE Fresh'
  BY <1>5 DEF WorkerRetire, At, Retire, WorkerFrame, Jobs, Idle
<1>6. ASSUME NEW m \in Machines, WorkerForget(m) PROVE Fresh'
  <2>1. CASE Done(m)
    BY <1>6, <2>1 DEF WorkerForget, At, Go, Done, Forget, WorkerFrame, Jobs,
       Idle
  <2>2. CASE Go(m, "register")
    BY <1>6, <2>2 DEF WorkerForget, At, Go, Done, Forget, WorkerFrame, Jobs,
       Idle
  <2> QED BY <1>6, <2>1, <2>2 DEF WorkerForget
<1>7. ASSUME NEW m \in Machines, WorkerRegister(m) PROVE Fresh'
  <2>1. CASE Go(m, "list")
    BY <1>7, <2>1 DEF WorkerRegister, At, Go, Done, WorkerFrame, Jobs, Idle
  <2>2. CASE job' = [job EXCEPT ![m] = [Idle EXCEPT !.pc = "unlist",
                                                     !.fresh = TRUE]]
    BY <1>7, <2>2 DEF WorkerRegister, At, Go, Done, WorkerFrame, Jobs, Idle
  <2>3. CASE Done(m)
    BY <1>7, <2>3 DEF WorkerRegister, At, Go, Done, WorkerFrame, Jobs, Idle
  <2> QED BY <1>7, <2>1, <2>2, <2>3 DEF WorkerRegister
<1>8. ASSUME NEW m \in Machines, WorkerList(m) PROVE Fresh'
  BY <1>8, WorkerListDoes
<1>9. ASSUME NEW m \in Machines, WorkerCheck(m) PROVE Fresh'
  <2>1. CASE accepting /\ Go(m, "assign")
    BY <1>9, <2>1 DEF WorkerCheck, At, Go, Done, WorkerFrame, Jobs, Idle
  <2>2. CASE Done(m)
    BY <1>9, <2>2 DEF WorkerCheck, At, Go, Done, WorkerFrame, Jobs, Idle
  <2> QED BY <1>9, <2>1, <2>2 DEF WorkerCheck
<1>10. ASSUME NEW m \in Machines, WorkerAssign(m) PROVE Fresh'
  BY <1>10 DEF WorkerAssign, At, Go, Assign, WorkerFrame, Jobs, Idle
<1>11. ASSUME NEW m \in Machines, WorkerEnable(m) PROVE Fresh'
  BY <1>11 DEF WorkerEnable, At, Done, Enable, WorkerFrame, Jobs, Idle
<1>12. ASSUME NEW m \in Machines, SpawnRestarter(m) PROVE Fresh'
  BY <1>12 DEF SpawnRestarter, RestarterFrame, Restarters, Calm
<1>13. ASSUME NEW m \in Machines, RestarterStop(m) PROVE Fresh'
  <2>1. UNCHANGED job
    BY <1>13 DEF RestarterStop, RestarterFrame
  <2> QED BY <1>13, <2>1, RestarterDoes
<1>14. ASSUME NEW m \in Machines, RestarterCheck(m) PROVE Fresh'
  <2>1. UNCHANGED job
    BY <1>14 DEF RestarterCheck, RestarterFrame
  <2> QED BY <1>14, <2>1, RestarterDoes
<1>15. ASSUME NEW m \in Machines, RestarterAssign(m) PROVE Fresh'
  BY <1>15 DEF RestarterAssign, Assign, RestarterFrame, Restarters, Calm
<1>16. ASSUME NEW m \in Machines, RestarterEnable(m) PROVE Fresh'
  BY <1>16 DEF RestarterEnable, Enable, RestarterFrame, Restarters, Calm
<1>17. ASSUME NEW p \in storage.todo, Quiesce(p) PROVE Fresh'
  BY <1>17 DEF Quiesce, Retire, Finished, StorageFrame, Storages
<1>18. ASSUME NEW p \in storage.todo, Recover(p) PROVE Fresh'
  BY <1>18 DEF Recover, Advance, Finished, StorageFrame, Storages
<1>19. CASE RecoverAssign
  BY <1>19 DEF RecoverAssign, Assign, StorageFrame, Storages
<1>20. CASE RecoverEnable
  BY <1>20 DEF RecoverEnable, Enable, Finished, StorageFrame, Storages
<1>21. ASSUME NEW l \in Levels, NEW f \in BOOLEAN, NEW i \in BOOLEAN,
            Sample(l, f, i) PROVE Fresh'
  BY <1>21 DEF Sample, Storages
<1>22. CASE Stop
  BY <1>22 DEF Stop
<1>23. CASE StopSessions
  BY <1>23 DEF StopSessions, Teardowns, Calm
<1>24. ASSUME NEW m \in Machines, StopUnlist(m) PROVE Fresh'
  BY <1>24 DEF StopUnlist, Unlist, StopFrame, Teardowns, Calm
<1>25. ASSUME NEW m \in Machines, StopRetire(m) PROVE Fresh'
  BY <1>25 DEF StopRetire, Retire, StopFrame, Teardowns, Calm
<1>26. ASSUME NEW m \in Machines, StopForget(m) PROVE Fresh'
  BY <1>26 DEF StopForget, Forget, StopFrame, Teardowns, Calm
<1>27. CASE StopDone
  BY <1>27 DEF StopDone
<1>28. ASSUME NEW m \in Machines, Connect(m) PROVE Fresh'
  BY <1>28 DEF Connect
<1>29. ASSUME NEW m \in Machines, Disconnect(m) PROVE Fresh'
  BY <1>29 DEF Disconnect
<1>30. CASE EditFile
  BY <1>30 DEF EditFile
<1>31. CASE UNCHANGED vars
  BY <1>31 DEF vars
<1>32. ASSUME NEW m \in Machines, WorkerStopFails(m) PROVE Fresh'
  BY <1>32, WorkerStopFailsDoes DEF Idle
<1>33. CASE StopFails
  BY <1>33 DEF StopFails
<1> QED
  BY <1>1, <1>2, <1>3, <1>4, <1>5, <1>6, <1>7, <1>8, <1>9, <1>10, <1>11,
     <1>12, <1>13, <1>14, <1>15, <1>16, <1>17, <1>18, <1>19, <1>20, <1>21,
     <1>22, <1>23, <1>24, <1>25, <1>26, <1>27, <1>28, <1>29, <1>30, <1>31, <1>32, <1>33,
     Tracks DEF Step, Callback, Worker, Restarter, Rest

(* Who has a machine in hand, until stop() goes by a starting thread.       *)
LEMMA ListingStep ==
  ASSUME Types, Locks, Stops, Follows, Unlisted, Listing, Watched, [Next]_vars
  PROVE  Listing'
<1> USE DEF Listing, objects, actors, config
<1>1. CASE Reconcile
  BY <1>1 DEF Reconcile, Jobs, Idle, Work, StartPcs, Types, ActorTypes
<1>2. ASSUME NEW m \in Machines, RestartCommand(m) PROVE Listing'
  BY <1>2 DEF RestartCommand, Jobs, Idle, StartPcs, Types, ActorTypes
<1>3. CASE SupervisorDone
  BY <1>3 DEF SupervisorDone
<1>4. ASSUME NEW m \in Machines, WorkerUnlist(m) PROVE Listing'
  BY <1>4, Excludes DEF WorkerUnlist, At, Unlist, WorkerFrame, Jobs, Idle,
     Types, ActorTypes, ObjectTypes, ConfigTypes, StartPcs
<1>5. ASSUME NEW m \in Machines, WorkerRetire(m) PROVE Listing'
  BY <1>5 DEF WorkerRetire, At, Retire, WorkerFrame, Jobs, Idle, Types,
     ActorTypes, StartPcs
<1>6. ASSUME NEW m \in Machines, WorkerForget(m) PROVE Listing'
  <2>1. CASE Done(m)
    BY <1>6, <2>1 DEF WorkerForget, At, Go, Done, Forget, WorkerFrame, Jobs,
       Idle, Follows, Unlisted, StartPcs, ConfigTypes, Types, ActorTypes
  <2>2. CASE Go(m, "register")
    BY <1>6, <2>2 DEF WorkerForget, At, Go, Done, Forget, WorkerFrame, Jobs,
       Idle, Follows, Unlisted, StartPcs, ConfigTypes, Types, ActorTypes
  <2> QED BY <1>6, <2>1, <2>2 DEF WorkerForget
<1>7. ASSUME NEW m \in Machines, WorkerRegister(m) PROVE Listing'
  <2>1. CASE Go(m, "list")
    BY <1>7, <2>1 DEF WorkerRegister, At, Go, Done, WorkerFrame, Jobs, Idle,
       Follows, Unlisted, StartPcs, ConfigTypes, Types, ActorTypes
  <2>2. CASE job' = [job EXCEPT ![m] = [Idle EXCEPT !.pc = "unlist",
                                                     !.fresh = TRUE]]
    BY <1>7, <2>2 DEF WorkerRegister, At, Go, Done, WorkerFrame, Jobs, Idle,
       Follows, Unlisted, StartPcs, ConfigTypes, Types, ActorTypes
  <2>3. CASE Done(m)
    BY <1>7, <2>3 DEF WorkerRegister, At, Go, Done, WorkerFrame, Jobs, Idle,
       Follows, Unlisted, StartPcs, ConfigTypes, Types, ActorTypes
  <2> QED BY <1>7, <2>1, <2>2, <2>3 DEF WorkerRegister
<1>8. ASSUME NEW m \in Machines, WorkerList(m) PROVE Listing'
  BY <1>8, Excludes DEF WorkerList, At, Advance, WorkerFrame, Jobs, Idle,
     Types, ActorTypes, ObjectTypes, ConfigTypes, StartPcs, Follows
<1>9. ASSUME NEW m \in Machines, WorkerCheck(m) PROVE Listing'
  <2>1. CASE accepting /\ Go(m, "assign")
    BY <1>9, <2>1 DEF WorkerCheck, At, Go, Done, WorkerFrame, Jobs, Idle,
       Follows, Unlisted, StartPcs, ConfigTypes, Types, ActorTypes
  <2>2. CASE Done(m)
    BY <1>9, <2>2 DEF WorkerCheck, At, Go, Done, WorkerFrame, Jobs, Idle,
       Follows, Unlisted, StartPcs, ConfigTypes, Types, ActorTypes
  <2> QED BY <1>9, <2>1, <2>2 DEF WorkerCheck
<1>10. ASSUME NEW m \in Machines, WorkerAssign(m) PROVE Listing'
  BY <1>10 DEF WorkerAssign, At, Go, Assign, WorkerFrame, Jobs, Idle, Types,
     ActorTypes, StartPcs
<1>11. ASSUME NEW m \in Machines, WorkerEnable(m) PROVE Listing'
  BY <1>11 DEF WorkerEnable, At, Done, Enable, WorkerFrame, Jobs, Idle, Types,
     ActorTypes, StartPcs
<1>12. ASSUME NEW m \in Machines, SpawnRestarter(m) PROVE Listing'
  BY <1>12 DEF SpawnRestarter, RestarterFrame, Restarters, Calm, Types,
     ActorTypes
<1>13. ASSUME NEW m \in Machines, RestarterStop(m) PROVE Listing'
  <2>1. CASE running
    BY <1>13, <2>1 DEF RestarterStop, Retire, RestarterFrame, Restarters, Calm,
       Types, ActorTypes
  <2>2. CASE ~running
    BY <1>13, <2>2 DEF RestarterStop, Retire, RestarterFrame, Restarters, Calm,
       Types, ActorTypes
  <2> QED BY <1>13, <2>1, <2>2 DEF RestarterStop
<1>14. ASSUME NEW m \in Machines, RestarterCheck(m) PROVE Listing'
  <2>1. CASE running /\ sessions[m] = restarter[m].s
    BY <1>14, <2>1 DEF RestarterCheck, Advance, RestarterFrame, Restarters, Calm,
       Types, ActorTypes
  <2>2. CASE ~(running /\ sessions[m] = restarter[m].s)
    BY <1>14, <2>2 DEF RestarterCheck, Advance, RestarterFrame, Restarters, Calm,
       Types, ActorTypes
  <2> QED BY <1>14, <2>1, <2>2 DEF RestarterCheck
<1>15. ASSUME NEW m \in Machines, RestarterAssign(m) PROVE Listing'
  BY <1>15 DEF RestarterAssign, Assign, RestarterFrame, Restarters, Calm,
     Types, ActorTypes
<1>16. ASSUME NEW m \in Machines, RestarterEnable(m) PROVE Listing'
  BY <1>16 DEF RestarterEnable, Enable, RestarterFrame, Restarters, Calm,
     Types, ActorTypes
<1>17. ASSUME NEW p \in storage.todo, Quiesce(p) PROVE Listing'
  BY <1>17 DEF Quiesce, Retire, Finished, StorageFrame, Storages
<1>18. ASSUME NEW p \in storage.todo, Recover(p) PROVE Listing'
  BY <1>18 DEF Recover, Advance, Finished, StorageFrame, Storages
<1>19. CASE RecoverAssign
  BY <1>19 DEF RecoverAssign, Assign, StorageFrame, Storages
<1>20. CASE RecoverEnable
  BY <1>20 DEF RecoverEnable, Enable, Finished, StorageFrame, Storages
<1>21. ASSUME NEW l \in Levels, NEW f \in BOOLEAN, NEW i \in BOOLEAN,
            Sample(l, f, i) PROVE Listing'
  BY <1>21 DEF Sample, Storages
<1>22. CASE Stop
  BY <1>22 DEF Stop, Stops
<1>23. CASE StopSessions
  BY <1>23 DEF StopSessions, Teardowns, Calm, Stops, Starting
<1>24. ASSUME NEW m \in Machines, StopUnlist(m) PROVE Listing'
  BY <1>24, Excludes DEF StopUnlist, Unlist, StopFrame, Teardowns, Calm,
     Types, ActorTypes, ObjectTypes, StartPcs
<1>25. ASSUME NEW m \in Machines, StopRetire(m) PROVE Listing'
  BY <1>25 DEF StopRetire, Retire, StopFrame, Teardowns, Calm, Types,
     ActorTypes
<1>26. ASSUME NEW m \in Machines, StopForget(m) PROVE Listing'
  BY <1>26, Excludes DEF StopForget, Forget, StopFrame, Teardowns, Calm,
     Types, ActorTypes
<1>27. CASE StopDone
  BY <1>27 DEF StopDone, Stops
<1>28. ASSUME NEW m \in Machines, Connect(m) PROVE Listing'
  BY <1>28 DEF Connect
<1>29. ASSUME NEW m \in Machines, Disconnect(m) PROVE Listing'
  BY <1>29 DEF Disconnect
<1>30. CASE EditFile
  BY <1>30 DEF EditFile
<1>31. CASE UNCHANGED vars
  BY <1>31 DEF vars
<1>32. ASSUME NEW m \in Machines, WorkerStopFails(m) PROVE Listing'
  BY <1>32, WorkerStopFailsDoes DEF Idle, StartPcs
<1>33. CASE StopFails
  BY <1>33, StopFailsDoes DEF Calm, Stops
<1> QED
  BY <1>1, <1>2, <1>3, <1>4, <1>5, <1>6, <1>7, <1>8, <1>9, <1>10, <1>11,
     <1>12, <1>13, <1>14, <1>15, <1>16, <1>17, <1>18, <1>19, <1>20, <1>21,
     <1>22, <1>23, <1>24, <1>25, <1>26, <1>27, <1>28, <1>29, <1>30, <1>31, <1>32, <1>33,
     Tracks DEF Step, Callback, Worker, Restarter, Rest

(* A generation is one that no host was given.                              *)
LEMMA GenerationsStep ==
  ASSUME Types, InHand, Locks, Stops, Generations, Watched, [Next]_vars
  PROVE  Generations'
<1> USE DEF Generations, objects, actors
<1>a. ~overlap => \A x \in Machines : storage.step # "idle" =>
                job[x].pc = "idle" /\ restarter[x].pc = "idle" /\ teardown[x].pc = "idle"
  BY DEF Watched, Overlapping
<1>b. ~overlap' => /\ ~overlap
                   /\ \A x \in Machines : storage'.step # "idle" =>
                        /\ job'[x].pc = "idle" /\ restarter'[x].pc = "idle"
                        /\ teardown'[x].pc = "idle"
  BY Tracks DEF Watched, Overlapping
<1>1. CASE Reconcile
  BY <1>1, <1>a, <1>b DEF Reconcile, Jobs, Idle, Types, ActorTypes, Work
<1>2. ASSUME NEW m \in Machines, RestartCommand(m) PROVE Generations'
  BY <1>2, <1>a, <1>b DEF RestartCommand, Jobs, Idle, Types, ActorTypes,
     ObjectTypes
<1>3. CASE SupervisorDone
  BY <1>3, <1>a, <1>b DEF SupervisorDone, Types, ActorTypes, ObjectTypes
<1>4. ASSUME NEW m \in Machines, WorkerUnlist(m) PROVE Generations'
  BY <1>4, <1>a, <1>b DEF WorkerUnlist, At, Unlist, WorkerFrame, Jobs, Idle,
     Types, ActorTypes, ObjectTypes
<1>5. ASSUME NEW m \in Machines, WorkerRetire(m) PROVE Generations'
  BY <1>5, <1>a, <1>b DEF WorkerRetire, At, Retire, WorkerFrame, Jobs, Idle,
     Types, ActorTypes, ObjectTypes
<1>6. ASSUME NEW m \in Machines, WorkerForget(m) PROVE Generations'
  <2>1. CASE Done(m)
    BY <1>6, <2>1, <1>a, <1>b DEF WorkerForget, At, Go, Done, Forget,
       WorkerFrame, Jobs, Idle, Types, ActorTypes
  <2>2. CASE Go(m, "register")
    BY <1>6, <2>2, <1>a, <1>b DEF WorkerForget, At, Go, Done, Forget,
       WorkerFrame, Jobs, Idle, Types, ActorTypes
  <2> QED BY <1>6, <2>1, <2>2 DEF WorkerForget
<1>7. ASSUME NEW m \in Machines, WorkerRegister(m) PROVE Generations'
  <2>1. CASE Go(m, "list")
    BY <1>7, <2>1, <1>a, <1>b DEF WorkerRegister, At, Go, Done, WorkerFrame,
       Jobs, Idle, Types, ActorTypes
  <2>2. CASE job' = [job EXCEPT ![m] = [Idle EXCEPT !.pc = "unlist",
                                                     !.fresh = TRUE]]
    BY <1>7, <2>2, <1>a, <1>b DEF WorkerRegister, At, Go, Done, WorkerFrame,
       Jobs, Idle, Types, ActorTypes
  <2>3. CASE Done(m)
    BY <1>7, <2>3, <1>a, <1>b DEF WorkerRegister, At, Go, Done, WorkerFrame,
       Jobs, Idle, Types, ActorTypes
  <2> QED BY <1>7, <2>1, <2>2, <2>3 DEF WorkerRegister
<1>8. ASSUME NEW m \in Machines, WorkerList(m) PROVE Generations'
  BY <1>8, <1>a, <1>b DEF WorkerList, At, Advance, WorkerFrame, Jobs, Idle,
     Types, ActorTypes, ObjectTypes
<1>9. ASSUME NEW m \in Machines, WorkerCheck(m) PROVE Generations'
  <2>1. CASE accepting /\ Go(m, "assign")
    BY <1>9, <2>1, <1>a, <1>b DEF WorkerCheck, At, Go, Done, WorkerFrame, Jobs,
       Idle, Types, ActorTypes
  <2>2. CASE Done(m)
    BY <1>9, <2>2, <1>a, <1>b DEF WorkerCheck, At, Go, Done, WorkerFrame, Jobs,
       Idle, Types, ActorTypes
  <2> QED BY <1>9, <2>1, <2>2 DEF WorkerCheck
<1>10. ASSUME NEW m \in Machines, WorkerAssign(m) PROVE Generations'
  BY <1>10, <1>a, <1>b, Excludes DEF WorkerAssign, At, Go, Assign,
     WorkerFrame, Jobs, Idle, Types, ActorTypes, ObjectTypes
<1>11. ASSUME NEW m \in Machines, WorkerEnable(m) PROVE Generations'
  BY <1>11, <1>a, <1>b DEF WorkerEnable, At, Done, Enable, WorkerFrame, Jobs,
     Idle, Types, ActorTypes, ObjectTypes
<1>12. ASSUME NEW m \in Machines, SpawnRestarter(m) PROVE Generations'
  BY <1>12, <1>a, <1>b DEF SpawnRestarter, RestarterFrame, Restarters, Calm,
     Types, ActorTypes, ObjectTypes
<1>13. ASSUME NEW m \in Machines, RestarterStop(m) PROVE Generations'
  <2>1. /\ \A x \in Machines : restarter'[x].pc = "assign" => restarter[x].pc = "assign"
        /\ restarter[m].pc = "stop"
    BY <1>13, RestarterDoes
  <2>2. UNCHANGED <<job, storage, spent>>
    BY <1>13 DEF RestarterStop, RestarterFrame, Retire, objects
  <2> QED BY <2>1, <2>2, <1>a, <1>b
<1>14. ASSUME NEW m \in Machines, RestarterCheck(m) PROVE Generations'
  <2>1. /\ \A x \in Machines \ {m} : restarter'[x] = restarter[x]
        /\ \/ spent' = [spent EXCEPT ![m] = FALSE]
           \/ restarter'[m].pc = "idle" /\ UNCHANGED spent
    BY <1>14, RestarterDoes
  <2>2. UNCHANGED <<job, storage>> /\ spent \in [Machines -> BOOLEAN]
    BY <1>14 DEF RestarterCheck, RestarterFrame, Types, ObjectTypes
  <2> QED BY <2>1, <2>2, <1>b
<1>15. ASSUME NEW m \in Machines, RestarterAssign(m) PROVE Generations'
  BY <1>15, <1>a, <1>b, Excludes DEF RestarterAssign, Assign, RestarterFrame,
     Restarters, Calm, Types, ActorTypes, ObjectTypes
<1>16. ASSUME NEW m \in Machines, RestarterEnable(m) PROVE Generations'
  BY <1>16, <1>a, <1>b DEF RestarterEnable, Enable, RestarterFrame,
     Restarters, Calm, Types, ActorTypes, ObjectTypes
<1>17. ASSUME NEW p \in storage.todo, Quiesce(p) PROVE Generations'
  BY <1>17, <1>a, <1>b DEF Quiesce, Retire, Finished, StorageFrame, Storages,
     Types, ActorTypes, ObjectTypes
<1>18. ASSUME NEW p \in storage.todo, Recover(p) PROVE Generations'
  <2>1. CASE machines[p[1]] = Off
    <3>1. storage'.step # "assign" /\ UNCHANGED <<job, restarter, spent>>
      BY <1>18, <2>1 DEF Recover, Finished, StorageFrame, Storages, Types, ActorTypes
    <3> QED BY <3>1, <1>b
  <2>2. CASE machines[p[1]] # Off
    <3>1. PICK x \in Machines : p[1] = x
      BY <1>18 DEF Recover, Storages, Pairs, Types, ActorTypes
    <3>2. spent' = [spent EXCEPT ![x] = FALSE] /\ UNCHANGED <<job, restarter>>
      BY <1>18, <2>2, <3>1 DEF Recover, Advance, StorageFrame
    <3>3. storage'.step = "assign" /\ storage'.at = p
      BY <1>18, <2>2 DEF Recover, Storages, Types, ActorTypes
    <3> QED BY <3>1, <3>2, <3>3, <1>b DEF Types, ObjectTypes
  <2> QED BY <2>1, <2>2
<1>19. CASE RecoverAssign
  BY <1>19, <1>a, <1>b DEF RecoverAssign, Assign, StorageFrame, Storages,
     Types, ActorTypes, ObjectTypes
<1>20. CASE RecoverEnable
  BY <1>20, <1>a, <1>b DEF RecoverEnable, Enable, Finished, StorageFrame,
     Storages, Types, ActorTypes, ObjectTypes
<1>21. ASSUME NEW l \in Levels, NEW f \in BOOLEAN, NEW i \in BOOLEAN,
            Sample(l, f, i) PROVE Generations'
  BY <1>21, <1>a, <1>b, SampleDoes DEF Sample
<1>22. CASE Stop
  BY <1>22, <1>a, <1>b DEF Stop
<1>23. CASE StopSessions
  BY <1>23, <1>a, <1>b DEF StopSessions, Teardowns, Calm, Types, ActorTypes,
     ObjectTypes
<1>24. ASSUME NEW m \in Machines, StopUnlist(m) PROVE Generations'
  BY <1>24, <1>a, <1>b DEF StopUnlist, Unlist, StopFrame, Teardowns, Calm,
     Types, ActorTypes, ObjectTypes
<1>25. ASSUME NEW m \in Machines, StopRetire(m) PROVE Generations'
  BY <1>25, <1>a, <1>b DEF StopRetire, Retire, StopFrame, Teardowns, Calm,
     Types, ActorTypes, ObjectTypes
<1>26. ASSUME NEW m \in Machines, StopForget(m) PROVE Generations'
  BY <1>26, <1>a, <1>b DEF StopForget, Forget, StopFrame, Teardowns, Calm,
     Types, ActorTypes, ObjectTypes
<1>27. CASE StopDone
  BY <1>27, <1>a, <1>b DEF StopDone
<1>28. ASSUME NEW m \in Machines, Connect(m) PROVE Generations'
  BY <1>28, <1>a, <1>b DEF Connect, Types, ActorTypes, ObjectTypes
<1>29. ASSUME NEW m \in Machines, Disconnect(m) PROVE Generations'
  BY <1>29, <1>a, <1>b DEF Disconnect, Types, ActorTypes, ObjectTypes
<1>30. CASE EditFile
  BY <1>30, <1>a, <1>b DEF EditFile
<1>31. CASE UNCHANGED vars
  BY <1>31, <1>a, <1>b DEF vars
<1>32. ASSUME NEW m \in Machines, WorkerStopFails(m) PROVE Generations'
  BY <1>32, <1>a, <1>b, WorkerStopFailsDoes DEF Idle
<1>33. CASE StopFails
  BY <1>33, <1>a, <1>b, StopFailsDoes
<1> QED
  BY <1>1, <1>2, <1>3, <1>4, <1>5, <1>6, <1>7, <1>8, <1>9, <1>10, <1>11,
     <1>12, <1>13, <1>14, <1>15, <1>16, <1>17, <1>18, <1>19, <1>20, <1>21,
     <1>22, <1>23, <1>24, <1>25, <1>26, <1>27, <1>28, <1>29, <1>30, <1>31, <1>32, <1>33,
     Tracks DEF Step, Callback, Worker, Restarter, Rest

(* Only a start takes a host from its owner or enables one.                 *)
LEMMA OwnersKept ==
  ASSUME Types, Locks, Stops, Unlisted, Watched, [Next]_vars
  PROVE  (\A x \in Machines : Keeps(x)) \/ Starts
<1> USE DEF Keeps, Owner, objects, actors
<1>1. CASE Reconcile
  BY <1>1 DEF Reconcile, Jobs, Idle, Locks
<1>2. ASSUME NEW m \in Machines, RestartCommand(m) PROVE (\A x \in Machines : Keeps(x)) \/ Starts
  BY <1>2 DEF RestartCommand, Jobs, Idle, Types, ActorTypes, Locks
<1>3. CASE SupervisorDone
  BY <1>3 DEF SupervisorDone, Types, ActorTypes
<1>4. ASSUME NEW m \in Machines, WorkerUnlist(m) PROVE (\A x \in Machines : Keeps(x)) \/ Starts
  BY <1>4 DEF WorkerUnlist, At, Unlist, WorkerFrame, Jobs, Idle, Types,
     ActorTypes, ObjectTypes
<1>5. ASSUME NEW m \in Machines, WorkerRetire(m) PROVE (\A x \in Machines : Keeps(x)) \/ Starts
  <2>1. job[m].s \in NoOr(Sids) /\ Retire(m, job[m].s)
    BY <1>5 DEF WorkerRetire, Types, ActorTypes, Jobs
  <2>2. UNCHANGED teardown /\ \A x \in Machines : job'[x] = job[x] \/ x = m
    BY <1>5 DEF WorkerRetire, WorkerFrame, Types, ActorTypes
  <2> QED BY <2>1, <2>2, RetireKeeps
<1>6. ASSUME NEW m \in Machines, WorkerForget(m) PROVE (\A x \in Machines : Keeps(x)) \/ Starts
  <2>1. CASE Done(m)
    BY <1>6, <2>1 DEF WorkerForget, At, Go, Done, Forget, WorkerFrame, Jobs,
       Idle, Types, ActorTypes
  <2>2. CASE Go(m, "register")
    BY <1>6, <2>2 DEF WorkerForget, At, Go, Done, Forget, WorkerFrame, Jobs,
       Idle, Types, ActorTypes
  <2> QED BY <1>6, <2>1, <2>2 DEF WorkerForget
<1>7. ASSUME NEW m \in Machines, WorkerRegister(m) PROVE (\A x \in Machines : Keeps(x)) \/ Starts
  <2>1. CASE Go(m, "list")
    BY <1>7, <2>1 DEF WorkerRegister, At, Go, Done, WorkerFrame, Jobs, Idle,
       Types, ActorTypes
  <2>2. CASE job' = [job EXCEPT ![m] = [Idle EXCEPT !.pc = "unlist",
                                                     !.fresh = TRUE]]
    BY <1>7, <2>2 DEF WorkerRegister, At, Go, Done, WorkerFrame, Jobs, Idle,
       Types, ActorTypes
  <2>3. CASE Done(m)
    BY <1>7, <2>3 DEF WorkerRegister, At, Go, Done, WorkerFrame, Jobs, Idle,
       Types, ActorTypes
  <2> QED BY <1>7, <2>1, <2>2, <2>3 DEF WorkerRegister
<1>8. ASSUME NEW m \in Machines, WorkerList(m) PROVE (\A x \in Machines : Keeps(x)) \/ Starts
  <2> DEFINE s == Pick(FreeSessions(m))
  <2>1. s \in Sids /\ s # teardown[m].s
    BY <1>8, FreeIsFree DEF WorkerList
  <2>2. /\ sessions' = [sessions EXCEPT ![m] = s] /\ host' = [host EXCEPT ![m][s] = 0]
        /\ \A x \in Machines : job'[x] = job[x] \/ x = m
        /\ UNCHANGED <<live, teardown>>
    BY <1>8 DEF WorkerList, WorkerFrame, Types, ActorTypes
  <2>3. job[m].pc = "list" /\ sessions[m] = 0
    BY <1>8 DEF WorkerList, At, Unlisted
  <2> HIDE DEF s
  <2> QED BY <2>1, <2>2, <2>3, Ranges DEF Types, ObjectTypes
<1>9. ASSUME NEW m \in Machines, WorkerCheck(m) PROVE (\A x \in Machines : Keeps(x)) \/ Starts
  <2>1. CASE accepting /\ Go(m, "assign")
    BY <1>9, <2>1 DEF WorkerCheck, At, Go, Done, WorkerFrame, Jobs, Idle, Types,
       ActorTypes
  <2>2. CASE Done(m)
    BY <1>9, <2>2 DEF WorkerCheck, At, Go, Done, WorkerFrame, Jobs, Idle, Types,
       ActorTypes
  <2> QED BY <1>9, <2>1, <2>2 DEF WorkerCheck
<1>10. ASSUME NEW m \in Machines, WorkerAssign(m) PROVE (\A x \in Machines : Keeps(x)) \/ Starts
  BY <1>10 DEF Starts
<1>11. ASSUME NEW m \in Machines, WorkerEnable(m) PROVE (\A x \in Machines : Keeps(x)) \/ Starts
  BY <1>11 DEF Starts
<1>12. ASSUME NEW m \in Machines, SpawnRestarter(m) PROVE (\A x \in Machines : Keeps(x)) \/ Starts
  BY <1>12 DEF SpawnRestarter, RestarterFrame, Restarters, Calm
<1>13. ASSUME NEW m \in Machines, RestarterStop(m) PROVE (\A x \in Machines : Keeps(x)) \/ Starts
  <2>1. UNCHANGED <<job, teardown>>
    BY <1>13 DEF RestarterStop, RestarterFrame
  <2>2. CASE Retire(m, restarter[m].s)
    <3>1. restarter[m].s \in NoOr(Sids)
      BY DEF Types, ActorTypes, Restarters
    <3> QED BY <2>1, <2>2, <3>1, RetireKeeps
  <2>3. CASE UNCHANGED objects
    BY <2>1, <2>3
  <2> QED BY <1>13, <2>2, <2>3 DEF RestarterStop
<1>14. ASSUME NEW m \in Machines, RestarterCheck(m) PROVE (\A x \in Machines : Keeps(x)) \/ Starts
  BY <1>14 DEF RestarterCheck, Advance, RestarterFrame, Restarters, Calm
<1>15. ASSUME NEW m \in Machines, RestarterAssign(m) PROVE (\A x \in Machines : Keeps(x)) \/ Starts
  BY <1>15 DEF Starts
<1>16. ASSUME NEW m \in Machines, RestarterEnable(m) PROVE (\A x \in Machines : Keeps(x)) \/ Starts
  BY <1>16 DEF Starts
<1>17. ASSUME NEW p \in storage.todo, Quiesce(p) PROVE (\A x \in Machines : Keeps(x)) \/ Starts
  <2>1. UNCHANGED <<job, teardown>>
    BY <1>17 DEF Quiesce, StorageFrame
  <2>2. p[1] \in Machines /\ p[2] \in NoOr(Sids)
    BY DEF Types, ActorTypes, Storages, Pairs, NoOr
  <2>3. Retire(p[1], p[2])
    BY <1>17 DEF Quiesce
  <2> QED BY <2>1, <2>2, <2>3, RetireKeeps
<1>18. ASSUME NEW p \in storage.todo, Recover(p) PROVE (\A x \in Machines : Keeps(x)) \/ Starts
  BY <1>18 DEF Recover, Advance, Finished, StorageFrame, Storages
<1>19. CASE RecoverAssign
  BY <1>19 DEF Starts
<1>20. CASE RecoverEnable
  BY <1>20 DEF Starts
<1>21. ASSUME NEW l \in Levels, NEW f \in BOOLEAN, NEW i \in BOOLEAN,
            Sample(l, f, i) PROVE (\A x \in Machines : Keeps(x)) \/ Starts
  BY <1>21 DEF Sample, Storages
<1>22. CASE Stop
  BY <1>22 DEF Stop
<1>23. CASE StopSessions
  BY <1>23 DEF StopSessions, Teardowns, Calm, Types, ActorTypes, Stops
<1>24. ASSUME NEW m \in Machines, StopUnlist(m) PROVE (\A x \in Machines : Keeps(x)) \/ Starts
  BY <1>24 DEF StopUnlist, Unlist, StopFrame, Teardowns, Calm, Types,
     ActorTypes, ObjectTypes
<1>25. ASSUME NEW m \in Machines, StopRetire(m) PROVE (\A x \in Machines : Keeps(x)) \/ Starts
  <2>1. teardown[m].s \in NoOr(Sids) /\ Retire(m, teardown[m].s)
    BY <1>25 DEF StopRetire, Types, ActorTypes, Teardowns
  <2>2. UNCHANGED job /\ \A x \in Machines : teardown'[x] = teardown[x] \/ x = m
    BY <1>25 DEF StopRetire, StopFrame, Types, ActorTypes
  <2> QED BY <2>1, <2>2, RetireKeeps
<1>26. ASSUME NEW m \in Machines, StopForget(m) PROVE (\A x \in Machines : Keeps(x)) \/ Starts
  BY <1>26 DEF StopForget, Forget, StopFrame, Teardowns, Calm, Types,
     ActorTypes, ObjectTypes
<1>27. CASE StopDone
  BY <1>27 DEF StopDone
<1>28. ASSUME NEW m \in Machines, Connect(m) PROVE (\A x \in Machines : Keeps(x)) \/ Starts
  BY <1>28 DEF Connect
<1>29. ASSUME NEW m \in Machines, Disconnect(m) PROVE (\A x \in Machines : Keeps(x)) \/ Starts
  BY <1>29 DEF Disconnect
<1>30. CASE EditFile
  BY <1>30 DEF EditFile
<1>31. CASE UNCHANGED vars
  BY <1>31 DEF vars
<1>32. ASSUME NEW m \in Machines, WorkerStopFails(m) PROVE (\A x \in Machines : Keeps(x)) \/ Starts
  BY <1>32, WorkerStopFailsDoes DEF Idle
<1>33. CASE StopFails
  BY <1>33, StopFailsDoes
<1> QED
  BY <1>1, <1>2, <1>3, <1>4, <1>5, <1>6, <1>7, <1>8, <1>9, <1>10, <1>11,
     <1>12, <1>13, <1>14, <1>15, <1>16, <1>17, <1>18, <1>19, <1>20, <1>21,
     <1>22, <1>23, <1>24, <1>25, <1>26, <1>27, <1>28, <1>29, <1>30, <1>31, <1>32, <1>33,
     Tracks DEF Step, Callback, Worker, Restarter, Rest

(* A stop() that went by a starting thread stays marked, and the storage     *)
(* monitor has gone by then.                                                *)
LEMMA LateStays ==
  ASSUME Types, Stops, Watched, [Next]_vars
  PROVE  late => late' /\ accepting' = accepting
<1> USE DEF accepting, actors
<1>1. CASE Reconcile
  BY <1>1 DEF Reconcile
<1>2. ASSUME NEW m \in Machines, RestartCommand(m) PROVE late => late' /\ accepting' = accepting
  BY <1>2 DEF RestartCommand
<1>3. CASE SupervisorDone
  BY <1>3 DEF SupervisorDone
<1>4. ASSUME NEW m \in Machines, WorkerUnlist(m) PROVE late => late' /\ accepting' = accepting
  BY <1>4 DEF WorkerUnlist, At, Unlist, WorkerFrame
<1>5. ASSUME NEW m \in Machines, WorkerRetire(m) PROVE late => late' /\ accepting' = accepting
  BY <1>5 DEF WorkerRetire, At, Retire, WorkerFrame
<1>6. ASSUME NEW m \in Machines, WorkerForget(m) PROVE late => late' /\ accepting' = accepting
  BY <1>6 DEF WorkerForget, At, Go, Done, Forget, WorkerFrame
<1>7. ASSUME NEW m \in Machines, WorkerRegister(m) PROVE late => late' /\ accepting' = accepting
  BY <1>7 DEF WorkerRegister, At, Go, Done, WorkerFrame
<1>8. ASSUME NEW m \in Machines, WorkerList(m) PROVE late => late' /\ accepting' = accepting
  BY <1>8 DEF WorkerList, At, Advance, WorkerFrame
<1>9. ASSUME NEW m \in Machines, WorkerCheck(m) PROVE late => late' /\ accepting' = accepting
  BY <1>9 DEF WorkerCheck, At, Go, Done, WorkerFrame
<1>10. ASSUME NEW m \in Machines, WorkerAssign(m) PROVE late => late' /\ accepting' = accepting
  BY <1>10 DEF WorkerAssign, At, Go, Assign, WorkerFrame
<1>11. ASSUME NEW m \in Machines, WorkerEnable(m) PROVE late => late' /\ accepting' = accepting
  BY <1>11 DEF WorkerEnable, At, Done, Enable, WorkerFrame
<1>12. ASSUME NEW m \in Machines, SpawnRestarter(m) PROVE late => late' /\ accepting' = accepting
  BY <1>12 DEF SpawnRestarter, RestarterFrame
<1>13. ASSUME NEW m \in Machines, RestarterStop(m) PROVE late => late' /\ accepting' = accepting
  BY <1>13 DEF RestarterStop, Retire, RestarterFrame
<1>14. ASSUME NEW m \in Machines, RestarterCheck(m) PROVE late => late' /\ accepting' = accepting
  BY <1>14 DEF RestarterCheck, Advance, RestarterFrame
<1>15. ASSUME NEW m \in Machines, RestarterAssign(m) PROVE late => late' /\ accepting' = accepting
  BY <1>15 DEF RestarterAssign, Assign, RestarterFrame
<1>16. ASSUME NEW m \in Machines, RestarterEnable(m) PROVE late => late' /\ accepting' = accepting
  BY <1>16 DEF RestarterEnable, Enable, RestarterFrame
<1>17. ASSUME NEW p \in storage.todo, Quiesce(p) PROVE late => late' /\ accepting' = accepting
  BY <1>17 DEF Quiesce, Retire, Finished, StorageFrame, Storages, Types,
     ActorTypes
<1>18. ASSUME NEW p \in storage.todo, Recover(p) PROVE late => late' /\ accepting' = accepting
  BY <1>18 DEF Recover, Advance, Finished, StorageFrame, Storages, Types,
     ActorTypes
<1>19. CASE RecoverAssign
  BY <1>19 DEF RecoverAssign, Assign, StorageFrame, Storages, Types,
     ActorTypes
<1>20. CASE RecoverEnable
  BY <1>20 DEF RecoverEnable, Enable, Finished, StorageFrame, Storages, Types,
     ActorTypes
<1>21. ASSUME NEW l \in Levels, NEW f \in BOOLEAN, NEW i \in BOOLEAN,
            Sample(l, f, i) PROVE late => late' /\ accepting' = accepting
  BY <1>21 DEF Sample, Stops
<1>22. CASE Stop
  BY <1>22 DEF Stop
<1>23. CASE StopSessions
  BY <1>23 DEF StopSessions, Stops
<1>24. ASSUME NEW m \in Machines, StopUnlist(m) PROVE late => late' /\ accepting' = accepting
  BY <1>24 DEF StopUnlist, Unlist, StopFrame
<1>25. ASSUME NEW m \in Machines, StopRetire(m) PROVE late => late' /\ accepting' = accepting
  BY <1>25 DEF StopRetire, Retire, StopFrame
<1>26. ASSUME NEW m \in Machines, StopForget(m) PROVE late => late' /\ accepting' = accepting
  BY <1>26 DEF StopForget, Forget, StopFrame
<1>27. CASE StopDone
  BY <1>27 DEF StopDone
<1>28. ASSUME NEW m \in Machines, Connect(m) PROVE late => late' /\ accepting' = accepting
  BY <1>28 DEF Connect
<1>29. ASSUME NEW m \in Machines, Disconnect(m) PROVE late => late' /\ accepting' = accepting
  BY <1>29 DEF Disconnect
<1>30. CASE EditFile
  BY <1>30 DEF EditFile
<1>31. CASE UNCHANGED vars
  BY <1>31 DEF vars
<1>32. ASSUME NEW m \in Machines, WorkerStopFails(m) PROVE late => late' /\ accepting' = accepting
  BY <1>32, WorkerStopFailsDoes
<1>33. CASE StopFails
  BY <1>33, StopFailsDoes
<1> QED
  BY <1>1, <1>2, <1>3, <1>4, <1>5, <1>6, <1>7, <1>8, <1>9, <1>10, <1>11,
     <1>12, <1>13, <1>14, <1>15, <1>16, <1>17, <1>18, <1>19, <1>20, <1>21,
     <1>22, <1>23, <1>24, <1>25, <1>26, <1>27, <1>28, <1>29, <1>30, <1>31, <1>32, <1>33,
     Tracks DEF Step, Callback, Worker, Restarter, Rest

(* An enabled host is one that somebody can retire.                         *)
LEMMA OwnedStep ==
  ASSUME Types, InHand, Locks, Stops, Unlisted, Listing, Empty, Callbacks, Quiet,
         Owned, Watched, [Next]_vars
  PROVE  Owned'
<1> SUFFICES ASSUME ~overlap', ~(late' /\ accepting'), NEW x \in Machines
             PROVE  OwnedAt(x)'
  BY DEF Owned
<1>1. ~overlap /\ ~(late /\ accepting)
  BY Tracks, LateStays
<1>2. OwnedAt(x)
  BY <1>1 DEF Owned
<1>3. ASSUME Keeps(x) PROVE OwnedAt(x)'
  BY <1>2, <1>3 DEF Keeps, OwnedAt
<1>4. ASSUME NEW m \in Machines, NEW s \in Sids, Assign(m, s), live[m] = {},
             \A y \in Machines : job[y].pc = "retire" => job'[y] = job[y],
             UNCHANGED teardown
      PROVE  Keeps(x)
  BY <1>4 DEF Assign, Keeps, Owner, Types, ObjectTypes
<1>5. ASSUME NEW m \in Machines, NEW s \in Sids, Enable(m, s), sessions[m] = s,
             \A y \in Machines : job[y].pc = "retire" => job'[y] = job[y],
             UNCHANGED <<teardown, sessions, host>>
      PROVE  OwnedAt(x)'
  <2>1. live'[x] \subseteq live[x] \cup IF x = m THEN {host[m][s]} ELSE {}
    BY <1>5 DEF Enable, Types, ObjectTypes
  <2>2. \A t \in Sids : Owner(x, t) => Owner(x, t)'
    BY <1>5 DEF Owner
  <2>3. x = m => Owner(x, s)'
    BY <1>5 DEF Owner
  <2> QED BY <1>2, <1>5, <2>1, <2>2, <2>3 DEF OwnedAt
<1>6. ASSUME NEW m \in Machines, WorkerAssign(m) PROVE OwnedAt(x)'
  <2>1. job[m].pc = "assign" /\ Assign(m, job[m].s)
    BY <1>6 DEF WorkerAssign, At
  <2>2. ~late /\ job[m].s \in Sids
    BY <1>1, <2>1 DEF Quiet, InHand, StartPcs
  <2>3. live[m] = {}
    BY <1>1, <2>1, <2>2 DEF Empty, StartPcs
  <2>4. \A y \in Machines : job[y].pc = "retire" => job'[y] = job[y]
    BY <1>6, <2>1 DEF WorkerAssign, Go, Types, ActorTypes
  <2>5. UNCHANGED teardown
    BY <1>6 DEF WorkerAssign, WorkerFrame
  <2> QED BY <1>3, <1>4, <2>1, <2>2, <2>3, <2>4, <2>5
<1>7. ASSUME NEW m \in Machines, WorkerEnable(m) PROVE OwnedAt(x)'
  <2>1. job[m].pc = "enable" /\ Enable(m, job[m].s)
    BY <1>7 DEF WorkerEnable, At
  <2>2. ~late /\ job[m].s \in Sids
    BY <1>1, <2>1 DEF Quiet, InHand, StartPcs
  <2>3. sessions[m] = job[m].s
    BY <2>1, <2>2 DEF Listing, StartPcs
  <2>4. \A y \in Machines : job[y].pc = "retire" => job'[y] = job[y]
    BY <1>7, <2>1 DEF WorkerEnable, Done, Types, ActorTypes
  <2>5. UNCHANGED <<teardown, sessions, host>>
    BY <1>7 DEF WorkerEnable, WorkerFrame
  <2> QED BY <1>5, <2>1, <2>2, <2>3, <2>4, <2>5
<1>8. ASSUME NEW m \in Machines, RestarterAssign(m) PROVE OwnedAt(x)'
  <2>1. restarter[m].pc = "assign" /\ Assign(m, restarter[m].s)
    BY <1>8 DEF RestarterAssign
  <2>2. ~late /\ restarter[m].s \in Sids
    BY <1>1, <2>1 DEF Quiet, InHand
  <2>3. live[m] = {}
    BY <1>1, <2>1, <2>2 DEF Empty, Listing
  <2>4. UNCHANGED <<job, teardown>>
    BY <1>8 DEF RestarterAssign, RestarterFrame
  <2> QED BY <1>3, <1>4, <2>1, <2>2, <2>3, <2>4
<1>9. ASSUME NEW m \in Machines, RestarterEnable(m) PROVE OwnedAt(x)'
  <2>1. restarter[m].pc = "enable" /\ Enable(m, restarter[m].s)
    BY <1>9 DEF RestarterEnable
  <2>2. ~late /\ restarter[m].s \in Sids
    BY <1>1, <2>1 DEF Quiet, InHand
  <2>3. sessions[m] = restarter[m].s
    BY <2>1, <2>2 DEF Listing
  <2>4. UNCHANGED <<job, teardown, sessions, host>>
    BY <1>9 DEF RestarterEnable, RestarterFrame
  <2> QED BY <1>5, <2>1, <2>2, <2>3, <2>4
<1>10. CASE RecoverAssign
  <2>1. PICK m \in Machines, s \in Sids : storage.at = <<m, s>>
    BY <1>10 DEF RecoverAssign, InHand, Pairs
  <2>2. storage.step = "assign" /\ Assign(m, s)
    BY <1>10, <2>1 DEF RecoverAssign
  <2>3. live[m] = {}
    BY <1>1, <2>1, <2>2 DEF Callbacks
  <2>4. UNCHANGED <<job, teardown>>
    BY <1>10 DEF RecoverAssign, StorageFrame
  <2> QED BY <1>3, <1>4, <2>2, <2>3, <2>4
<1>11. CASE RecoverEnable
  <2>1. PICK m \in Machines, s \in Sids : storage.at = <<m, s>>
    BY <1>11 DEF RecoverEnable, InHand, Pairs
  <2>2. storage.step = "enable" /\ Enable(m, s)
    BY <1>11, <2>1 DEF RecoverEnable
  <2>3. sessions[m] = s
    BY <1>1, <2>1, <2>2 DEF Callbacks, Served
  <2>4. UNCHANGED <<job, teardown, sessions, host>>
    BY <1>11 DEF RecoverEnable, StorageFrame
  <2> QED BY <1>5, <2>2, <2>3, <2>4
<1> QED
  BY <1>3, <1>6, <1>7, <1>8, <1>9, <1>10, <1>11, OwnersKept DEF Starts

(* A session that is about to be started has no enabled host.               *)
LEMMA EmptyStep ==
  ASSUME Types, InHand, Locks, Stops, Unlisted, Fresh, Listing, Owned, Empty,
     Watched, [Next]_vars
  PROVE  Empty'
<1> USE DEF Empty
<1>a. ~overlap => \A x \in Machines : storage.step # "idle" =>
                job[x].pc = "idle" /\ restarter[x].pc = "idle" /\ teardown[x].pc = "idle"
  BY DEF Watched, Overlapping
<1>b. ~overlap' => /\ ~overlap
                   /\ \A x \in Machines : storage'.step # "idle" =>
                        /\ job'[x].pc = "idle" /\ restarter'[x].pc = "idle"
                        /\ teardown'[x].pc = "idle"
  BY Tracks DEF Watched, Overlapping
<1>c. late => late'
  BY LateStays
<1>1. CASE Reconcile
  <2>1. \A x \in Machines : job'[x].pc \notin StartPcs
    BY <1>1 DEF Reconcile, Work, Idle, StartPcs
  <2>2. UNCHANGED <<restarter, sessions, live>>
    BY <1>1 DEF Reconcile, objects
  <2> QED BY <2>1, <2>2, <1>b, <1>c
<1>2. ASSUME NEW m \in Machines, RestartCommand(m) PROVE Empty'
  BY <1>2, <1>a, <1>b, <1>c DEF RestartCommand, Jobs, Idle, Types, ActorTypes,
     objects, actors, StartPcs
<1>3. CASE SupervisorDone
  BY <1>3, <1>a, <1>b, <1>c DEF SupervisorDone, Types, ActorTypes, objects,
     actors, StartPcs
<1>4. ASSUME NEW m \in Machines, WorkerUnlist(m) PROVE Empty'
  <2>1. sessions'[m] = 0 /\ \A x \in Machines \ {m} : sessions'[x] = sessions[x]
    BY <1>4 DEF WorkerUnlist, Unlist, Types, ObjectTypes
  <2>2. restarter[m].pc # "idle" => restarter[m].s # 0
    BY Ranges DEF InHand
  <2>3. job'[m].pc = "retire" /\ \A x \in Machines \ {m} : job'[x] = job[x]
    BY <1>4 DEF WorkerUnlist, Types, ActorTypes, Jobs
  <2>4. UNCHANGED <<live, restarter>>
    BY <1>4 DEF WorkerUnlist, Unlist, WorkerFrame
  <2> QED BY <2>1, <2>2, <2>3, <2>4, <1>b, <1>c DEF StartPcs
<1>5. ASSUME NEW m \in Machines, WorkerRetire(m) PROVE Empty'
  BY <1>5, <1>a, <1>b, <1>c DEF WorkerRetire, At, Retire, WorkerFrame, Jobs,
     Idle, Types, ActorTypes, objects, actors, StartPcs
<1>6. ASSUME NEW m \in Machines, WorkerForget(m) PROVE Empty'
  BY <1>6, <1>a, <1>b, <1>c DEF WorkerForget, At, Go, Done, Forget,
     WorkerFrame, Jobs, Idle, Types, ActorTypes, objects, actors, StartPcs
<1>7. ASSUME NEW m \in Machines, WorkerRegister(m) PROVE Empty'
  <2>1. /\ job'[m].pc \in {"list", "unlist", "idle"}
        /\ \A x \in Machines \ {m} : job'[x] = job[x]
    BY <1>7, WorkerRegisterDoes
  <2>2. UNCHANGED <<sessions, live, restarter>>
    BY <1>7 DEF WorkerRegister, WorkerFrame, objects
  <2> QED BY <2>1, <2>2, <1>b, <1>c DEF StartPcs
<1>8. ASSUME NEW m \in Machines, WorkerList(m) PROVE Empty'
  <2>1. sessions[m] = 0 /\ job[m].pc = "list"
    BY <1>8 DEF WorkerList, At, Unlisted
  <2>2. ~late => teardown[m].pc = "idle"
    BY <2>1, Excludes
  <2>3. ~overlap /\ ~late => live[m] = {}
    BY <2>1, <2>2, Ranges DEF Owned, OwnedAt, Owner
  <2>4. sessions'[m] # restarter[m].s /\ \A x \in Machines \ {m} : sessions'[x] = sessions[x]
    BY <1>8, FreeIsFree DEF WorkerList, Types, ObjectTypes
  <2>5. UNCHANGED <<live, restarter>> /\ \A x \in Machines \ {m} : job'[x] = job[x]
    BY <1>8 DEF WorkerList, WorkerFrame, Types, ActorTypes
  <2> QED BY <2>3, <2>4, <2>5, <1>b, <1>c
<1>9. ASSUME NEW m \in Machines, WorkerCheck(m) PROVE Empty'
  BY <1>9, <1>a, <1>b, <1>c DEF WorkerCheck, At, Go, Done, WorkerFrame, Jobs,
     Idle, Types, ActorTypes, objects, actors, StartPcs
<1>10. ASSUME NEW m \in Machines, WorkerAssign(m) PROVE Empty'
  BY <1>10, <1>a, <1>b, <1>c DEF WorkerAssign, At, Go, Assign, WorkerFrame,
     Jobs, Idle, Types, ActorTypes, objects, actors, StartPcs
<1>11. ASSUME NEW m \in Machines, WorkerEnable(m) PROVE Empty'
  <2>1. job[m].pc = "enable" /\ job'[m].pc = "idle"
    BY <1>11 DEF WorkerEnable, At, Done, Idle, Types, ActorTypes
  <2>2. ~late => sessions[m] = job[m].s
    BY <2>1 DEF Listing, StartPcs
  <2>3. restarter[m].pc # "idle" => restarter[m].s # job[m].s
    BY <2>1 DEF Fresh, StartPcs
  <2>4. \A x \in Machines \ {m} : job'[x] = job[x] /\ live'[x] = live[x]
    BY <1>11 DEF WorkerEnable, Done, Enable, Types, ActorTypes, ObjectTypes
  <2>5. UNCHANGED <<sessions, restarter>>
    BY <1>11 DEF WorkerEnable, WorkerFrame
  <2> QED BY <2>1, <2>2, <2>3, <2>4, <2>5, <1>b, <1>c DEF StartPcs
<1>12. ASSUME NEW m \in Machines, SpawnRestarter(m) PROVE Empty'
  BY <1>12, <1>a, <1>b, <1>c DEF SpawnRestarter, RestarterFrame, Restarters,
     Calm, Types, ActorTypes, objects, actors, StartPcs
<1>13. ASSUME NEW m \in Machines, RestarterStop(m) PROVE Empty'
  <2>1. UNCHANGED job
    BY <1>13 DEF RestarterStop, RestarterFrame
  <2>2. CASE Retire(m, restarter[m].s)
    <3>1. restarter[m].s \in NoOr(Sids)
      BY DEF Types, ActorTypes, Restarters
    <3>2. \A x \in Machines : live'[x] \subseteq live[x] /\ UNCHANGED sessions
      BY <2>2, <3>1, RetireKeeps
    <3>3. ASSUME ~overlap, ~late, sessions[m] = restarter[m].s PROVE live'[m] = {}
      <4>1. restarter[m].s \in Sids
        BY <1>13, RestarterDoes DEF InHand
      <4>2. sessions[m] # 0
        BY <3>3, <4>1, Ranges
      <4>3. \A s \in Sids : Owner(m, s) => s = restarter[m].s
        BY <3>3, <4>2 DEF Owner, Unlisted, Listing
      <4>4. \A h \in live[m] : h = host[m][restarter[m].s]
        BY <3>3, <4>3 DEF Owned, OwnedAt
      <4>5. host[m][restarter[m].s] \notin live'[m]
        BY <2>2, <3>1, <4>1, RetireKeeps
      <4> QED BY <3>2, <4>4, <4>5
    <3> QED BY <1>13, <2>1, <3>2, <3>3, <1>b, <1>c, RestarterDoes
  <2>3. CASE restarter' = [restarter EXCEPT ![m] = Calm] /\ UNCHANGED objects
    <3>1. restarter'[m].pc = "idle" /\ \A x \in Machines \ {m} : restarter'[x] = restarter[x]
      BY <2>3 DEF Calm, Types, ActorTypes
    <3> QED BY <2>1, <2>3, <3>1, <1>b, <1>c DEF objects
  <2> QED BY <1>13, <2>2, <2>3 DEF RestarterStop
<1>14. ASSUME NEW m \in Machines, RestarterCheck(m) PROVE Empty'
  BY <1>14, <1>a, <1>b, <1>c DEF RestarterCheck, Advance, RestarterFrame,
     Restarters, Calm, Types, ActorTypes, objects, actors, StartPcs
<1>15. ASSUME NEW m \in Machines, RestarterAssign(m) PROVE Empty'
  BY <1>15, <1>a, <1>b, <1>c DEF RestarterAssign, Assign, RestarterFrame,
     Restarters, Calm, Types, ActorTypes, objects, actors, StartPcs
<1>16. ASSUME NEW m \in Machines, RestarterEnable(m) PROVE Empty'
  <2>1. restarter'[m].pc = "idle" /\ restarter[m].pc = "enable"
    BY <1>16 DEF RestarterEnable, Calm, Types, ActorTypes
  <2>2. job[m].pc = "idle"
    BY <2>1, Excludes
  <2>3. \A x \in Machines \ {m} : restarter'[x] = restarter[x] /\ live'[x] = live[x]
    BY <1>16 DEF RestarterEnable, Enable, Types, ActorTypes, ObjectTypes
  <2>4. UNCHANGED <<sessions, job>>
    BY <1>16 DEF RestarterEnable, RestarterFrame
  <2> QED BY <2>1, <2>2, <2>3, <2>4, <1>b, <1>c DEF StartPcs
<1>17. ASSUME NEW p \in storage.todo, Quiesce(p) PROVE Empty'
  BY <1>17, <1>a, <1>b, <1>c DEF Quiesce, Retire, Finished, StorageFrame,
     Storages, Types, ActorTypes, objects, actors, StartPcs
<1>18. ASSUME NEW p \in storage.todo, Recover(p) PROVE Empty'
  BY <1>18, <1>a, <1>b, <1>c DEF Recover, Advance, Finished, StorageFrame,
     Storages, Types, ActorTypes, objects, actors, StartPcs
<1>19. CASE RecoverAssign
  BY <1>19, <1>a, <1>b, <1>c DEF RecoverAssign, Assign, StorageFrame,
     Storages, Types, ActorTypes, objects, actors, StartPcs
<1>20. CASE RecoverEnable
  BY <1>20, <1>a, <1>b, <1>c DEF RecoverEnable, Enable, Finished,
     StorageFrame, Storages, Types, ActorTypes, objects, actors, StartPcs
<1>21. ASSUME NEW l \in Levels, NEW f \in BOOLEAN, NEW i \in BOOLEAN,
            Sample(l, f, i) PROVE Empty'
  BY <1>21, <1>a, <1>b, <1>c DEF Sample, Storages, Types, ActorTypes, objects,
     actors, StartPcs
<1>22. CASE Stop
  BY <1>22, <1>a, <1>b, <1>c DEF Stop, Types, ActorTypes, objects, actors,
     StartPcs
<1>23. CASE StopSessions
  BY <1>23, <1>a, <1>b, <1>c DEF StopSessions, Teardowns, Calm, Types,
     ActorTypes, objects, actors, StartPcs
<1>24. ASSUME NEW m \in Machines, StopUnlist(m) PROVE Empty'
  <2>1. sessions'[m] = 0 /\ \A x \in Machines \ {m} : sessions'[x] = sessions[x]
    BY <1>24 DEF StopUnlist, Unlist, Types, ObjectTypes
  <2>2. restarter[m].pc # "idle" => restarter[m].s # 0
    BY Ranges DEF InHand
  <2>3. UNCHANGED <<live, restarter, job>>
    BY <1>24 DEF StopUnlist, Unlist, StopFrame
  <2> QED BY <2>1, <2>2, <2>3, <1>b, <1>c DEF StartPcs
<1>25. ASSUME NEW m \in Machines, StopRetire(m) PROVE Empty'
  BY <1>25, <1>a, <1>b, <1>c DEF StopRetire, Retire, StopFrame, Teardowns,
     Calm, Types, ActorTypes, objects, actors, StartPcs
<1>26. ASSUME NEW m \in Machines, StopForget(m) PROVE Empty'
  BY <1>26, <1>a, <1>b, <1>c DEF StopForget, Forget, StopFrame, Teardowns,
     Calm, Types, ActorTypes, objects, actors, StartPcs
<1>27. CASE StopDone
  BY <1>27, <1>a, <1>b, <1>c DEF StopDone, Types, ActorTypes, objects, actors,
     StartPcs
<1>28. ASSUME NEW m \in Machines, Connect(m) PROVE Empty'
  BY <1>28, <1>a, <1>b, <1>c DEF Connect, Types, ActorTypes, objects, actors,
     StartPcs
<1>29. ASSUME NEW m \in Machines, Disconnect(m) PROVE Empty'
  BY <1>29, <1>a, <1>b, <1>c DEF Disconnect, Types, ActorTypes, objects,
     actors, StartPcs
<1>30. CASE EditFile
  BY <1>30, <1>a, <1>b, <1>c DEF EditFile, Types, ActorTypes, objects, actors,
     StartPcs
<1>31. CASE UNCHANGED vars
  BY <1>31, <1>b, <1>c DEF vars, objects, actors
<1>32. ASSUME NEW m \in Machines, WorkerStopFails(m) PROVE Empty'
  BY <1>32, <1>b, <1>c, WorkerStopFailsDoes DEF Idle, StartPcs, objects
<1>33. CASE StopFails
  BY <1>33, <1>b, <1>c, StopFailsDoes DEF objects
<1> QED
  BY <1>1, <1>2, <1>3, <1>4, <1>5, <1>6, <1>7, <1>8, <1>9, <1>10, <1>11,
     <1>12, <1>13, <1>14, <1>15, <1>16, <1>17, <1>18, <1>19, <1>20, <1>21,
     <1>22, <1>23, <1>24, <1>25, <1>26, <1>27, <1>28, <1>29, <1>30, <1>31, <1>32, <1>33,
     Tracks DEF Step, Callback, Worker, Restarter, Rest

(* Nothing changes for the callback when nothing is listed or enabled.      *)
LEMMA CallbacksKept ==
  ASSUME Types, InHand, Callbacks, UNCHANGED <<storage, sessions>>, overlap' \/ ~overlap,
         \A x \in Machines : live'[x] \subseteq live[x]
  PROVE  Callbacks'
<1>1. \A p \in storage.todo : p[1] \in Machines
  BY DEF Types, ActorTypes, Storages, Pairs
<1>2. storage.step \in {"assign", "enable"} => storage.at[1] \in Machines
  BY DEF InHand, Pairs
<1> QED BY <1>1, <1>2 DEF Callbacks, Served, accepting

(* The storage callback goes through the listed sessions.                   *)
LEMMA CallbacksStep ==
  ASSUME Types, InHand, Quiet, Owned, Callbacks, Watched, [Next]_vars
  PROVE  Callbacks'
<1> USE DEF Callbacks
<1>a. ~overlap => \A x \in Machines : storage.step # "idle" =>
                job[x].pc = "idle" /\ restarter[x].pc = "idle" /\ teardown[x].pc = "idle"
  BY DEF Watched, Overlapping
<1>b. ~overlap' => /\ ~overlap
                   /\ \A x \in Machines : storage'.step # "idle" =>
                        /\ job'[x].pc = "idle" /\ restarter'[x].pc = "idle"
                        /\ teardown'[x].pc = "idle"
  BY Tracks DEF Watched, Overlapping
<1>1. CASE Reconcile
  <2>1. UNCHANGED <<storage, sessions, live>>
    BY <1>1 DEF Reconcile, objects, actors
  <2> QED BY <2>1, <1>b, CallbacksKept
<1>2. ASSUME NEW m \in Machines, RestartCommand(m) PROVE Callbacks'
  <2>1. UNCHANGED <<storage, sessions, live>>
    BY <1>2 DEF RestartCommand, objects, actors
  <2> QED BY <2>1, <1>b, CallbacksKept
<1>3. CASE SupervisorDone
  <2>1. UNCHANGED <<storage, sessions, live>>
    BY <1>3 DEF SupervisorDone, objects, actors
  <2> QED BY <2>1, <1>b, CallbacksKept
<1>4. ASSUME NEW m \in Machines, WorkerUnlist(m) PROVE Callbacks'
  BY <1>4, <1>a, <1>b DEF WorkerUnlist, At, Unlist, WorkerFrame, Jobs, Idle,
     Types, ActorTypes, objects, actors
<1>5. ASSUME NEW m \in Machines, WorkerRetire(m) PROVE Callbacks'
  BY <1>5, <1>a, <1>b DEF WorkerRetire, At, Retire, WorkerFrame, Jobs, Idle,
     Types, ActorTypes, objects, actors
<1>6. ASSUME NEW m \in Machines, WorkerForget(m) PROVE Callbacks'
  BY <1>6, <1>a, <1>b DEF WorkerForget, At, Go, Done, Forget, WorkerFrame,
     Jobs, Idle, Types, ActorTypes, objects, actors
<1>7. ASSUME NEW m \in Machines, WorkerRegister(m) PROVE Callbacks'
  BY <1>7, <1>a, <1>b DEF WorkerRegister, At, Go, Done, WorkerFrame, Jobs,
     Idle, Types, ActorTypes, objects, actors
<1>8. ASSUME NEW m \in Machines, WorkerList(m) PROVE Callbacks'
  BY <1>8, <1>a, <1>b DEF WorkerList, At, Advance, WorkerFrame, Jobs, Idle,
     Types, ActorTypes, objects, actors
<1>9. ASSUME NEW m \in Machines, WorkerCheck(m) PROVE Callbacks'
  BY <1>9, <1>a, <1>b DEF WorkerCheck, At, Go, Done, WorkerFrame, Jobs, Idle,
     Types, ActorTypes, objects, actors
<1>10. ASSUME NEW m \in Machines, WorkerAssign(m) PROVE Callbacks'
  BY <1>10, <1>a, <1>b DEF WorkerAssign, At, Go, Assign, WorkerFrame, Jobs,
     Idle, Types, ActorTypes, objects, actors
<1>11. ASSUME NEW m \in Machines, WorkerEnable(m) PROVE Callbacks'
  BY <1>11, <1>a, <1>b DEF WorkerEnable, At, Done, Enable, WorkerFrame, Jobs,
     Idle, Types, ActorTypes, objects, actors
<1>12. ASSUME NEW m \in Machines, SpawnRestarter(m) PROVE Callbacks'
  BY <1>12, <1>a, <1>b DEF SpawnRestarter, RestarterFrame, Restarters, Calm,
     Types, ActorTypes, objects, actors
<1>13. ASSUME NEW m \in Machines, RestarterStop(m) PROVE Callbacks'
  BY <1>13, <1>a, <1>b DEF RestarterStop, Retire, RestarterFrame, Restarters,
     Calm, Types, ActorTypes, objects, actors
<1>14. ASSUME NEW m \in Machines, RestarterCheck(m) PROVE Callbacks'
  BY <1>14, <1>a, <1>b DEF RestarterCheck, Advance, RestarterFrame,
     Restarters, Calm, Types, ActorTypes, objects, actors
<1>15. ASSUME NEW m \in Machines, RestarterAssign(m) PROVE Callbacks'
  BY <1>15, <1>a, <1>b DEF RestarterAssign, Assign, RestarterFrame,
     Restarters, Calm, Types, ActorTypes, objects, actors
<1>16. ASSUME NEW m \in Machines, RestarterEnable(m) PROVE Callbacks'
  BY <1>16, <1>a, <1>b DEF RestarterEnable, Enable, RestarterFrame,
     Restarters, Calm, Types, ActorTypes, objects, actors
<1>17. ASSUME NEW p \in storage.todo, Quiesce(p) PROVE Callbacks'
  <2>1. storage.step = "quiesce" /\ storage \in Storages
    BY <1>17 DEF Quiesce, Types, ActorTypes
  <2>2. /\ storage'.todo \subseteq storage.todo /\ storage'.step \in {"idle", "quiesce"}
        /\ storage'.state = storage.state
    BY <1>17, <2>1 DEF Quiesce, Finished, Storages
  <2>3. UNCHANGED sessions
    BY <1>17 DEF Quiesce, Retire
  <2> QED BY <2>1, <2>2, <2>3, <1>b DEF Served, accepting
<1>18. ASSUME NEW p \in storage.todo, Recover(p) PROVE Callbacks'
  <2>1. storage.step = "recover" /\ storage \in Storages
    BY <1>18 DEF Recover, Types, ActorTypes
  <2>2. UNCHANGED <<sessions, live>>
    BY <1>18 DEF Recover
  <2>3. CASE machines[p[1]] = Off
    <3>1. /\ storage'.todo \subseteq storage.todo /\ storage'.step \in {"idle", "recover"}
          /\ storage'.state = storage.state
      <4>1. storage' = Finished(storage.todo \ {p})
        BY <1>18, <2>3 DEF Recover
      <4> QED BY <2>1, <4>1 DEF Finished, Storages
    <3> QED BY <2>1, <2>2, <3>1, <1>b DEF Served, accepting
  <2>4. CASE machines[p[1]] # Off
    <3>1. /\ storage'.todo = storage.todo \ {p} /\ storage'.step = "assign"
          /\ storage'.state = storage.state /\ storage'.at = p
      BY <1>18, <2>1, <2>4 DEF Recover, Storages
    <3> QED BY <2>1, <2>2, <3>1, <1>b DEF Served, accepting
  <2> QED BY <2>3, <2>4
<1>19. CASE RecoverAssign
  <2>1. storage.step = "assign" /\ storage \in Storages
    BY <1>19 DEF RecoverAssign, Types, ActorTypes
  <2>2. UNCHANGED <<sessions, live>>
    BY <1>19 DEF RecoverAssign, Assign
  <2>3. /\ storage'.todo = storage.todo /\ storage'.step = "enable"
        /\ storage'.state = storage.state /\ storage'.at = storage.at
    BY <1>19, <2>1 DEF RecoverAssign, Storages
  <2> QED BY <2>1, <2>2, <2>3, <1>b DEF Served, accepting
<1>20. CASE RecoverEnable
  <2>1. storage.step = "enable" /\ storage \in Storages /\ storage.at \in Pairs
    BY <1>20 DEF RecoverEnable, Types, ActorTypes, InHand
  <2>2. UNCHANGED sessions
    BY <1>20 DEF RecoverEnable
  <2>3. \A x \in Machines : x # storage.at[1] => live'[x] = live[x]
    BY <1>20 DEF RecoverEnable, Enable, Types, ObjectTypes
  <2>4. /\ storage'.todo = storage.todo /\ storage'.step \in {"idle", "recover"}
        /\ storage'.state = storage.state
    BY <1>20, <2>1 DEF RecoverEnable, Finished, Storages
  <2>5. ASSUME ~overlap, NEW p \in storage.todo PROVE p[1] \in Machines /\ p[1] # storage.at[1]
    <3>1. p \in Pairs
      BY DEF Types, ActorTypes, Storages
    <3>2. Served(p) /\ Served(storage.at) /\ p # storage.at
      BY <2>1, <2>5
    <3> QED BY <2>1, <3>1, <3>2 DEF Pairs, Served
  <2>6. ~overlap => accepting /\ \A p \in storage.todo : Served(p) /\ live'[p[1]] = {}
    BY <2>1, <2>3, <2>5
  <2>7. accepting' = accepting
    BY <2>4 DEF accepting
  <2>8. \A p : Served(p)' <=> Served(p)
    BY <2>2 DEF Served
  <2> QED BY <2>4, <2>6, <2>7, <2>8, <1>b
<1>21. ASSUME NEW l \in Levels, NEW f \in BOOLEAN, NEW i \in BOOLEAN,
            Sample(l, f, i) PROVE Callbacks'
  <2>1. UNCHANGED <<sessions, live, host, job, restarter, teardown, late>>
    BY <1>21 DEF Sample, objects
  <2>2. \A p \in Listed : p[1] \in Machines /\ Served(p) /\ sessions[p[1]] # 0
    BY DEF Listed, Served
  <2>3. ASSUME ~overlap, storage'.step # "idle", ~accepting, NEW x \in Machines,
               sessions[x] # 0, ~overlap'
        PROVE  live[x] = {}
    <3>1. job[x].pc = "idle" /\ teardown[x].pc = "idle" /\ storage.step = "idle"
      BY <1>21, <2>1, <2>3, <1>b, SampleDoes
    <3>2. host[x][sessions[x]] \notin live[x]
      BY <2>3, <3>1 DEF Quiet
    <3>3. \A h \in live[x] : h = host[x][sessions[x]]
      BY <2>3, <3>1 DEF Owned, OwnedAt, Owner
    <3> QED BY <3>2, <3>3
  <2>4. storage'.step # "idle" =>
          \/ storage'.step = "quiesce" /\ ~accepting'
          \/ storage'.step = "recover" /\ accepting' /\ ~accepting
    <3>1. storage'.step # "idle" =>
            /\ storage'.state \in States
            /\ IF storage'.state \in {"critical", "recovering"} THEN storage'.step = "quiesce"
               ELSE ~accepting /\ storage'.step = "recover"
      BY <1>21, SampleDoes
    <3> QED BY <3>1 DEF accepting, States
  <2>5. storage'.step # "idle" => storage'.todo = Listed
    BY <1>21, SampleDoes
  <2> QED BY <2>1, <2>2, <2>3, <2>4, <2>5, <1>b DEF Served
<1>22. CASE Stop
  <2>1. UNCHANGED <<storage, sessions, live>>
    BY <1>22 DEF Stop, objects, actors
  <2> QED BY <2>1, <1>b, CallbacksKept
<1>23. CASE StopSessions
  <2>1. UNCHANGED <<storage, sessions, live>>
    BY <1>23 DEF StopSessions, objects, actors
  <2> QED BY <2>1, <1>b, CallbacksKept
<1>24. ASSUME NEW m \in Machines, StopUnlist(m) PROVE Callbacks'
  BY <1>24, <1>a, <1>b DEF StopUnlist, Unlist, StopFrame, Teardowns, Calm,
     Types, ActorTypes, objects, actors
<1>25. ASSUME NEW m \in Machines, StopRetire(m) PROVE Callbacks'
  BY <1>25, <1>a, <1>b DEF StopRetire, Retire, StopFrame, Teardowns, Calm,
     Types, ActorTypes, objects, actors
<1>26. ASSUME NEW m \in Machines, StopForget(m) PROVE Callbacks'
  BY <1>26, <1>a, <1>b DEF StopForget, Forget, StopFrame, Teardowns, Calm,
     Types, ActorTypes, objects, actors
<1>27. CASE StopDone
  <2>1. UNCHANGED <<storage, sessions, live>>
    BY <1>27 DEF StopDone, objects, actors
  <2> QED BY <2>1, <1>b, CallbacksKept
<1>28. ASSUME NEW m \in Machines, Connect(m) PROVE Callbacks'
  <2>1. UNCHANGED <<storage, sessions, live>>
    BY <1>28 DEF Connect, objects, actors
  <2> QED BY <2>1, <1>b, CallbacksKept
<1>29. ASSUME NEW m \in Machines, Disconnect(m) PROVE Callbacks'
  <2>1. UNCHANGED <<storage, sessions, live>>
    BY <1>29 DEF Disconnect, objects, actors
  <2> QED BY <2>1, <1>b, CallbacksKept
<1>30. CASE EditFile
  <2>1. UNCHANGED <<storage, sessions, live>>
    BY <1>30 DEF EditFile, objects, actors
  <2> QED BY <2>1, <1>b, CallbacksKept
<1>31. CASE UNCHANGED vars
  <2>1. UNCHANGED <<storage, sessions, live>>
    BY <1>31 DEF vars, objects, actors
  <2> QED BY <2>1, <1>b, CallbacksKept
<1>32. ASSUME NEW m \in Machines, WorkerStopFails(m) PROVE Callbacks'
  <2>1. UNCHANGED <<storage, sessions, live>>
    BY <1>32, WorkerStopFailsDoes DEF objects
  <2> QED BY <2>1, <1>b, CallbacksKept
<1>33. CASE StopFails
  <2>1. UNCHANGED <<storage, sessions, live>>
    BY <1>33 DEF StopFails, objects
  <2> QED BY <2>1, <1>b, CallbacksKept
<1> QED
  BY <1>1, <1>2, <1>3, <1>4, <1>5, <1>6, <1>7, <1>8, <1>9, <1>10, <1>11,
     <1>12, <1>13, <1>14, <1>15, <1>16, <1>17, <1>18, <1>19, <1>20, <1>21,
     <1>22, <1>23, <1>24, <1>25, <1>26, <1>27, <1>28, <1>29, <1>30, <1>31, <1>32, <1>33,
     Tracks DEF Step, Callback, Worker, Restarter, Rest

(* Retiring a host disturbs nobody while the disk is full.                  *)
LEMMA RetireQuiet ==
  ASSUME Types, NEW m \in Machines, NEW s \in NoOr(Sids), Retire(m, s)
  PROVE  /\ UNCHANGED sessions
         /\ \A x \in Machines : sessions[x] # 0 =>
              /\ host[x][sessions[x]] \notin live[x]
                   => host'[x][sessions[x]] \notin live'[x]
              /\ x = m /\ sessions[x] = s => host'[x][sessions[x]] \notin live'[x]
<1>1. UNCHANGED sessions
  BY DEF Retire
<1>2. ASSUME NEW x \in Machines, sessions[x] # 0
      PROVE  /\ host[x][sessions[x]] \notin live[x]
                  => host'[x][sessions[x]] \notin live'[x]
             /\ x = m /\ sessions[x] = s => host'[x][sessions[x]] \notin live'[x]
  <2>1. sessions[x] \in Sids
    BY <1>2 DEF Types, ObjectTypes, NoOr
  <2>2. live'[x] \subseteq live[x] /\ 0 \notin live[x]
    BY RetireKeeps, Ranges DEF Types, ObjectTypes
  <2>3. /\ host'[x][sessions[x]] \in {host[x][sessions[x]], 0}
        /\ host[x][sessions[x]] \in live'[x] => (x = m => sessions[x] # s)
    BY <2>1, RetireKeeps
  <2> QED BY <2>2, <2>3
<1> QED BY <1>1, <1>2

(* While the disk is full nobody starts a session.                          *)
LEMMA QuietStep ==
  ASSUME Types, InHand, Stops, Listing, Callbacks, Quiet, Watched, [Next]_vars
  PROVE  Quiet'
<1> USE DEF Quiet, accepting
<1>a. ~overlap => \A x \in Machines : storage.step # "idle" =>
                job[x].pc = "idle" /\ restarter[x].pc = "idle" /\ teardown[x].pc = "idle"
  BY DEF Watched, Overlapping
<1>b. ~overlap' => /\ ~overlap
                   /\ \A x \in Machines : storage'.step # "idle" =>
                        /\ job'[x].pc = "idle" /\ restarter'[x].pc = "idle"
                        /\ teardown'[x].pc = "idle"
  BY Tracks DEF Watched, Overlapping
<1>c. late => late'
  BY LateStays
<1>1. CASE Reconcile
  <2>1. UNCHANGED <<storage, sessions, host, live, restarter>>
    BY <1>1 DEF Reconcile, objects
  <2>2. \A x \in Machines : job'[x].pc \in {"idle", "unlist", "register"}
    BY <1>1 DEF Reconcile, Work, Idle
  <2> QED BY <2>1, <2>2, <1>b
<1>2. ASSUME NEW m \in Machines, RestartCommand(m) PROVE Quiet'
  BY <1>2, <1>a, <1>b, <1>c DEF RestartCommand, Jobs, Idle, Types, ActorTypes,
     objects, actors
<1>3. CASE SupervisorDone
  BY <1>3, <1>a, <1>b, <1>c DEF SupervisorDone, Types, ActorTypes, objects,
     actors
<1>4. ASSUME NEW m \in Machines, WorkerUnlist(m) PROVE Quiet'
  <2>1. sessions'[m] = 0 /\ \A x \in Machines \ {m} : sessions'[x] = sessions[x]
    BY <1>4 DEF WorkerUnlist, Unlist, Types, ObjectTypes
  <2>2. restarter[m].pc # "idle" => restarter[m].s # 0
    BY Ranges DEF InHand
  <2>3. job'[m].pc = "retire" /\ \A x \in Machines \ {m} : job'[x] = job[x]
    BY <1>4 DEF WorkerUnlist, Types, ActorTypes, Jobs
  <2>4. UNCHANGED <<live, host, restarter, storage>>
    BY <1>4 DEF WorkerUnlist, Unlist, WorkerFrame
  <2> QED BY <2>1, <2>2, <2>3, <2>4, <1>b
<1>5. ASSUME NEW m \in Machines, WorkerRetire(m) PROVE Quiet'
  <2>1. job[m].s \in NoOr(Sids) /\ Retire(m, job[m].s)
    BY <1>5 DEF WorkerRetire, Types, ActorTypes, Jobs
  <2>2. UNCHANGED <<restarter, storage>>
    BY <1>5 DEF WorkerRetire, WorkerFrame
  <2>3. \A x \in Machines : job'[x] = job[x] \/ job'[x].pc = "forget"
    BY <1>5 DEF WorkerRetire, Jobs, Types, ActorTypes
  <2> QED BY <2>1, <2>2, <2>3, <1>b, RetireQuiet
<1>6. ASSUME NEW m \in Machines, WorkerForget(m) PROVE Quiet'
  BY <1>6, <1>a, <1>b, <1>c DEF WorkerForget, At, Go, Done, Forget,
     WorkerFrame, Jobs, Idle, Types, ActorTypes, objects, actors
<1>7. ASSUME NEW m \in Machines, WorkerRegister(m) PROVE Quiet'
  <2>1. /\ job'[m].pc \in {"list", "unlist", "idle"}
        /\ \A x \in Machines \ {m} : job'[x] = job[x]
    BY <1>7, WorkerRegisterDoes
  <2>2. UNCHANGED <<sessions, live, host, restarter, storage>>
    BY <1>7 DEF WorkerRegister, WorkerFrame, objects
  <2> QED BY <2>1, <2>2, <1>b, <1>c
<1>8. ASSUME NEW m \in Machines, WorkerList(m) PROVE Quiet'
  <2> DEFINE s == Pick(FreeSessions(m))
  <2>1. s \in Sids /\ s # restarter[m].s
    BY <1>8, FreeIsFree DEF WorkerList
  <2>2. sessions' = [sessions EXCEPT ![m] = s] /\ host' = [host EXCEPT ![m][s] = 0]
    BY <1>8 DEF WorkerList
  <2>3. job'[m].pc = "check" /\ \A x \in Machines \ {m} : job'[x] = job[x]
    BY <1>8 DEF WorkerList, Types, ActorTypes, Jobs
  <2>4. UNCHANGED <<live, restarter, storage>>
    BY <1>8 DEF WorkerList, WorkerFrame
  <2> HIDE DEF s
  <2>5. sessions'[m] = s /\ host'[m][s] = 0 /\ 0 \notin live[m]
    BY <2>1, <2>2, Ranges DEF Types, ObjectTypes
  <2>6. \A x \in Machines \ {m} : sessions'[x] = sessions[x] /\ host'[x] = host[x]
    BY <2>2 DEF Types, ObjectTypes
  <2> QED BY <2>1, <2>3, <2>4, <2>5, <2>6, <1>b
<1>9. ASSUME NEW m \in Machines, WorkerCheck(m) PROVE Quiet'
  <2>1. UNCHANGED <<sessions, live, host, restarter, storage>>
    BY <1>9 DEF WorkerCheck, WorkerFrame, objects
  <2>2. /\ job'[m].pc = "idle" \/ (accepting /\ job'[m].pc = "assign")
        /\ \A x \in Machines \ {m} : job'[x] = job[x]
    <3>1. job \in [Machines -> Jobs]
      BY DEF Types, ActorTypes
    <3>2. (accepting /\ Go(m, "assign")) \/ Done(m)
      BY <1>9 DEF WorkerCheck
    <3> QED BY <3>1, <3>2 DEF Go, Done, Idle, Jobs
  <2> QED BY <2>1, <2>2, <1>b
<1>10. ASSUME NEW m \in Machines, WorkerAssign(m) PROVE Quiet'
  BY <1>10, <1>a, <1>b, <1>c DEF WorkerAssign, At, Go, Assign, WorkerFrame,
     Jobs, Idle, Types, ActorTypes, objects, actors
<1>11. ASSUME NEW m \in Machines, WorkerEnable(m) PROVE Quiet'
  BY <1>11, <1>a, <1>b, <1>c DEF WorkerEnable, At, Done, Enable, WorkerFrame,
     Jobs, Idle, Types, ActorTypes, objects, actors
<1>12. ASSUME NEW m \in Machines, SpawnRestarter(m) PROVE Quiet'
  BY <1>12, <1>a, <1>b, <1>c DEF SpawnRestarter, RestarterFrame, Restarters,
     Calm, Types, ActorTypes, objects, actors
<1>13. ASSUME NEW m \in Machines, RestarterStop(m) PROVE Quiet'
  <2>1. UNCHANGED <<job, storage>>
    BY <1>13 DEF RestarterStop, RestarterFrame
  <2>2. restarter[m].s \in NoOr(Sids)
    BY DEF Types, ActorTypes, Restarters
  <2>3. CASE Retire(m, restarter[m].s)
    BY <1>13, <2>1, <2>2, <2>3, <1>b, RetireQuiet, RestarterDoes
  <2>4. CASE UNCHANGED objects
    BY <1>13, <2>1, <2>4, <1>b, RestarterDoes DEF objects
  <2> QED BY <1>13, <2>3, <2>4 DEF RestarterStop
<1>14. ASSUME NEW m \in Machines, RestarterCheck(m) PROVE Quiet'
  BY <1>14, <1>a, <1>b, <1>c DEF RestarterCheck, Advance, RestarterFrame,
     Restarters, Calm, Types, ActorTypes, objects, actors
<1>15. ASSUME NEW m \in Machines, RestarterAssign(m) PROVE Quiet'
  BY <1>15, <1>a, <1>b, <1>c DEF RestarterAssign, Assign, RestarterFrame,
     Restarters, Calm, Types, ActorTypes, objects, actors
<1>16. ASSUME NEW m \in Machines, RestarterEnable(m) PROVE Quiet'
  BY <1>16, <1>a, <1>b, <1>c DEF RestarterEnable, Enable, RestarterFrame,
     Restarters, Calm, Types, ActorTypes, objects, actors
<1>17. ASSUME NEW p \in storage.todo, Quiesce(p) PROVE Quiet'
  <2>1. storage.step = "quiesce" /\ storage \in Storages
    BY <1>17 DEF Quiesce, Types, ActorTypes
  <2>2. p[1] \in Machines /\ p[2] \in NoOr(Sids) /\ p = <<p[1], p[2]>>
    BY <2>1 DEF Storages, Pairs, NoOr
  <2>3. UNCHANGED <<job, restarter>> /\ Retire(p[1], p[2])
    BY <1>17 DEF Quiesce, StorageFrame
  <2>4. /\ storage'.todo = storage.todo \ {p} /\ storage'.state = storage.state
        /\ storage'.step = "idle" => storage.todo \ {p} = {}
    BY <1>17, <2>1 DEF Quiesce, Finished, Storages
  <2>5. \A x \in Machines : <<x, sessions[x]>> = p => x = p[1] /\ sessions[x] = p[2]
    BY <2>2
  <2> QED BY <2>1, <2>2, <2>3, <2>4, <2>5, <1>b, RetireQuiet
<1>18. ASSUME NEW p \in storage.todo, Recover(p) PROVE Quiet'
  <2>1. overlap' \/ accepting'
    <3>1. storage'.state = storage.state /\ storage.step \in {"recover", "assign", "enable"}
      BY <1>18 DEF Recover, Finished, Storages, Types, ActorTypes
    <3> QED BY <1>18, <3>1, <1>b DEF Callbacks, accepting
  <2> QED BY <2>1
<1>19. CASE RecoverAssign
  <2>1. overlap' \/ accepting'
    <3>1. storage'.state = storage.state /\ storage.step \in {"recover", "assign", "enable"}
      BY <1>19 DEF RecoverAssign, Finished, Storages, Types, ActorTypes
    <3> QED BY <1>19, <3>1, <1>b DEF Callbacks, accepting
  <2> QED BY <2>1
<1>20. CASE RecoverEnable
  <2>1. overlap' \/ accepting'
    <3>1. storage'.state = storage.state /\ storage.step \in {"recover", "assign", "enable"}
      BY <1>20 DEF RecoverEnable, Finished, Storages, Types, ActorTypes
    <3> QED BY <1>20, <3>1, <1>b DEF Callbacks, accepting
  <2> QED BY <2>1
<1>21. ASSUME NEW l \in Levels, NEW f \in BOOLEAN, NEW i \in BOOLEAN,
            Sample(l, f, i) PROVE Quiet'
  <2>1. UNCHANGED <<sessions, live, host, job, restarter>> /\ running
    BY <1>21 DEF Sample, objects
  <2>2. ~late
    BY <2>1 DEF Stops
  <2>3. CASE Listed = {}
    <3>1. \A x \in Machines : sessions[x] = 0
      BY <2>3 DEF Listed
    <3>2. \A x \in Machines :
            /\ job[x].pc \notin {"assign", "enable"}
            /\ restarter[x].pc # "idle" => restarter[x].s # 0
            /\ restarter[x].pc \notin {"assign", "enable"}
      BY <2>2, <3>1, Ranges DEF Listing, InHand, StartPcs
    <3>3. \A x \in Machines :
            job'[x] = job[x] /\ restarter'[x] = restarter[x] /\ sessions'[x] = 0
      BY <2>1, <3>1
    <3> QED BY <3>2, <3>3
  <2>4. CASE Listed # {}
    <3>1. CASE storage'.step = "idle"
      <4>1. ~accepting' => ~accepting /\ storage.step = "idle"
        BY <1>21, <2>4, <3>1, SampleDoes DEF accepting, States
      <4> QED BY <2>1, <3>1, <4>1, <1>b
    <3>2. CASE storage'.step # "idle"
      <4>1. storage'.todo = Listed
        BY <1>21, <2>4, <3>2, SampleDoes
      <4>2. ~overlap' => \A x \in Machines : job[x].pc = "idle" /\ restarter[x].pc = "idle"
        BY <2>1, <3>2, <1>b
      <4>3. \A x \in Machines : sessions[x] # 0 => <<x, sessions[x]>> \in Listed
        BY DEF Listed
      <4> QED BY <2>1, <3>2, <4>1, <4>2, <4>3, <1>b
    <3> QED BY <3>1, <3>2
  <2> QED BY <2>3, <2>4
<1>22. CASE Stop
  BY <1>22, <1>a, <1>b, <1>c DEF Stop, Types, ActorTypes, objects, actors
<1>23. CASE StopSessions
  BY <1>23, <1>a, <1>b, <1>c DEF StopSessions, Teardowns, Calm, Types,
     ActorTypes, objects, actors
<1>24. ASSUME NEW m \in Machines, StopUnlist(m) PROVE Quiet'
  <2>1. sessions'[m] = 0 /\ \A x \in Machines \ {m} : sessions'[x] = sessions[x]
    BY <1>24 DEF StopUnlist, Unlist, Types, ObjectTypes
  <2>2. restarter[m].pc # "idle" => restarter[m].s # 0
    BY Ranges DEF InHand
  <2>3. UNCHANGED <<live, host, restarter, job, storage>>
    BY <1>24 DEF StopUnlist, Unlist, StopFrame
  <2> QED BY <2>1, <2>2, <2>3, <1>b
<1>25. ASSUME NEW m \in Machines, StopRetire(m) PROVE Quiet'
  <2>1. teardown[m].s \in NoOr(Sids) /\ Retire(m, teardown[m].s)
    BY <1>25 DEF StopRetire, Types, ActorTypes, Teardowns
  <2>2. UNCHANGED <<restarter, storage>>
    BY <1>25 DEF StopRetire, StopFrame
  <2>3. \A x \in Machines : job'[x] = job[x] \/ job'[x].pc = "forget"
    BY <1>25 DEF StopRetire, StopFrame
  <2> QED BY <2>1, <2>2, <2>3, <1>b, RetireQuiet
<1>26. ASSUME NEW m \in Machines, StopForget(m) PROVE Quiet'
  BY <1>26, <1>a, <1>b, <1>c DEF StopForget, Forget, StopFrame, Teardowns,
     Calm, Types, ActorTypes, objects, actors
<1>27. CASE StopDone
  BY <1>27, <1>a, <1>b, <1>c DEF StopDone, Types, ActorTypes, objects, actors
<1>28. ASSUME NEW m \in Machines, Connect(m) PROVE Quiet'
  BY <1>28, <1>a, <1>b, <1>c DEF Connect, Types, ActorTypes, objects, actors
<1>29. ASSUME NEW m \in Machines, Disconnect(m) PROVE Quiet'
  BY <1>29, <1>a, <1>b, <1>c DEF Disconnect, Types, ActorTypes, objects,
     actors
<1>30. CASE EditFile
  BY <1>30, <1>a, <1>b, <1>c DEF EditFile, Types, ActorTypes, objects, actors
<1>31. CASE UNCHANGED vars
  BY <1>31, <1>b DEF vars, objects, actors
<1>32. ASSUME NEW m \in Machines, WorkerStopFails(m) PROVE Quiet'
  BY <1>32, <1>b, <1>c, WorkerStopFailsDoes DEF Idle, objects
<1>33. CASE StopFails
  BY <1>33, <1>b, <1>c DEF StopFails, objects
<1> QED
  BY <1>1, <1>2, <1>3, <1>4, <1>5, <1>6, <1>7, <1>8, <1>9, <1>10, <1>11,
     <1>12, <1>13, <1>14, <1>15, <1>16, <1>17, <1>18, <1>19, <1>20, <1>21,
     <1>22, <1>23, <1>24, <1>25, <1>26, <1>27, <1>28, <1>29, <1>30, <1>31, <1>32, <1>33,
     Tracks DEF Step, Callback, Worker, Restarter, Rest

-----------------------------------------------------------------------------
LifecycleInv == /\ Basics /\ Follows /\ Unlisted /\ Fresh /\ Listing
                /\ Generations /\ Owned /\ Empty /\ Callbacks /\ Quiet

HostsKept == \A x \in Machines, t \in Sids : host'[x][t] \in {0, host[x][t]}

Assigns == \/ \E m \in Machines : WorkerAssign(m) \/ RestarterAssign(m)
           \/ RecoverAssign

(* No other step gives a session a new host.                                *)
LEMMA OnlyAssigns ==
  ASSUME Types, Watched, [Next]_vars
  PROVE  HostsKept \/ Assigns
<1>1. CASE Reconcile
  BY <1>1 DEF HostsKept, Reconcile, Types, ObjectTypes, objects
<1>2. ASSUME NEW m \in Machines, RestartCommand(m) PROVE HostsKept \/ Assigns
  BY <1>2 DEF HostsKept, RestartCommand, Types, ObjectTypes, objects
<1>3. CASE SupervisorDone
  BY <1>3 DEF HostsKept, SupervisorDone, Types, ObjectTypes, objects
<1>4. ASSUME NEW m \in Machines, WorkerUnlist(m) PROVE HostsKept \/ Assigns
  BY <1>4 DEF HostsKept, WorkerUnlist, At, Unlist, WorkerFrame, Types, ObjectTypes,
     objects
<1>5. ASSUME NEW m \in Machines, WorkerRetire(m) PROVE HostsKept \/ Assigns
  <2>1. job[m].s \in NoOr(Sids) /\ Retire(m, job[m].s)
    BY <1>5 DEF HostsKept, WorkerRetire, Types, ActorTypes, Jobs
  <2> QED BY <2>1, RetireKeeps DEF HostsKept
<1>6. ASSUME NEW m \in Machines, WorkerForget(m) PROVE HostsKept \/ Assigns
  BY <1>6 DEF HostsKept, WorkerForget, At, Go, Done, Forget, WorkerFrame, Types,
     ObjectTypes, objects
<1>7. ASSUME NEW m \in Machines, WorkerRegister(m) PROVE HostsKept \/ Assigns
  BY <1>7 DEF HostsKept, WorkerRegister, At, Go, Done, WorkerFrame, Types, ObjectTypes,
     objects
<1>8. ASSUME NEW m \in Machines, WorkerList(m) PROVE HostsKept \/ Assigns
  BY <1>8 DEF HostsKept, WorkerList, At, Advance, WorkerFrame, Types, ObjectTypes,
     objects
<1>9. ASSUME NEW m \in Machines, WorkerCheck(m) PROVE HostsKept \/ Assigns
  BY <1>9 DEF HostsKept, WorkerCheck, At, Go, Done, WorkerFrame, Types, ObjectTypes,
     objects
<1>10. ASSUME NEW m \in Machines, WorkerAssign(m) PROVE HostsKept \/ Assigns
  BY <1>10 DEF HostsKept, Assigns
<1>11. ASSUME NEW m \in Machines, WorkerEnable(m) PROVE HostsKept \/ Assigns
  BY <1>11 DEF HostsKept, WorkerEnable, At, Done, Enable, WorkerFrame, Types,
     ObjectTypes, objects
<1>12. ASSUME NEW m \in Machines, SpawnRestarter(m) PROVE HostsKept \/ Assigns
  BY <1>12 DEF HostsKept, SpawnRestarter, RestarterFrame, Types, ObjectTypes, objects
<1>13. ASSUME NEW m \in Machines, RestarterStop(m) PROVE HostsKept \/ Assigns
  <2>1. restarter[m].s \in NoOr(Sids)
    BY DEF HostsKept, Types, ActorTypes, Restarters
  <2>2. Retire(m, restarter[m].s) \/ UNCHANGED objects
    BY <1>13 DEF HostsKept, RestarterStop
  <2> QED BY <2>1, <2>2, RetireKeeps DEF HostsKept, objects
<1>14. ASSUME NEW m \in Machines, RestarterCheck(m) PROVE HostsKept \/ Assigns
  BY <1>14 DEF HostsKept, RestarterCheck, Advance, RestarterFrame, Types, ObjectTypes,
     objects
<1>15. ASSUME NEW m \in Machines, RestarterAssign(m) PROVE HostsKept \/ Assigns
  BY <1>15 DEF HostsKept, Assigns
<1>16. ASSUME NEW m \in Machines, RestarterEnable(m) PROVE HostsKept \/ Assigns
  BY <1>16 DEF HostsKept, RestarterEnable, Enable, RestarterFrame, Types, ObjectTypes,
     objects
<1>17. ASSUME NEW p \in storage.todo, Quiesce(p) PROVE HostsKept \/ Assigns
  <2>1. p[1] \in Machines /\ p[2] \in NoOr(Sids)
    BY DEF HostsKept, Types, ActorTypes, Storages, Pairs, NoOr
  <2>2. Retire(p[1], p[2])
    BY <1>17 DEF HostsKept, Quiesce
  <2> QED BY <2>1, <2>2, RetireKeeps DEF HostsKept
<1>18. ASSUME NEW p \in storage.todo, Recover(p) PROVE HostsKept \/ Assigns
  BY <1>18 DEF HostsKept, Recover, Advance, Finished, StorageFrame, Types, ObjectTypes,
     objects
<1>19. CASE RecoverAssign
  BY <1>19 DEF HostsKept, Assigns
<1>20. CASE RecoverEnable
  BY <1>20 DEF HostsKept, RecoverEnable, Enable, Finished, StorageFrame, Types,
     ObjectTypes, objects
<1>21. ASSUME NEW l \in Levels, NEW f \in BOOLEAN, NEW i \in BOOLEAN,
            Sample(l, f, i) PROVE HostsKept \/ Assigns
  BY <1>21 DEF HostsKept, Sample, Types, ObjectTypes, objects
<1>22. CASE Stop
  BY <1>22 DEF HostsKept, Stop, Types, ObjectTypes, objects
<1>23. CASE StopSessions
  BY <1>23 DEF HostsKept, StopSessions, Types, ObjectTypes, objects
<1>24. ASSUME NEW m \in Machines, StopUnlist(m) PROVE HostsKept \/ Assigns
  BY <1>24 DEF HostsKept, StopUnlist, Unlist, StopFrame, Types, ObjectTypes, objects
<1>25. ASSUME NEW m \in Machines, StopRetire(m) PROVE HostsKept \/ Assigns
  <2>1. teardown[m].s \in NoOr(Sids) /\ Retire(m, teardown[m].s)
    BY <1>25 DEF HostsKept, StopRetire, Types, ActorTypes, Teardowns
  <2> QED BY <2>1, RetireKeeps DEF HostsKept
<1>26. ASSUME NEW m \in Machines, StopForget(m) PROVE HostsKept \/ Assigns
  BY <1>26 DEF HostsKept, StopForget, Forget, StopFrame, Types, ObjectTypes, objects
<1>27. CASE StopDone
  BY <1>27 DEF HostsKept, StopDone, Types, ObjectTypes, objects
<1>28. ASSUME NEW m \in Machines, Connect(m) PROVE HostsKept \/ Assigns
  BY <1>28 DEF HostsKept, Connect, Types, ObjectTypes, objects
<1>29. ASSUME NEW m \in Machines, Disconnect(m) PROVE HostsKept \/ Assigns
  BY <1>29 DEF HostsKept, Disconnect, Types, ObjectTypes, objects
<1>30. CASE EditFile
  BY <1>30 DEF HostsKept, EditFile, Types, ObjectTypes, objects
<1>31. CASE UNCHANGED vars
  BY <1>31 DEF HostsKept, vars, objects
<1>32. ASSUME NEW m \in Machines, WorkerStopFails(m) PROVE HostsKept \/ Assigns
  BY <1>32, WorkerStopFailsDoes DEF HostsKept, Types, ObjectTypes, objects
<1>33. CASE StopFails
  BY <1>33 DEF HostsKept, StopFails, Types, ObjectTypes, objects
<1> QED
  BY <1>1, <1>2, <1>3, <1>4, <1>5, <1>6, <1>7, <1>8, <1>9, <1>10, <1>11,
     <1>12, <1>13, <1>14, <1>15, <1>16, <1>17, <1>18, <1>19, <1>20, <1>21,
     <1>22, <1>23, <1>24, <1>25, <1>26, <1>27, <1>28, <1>29, <1>30, <1>31, <1>32, <1>33,
     Tracks DEF HostsKept, Step, Callback, Worker, Restarter, Rest

LEMMA Inductive == Spec => []LifecycleInv
<1>1. Init => LifecycleInv
  <2> SUFFICES ASSUME Init PROVE LifecycleInv
    OBVIOUS
  <2>1. Types
    <3>1. ConfigTypes
      BY Ranges DEF Init, ConfigTypes, Settings
    <3>2. ObjectTypes
      BY DEF Init, ObjectTypes, NoOr
    <3>3. Idle \in Jobs /\ Calm \in Restarters /\ Calm \in Teardowns
      BY Ranges DEF Idle, Calm, Jobs, Restarters, Teardowns, WorkerPcs, NoOr
    <3>4. storage \in Storages
      BY Ranges DEF Init, Storages, States, StoragePcs
    <3>5. ActorTypes
      BY <3>3, <3>4 DEF Init, ActorTypes
    <3> QED BY <3>1, <3>2, <3>5 DEF Init, Types
  <2>2. /\ \A m \in Machines : /\ job[m].pc = "idle" /\ ~job[m].fresh
                               /\ restarter[m].pc = "idle"
                               /\ teardown[m].pc = "idle" /\ sessions[m] = 0
                               /\ live[m] = {} /\ wedged[m] = {} /\ slot[m] = 0
                               /\ applied[m] = Off
        /\ storage.step = "idle" /\ storage.state = "normal"
        /\ running = TRUE /\ down = "up" /\ lock = "free" /\ sup = "idle"
        /\ late = FALSE /\ overlap = FALSE
    BY DEF Init, Idle, Calm
  <2>3. Basics
    BY <2>1, <2>2, LifecycleAssumption
       DEF Basics, InHand, Fitted, Linked, Locks, Stops, Watched, Overlapping,
           StartPcs
  <2>4. Follows /\ Unlisted /\ Fresh /\ Listing
    BY <2>2 DEF Follows, Aim, Unlisted, Fresh, Listing, StartPcs
  <2>5. Generations /\ Owned /\ Empty /\ Callbacks /\ Quiet
    BY <2>2 DEF Generations, Owned, OwnedAt, Empty, Callbacks, Quiet, StartPcs,
                accepting
  <2> QED BY <2>3, <2>4, <2>5 DEF LifecycleInv
<1>2. LifecycleInv /\ [Next]_vars => LifecycleInv'
  <2> SUFFICES ASSUME LifecycleInv, [Next]_vars PROVE LifecycleInv'
    OBVIOUS
  <2> USE DEF LifecycleInv, Basics
  <2>1. Basics'
    BY TypesStep, InHandStep, FittedStep, LinkedStep, LocksStep, StopsStep, Tracks
  <2>2. Follows' /\ Unlisted' /\ Fresh' /\ Listing'
    BY FollowsStep, UnlistedStep, FreshStep, ListingStep
  <2>3. Generations' /\ Owned' /\ Empty' /\ Callbacks' /\ Quiet'
    BY GenerationsStep, OwnedStep, EmptyStep, CallbacksStep, QuietStep
  <2> QED BY <2>1, <2>2, <2>3
<1> QED BY <1>1, <1>2, PTL DEF Spec

(* The types, and that the lock is held by who is at work (_reconcile_lock, *)
(* service/__init__.py).                                                    *)
THEOREM LifecycleTypes == Spec => []TypeOK
<1>1. LifecycleInv => TypeOK
  <2> SUFFICES ASSUME LifecycleInv PROVE TypeOK
    OBVIOUS
  <2> USE DEF LifecycleInv, Basics, Types
  <2>1. /\ running \in BOOLEAN
        /\ down \in {"up", "joining", "stopping", "stopped", "failed"}
        /\ sup \in {"idle", "reconcile", "restart", "broken", "dead"}
        /\ unsettled \subseteq Machines
    BY DEF ActorTypes
  <2>2. {file, applied, goal, machines, settings} \subseteq [Machines -> Settings]
    BY DEF ConfigTypes
  <2>3. /\ sessions \in [Machines -> 0 .. NSessions] /\ spent \in [Machines -> BOOLEAN]
        /\ host \in [Machines -> [Sids -> 0 .. NHosts]]
    BY Ranges DEF ObjectTypes
  <2>4. ASSUME NEW m \in Machines
        PROVE  /\ live[m] \subseteq Hosts /\ wedged[m] \subseteq live[m]
               /\ slot[m] \in live[m] \union {0}
               /\ job[m].s \in 0 .. NSessions /\ restarter[m].s \in 0 .. NSessions
               /\ restarter[m].pc \in {"assign", "enable"} <=> lock = m
    <3>1. live[m] \subseteq Hosts
      BY DEF ObjectTypes
    <3>2. job[m].s \in 0 .. NSessions /\ restarter[m].s \in 0 .. NSessions
      BY Ranges DEF ActorTypes, Jobs, Restarters
    <3> QED BY <3>1, <3>2 DEF Linked, Locks
  <2>5. lock = "supervisor" <=> Busy
    BY DEF Locks
  <2>6. storage.count < Debounce
    <3>1. storage.count \in Counts
      BY DEF ActorTypes, Storages
    <3> QED BY <3>1, LifecycleAssumption DEF Counts
  <2>7. {overlap, late} \subseteq BOOLEAN
    BY DEF ActorTypes
  <2> QED BY <2>1, <2>2, <2>3, <2>4, <2>5, <2>6, <2>7 DEF TypeOK
<1> QED BY <1>1, Inductive, PTL

(* The only host of a machine nobody is at work on is that of its listed    *)
(* session, so the next stop of that session retires it (session.stop()).   *)
THEOREM HostsReachable == Spec => []HostsAreReachable
<1>1. LifecycleInv => HostsAreReachable
  <2> SUFFICES ASSUME LifecycleInv, ~overlap, ~late, NEW m \in Machines,
                      job[m].pc = "idle", teardown[m].pc = "idle", NEW h \in live[m]
               PROVE  h \in {host[m][s] : s \in {sessions[m]} \ {0}}
    BY DEF HostsAreReachable
  <2>1. PICK s \in Sids : Owner(m, s) /\ host[m][s] = h
    BY DEF LifecycleInv, Owned, OwnedAt
  <2>2. sessions[m] = s
    BY <2>1 DEF Owner
  <2> QED BY <2>1, <2>2, Ranges
<1> QED BY <1>1, Inductive, PTL

(* One host at a time: reconcile, restart command and watchdog never have   *)
(* two enabled for one tool (gateway/host.py, retire()).                    *)
THEOREM AtMostOneHost == Spec => []OneHost
<1>1. LifecycleInv => OneHost
  <2> SUFFICES ASSUME LifecycleInv, ~overlap, ~late, NEW m \in Machines
               PROVE  Cardinality(live[m]) <= 1
    BY DEF OneHost
  <2>1. OwnedAt(m)
    BY DEF LifecycleInv, Owned
  <2>2. \A s, t \in Sids : Owner(m, s) /\ Owner(m, t) => s = t
    <3>1. sessions[m] # 0 => job[m].pc # "retire" /\ teardown[m].pc # "retire"
      BY DEF LifecycleInv, Unlisted, Listing
    <3>2. job[m].pc = "retire" => teardown[m].pc # "retire"
      BY Excludes DEF LifecycleInv, Basics
    <3> QED BY <3>1, <3>2, Ranges DEF Owner
  <2>3. \A g, h \in live[m] : g = h
    BY <2>1, <2>2 DEF OwnedAt
  <2>4. CASE live[m] = {}
    BY <2>4, FS_EmptySet
  <2>5. CASE live[m] # {}
    <3>1. PICK h \in live[m] : live[m] = {h}
      BY <2>3, <2>5
    <3>2. Cardinality({h}) = 1
      BY FS_Singleton
    <3> QED BY <3>1, <3>2
  <2> QED BY <2>4, <2>5
<1> QED BY <1>1, Inductive, PTL

(* After stop() no host is left, unless it went by a thread that was        *)
(* starting one (service/__init__.py, stop()).                              *)
THEOREM StoppedIsEmpty == Spec => []StopLeavesNothing
<1>1. LifecycleInv => StopLeavesNothing
  <2> SUFFICES ASSUME LifecycleInv, down = "stopped", ~overlap, ~late,
                      NEW m \in Machines
               PROVE  live[m] = {}
    BY DEF StopLeavesNothing
  <2>1. teardown[m].pc = "idle" /\ job[m].pc = "idle"
    BY Excludes DEF LifecycleInv, Basics
  <2>2. sessions[m] = 0
    BY <2>1 DEF LifecycleInv, Listing
  <2> QED BY <2>1, <2>2, Ranges DEF LifecycleInv, Owned, OwnedAt, Owner
<1> QED BY <1>1, Inductive, PTL

(* While the disk is full and the callback is through, nothing is connected *)
(* (_on_storage_transition, service/storage.py).                            *)
THEOREM FullDiskIsQuiet == Spec => []Quiesced
<1>1. LifecycleInv => Quiesced
  <2> SUFFICES ASSUME LifecycleInv, ~accepting, storage.step = "idle", ~overlap,
                      NEW m \in Machines, NEW h \in live[m]
               PROVE  job[m].pc = "retire" \/ teardown[m].pc = "retire"
    BY DEF Quiesced
  <2>1. PICK s \in Sids : Owner(m, s) /\ host[m][s] = h
    BY DEF LifecycleInv, Owned, OwnedAt
  <2>2. sessions[m] # s
    BY <2>1, Ranges DEF LifecycleInv, Quiet
  <2> QED BY <2>1, <2>2 DEF Owner
<1> QED BY <1>1, Inductive, PTL

(* What runs is what the service reports as applied, but for the machines   *)
(* a reconcile has raised on (lifecycle.py, reconcile()).  It is so after   *)
(* an overlap, too, which the run does not explore.                         *)
THEOREM RunsWhatIsApplied == Spec => []SettingsAreApplied /\ []AppliedIsRunning
<1>1. LifecycleInv => SettingsAreApplied
  <2> SUFFICES ASSUME LifecycleInv, ~Busy, down = "up",
                      NEW m \in Machines \ unsettled,
                      sessions[m] # 0, applied[m] # Off
               PROVE  settings[m] = applied[m] /\ machines[m] = applied[m]
    BY DEF SettingsAreApplied
  <2>1. ~late /\ job[m].pc = "idle"
    BY DEF LifecycleInv, Basics, Stops, Locks
  <2>2. settings[m] = machines[m] /\ machines[m] # Off
    BY <2>1 DEF LifecycleInv, Listing
  <2>3. machines[m] \in {Off, applied[m]}
    BY <2>1 DEF LifecycleInv, Follows, Aim
  <2> QED BY <2>2, <2>3
<1>2. SettingsAreApplied => AppliedIsRunning
  BY DEF AppliedIsRunning
<1> QED BY <1>1, <1>2, Inductive, PTL

(* Every host has a generation of its own (_advance_generation).            *)
THEOREM GenerationsFresh == Spec => GenerationsAreFresh
<1>1. LifecycleInv /\ [Next]_vars =>
        \A m \in Machines, s \in Sids :
          host'[m][s] \notin {0, host[m][s]} => ~spent[m] \/ overlap
  <2> SUFFICES ASSUME LifecycleInv, [Next]_vars, ~overlap, NEW x \in Machines,
                      NEW t \in Sids, host'[x][t] \notin {0, host[x][t]}
               PROVE  ~spent[x]
    OBVIOUS
  <2>1. Types /\ Watched /\ InHand
    BY DEF LifecycleInv, Basics
  <2>2. CASE \E m \in Machines : WorkerAssign(m)
    BY <2>1, <2>2 DEF WorkerAssign, At, Assign, LifecycleInv, Generations, Types,
                     ObjectTypes
  <2>3. CASE \E m \in Machines : RestarterAssign(m)
    BY <2>1, <2>3 DEF RestarterAssign, Assign, LifecycleInv, Generations, Types,
                     ObjectTypes
  <2>4. CASE RecoverAssign
    <3>1. storage.at[1] \in Machines /\ storage.step = "assign"
      BY <2>1, <2>4 DEF RecoverAssign, InHand, Pairs
    <3> QED BY <2>1, <2>4, <3>1 DEF RecoverAssign, Assign, LifecycleInv, Generations,
                                   Types, ObjectTypes
  <2>5. CASE ~Assigns
    BY <2>1, <2>5, OnlyAssigns DEF HostsKept
  <2> QED BY <2>2, <2>3, <2>4, <2>5 DEF Assigns
<1> QED BY <1>1, Inductive, PTL DEF Spec, GenerationsAreFresh
=============================================================================
