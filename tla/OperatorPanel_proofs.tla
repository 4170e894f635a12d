------------------------ MODULE OperatorPanel_proofs ------------------------
(* The configuration file and the services that follow it, for any texts of *)
(* the file and any number of edits, starts and commands: a save throws     *)
(* away nothing unread, one process runs the service and the panel keeps    *)
(* hold of its own, and the revision a service names is what it runs.       *)
(*                                                                          *)
(* Then what an accepted configuration guarantees the machines it starts,   *)
(* for every file and every set of profiles: the sockets they listen on do  *)
(* not meet, each that is not offline reaches a queue upstream, and the     *)
(* tool the service embeds for a simulated one has settings the packaged    *)
(* simulator would take.  And of the runner of such a tool, for all         *)
(* recovery settings the packaged simulator accepts: the bound of its       *)
(* restarts, the range of its waits and the reasons it ends for.            *)
EXTENDS OperatorPanel, SimulatorRunner, TLAPS

----------------------------------------------------------------------------
(* The text the panel has read.                                             *)

(* Unless an edit fell into a window of the panel: what it is about to      *)
(* replace, or to take the revision of, is the text it read, and the        *)
(* revision it compares with is that text's.                                *)
Read ==
    ~late => /\ ui \in {"loading", "saving", "run"} => file = base
             /\ ui \in {"ready", "saving", "run"} => seen = base

LEMMA InitRead == Init => Read /\ NoEditDiscarded
  BY DEF Init, Read, NoEditDiscarded

LEMMA SaveOfRead ==
    ASSUME NEW r, NEW after \in {"saving", "run"}, Ready, SaveOf(r, after),
           Read, NoEditDiscarded,
           UNCHANGED <<file, seen, base, late, overwrote>>
    PROVE  Read' /\ NoEditDiscarded'
<1>1. CASE ui' = ui
  BY <1>1 DEF Read, NoEditDiscarded
<1>2. CASE ui' = after /\ file = seen
  BY <1>2 DEF Read, NoEditDiscarded, Ready
<1> QED
  BY <1>1, <1>2 DEF SaveOf

LEMMA StepRead == Read /\ NoEditDiscarded /\ [Next]_vars => Read' /\ NoEditDiscarded'
<1> SUFFICES ASSUME Read, NoEditDiscarded, [Next]_vars PROVE Read' /\ NoEditDiscarded'
  OBVIOUS
<1>1. CASE Panel
  <2>1. CASE OpenText
    BY <2>1 DEF OpenText, Read, NoEditDiscarded
  <2>2. CASE OpenRevision
    BY <2>2 DEF OpenRevision, Read, NoEditDiscarded, ghosts
  <2>3. CASE Save
    BY <2>3, SaveOfRead DEF Save, ghosts
  <2>4. ASSUME NEW on \in BOOLEAN, EnableSelected(on) \/ EnableAll(on)
        PROVE  Read' /\ NoEditDiscarded'
    <3>1. /\ Ready /\ UNCHANGED <<file, seen, base, late, overwrote>>
          /\ \/ \E r : SaveOf(r, "saving")
             \/ UNCHANGED ui
      BY <2>4 DEF EnableSelected, EnableAll, SetEnabled
    <3>2. CASE UNCHANGED ui
      BY <3>1, <3>2 DEF Read, NoEditDiscarded
    <3> QED
      BY <3>1, <3>2, SaveOfRead
  <2>5. CASE RunHere
    BY <2>5, SaveOfRead DEF RunHere, ghosts
  <2>12. CASE ReplaceFails
    <3>1. /\ ui' = "ready" /\ ui \in {"saving", "run"}
          /\ UNCHANGED <<file, seen, base, late, overwrote>>
      BY <2>12 DEF ReplaceFails, ghosts
    <3> QED
      BY <3>1 DEF Read, NoEditDiscarded
  <2>6. CASE Replace
    <3>1. /\ ui' = "ready" /\ seen' = base' /\ late' = late
          /\ ui \in {"saving", "run"}
          /\ overwrote' = (overwrote \/ file # base)
      BY <2>6 DEF Replace
    <3>2. ~late => file = base
      BY <3>1 DEF Read
    <3>3. Read'
      BY <3>1 DEF Read
    <3>4. NoEditDiscarded'
      BY <3>1, <3>2 DEF NoEditDiscarded
    <3> QED
      BY <3>3, <3>4
  <2>7. CASE Close \/ Destroy
    <3>1. /\ ui' \in {"leaving", "closed"} /\ late' = late /\ overwrote' = overwrote
      <4>1. CASE Close
        BY <4>1 DEF Close, ghosts
      <4>2. CASE Destroy
        BY <4>2 DEF Destroy
      <4> QED
        BY <2>7, <4>1, <4>2
    <3> QED
      BY <3>1 DEF Read, NoEditDiscarded
  <2>8. CASE StopHere \/ Poll \/ Tick \/ Type \/ Remove
    <3> USE DEF panelVars, ghosts
    <3>1. UNCHANGED <<file, ui, seen, base, late, overwrote>>
      <4>1. CASE StopHere
        BY <4>1 DEF StopHere
      <4>2. CASE Poll
        BY <4>2 DEF Poll
      <4>3. CASE Tick
        BY <4>3 DEF Tick
      <4>4. CASE Type
        BY <4>4 DEF Type
      <4>5. CASE Remove
        BY <4>5 DEF Remove
      <4> QED
        BY <2>8, <4>1, <4>2, <4>3, <4>4, <4>5
    <3> QED
      BY <3>1 DEF Read, NoEditDiscarded
  <2>9. ASSUME NEW i \in 1..MaxRows, Select(i) PROVE Read' /\ NoEditDiscarded'
    BY <2>9 DEF Select, Read, NoEditDiscarded, ghosts
  <2>10. ASSUME NEW m \in Fresh, Add(m) PROVE Read' /\ NoEditDiscarded'
    BY <2>10 DEF Add, Read, NoEditDiscarded
  <2>11. ASSUME NEW c \in 1..MaxCommands, Submit(c) PROVE Read' /\ NoEditDiscarded'
    BY <2>11 DEF Submit, Read, NoEditDiscarded, ghosts
  <2> QED
    BY <1>1, <2>1, <2>2, <2>3, <2>4, <2>5, <2>6, <2>7, <2>8, <2>9, <2>10, <2>11, <2>12
       DEF Panel
<1>2. ASSUME NEW c \in HandEdits, HandEdit(c) PROVE Read' /\ NoEditDiscarded'
  BY <1>2 DEF HandEdit, Read, NoEditDiscarded, panelVars
<1>3. CASE BeginService \/ StopService \/ Crash \/ GoesStale
  BY <1>3 DEF BeginService, StopService, Crash, GoesStale, Read, NoEditDiscarded, panelVars,
              ghosts
<1>4. ASSUME NEW p \in Processes, Service(p) PROVE Read' /\ NoEditDiscarded'
  <2>1. UNCHANGED <<file, panelVars, ghosts>>
    BY <1>4 DEF Service, Construct, Acquire, Refused, Started, StartFails,
           UnwindFails, Undone, ReadRevision, RevisionFails, Reload, Consume, Process,
           WriteStatus, Unlock, Stopped, StopFails
  <2> QED
    BY <2>1 DEF Read, NoEditDiscarded, panelVars, ghosts
<1>5. CASE UNCHANGED vars
  BY <1>5 DEF vars, Read, NoEditDiscarded, panelVars, ghosts
<1> QED
  BY <1>1, <1>2, <1>3, <1>4, <1>5 DEF Next

(* A save never throws away what another program wrote and the panel never  *)
(* read, unless the write fell in one of the two windows the panel has      *)
(* (control.py 69-93, gui/app.py 578-598).                                  *)
THEOREM EditsAreKept == Spec => []NoEditDiscarded
<1>1. Spec => [](Read /\ NoEditDiscarded)
  BY InitRead, StepRead, PTL DEF Spec
<1> QED
  BY <1>1, PTL
----------------------------------------------------------------------------
(* The services.                                                            *)

(* A service is a record of the fields of Idle.                             *)
Shape == DOMAIN svc = Processes /\ \A p \in Processes : DOMAIN svc[p] = DOMAIN Idle

(* The lock is held by the process whose service is on its way.             *)
Locked == ~unlinked => \A p \in Processes : svc[p].st \in Holding => lock = p

(* What the panel knows of its service is what its thread is doing; while   *)
(* it has decided to start one there is none.                               *)
Known ==
    /\ busy \in {"", "starting", "stopping"}
    /\ busy = "" => svc["panel"].st \in {"off", "up", "half", "halted"}
    /\ busy = "" /\ owned => svc["panel"].st # "off"
    /\ busy = "" /\ ~owned => svc["panel"].st = "off"
    /\ busy = "starting" => 
          svc["panel"].st \in {"loaded", "made", "starting", "unwinding", "undone", "bare",
                              "unlinking", "halting"}
    /\ busy = "stopping" => svc["panel"].st \in {"stopping", "unlinking", "halting"}
    /\ ui = "run" => busy = "" /\ ~owned

(* The revision is that of the configuration from the constructor on.       *)
Agreed ==
    \A p \in Processes :
        svc[p].st \in {"made", "starting", "up"} /\ ~svc[p].raced /\ ~svc[p].torn
            => svc[p].rev = svc[p].cfg

ServiceInv == Shape /\ Locked /\ Known /\ Agreed

LEMMA IdleFields ==
    /\ Idle.st = "off"
    /\ \A c : /\ [Idle EXCEPT !.st = "loaded", !.cfg = c].st = "loaded"
             /\ DOMAIN [Idle EXCEPT !.st = "loaded", !.cfg = c] = DOMAIN Idle
  BY DEF Idle

LEMMA InitServiceInv == Init => ServiceInv
<1> SUFFICES ASSUME Init PROVE ServiceInv
  OBVIOUS
<1>1. svc = [p \in Processes |-> Idle] /\ busy = "" /\ ui = "closed" /\ owned = FALSE
  BY DEF Init
<1>2. Shape
  BY <1>1 DEF Shape
<1>3. \A p \in Processes : svc[p].st = "off"
  BY <1>1, IdleFields
<1>4. Known
  BY <1>1, <1>3 DEF Known, Processes
<1> QED
  BY <1>2, <1>3, <1>4 DEF ServiceInv, Locked, Agreed, Holding

(* A step that leaves the services, the lock and the panel's part in them.  *)
LEMMA ServicesKept ==
    ASSUME ServiceInv, UNCHANGED <<svc, lock, unlinked, owned, busy>>,
           ui' = "run" => (busy = "" /\ ~owned)
    PROVE  ServiceInv'
<1>1. Shape' /\ Locked'
  BY DEF ServiceInv, Shape, Locked
<1>2. Agreed'
  BY DEF ServiceInv, Agreed
<1>3. Known'
  BY DEF ServiceInv, Known
<1> QED
  BY <1>1, <1>2, <1>3 DEF ServiceInv

(* A step of one process: what it has to do to its own record, to the lock  *)
(* and to the panel's part for the invariant to hold.                       *)
LEMMA OneProcess ==
    ASSUME ServiceInv, NEW p \in Processes,
           Shape', \A q \in Processes \ {p} : svc'[q] = svc[q],
           unlinked => unlinked',
           lock' = lock \/ lock = p \/ lock = None \/ unlinked',
           svc'[p].st \in Holding => lock' = p \/ unlinked',
           svc'[p].st \in {"made", "starting", "up"} /\ ~svc'[p].raced /\ ~svc'[p].torn
               => svc'[p].rev = svc'[p].cfg,
           p = "panel" => Known',
           p = "service" => UNCHANGED <<owned, busy, ui>>
    PROVE  ServiceInv'
<1>1. Locked'
  BY NoneAssumption DEF ServiceInv, Locked, Holding
<1>2. Agreed'
  BY DEF ServiceInv, Agreed
<1>3. Known'
  <2>1. CASE p = "panel"
    BY <2>1
  <2>2. CASE p = "service"
    <3>1. svc'["panel"] = svc["panel"]
      BY <2>2 DEF Processes
    <3>2. owned' = owned /\ busy' = busy /\ ui' = ui
      BY <2>2
    <3> QED
      BY <3>1, <3>2 DEF ServiceInv, Known
  <2> QED
    BY <2>1, <2>2 DEF Processes
<1> QED
  BY <1>1, <1>2, <1>3 DEF ServiceInv

LEMMA ServiceStep ==
    ASSUME ServiceInv, NEW p \in Processes, Service(p)
    PROVE  ServiceInv'
<1> USE DEF Holding
<1>0. /\ UNCHANGED ui
      /\ svc[p].st \in Holding => lock = p \/ unlinked
      /\ svc[p].st \in {"made", "starting", "up"} /\ ~svc[p].raced /\ ~svc[p].torn
             => svc[p].rev = svc[p].cfg
  <2>1. UNCHANGED ui
    BY DEF Service, panelVars, Construct, Acquire, Refused, Started, StartFails,
           UnwindFails, Undone, ReadRevision, RevisionFails, Reload, Consume, Process,
           WriteStatus, Unlock, Stopped, StopFails
  <2> QED
    BY <2>1 DEF ServiceInv, Locked, Agreed
<1>1. CASE Construct(p)
  <2>1. /\ Shape' /\ \A q \in Processes \ {p} : svc'[q] = svc[q]
        /\ svc[p].st = "loaded" /\ svc'[p].st = "made"
        /\ svc'[p].rev = file /\ svc'[p].cfg = svc[p].cfg
        /\ svc'[p].raced = (file # svc[p].cfg)
    BY <1>1 DEF Construct, ServiceInv, Shape, Idle
  <2>2. /\ lock' = lock /\ unlinked' = unlinked /\ owned' = owned /\ busy' = busy
    BY <1>1 DEF Construct, ThreadEnds, svcVars, lockVars
  <2>3. ASSUME p = "panel" PROVE Known'
    BY <1>0, <2>1, <2>2, <2>3 DEF ServiceInv, Known
  <2> QED
    BY <1>0, <2>1, <2>2, <2>3, OneProcess
<1>2. CASE Acquire(p)
  <2>1. /\ Shape' /\ \A q \in Processes \ {p} : svc'[q] = svc[q]
        /\ svc[p].st = "made" /\ svc'[p].st = "starting"
        /\ svc'[p].rev = svc[p].rev /\ svc'[p].cfg = svc[p].cfg /\ svc'[p].raced = svc[p].raced
        /\ svc'[p].torn = svc[p].torn
    BY <1>2 DEF Acquire, ServiceInv, Shape, Idle
  <2>2. /\ lock = None /\ lock' = p /\ unlinked' = unlinked
        /\ owned' = owned /\ busy' = busy
    BY <1>2 DEF Acquire, ThreadEnds, svcVars, lockVars
  <2>3. ASSUME p = "panel" PROVE Known'
    BY <1>0, <2>1, <2>2, <2>3 DEF ServiceInv, Known
  <2> QED
    BY <1>0, <2>1, <2>2, <2>3, OneProcess
<1>3. CASE Refused(p)
  <2>1. /\ Shape' /\ \A q \in Processes \ {p} : svc'[q] = svc[q]
        /\ svc[p].st = "made" /\ svc'[p].st = "off"
    BY <1>3 DEF Refused, ServiceInv, Shape, Idle
  <2>2. /\ lock' = lock /\ unlinked' = unlinked
        /\ p = "panel" => owned' = FALSE /\ busy' = ""
        /\ p = "service" => owned' = owned /\ busy' = busy
    BY <1>3 DEF Refused, ThreadEnds, svcVars, lockVars
  <2>3. ASSUME p = "panel" PROVE Known'
    BY <1>0, <2>1, <2>2, <2>3 DEF ServiceInv, Known
  <2> QED
    BY <1>0, <2>1, <2>2, <2>3, OneProcess
<1>4. CASE Started(p)
  <2>1. /\ Shape' /\ \A q \in Processes \ {p} : svc'[q] = svc[q]
        /\ svc[p].st = "starting" /\ svc'[p].st = "up"
        /\ svc'[p].rev = svc[p].rev /\ svc'[p].cfg = svc[p].cfg /\ svc'[p].raced = svc[p].raced
        /\ svc'[p].torn = svc[p].torn
    BY <1>4 DEF Started, ServiceInv, Shape, Idle
  <2>2. /\ lock' = lock /\ unlinked' = unlinked
        /\ p = "panel" => owned' = TRUE /\ busy' = ""
        /\ p = "service" => owned' = owned /\ busy' = busy
    BY <1>4 DEF Started, ThreadEnds, svcVars, lockVars
  <2>3. ASSUME p = "panel" PROVE Known'
    BY <1>0, <2>1, <2>2, <2>3 DEF ServiceInv, Known
  <2> QED
    BY <1>0, <2>1, <2>2, <2>3, OneProcess
<1>5. CASE StartFails(p)
  <2>1. /\ Shape' /\ \A q \in Processes \ {p} : svc'[q] = svc[q]
        /\ svc[p].st = "starting" /\ svc'[p].st = "unwinding"
    BY <1>5 DEF StartFails, ServiceInv, Shape, Idle
  <2>2. /\ lock' = lock /\ unlinked' = unlinked /\ owned' = owned /\ busy' = busy
    BY <1>5 DEF StartFails, lockVars
  <2>3. ASSUME p = "panel" PROVE Known'
    BY <1>0, <2>1, <2>2, <2>3 DEF ServiceInv, Known
  <2> QED
    BY <1>0, <2>1, <2>2, <2>3, OneProcess
<1>11. CASE UnwindFails(p)
  <2>1. /\ Shape' /\ \A q \in Processes \ {p} : svc'[q] = svc[q]
        /\ svc[p].st = "unwinding" /\ svc'[p].st \in {"undone", "bare"}
    BY <1>11 DEF UnwindFails, ServiceInv, Shape, Idle
  <2>2. /\ lock' = lock \/ lock = p
        /\ unlinked' = unlinked /\ owned' = owned /\ busy' = busy
    BY <1>11 DEF UnwindFails, LockWithout
  <2>3. ASSUME p = "panel" PROVE Known'
    BY <1>0, <2>1, <2>2, <2>3 DEF ServiceInv, Known
  <2> QED
    BY <1>0, <2>1, <2>2, <2>3, OneProcess
<1>12. CASE Undone(p)
  <2>1. /\ Shape' /\ \A q \in Processes \ {p} : svc'[q] = svc[q]
        /\ svc[p].st \in {"undone", "bare"} /\ svc'[p].st = "off"
    BY <1>12 DEF Undone, ServiceInv, Shape, Idle
  <2>2. /\ unlinked => unlinked'
        /\ lock' = lock \/ lock = p \/ lock = None \/ unlinked'
        /\ p = "panel" => owned' = FALSE /\ busy' = ""
        /\ p = "service" => owned' = owned /\ busy' = busy
    BY <1>12 DEF Undone, Unlink, ThreadEnds
  <2>3. ASSUME p = "panel" PROVE Known'
    BY <1>0, <2>1, <2>2, <2>3 DEF ServiceInv, Known
  <2> QED
    BY <1>0, <2>1, <2>2, <2>3, OneProcess
<1>6. CASE ReadRevision(p) \/ RevisionFails(p) \/ Consume(p) \/ Process(p)
  <2>1. /\ Shape' /\ \A q \in Processes \ {p} : svc'[q] = svc[q]
        /\ svc[p].st = "up" /\ svc'[p].st = "up"
        /\ svc'[p].rev = svc[p].rev /\ svc'[p].cfg = svc[p].cfg /\ svc'[p].raced = svc[p].raced
        /\ svc'[p].torn = svc[p].torn
    <3>1. CASE ReadRevision(p)
      BY <3>1 DEF ReadRevision, ServiceInv, Shape, Idle
    <3>5. CASE RevisionFails(p)
      BY <3>5 DEF RevisionFails, ServiceInv, Shape, Idle
    <3>2. CASE Consume(p)
      BY <3>2 DEF Consume, ServiceInv, Shape, Idle
    <3>3. CASE Process(p) /\ svc[p].taken = {}
      BY <3>3 DEF Process, ServiceInv, Shape, Idle
    <3>4. CASE Process(p) /\ svc[p].taken # {}
      <4>1. PICK c \in svc[p].taken :
               svc' = [svc EXCEPT ![p].taken = @ \ {c}, ![p].answers = @ \cup {c}]
        BY <3>4 DEF Process
      <4> QED
        BY <3>4, <4>1 DEF Process, ServiceInv, Shape, Idle
    <3> QED
      BY <1>6, <3>1, <3>2, <3>3, <3>4, <3>5
  <2>2. /\ lock' = lock /\ unlinked' = unlinked /\ owned' = owned /\ busy' = busy
    BY <1>6 DEF ReadRevision, RevisionFails, Consume, Process, ThreadEnds, svcVars, lockVars
  <2>3. ASSUME p = "panel" PROVE Known'
    BY <1>0, <2>1, <2>2, <2>3 DEF ServiceInv, Known
  <2> QED
    BY <1>0, <2>1, <2>2, <2>3, OneProcess
<1>7. CASE Reload(p)
  <2>1. /\ Shape' /\ \A q \in Processes \ {p} : svc'[q] = svc[q]
        /\ svc[p].st = "up" /\ svc'[p].st = "up"
        /\ \/ svc'[p].cfg = file /\ svc'[p].rev = svc[p].read
              /\ svc'[p].raced = (file # svc[p].read)
           \/ svc'[p].torn
           \/ /\ svc'[p].rev = svc[p].rev /\ svc'[p].cfg = svc[p].cfg
              /\ svc'[p].raced = svc[p].raced /\ svc'[p].torn = svc[p].torn
    <3>1. PICK next \in {"idle", "dead"} :
             \/ svc' = [svc EXCEPT ![p].sup = "idle", ![p].cfg = file, ![p].rev = svc[p].read,
                                   ![p].read = None, ![p].raced = (file # svc[p].read),
                                   ![p].torn = FALSE]
             \/ svc' = [svc EXCEPT ![p].sup = next, ![p].read = None]
             \/ svc' = [svc EXCEPT ![p].sup = next, ![p].cfg = file, ![p].read = None,
                                   ![p].torn = TRUE]
      BY <1>7 DEF Reload
    <3>2. svc[p].st = "up"
      BY <1>7 DEF Reload
    <3> QED
      BY <3>1, <3>2 DEF ServiceInv, Shape, Idle
  <2>2. /\ lock' = lock /\ unlinked' = unlinked /\ owned' = owned /\ busy' = busy
    BY <1>7 DEF Reload, ThreadEnds, svcVars, lockVars
  <2>3. ASSUME p = "panel" PROVE Known'
    BY <1>0, <2>1, <2>2, <2>3 DEF ServiceInv, Known
  <2> QED
    BY <1>0, <2>1, <2>2, <2>3, OneProcess
<1>8. CASE WriteStatus(p)
  BY <1>0, <1>8, ServicesKept DEF WriteStatus, svcVars, lockVars, ServiceInv, Known
<1>13. CASE Unlock(p)
  <2>1. /\ Shape' /\ \A q \in Processes \ {p} : svc'[q] = svc[q]
        /\ svc[p].st \in {"stopping", "unwinding"} /\ svc'[p].st \in {"unlinking", "halting"}
    BY <1>13 DEF Unlock, ServiceInv, Shape, Idle
  <2>2. /\ lock' = lock \/ lock = p
        /\ unlinked' = unlinked /\ owned' = owned /\ busy' = busy
    BY <1>13 DEF Unlock, LockWithout
  <2>3. ASSUME p = "panel" PROVE Known'
    BY <1>0, <2>1, <2>2, <2>3 DEF ServiceInv, Known
  <2> QED
    BY <1>0, <2>1, <2>2, <2>3, OneProcess
<1>9. CASE Stopped(p)
  <2>0. /\ svc[p].st \in {"unlinking", "halting"}
        /\ \/ svc' = [svc EXCEPT ![p] = Idle] /\ ThreadEnds(p, FALSE)
           \/ p = "panel" /\ svc' = [svc EXCEPT ![p].st = "halted"] /\ ThreadEnds(p, TRUE)
    BY <1>9 DEF Stopped
  <2>2. /\ unlinked => unlinked'
        /\ lock' = lock \/ lock = p \/ lock = None \/ unlinked'
    BY <1>9 DEF Stopped, Unlink
  <2>1. /\ Shape' /\ \A q \in Processes \ {p} : svc'[q] = svc[q]
        /\ svc'[p].st = "off" \/ (p = "panel" /\ svc'[p].st = "halted")
    <3>1. CASE svc' = [svc EXCEPT ![p] = Idle]
      BY <3>1 DEF ServiceInv, Shape, Idle
    <3>2. CASE p = "panel" /\ svc' = [svc EXCEPT ![p].st = "halted"]
      BY <3>2 DEF ServiceInv, Shape, Idle
    <3> QED
      BY <2>0, <3>1, <3>2
  <2>4. /\ p = "panel" => /\ busy' = ""
                          /\ \/ svc'[p].st = "off" /\ ~owned'
                             \/ svc'[p].st = "halted" /\ owned'
        /\ p = "service" => owned' = owned /\ busy' = busy
    <3>1. CASE svc' = [svc EXCEPT ![p] = Idle] /\ ThreadEnds(p, FALSE)
      <4>1. svc'[p].st = "off"
        BY <3>1 DEF ServiceInv, Shape, Idle
      <4> QED
        BY <3>1, <4>1 DEF ThreadEnds
    <3>2. CASE p = "panel" /\ svc' = [svc EXCEPT ![p].st = "halted"] /\ ThreadEnds(p, TRUE)
      <4>1. svc'[p].st = "halted"
        BY <3>2 DEF ServiceInv, Shape, Idle
      <4> QED
        BY <3>2, <4>1 DEF ThreadEnds
    <3> QED
      BY <2>0, <3>1, <3>2
  <2>3. ASSUME p = "panel" PROVE Known'
    BY <1>0, <2>0, <2>1, <2>4, <2>3 DEF ServiceInv, Known
  <2> QED
    BY <1>0, <2>0, <2>1, <2>2, <2>3, <2>4, OneProcess
<1>10. CASE StopFails(p)
  <2>1. /\ Shape' /\ \A q \in Processes \ {p} : svc'[q] = svc[q]
        /\ svc[p].st = "stopping"
        /\ svc'[p].st = IF p = "panel" THEN "half" ELSE "off"
    BY <1>10 DEF StopFails, ServiceInv, Shape, Idle
  <2>2. /\ lock' = lock \/ (p # "panel" /\ lock = p)
        /\ unlinked' = unlinked
        /\ p = "panel" => owned' = TRUE /\ busy' = ""
        /\ p = "service" => owned' = owned /\ busy' = busy
    BY <1>10 DEF StopFails, ThreadEnds, LockWithout
  <2>3. ASSUME p = "panel" PROVE Known'
    BY <1>0, <2>1, <2>2, <2>3 DEF ServiceInv, Known
  <2> QED
    BY <1>0, <2>1, <2>2, <2>3, OneProcess
<1> QED
  BY <1>1, <1>2, <1>3, <1>4, <1>5, <1>6, <1>7, <1>8, <1>9, <1>10, <1>11, <1>12, <1>13
     DEF Service

LEMMA StepServiceInv == ServiceInv /\ [Next]_vars => ServiceInv'
<1> SUFFICES ASSUME ServiceInv, [Next]_vars PROVE ServiceInv'
  OBVIOUS
<1> USE DEF Holding
<1>1. CASE Panel
  <2>1. CASE Replace
    <3>1. CASE UNCHANGED <<busy, svc, starts>>
      BY <2>1, <3>1, ServicesKept DEF Replace, lockVars
    <3>2. CASE ~UNCHANGED <<busy, svc, starts>>
      <4>1. /\ ui = "run" /\ ui' = "ready" /\ busy' = "starting" /\ lock' = lock
            /\ unlinked' = unlinked
            /\ svc' = [svc EXCEPT !["panel"] = [Idle EXCEPT !.st = "loaded", !.cfg = raw]]
        BY <2>1, <3>2 DEF Replace, lockVars
      <4>2. /\ Shape' /\ \A q \in Processes \ {"panel"} : svc'[q] = svc[q]
            /\ svc'["panel"].st = "loaded"
        BY <4>1 DEF ServiceInv, Shape, Idle, Processes
      <4>3. Known'
        BY <4>1, <4>2 DEF Known
      <4> QED
        BY <4>1, <4>2, <4>3, OneProcess DEF Processes
    <3> QED
      BY <3>1, <3>2
  <2>2. CASE StopHere
    <3>1. /\ Shape' /\ \A q \in Processes \ {"panel"} : svc'[q] = svc[q]
          /\ svc'["panel"].st = IF svc["panel"].st = "halted" THEN "halting" ELSE "stopping"
      BY <2>2 DEF StopHere, ServiceInv, Shape, Idle, Processes
    <3>2. /\ ui \in {"ready", "leaving"} /\ ui' = ui /\ owned /\ busy = ""
          /\ busy' = "stopping" /\ lock' = lock /\ unlinked' = unlinked
      BY <2>2 DEF StopHere, panelVars, lockVars
    <3>3. svc["panel"].st \in Holding \cup {"halted"}
      BY <3>2 DEF ServiceInv, Known
    <3>4. svc'["panel"].st \in Holding => lock' = "panel" \/ unlinked'
      BY <3>1, <3>2, <3>3 DEF ServiceInv, Locked, Processes
    <3>5. Known'
      BY <3>1, <3>2 DEF Known
    <3> QED
      BY <3>1, <3>2, <3>4, <3>5, OneProcess DEF Processes
  <2>3. CASE Destroy
    <3>1. /\ Shape' /\ \A q \in Processes \ {"panel"} : svc'[q] = svc[q]
          /\ svc'["panel"].st = "off"
      BY <2>3 DEF Destroy, ServiceInv, Shape, Idle, Processes
    <3>2. /\ ui' = "closed" /\ owned' = FALSE /\ busy' = ""
          /\ (lock' = lock \/ lock = "panel") /\ unlinked' = unlinked
      BY <2>3 DEF Destroy, LockWithout
    <3>3. Known'
      BY <3>1, <3>2 DEF Known
    <3> QED
      BY <3>1, <3>2, <3>3, OneProcess DEF Processes
  <2>4. CASE ~(Replace \/ StopHere \/ Destroy)
    <3>1. UNCHANGED <<svc, lock, unlinked, owned, busy>>
      <4> USE DEF svcVars, lockVars, panelVars
      <4>1. CASE OpenText \/ OpenRevision \/ Tick \/ Type \/ Remove
        BY <4>1 DEF OpenText, OpenRevision, Tick, Type, Remove
      <4>2. CASE Save \/ ReplaceFails \/ RunHere \/ Poll \/ Close
        BY <4>2 DEF Save, ReplaceFails, RunHere, Poll, Close
      <4>3. ASSUME NEW i \in 1..MaxRows, Select(i) PROVE UNCHANGED <<svc, lock, unlinked, owned, busy>>
        BY <4>3 DEF Select
      <4>4. ASSUME NEW m \in Fresh, Add(m) PROVE UNCHANGED <<svc, lock, unlinked, owned, busy>>
        BY <4>4 DEF Add
      <4>5. ASSUME NEW on \in BOOLEAN, EnableSelected(on) \/ EnableAll(on)
            PROVE  UNCHANGED <<svc, lock, unlinked, owned, busy>>
        BY <4>5 DEF EnableSelected, EnableAll
      <4>6. ASSUME NEW c \in 1..MaxCommands, Submit(c)
            PROVE  UNCHANGED <<svc, lock, unlinked, owned, busy>>
        BY <4>6 DEF Submit
      <4> QED
        BY <1>1, <2>4, <4>1, <4>2, <4>3, <4>4, <4>5, <4>6 DEF Panel
    <3>2. ui' = "run" => (busy = "" /\ ~owned)
      <4>1. CASE RunHere
        BY <4>1 DEF RunHere
      <4>2. CASE UNCHANGED ui
        BY <4>2 DEF ServiceInv, Known
      <4>3. CASE ui' # ui /\ ~RunHere
        <5>1. ui' # "run"
          BY <1>1, <2>4, <4>3 DEF Panel, OpenText, OpenRevision, Tick, Type, Remove, Select,
             Add, Save, ReplaceFails, EnableSelected, EnableAll, SetEnabled, SaveOf, Poll, Submit, Close,
             panelVars
        <5> QED
          BY <5>1
      <4> QED
        BY <4>1, <4>2, <4>3
    <3> QED
      BY <3>1, <3>2, ServicesKept
  <2> QED
    BY <2>1, <2>2, <2>3, <2>4
<1>2. ASSUME NEW c \in HandEdits, HandEdit(c) PROVE ServiceInv'
  BY <1>2, ServicesKept DEF HandEdit, svcVars, lockVars, panelVars, ServiceInv, Known
<1>3. CASE GoesStale
  BY <1>3, ServicesKept DEF GoesStale, svcVars, lockVars, panelVars, ServiceInv, Known
<1>4. CASE BeginService \/ StopService \/ Crash
  <2>0. owned' = owned /\ busy' = busy /\ ui' = ui /\ unlinked' = unlinked
    BY <1>4 DEF BeginService, StopService, Crash, panelVars, lockVars
  <2>1. CASE BeginService
    <3>1. /\ svc' = [svc EXCEPT !["service"] = [Idle EXCEPT !.st = "loaded", !.cfg = file]]
          /\ lock' = lock
      BY <2>1 DEF BeginService, lockVars
    <3>2. /\ Shape' /\ \A q \in Processes \ {"service"} : svc'[q] = svc[q]
          /\ svc'["service"].st = "loaded"
      BY <3>1 DEF ServiceInv, Shape, Idle, Processes
    <3> QED
      BY <2>0, <3>1, <3>2, OneProcess DEF Processes
  <2>2. CASE StopService
    <3>1. /\ Shape' /\ \A q \in Processes \ {"service"} : svc'[q] = svc[q]
          /\ svc["service"].st = "up" /\ svc'["service"].st = "stopping"
      BY <2>2 DEF StopService, ServiceInv, Shape, Idle, Processes
    <3>2. lock' = lock /\ (lock = "service" \/ unlinked)
      BY <2>2, <3>1 DEF StopService, lockVars, ServiceInv, Locked, Processes
    <3> QED
      BY <2>0, <3>1, <3>2, OneProcess DEF Processes
  <2>3. CASE Crash
    <3>1. /\ Shape' /\ \A q \in Processes \ {"service"} : svc'[q] = svc[q]
          /\ svc'["service"].st = "off"
      BY <2>3 DEF Crash, ServiceInv, Shape, Idle, Processes
    <3>2. lock' = lock \/ lock = "service"
      BY <2>3 DEF Crash, LockWithout
    <3> QED
      BY <2>0, <3>1, <3>2, OneProcess DEF Processes
  <2> QED
    BY <1>4, <2>1, <2>2, <2>3
<1>5. ASSUME NEW p \in Processes, Service(p) PROVE ServiceInv'
  BY <1>5, ServiceStep
<1>6. CASE UNCHANGED vars
  BY <1>6, ServicesKept DEF vars, svcVars, lockVars, panelVars, ServiceInv, Known
<1> QED
  BY <1>1, <1>2, <1>3, <1>4, <1>5, <1>6 DEF Next

(* The revision a running service names is that of the configuration it     *)
(* runs, unless the file changed between the two readings or applying it    *)
(* raised half way (service/control_plane.py).                              *)
THEOREM AppliedIsRunning == Spec => []AppliedMeansRunning
<1>1. Spec => []ServiceInv
  BY InitServiceInv, StepServiceInv, PTL DEF Spec
<1>2. ServiceInv => AppliedMeansRunning
  BY DEF ServiceInv, Agreed, AppliedMeansRunning
<1> QED
  BY <1>1, <1>2, PTL

(* Only the holder of the lock has a service on its way or running, up to   *)
(* a lock file removed from under its holder, and the panel can always stop *)
(* the one that runs in it, up to the one it gave up (single_instance.py,   *)
(* gui/app.py), although either process may start, fail half way and in the *)
(* unwinding of that, fail to stop, or end at any time.                     *)
THEOREM ServiceIsOwned == Spec => []OneServiceOwned
<1>1. Spec => []ServiceInv
  BY InitServiceInv, StepServiceInv, PTL DEF Spec
<1>2. ServiceInv => OneServiceOwned
  BY DEF ServiceInv, Locked, Known, Holding, OneServiceOwned
<1> QED
  BY <1>1, <1>2, PTL

----------------------------------------------------------------------------
(* What the operator asked for.                                             *)

(* An entry whose name no other entry has.                                  *)
Single(r, i) == \A j \in DOMAIN r.machines : r.machines[j].id = r.machines[i].id => j = i

Wants(i) == want[raw.machines[i].id]

FormShape == /\ form \in [on : BOOLEAN, bad : BOOLEAN]
             /\ want \in [Ids -> {"any", "yes", "no"}]

TextShape == IsText(file) /\ (ui \in {"loading", "ready", "saving", "run"} => IsText(raw))

(* Nothing is asked of a text that is just being opened.                    *)
Unasked == ui = "loading" => \A id \in Ids : want[id] = "any"

(* What was asked of a machine is in its row, and for the selected one in   *)
(* the form, whatever its row says.  A text the loader refuses may name two *)
(* machines alike; what was asked of those is asked of neither.             *)
Kept ==
    ui \in {"ready", "saving", "run"} =>
       /\ sel \in 0..Len(raw.machines)
       /\ \A i \in DOMAIN raw.machines :
             Single(raw, i) /\ Wants(i) # "any" =>
                Wants(i) = IF i = sel THEN Flag(form.on) ELSE raw.machines[i].enabled

(* What is on its way to the file has the form in it, and no name twice.    *)
Saved ==
    ui \in {"saving", "run"} =>
       /\ \A i \in DOMAIN raw.machines : Single(raw, i)
       /\ sel # 0 => raw.machines[sel].enabled = Flag(form.on)

AskedInv == FormShape /\ TextShape /\ Unasked /\ Kept /\ Saved

LEMMA EntriesOf ==
    ASSUME NEW c, IsText(c)
    PROVE  /\ Len(c.machines) \in Nat
           /\ DOMAIN c.machines = 1..Len(c.machines)
           /\ c.machines \in [1..Len(c.machines) -> Range(c.machines)]
           /\ \A i \in 1..Len(c.machines) : IsEntry(c.machines[i])
<1>1. c.machines \in Seq(Range(c.machines))
  BY DEF IsText
<1>2. /\ Len(c.machines) \in Nat
      /\ DOMAIN c.machines = 1..Len(c.machines)
      /\ c.machines \in [1..Len(c.machines) -> Range(c.machines)]
  BY <1>1
<1> QED
  BY <1>2 DEF IsText

LEMMA TextOf ==
    ASSUME NEW c, "machines" \in DOMAIN c, NEW n \in Nat, NEW S,
           c.machines \in [1..n -> S], \A i \in 1..n : IsEntry(c.machines[i])
    PROVE  /\ IsText(c) /\ Len(c.machines) = n /\ DOMAIN c.machines = 1..n
<1>1. DOMAIN c.machines = 1..n /\ c.machines \in Seq(S) /\ Len(c.machines) = n
  OBVIOUS
<1>2. c.machines \in [1..n -> Range(c.machines)]
  BY DEF Range
<1>3. c.machines \in Seq(Range(c.machines))
  BY <1>2
<1> QED
  BY <1>1, <1>3 DEF IsText

(* Entries switched by their number.                                        *)
LEMMA SwitchDoes ==
    ASSUME NEW r, IsText(r), NEW rows, NEW on \in BOOLEAN
    PROVE  /\ IsText(WithEnabled(r, rows, on))
           /\ Len(WithEnabled(r, rows, on).machines) = Len(r.machines)
           /\ DOMAIN WithEnabled(r, rows, on).machines = 1..Len(r.machines)
           /\ \A i \in 1..Len(r.machines) :
                 /\ WithEnabled(r, rows, on).machines[i].id = r.machines[i].id
                 /\ WithEnabled(r, rows, on).machines[i].enabled =
                       IF i \in rows THEN Flag(on) ELSE r.machines[i].enabled
<1> DEFINE n == Len(r.machines)
           e(i) == IF i \in rows THEN [r.machines[i] EXCEPT !.enabled = Flag(on)]
                                 ELSE r.machines[i]
           q == WithEnabled(r, rows, on)
<1>1. /\ n \in Nat /\ DOMAIN r.machines = 1..n /\ "machines" \in DOMAIN r
      /\ \A i \in 1..n : IsEntry(r.machines[i])
  BY EntriesOf DEF IsText
<1>2. q.machines = [i \in 1..n |-> e(i)] /\ "machines" \in DOMAIN q
  BY <1>1 DEF WithEnabled
<1>3. \A i \in 1..n :
         /\ IsEntry(e(i)) /\ e(i).id = r.machines[i].id
         /\ e(i).enabled = IF i \in rows THEN Flag(on) ELSE r.machines[i].enabled
  BY <1>1 DEF IsEntry
<1> DEFINE S == {e(i) : i \in 1..n}
<1> HIDE DEF q, e, n
<1>4. q.machines \in [1..n -> S]
  BY <1>2
<1> HIDE DEF S
<1>5. \A i \in 1..n : q.machines[i] = e(i)
  BY <1>2
<1>6. IsText(q) /\ Len(q.machines) = n /\ DOMAIN q.machines = 1..n
  <2>1. \A i \in 1..n : IsEntry(q.machines[i])
    BY <1>3, <1>5
  <2> QED
    BY <1>1, <1>2, <1>4, <2>1, TextOf
<1> QED
  BY <1>3, <1>5, <1>6 DEF q, n

LEMMA CollectedIs ==
    ASSUME IsText(raw), sel \in 1..Len(raw.machines)
    PROVE  Collected = WithEnabled(raw, {sel}, form.on)
<1>1. /\ DOMAIN raw.machines = 1..Len(raw.machines) /\ "machines" \in DOMAIN raw
      /\ Len(raw.machines) \in Nat
  BY EntriesOf DEF IsText
<1>2. [raw.machines EXCEPT ![sel] = [raw.machines[sel] EXCEPT !.enabled = Flag(form.on)]]
        = [i \in DOMAIN raw.machines |->
              IF i \in {sel} THEN [raw.machines[i] EXCEPT !.enabled = Flag(form.on)]
              ELSE raw.machines[i]]
  BY <1>1
<1>3. sel # 0
  BY <1>1
<1>4. Collected = [raw EXCEPT !.machines =
         [raw.machines EXCEPT ![sel] = [raw.machines[sel] EXCEPT !.enabled = Flag(form.on)]]]
  BY <1>1, <1>3 DEF Collected
<1> QED
  BY <1>2, <1>4 DEF WithEnabled

LEMMA CollectedDoes ==
    ASSUME IsText(raw), sel \in 0..Len(raw.machines), form.on \in BOOLEAN
    PROVE  /\ IsText(Collected)
           /\ Len(Collected.machines) = Len(raw.machines)
           /\ DOMAIN Collected.machines = 1..Len(raw.machines)
           /\ \A i \in 1..Len(raw.machines) :
                 /\ Collected.machines[i].id = raw.machines[i].id
                 /\ Collected.machines[i].enabled =
                       IF i = sel THEN Flag(form.on) ELSE raw.machines[i].enabled
<1>0. Len(raw.machines) \in Nat /\ DOMAIN raw.machines = 1..Len(raw.machines)
  BY EntriesOf
<1>1. CASE sel = 0
  BY <1>0, <1>1 DEF Collected
<1>2. CASE sel \in 1..Len(raw.machines)
  <2>1. Collected = WithEnabled(raw, {sel}, form.on)
    BY <1>2, CollectedIs
  <2> HIDE DEF Collected
  <2> QED
    BY <2>1, <1>2, SwitchDoes
<1> QED
  BY <1>0, <1>1, <1>2

LEMMA FormOfDoes ==
    ASSUME NEW r, NEW i \in Nat
    PROVE  /\ FormOf(r, i) \in [on : BOOLEAN, bad : BOOLEAN]
           /\ i \in 1..Len(r.machines) =>
                 FormOf(r, i).on = (r.machines[i].enabled = "yes")
  BY DEF FormOf, BoxShows

(* What loads names no machine twice.                                       *)
LEMMA LoadedSingle ==
    ASSUME NEW r, Outcome(r) = "loaded"
    PROVE  \A i \in DOMAIN r.machines : Single(r, i)
<1>1. Accepted(r)
  BY DEF Outcome
<1> QED
  BY <1>1 DEF Accepted, Unique, Single

LEMMA InitAsked == Init => AskedInv
<1> SUFFICES ASSUME Init PROVE AskedInv
  OBVIOUS
<1>1. IsText(file)
  BY TextAssumption DEF Init, Texts
<1>2. ui = "closed" /\ form = [on |-> FALSE, bad |-> FALSE] /\ want = [id \in Ids |-> "any"]
  BY DEF Init
<1> QED
  BY <1>1, <1>2 DEF AskedInv, FormShape, TextShape, Unasked, Kept, Saved

(* A step that leaves the rows, the form and what was asked.                *)
LEMMA AskedKept ==
    ASSUME AskedInv, UNCHANGED <<raw, sel, form, want>>, IsText(file'),
           ui' = ui \/ ui' \in {"leaving", "closed"} \/ (ui \in {"saving", "run"} /\ ui' = "ready")
    PROVE  AskedInv'
<1>1. FormShape'
  BY DEF AskedInv, FormShape
<1>2. TextShape'
  BY DEF AskedInv, TextShape
<1>3. Unasked'
  BY DEF AskedInv, Unasked
<1>4. Kept'
  BY DEF AskedInv, Kept, Wants, Single
<1>5. Saved'
  BY DEF AskedInv, Saved, Single
<1> QED
  BY <1>1, <1>2, <1>3, <1>4, <1>5 DEF AskedInv

(* Entries switched, and the form of the selected one with them; then the   *)
(* result may be on its way to the file.                                    *)
LEMMA AskedSwitched ==
    ASSUME AskedInv, ui = "ready",
           NEW rows \in SUBSET DOMAIN raw.machines, NEW on \in BOOLEAN,
           NEW word \in {"any", Flag(on)},
           raw' = WithEnabled(Collected, rows, on),
           form' = IF sel \in rows THEN [form EXCEPT !.on = on] ELSE form,
           sel' = sel, file' = file,
           want' = [id \in Ids |-> IF \E i \in rows : raw.machines[i].id = id THEN word
                                   ELSE want[id]],
           ui' = "ready" \/ (ui' \in {"saving", "run"} /\ Outcome(raw') = "loaded")
    PROVE  AskedInv'
<1> DEFINE n == Len(raw.machines)
<1>0. /\ n \in Nat /\ DOMAIN raw.machines = 1..n /\ IsText(raw) /\ sel \in 0..n
      /\ form \in [on : BOOLEAN, bad : BOOLEAN] /\ want \in [Ids -> {"any", "yes", "no"}]
      /\ IsText(file)
      /\ \A i \in 1..n : raw.machines[i].id \in Ids
  <2>1. IsText(raw)
    BY DEF AskedInv, TextShape
  <2> QED
    BY <2>1, EntriesOf DEF AskedInv, TextShape, Kept, FormShape, IsEntry
<1>1. form.on \in BOOLEAN /\ Flag(on) \in {"yes", "no"}
  BY <1>0 DEF Flag
<1>2. /\ IsText(raw') /\ Len(raw'.machines) = n /\ DOMAIN raw'.machines = 1..n
      /\ \A i \in 1..n :
            /\ raw'.machines[i].id = raw.machines[i].id
            /\ raw'.machines[i].enabled =
                  IF i \in rows THEN Flag(on)
                  ELSE IF i = sel THEN Flag(form.on) ELSE raw.machines[i].enabled
  <2>1. /\ IsText(Collected) /\ Len(Collected.machines) = n
        /\ \A i \in 1..n :
              /\ Collected.machines[i].id = raw.machines[i].id
              /\ Collected.machines[i].enabled =
                    IF i = sel THEN Flag(form.on) ELSE raw.machines[i].enabled
    BY <1>0, <1>1, CollectedDoes
  <2> DEFINE r == Collected
  <2> HIDE DEF r
  <2>2. /\ IsText(WithEnabled(r, rows, on))
        /\ Len(WithEnabled(r, rows, on).machines) = n
        /\ DOMAIN WithEnabled(r, rows, on).machines = 1..n
        /\ \A i \in 1..n :
              /\ WithEnabled(r, rows, on).machines[i].id = r.machines[i].id
              /\ WithEnabled(r, rows, on).machines[i].enabled =
                    IF i \in rows THEN Flag(on) ELSE r.machines[i].enabled
    <3>1. IsText(r) /\ Len(r.machines) = n
      BY <2>1 DEF r
    <3> QED
      BY <3>1, SwitchDoes
  <2>3. raw' = WithEnabled(r, rows, on)
    BY DEF r
  <2>4. \A i \in 1..n : /\ r.machines[i].id = raw.machines[i].id
                        /\ r.machines[i].enabled =
                              IF i = sel THEN Flag(form.on) ELSE raw.machines[i].enabled
    BY <2>1 DEF r
  <2> HIDE DEF n
  <2> QED
    BY <2>2, <2>3, <2>4
<1> HIDE DEF n
<1>3. /\ form' \in [on : BOOLEAN, bad : BOOLEAN]
      /\ form'.on = IF sel \in rows THEN on ELSE form.on
  BY <1>0
<1>4. want' \in [Ids -> {"any", "yes", "no"}]
  BY <1>0, <1>1
<1>5. \A i \in 1..n :
         want'[raw'.machines[i].id] = IF \E j \in rows : raw.machines[j].id = raw.machines[i].id
                                      THEN word ELSE want[raw.machines[i].id]
  BY <1>0, <1>2
<1>6. \A i \in 1..n : Single(raw', i) => Single(raw, i)
  BY <1>0, <1>2 DEF Single
<1>7. Kept'
  <2>1. ASSUME NEW i \in 1..n, Single(raw', i), want'[raw'.machines[i].id] # "any"
        PROVE  want'[raw'.machines[i].id] =
                  IF i = sel THEN Flag(form'.on) ELSE raw'.machines[i].enabled
    <3>1. Single(raw, i)
      BY <1>6, <2>1
    <3>2. (\E j \in rows : raw.machines[j].id = raw.machines[i].id) <=> i \in rows
      BY <3>1 DEF Single
    <3>3. CASE i \in rows
      <4>1. want'[raw'.machines[i].id] = Flag(on)
        BY <1>5, <2>1, <3>2, <3>3
      <4> QED
        BY <1>2, <1>3, <3>3, <4>1
    <3>4. CASE i \notin rows
      <4>1. want'[raw'.machines[i].id] = want[raw.machines[i].id]
        BY <1>5, <3>2, <3>4
      <4>2. want[raw.machines[i].id] = IF i = sel THEN Flag(form.on) ELSE raw.machines[i].enabled
        BY <1>0, <2>1, <3>1, <4>1 DEF AskedInv, Kept, Wants
      <4> QED
        BY <1>2, <1>3, <3>4, <4>1, <4>2
    <3> QED
      BY <3>3, <3>4
  <2>2. sel' \in 0..Len(raw'.machines) /\ DOMAIN raw'.machines = 1..n
    BY <1>0, <1>2
  <2> QED
    BY <2>1, <2>2 DEF Kept, Wants
<1>8. Saved'
  <2>1. CASE ui' = "ready"
    BY <2>1 DEF Saved
  <2>2. CASE Outcome(raw') = "loaded"
    <3>1. \A i \in DOMAIN raw'.machines : Single(raw', i)
      BY <2>2, LoadedSingle
    <3>2. sel # 0 => raw'.machines[sel].enabled = Flag(form'.on)
      BY <1>0, <1>2, <1>3
    <3> QED
      BY <3>1, <3>2 DEF Saved
  <2> QED
    BY <2>1, <2>2
<1> QED
  BY <1>0, <1>2, <1>3, <1>4, <1>7, <1>8 DEF AskedInv, FormShape, TextShape, Unasked

(* The form collected into its row, nothing else.                           *)
LEMMA AskedCollected ==
    ASSUME AskedInv, ui = "ready", raw' = Collected, UNCHANGED <<file, sel, form, want>>,
           ui' = "ready" \/ (ui' \in {"saving", "run"} /\ Outcome(raw') = "loaded")
    PROVE  AskedInv'
<1> DEFINE n == Len(raw.machines)
<1>0. /\ n \in Nat /\ DOMAIN raw.machines = 1..n /\ IsText(raw) /\ sel \in 0..n
      /\ form \in [on : BOOLEAN, bad : BOOLEAN] /\ IsText(file)
  <2>1. IsText(raw)
    BY DEF AskedInv, TextShape
  <2> QED
    BY <2>1, EntriesOf DEF AskedInv, TextShape, Kept, FormShape
<1>1. form.on \in BOOLEAN
  BY <1>0
<1>2. /\ IsText(raw') /\ Len(raw'.machines) = n /\ DOMAIN raw'.machines = 1..n
      /\ \A i \in 1..n :
            /\ raw'.machines[i].id = raw.machines[i].id
            /\ raw'.machines[i].enabled =
                  IF i = sel THEN Flag(form.on) ELSE raw.machines[i].enabled
  BY <1>0, <1>1, CollectedDoes
<1> HIDE DEF n
<1>3. \A i \in 1..n : Single(raw', i) => Single(raw, i)
  BY <1>0, <1>2 DEF Single
<1>4. Kept'
  <2>1. ASSUME NEW i \in 1..n, Single(raw', i), want[raw.machines[i].id] # "any"
        PROVE  want[raw.machines[i].id] =
                  IF i = sel THEN Flag(form.on) ELSE raw'.machines[i].enabled
    <3>1. want[raw.machines[i].id] = IF i = sel THEN Flag(form.on) ELSE raw.machines[i].enabled
      BY <1>0, <1>3, <2>1 DEF AskedInv, Kept, Wants
    <3> QED
      BY <1>2, <3>1
  <2>2. /\ sel' \in 0..Len(raw'.machines) /\ DOMAIN raw'.machines = 1..n
        /\ \A i \in 1..n : want'[raw'.machines[i].id] = want[raw.machines[i].id]
    BY <1>0, <1>2
  <2> QED
    BY <2>1, <2>2 DEF Kept, Wants
<1>5. Saved'
  <2>1. CASE ui' = "ready"
    BY <2>1 DEF Saved
  <2>2. CASE Outcome(raw') = "loaded"
    <3>1. \A i \in DOMAIN raw'.machines : Single(raw', i)
      BY <2>2, LoadedSingle
    <3>2. sel # 0 => raw'.machines[sel].enabled = Flag(form.on)
      BY <1>0, <1>2
    <3> QED
      BY <3>1, <3>2 DEF Saved
  <2> QED
    BY <2>1, <2>2
<1> QED
  BY <1>0, <1>2, <1>4, <1>5 DEF AskedInv, FormShape, TextShape, Unasked

LEMMA AskedFacts ==
    ASSUME AskedInv, ui \in {"ready", "saving", "run"}
    PROVE  /\ Len(raw.machines) \in Nat /\ DOMAIN raw.machines = 1..Len(raw.machines)
           /\ "machines" \in DOMAIN raw /\ IsText(raw) /\ IsText(file)
           /\ sel \in 0..Len(raw.machines)
           /\ form \in [on : BOOLEAN, bad : BOOLEAN]
           /\ want \in [Ids -> {"any", "yes", "no"}]
           /\ \A i \in 1..Len(raw.machines) : IsEntry(raw.machines[i])
           /\ \A i \in 1..Len(raw.machines) :
                 Single(raw, i) /\ want[raw.machines[i].id] # "any" =>
                    want[raw.machines[i].id] =
                       IF i = sel THEN Flag(form.on) ELSE raw.machines[i].enabled
<1>1. IsText(raw)
  BY DEF AskedInv, TextShape
<1>2. /\ Len(raw.machines) \in Nat /\ DOMAIN raw.machines = 1..Len(raw.machines)
      /\ \A i \in 1..Len(raw.machines) : IsEntry(raw.machines[i])
  BY <1>1, EntriesOf
<1>3. "machines" \in DOMAIN raw
  BY <1>1 DEF IsText
<1> QED
  BY <1>1, <1>2, <1>3 DEF AskedInv, TextShape, Kept, Wants, FormShape

LEMMA OpenRevisionAsked == ASSUME AskedInv, OpenRevision PROVE AskedInv'
<1>1. /\ ui = "loading" /\ ui' = "ready" /\ UNCHANGED <<file, raw, want>>
      /\ sel' = IF raw.machines = <<>> THEN 0 ELSE 1
      /\ form' = FormOf(raw, sel')
  BY DEF OpenRevision, ghosts
<1>2. IsText(raw) /\ IsText(file) /\ want \in [Ids -> {"any", "yes", "no"}]
      /\ \A id \in Ids : want[id] = "any"
  BY <1>1 DEF AskedInv, TextShape, FormShape, Unasked
<1>3. /\ Len(raw.machines) \in Nat /\ DOMAIN raw.machines = 1..Len(raw.machines)
      /\ \A i \in 1..Len(raw.machines) : raw.machines[i].id \in Ids
      /\ raw.machines \in Seq(Range(raw.machines))
  BY <1>2, EntriesOf DEF IsText, IsEntry
<1>4. sel' \in 0..Len(raw.machines)
  <2>1. CASE raw.machines = <<>>
    BY <1>1, <1>3, <2>1
  <2>2. CASE raw.machines # <<>>
    <3>1. Len(raw.machines) # 0
      BY <1>3, <2>2
    <3> QED
      BY <1>1, <1>3, <2>2, <3>1
  <2> QED
    BY <2>1, <2>2
<1>5. form' \in [on : BOOLEAN, bad : BOOLEAN]
  <2>1. sel' \in Nat
    BY <1>1
  <2> QED
    BY <1>1, <2>1, FormOfDoes
<1>6. Kept'
  BY <1>1, <1>2, <1>3, <1>4 DEF Kept, Wants
<1> QED
  BY <1>1, <1>2, <1>5, <1>6 DEF AskedInv, FormShape, TextShape, Unasked, Saved

LEMMA TickAsked == ASSUME AskedInv, Tick PROVE AskedInv'
<1> DEFINE on == ~form.on
           n == Len(raw.machines)
<1>1. /\ ui = "ready" /\ ui' = "ready" /\ sel # 0 /\ UNCHANGED <<file, raw, sel>>
      /\ form' = [form EXCEPT !.on = on]
      /\ want' = [id \in Ids |-> IF \E i \in {sel} : raw.machines[i].id = id THEN Flag(on)
                                 ELSE want[id]]
  BY DEF Tick, Ready, Asked
<1>2. /\ n \in Nat /\ DOMAIN raw.machines = 1..n /\ sel \in 1..n
      /\ IsText(raw) /\ IsText(file)
      /\ form \in [on : BOOLEAN, bad : BOOLEAN]
      /\ want \in [Ids -> {"any", "yes", "no"}]
      /\ \A i \in 1..n : raw.machines[i].id \in Ids
  BY <1>1, AskedFacts DEF IsEntry
<1> HIDE DEF n
<1>3. /\ form' \in [on : BOOLEAN, bad : BOOLEAN] /\ form'.on = on
      /\ want' \in [Ids -> {"any", "yes", "no"}]
  BY <1>1, <1>2 DEF Flag
<1> HIDE DEF on
<1>4. ASSUME NEW i \in 1..n, Single(raw, i), want'[raw.machines[i].id] # "any"
      PROVE  want'[raw.machines[i].id] =
                IF i = sel THEN Flag(form'.on) ELSE raw.machines[i].enabled
  <2>1. CASE i = sel
    BY <1>1, <1>2, <1>3, <2>1
  <2>2. CASE i # sel
    <3>1. raw.machines[sel].id # raw.machines[i].id
      BY <1>2, <1>4, <2>2 DEF Single
    <3>2. want'[raw.machines[i].id] = want[raw.machines[i].id]
      BY <1>1, <1>2, <3>1
    <3> QED
      BY <1>1, <1>2, <1>4, <2>2, <3>2 DEF AskedInv, Kept, Wants
  <2> QED
    BY <2>1, <2>2
<1>5. Kept'
  BY <1>1, <1>2, <1>4 DEF Kept, Wants, Single
<1> QED
  BY <1>1, <1>2, <1>3, <1>5 DEF AskedInv, FormShape, TextShape, Unasked, Saved

LEMMA TypeAsked == ASSUME AskedInv, Type PROVE AskedInv'
<1>1. /\ ui = "ready" /\ ui' = "ready" /\ UNCHANGED <<file, raw, sel, want>>
      /\ form' = [form EXCEPT !.bad = ~form.bad]
  BY DEF Type, Ready, ghosts
<1>2. form \in [on : BOOLEAN, bad : BOOLEAN]
  BY DEF AskedInv, FormShape
<1>3. form' \in [on : BOOLEAN, bad : BOOLEAN] /\ form'.on = form.on
  BY <1>1, <1>2
<1>4. Kept'
  BY <1>1, <1>3 DEF AskedInv, Kept, Wants, Single
<1> QED
  BY <1>1, <1>3, <1>4 DEF AskedInv, FormShape, TextShape, Unasked, Saved

(* Another row is selected: the last one is collected first.  The form of a *)
(* row that was switched shows what it says.                                *)
LEMMA SelectAsked == ASSUME AskedInv, NEW k, Select(k) PROVE AskedInv'
<1> DEFINE n == Len(raw.machines)
<1>1. /\ ui = "ready" /\ ui' = "ready" /\ UNCHANGED <<file, want>>
      /\ k \in DOMAIN raw.machines /\ k # sel
      /\ raw' = Collected /\ sel' = k /\ form' = FormOf(Collected, k)
  BY DEF Select, Ready, ghosts
<1>2. /\ n \in Nat /\ DOMAIN raw.machines = 1..n /\ sel \in 0..n
      /\ IsText(raw) /\ IsText(file) /\ form.on \in BOOLEAN
      /\ want \in [Ids -> {"any", "yes", "no"}]
      /\ \A i \in 1..n : raw.machines[i].id \in Ids
  BY <1>1, AskedFacts DEF IsEntry
<1>3. /\ IsText(raw') /\ Len(raw'.machines) = n /\ DOMAIN raw'.machines = 1..n
      /\ \A i \in 1..n :
            /\ raw'.machines[i].id = raw.machines[i].id
            /\ raw'.machines[i].enabled =
                  IF i = sel THEN Flag(form.on) ELSE raw.machines[i].enabled
  BY <1>1, <1>2, CollectedDoes
<1>4. /\ form' \in [on : BOOLEAN, bad : BOOLEAN]
      /\ form'.on = (raw'.machines[k].enabled = "yes")
  <2>1. k \in Nat /\ k \in 1..Len(raw'.machines) /\ form' = FormOf(raw', k)
    BY <1>1, <1>2, <1>3
  <2> QED
    BY <2>1, FormOfDoes
<1> HIDE DEF n
<1>5. ASSUME NEW i \in 1..n, Single(raw', i), want[raw.machines[i].id] # "any"
      PROVE  want[raw.machines[i].id] =
                IF i = k THEN Flag(form'.on) ELSE raw'.machines[i].enabled
  <2>1. Single(raw, i)
    BY <1>2, <1>3, <1>5 DEF Single
  <2>2. want[raw.machines[i].id] = raw'.machines[i].enabled
    BY <1>1, <1>2, <1>3, <1>5, <2>1 DEF AskedInv, Kept, Wants
  <2>3. want[raw.machines[i].id] \in {"yes", "no"}
    BY <1>2, <1>5
  <2> QED
    BY <1>4, <2>2, <2>3 DEF Flag
<1>6. Kept'
  BY <1>1, <1>2, <1>3, <1>5 DEF Kept, Wants
<1> QED
  BY <1>1, <1>2, <1>3, <1>4, <1>6 DEF AskedInv, FormShape, TextShape, Unasked, Saved

(* The selected row goes, and what was asked of it.                         *)
LEMMA RemoveAsked == ASSUME AskedInv, Remove PROVE AskedInv'
<1> DEFINE n == Len(raw.machines)
           s(i) == IF i < sel THEN i ELSE i + 1
<1>1. /\ ui = "ready" /\ ui' = "ready" /\ UNCHANGED file /\ sel # 0
      /\ raw' = [raw EXCEPT !.machines =
                    [i \in 1..(n - 1) |-> IF i < sel THEN raw.machines[i]
                                          ELSE raw.machines[i + 1]]]
      /\ sel' = IF raw'.machines = <<>> THEN 0 ELSE 1
      /\ form' = FormOf(raw', sel')
      /\ want' = [want EXCEPT ![raw.machines[sel].id] = "any"]
  BY DEF Remove, Ready
<1>2. /\ n \in Nat /\ DOMAIN raw.machines = 1..n /\ sel \in 1..n
      /\ IsText(raw) /\ IsText(file) /\ "machines" \in DOMAIN raw
      /\ want \in [Ids -> {"any", "yes", "no"}]
      /\ \A i \in 1..n : IsEntry(raw.machines[i]) /\ raw.machines[i].id \in Ids
  BY <1>1, AskedFacts DEF IsEntry
<1> HIDE DEF n
<1>3. /\ "machines" \in DOMAIN raw' /\ n - 1 \in Nat
      /\ raw'.machines = [i \in 1..(n - 1) |-> raw.machines[s(i)]]
      /\ \A i \in 1..(n - 1) : s(i) \in 1..n
  BY <1>1, <1>2
<1>4. \A i \in 1..(n - 1) : raw'.machines[i] = raw.machines[s(i)]
  BY <1>3
<1>5. IsText(raw') /\ Len(raw'.machines) = n - 1 /\ DOMAIN raw'.machines = 1..(n - 1)
  <2> DEFINE S == {raw.machines[i] : i \in 1..n}
  <2>1. raw'.machines \in [1..(n - 1) -> S]
    BY <1>3
  <2>2. \A i \in 1..(n - 1) : IsEntry(raw'.machines[i])
    BY <1>2, <1>3, <1>4
  <2> HIDE DEF S
  <2> QED
    BY <1>3, <2>1, <2>2, TextOf
<1>6. sel' \in 0..(n - 1)
  <2>1. CASE raw'.machines = <<>>
    BY <1>1, <1>3, <2>1
  <2>2. CASE raw'.machines # <<>>
    <3>1. raw'.machines \in Seq(Range(raw'.machines))
      BY <1>5 DEF IsText
    <3>2. n - 1 # 0
      BY <1>5, <2>2, <3>1
    <3> QED
      BY <1>1, <1>3, <2>2, <3>2
  <2> QED
    BY <2>1, <2>2
<1>7. /\ form' \in [on : BOOLEAN, bad : BOOLEAN]
      /\ sel' \in 1..(n - 1) => form'.on = (raw'.machines[sel'].enabled = "yes")
  <2>1. sel' \in Nat /\ (sel' \in 1..(n - 1) => sel' \in 1..Len(raw'.machines))
    BY <1>5, <1>6
  <2> QED
    BY <1>1, <2>1, FormOfDoes
<1>8. want' \in [Ids -> {"any", "yes", "no"}]
  BY <1>1, <1>2
<1>9. ASSUME NEW i \in 1..(n - 1), Single(raw', i), want'[raw'.machines[i].id] # "any"
      PROVE  want'[raw'.machines[i].id] =
                IF i = sel' THEN Flag(form'.on) ELSE raw'.machines[i].enabled
  <2>1. /\ raw'.machines[i] = raw.machines[s(i)] /\ s(i) \in 1..n /\ s(i) # sel
    BY <1>2, <1>3, <1>4
  <2>2. /\ raw'.machines[i].id # raw.machines[sel].id
        /\ want'[raw'.machines[i].id] = want[raw'.machines[i].id]
    BY <1>1, <1>2, <1>9, <2>1
  <2>3. ASSUME NEW j \in 1..n, raw.machines[j].id = raw.machines[s(i)].id
        PROVE  j = s(i)
    <3>1. j # sel
      BY <2>1, <2>2, <2>3
    <3>2. PICK k \in 1..(n - 1) : s(k) = j
      <4>1. CASE j < sel
        <5>1. j \in 1..(n - 1) /\ s(j) = j
          BY <1>2, <4>1
        <5> QED
          BY <5>1
      <4>2. CASE j > sel
        <5>1. j - 1 \in 1..(n - 1) /\ s(j - 1) = j
          BY <1>2, <4>2
        <5> QED
          BY <5>1
      <4> QED
        BY <1>2, <3>1, <4>1, <4>2
    <3>3. k = i
      BY <1>4, <1>5, <1>9, <2>1, <2>3, <3>2 DEF Single
    <3> QED
      BY <3>2, <3>3
  <2>4. Single(raw, s(i))
    BY <1>2, <2>3 DEF Single
  <2> HIDE DEF s
  <2>5. want[raw.machines[s(i)].id] = raw.machines[s(i)].enabled
    BY <1>1, <1>2, <1>9, <2>1, <2>2, <2>4 DEF AskedInv, Kept, Wants
  <2>6. want'[raw'.machines[i].id] = raw'.machines[i].enabled
    BY <2>1, <2>2, <2>5
  <2>7. want'[raw'.machines[i].id] \in {"yes", "no"}
    BY <1>2, <1>8, <1>9, <2>1
  <2> QED
    BY <1>7, <2>6, <2>7 DEF Flag
<1>10. Kept'
  BY <1>5, <1>6, <1>9 DEF Kept, Wants
<1> QED
  BY <1>1, <1>2, <1>5, <1>7, <1>8, <1>10 DEF AskedInv, FormShape, TextShape, Unasked, Saved

LEMMA AppendDoes ==
    ASSUME NEW S, NEW q \in Seq(S), NEW x, NEW n \in Nat, Len(q) = n
    PROVE  /\ Append(q, x) \in [1..(n + 1) -> S \cup {x}]
           /\ Append(q, x)[n + 1] = x
           /\ \A i \in 1..n : Append(q, x)[i] = q[i]
<1>1. Append(q, x) \in Seq(S \cup {x}) /\ Len(Append(q, x)) = n + 1
  <2>1. q \in Seq(S \cup {x})
    OBVIOUS
  <2> QED
    BY <2>1
<1>2. PICK a \in Seq(S \cup {x}) : a = Append(q, x) /\ Len(a) = n + 1
  BY <1>1
<1>3. a \in [1..Len(a) -> S \cup {x}]
  OBVIOUS
<1>4. a \in [1..(n + 1) -> S \cup {x}]
  BY <1>2, <1>3
<1>5. a[n + 1] = x /\ \A i \in 1..n : a[i] = q[i]
  BY <1>2
<1> QED
  BY <1>2, <1>4, <1>5

(* A row more, with a name nobody has and nothing asked of it.              *)
LEMMA AddAsked == ASSUME AskedInv, NEW m \in Fresh, Add(m) PROVE AskedInv'
<1> DEFINE n == Len(raw.machines)
<1>1. PICK row :
         /\ ui = "ready" /\ ui' = "ready" /\ UNCHANGED file
         /\ \A i \in DOMAIN raw.machines : raw.machines[i].id # m.id
         /\ \/ row = m
            \/ /\ sel # 0
               /\ row = [Collected.machines[sel] EXCEPT !.id = m.id, !.name = m.name,
                                                        !.port = m.port, !.enabled = "no"]
         /\ raw' = [Collected EXCEPT !.machines = Append(Collected.machines, row)]
         /\ sel' = Len(raw'.machines) /\ form' = FormOf(raw', sel')
         /\ want' = [want EXCEPT ![m.id] = "any"]
  BY DEF Add, Ready
<1>2. /\ n \in Nat /\ DOMAIN raw.machines = 1..n /\ sel \in 0..n
      /\ IsText(raw) /\ IsText(file) /\ form.on \in BOOLEAN
      /\ want \in [Ids -> {"any", "yes", "no"}]
      /\ \A i \in 1..n : raw.machines[i].id \in Ids
      /\ m.id \in Ids /\ IsEntry(m)
  BY <1>1, AskedFacts, TextAssumption DEF IsEntry
<1>3. PICK c : c = Collected
  OBVIOUS
<1>4. /\ IsText(c) /\ Len(c.machines) = n /\ DOMAIN c.machines = 1..n
      /\ \A i \in 1..n :
            /\ c.machines[i].id = raw.machines[i].id
            /\ c.machines[i].enabled = IF i = sel THEN Flag(form.on) ELSE raw.machines[i].enabled
  BY <1>2, <1>3, CollectedDoes
<1>5. /\ c.machines \in [1..n -> Range(c.machines)] /\ "machines" \in DOMAIN c
      /\ c.machines \in Seq(Range(c.machines))
      /\ \A i \in 1..n : IsEntry(c.machines[i])
  BY <1>4, EntriesOf DEF IsText
<1> HIDE DEF n
<1>6. IsEntry(row) /\ row.id = m.id
  <2>1. CASE row = m
    BY <1>2, <2>1
  <2>2. CASE sel # 0 /\ row = [c.machines[sel] EXCEPT !.id = m.id, !.name = m.name,
                                                      !.port = m.port, !.enabled = "no"]
    <3>1. sel \in 1..n
      BY <1>2, <2>2
    <3>2. {"id", "enabled"} \subseteq DOMAIN c.machines[sel]
      BY <1>5, <3>1 DEF IsEntry
    <3>3. DOMAIN row = DOMAIN c.machines[sel] /\ row.id = m.id
      BY <2>2, <3>2
    <3> QED
      BY <1>2, <3>2, <3>3 DEF IsEntry
  <2> QED
    BY <1>1, <1>3, <2>1, <2>2
<1>7. /\ "machines" \in DOMAIN raw' /\ raw'.machines = Append(c.machines, row)
  BY <1>1, <1>3, <1>5
<1>8. /\ raw'.machines \in [1..(n + 1) -> Range(c.machines) \cup {row}]
      /\ raw'.machines[n + 1] = row
      /\ \A i \in 1..n : raw'.machines[i] = c.machines[i]
  BY <1>2, <1>4, <1>5, <1>7, AppendDoes
<1>9. IsText(raw') /\ Len(raw'.machines) = n + 1 /\ DOMAIN raw'.machines = 1..(n + 1)
  <2>1. n + 1 \in Nat
    BY <1>2
  <2>2. \A i \in 1..(n + 1) : IsEntry(raw'.machines[i])
    <3>1. \A i \in 1..(n + 1) : i \in 1..n \/ i = n + 1
      BY <1>2
    <3> QED
      BY <1>5, <1>6, <1>8, <3>1
  <2> QED
    BY <1>7, <1>8, <2>1, <2>2, TextOf
<1>10. sel' = n + 1 /\ form' \in [on : BOOLEAN, bad : BOOLEAN]
  <2>1. sel' = n + 1 /\ sel' \in Nat
    BY <1>1, <1>2, <1>9
  <2> QED
    BY <1>1, <2>1, FormOfDoes
<1>11. want' \in [Ids -> {"any", "yes", "no"}]
  BY <1>1, <1>2
<1>12. ASSUME NEW i \in 1..(n + 1), Single(raw', i), want'[raw'.machines[i].id] # "any"
       PROVE  want'[raw'.machines[i].id] =
                 IF i = sel' THEN Flag(form'.on) ELSE raw'.machines[i].enabled
  <2>1. want'[m.id] = "any"
    BY <1>1, <1>2
  <2>2. i \in 1..n /\ raw'.machines[i].id = raw.machines[i].id
    <3>1. i \in 1..n \/ i = n + 1
      BY <1>2
    <3>2. i # n + 1
      BY <1>6, <1>8, <1>12, <2>1
    <3> QED
      BY <1>4, <1>8, <3>1, <3>2
  <2>3. want'[raw'.machines[i].id] = want[raw.machines[i].id]
    BY <1>1, <1>2, <2>2
  <2>4. Single(raw, i)
    <3>1. \A j \in 1..n : raw'.machines[j].id = raw.machines[j].id /\ j \in 1..(n + 1)
      BY <1>2, <1>4, <1>8
    <3> QED
      BY <1>2, <1>9, <1>12, <2>2, <3>1 DEF Single
  <2>5. want[raw.machines[i].id] = c.machines[i].enabled
    <3>1. want[raw.machines[i].id] # "any"
      BY <1>12, <2>2, <2>3
    <3>2. want[raw.machines[i].id] = IF i = sel THEN Flag(form.on) ELSE raw.machines[i].enabled
      BY <1>1, <1>2, <2>2, <2>4, <3>1 DEF AskedInv, Kept, Wants
    <3> QED
      BY <1>4, <2>2, <3>2
  <2>6. i # sel' /\ raw'.machines[i].enabled = c.machines[i].enabled
    BY <1>2, <1>8, <1>10, <2>2
  <2> QED
    BY <2>3, <2>5, <2>6
<1>13. Kept'
  BY <1>2, <1>9, <1>10, <1>12 DEF Kept, Wants
<1> QED
  BY <1>1, <1>2, <1>9, <1>10, <1>11, <1>13 DEF AskedInv, FormShape, TextShape, Unasked, Saved

LEMMA OpenTextAsked == ASSUME AskedInv, OpenText PROVE AskedInv'
<1>1. /\ ui' = "loading" /\ raw' = file /\ UNCHANGED <<file, form>>
      /\ want' = [id \in Ids |-> "any"]
  BY DEF OpenText
<1> QED
  BY <1>1 DEF AskedInv, FormShape, TextShape, Unasked, Kept, Saved

LEMMA SaveOfAsked ==
    ASSUME ui = "ready", NEW r, NEW after \in {"saving", "run"}, SaveOf(r, after)
    PROVE  ui' = "ready" \/ (ui' \in {"saving", "run"} /\ Outcome(r) = "loaded")
  BY DEF SaveOf

LEMMA SetEnabledAsked ==
    ASSUME AskedInv, ui = "ready", UNCHANGED <<file, sel>>,
           NEW rows \in SUBSET DOMAIN raw.machines, NEW on \in BOOLEAN,
           SetEnabled(rows, on)
    PROVE  AskedInv'
<1> DEFINE r == WithEnabled(Collected, rows, on)
<1>1. CASE /\ Asked(rows, on) /\ ApplyEnabled(Collected, rows, on)
           /\ SaveOf(r, "saving")
  <2>1. ui' = "ready" \/ (ui' \in {"saving", "run"} /\ Outcome(r) = "loaded")
    BY <1>1, SaveOfAsked
  <2>2. /\ raw' = WithEnabled(Collected, rows, on)
        /\ form' = IF sel \in rows THEN [form EXCEPT !.on = on] ELSE form
        /\ want' = [id \in Ids |-> IF \E i \in rows : raw.machines[i].id = id THEN Flag(on)
                                   ELSE want[id]]
    BY <1>1 DEF ApplyEnabled, Asked
  <2> HIDE DEF r
  <2>3. ui' = "ready" \/ (ui' \in {"saving", "run"} /\ Outcome(raw') = "loaded")
    BY <2>1, <2>2 DEF r
  <2> QED
    BY <2>2, <2>3, AskedSwitched
<1>2. CASE /\ Withdrawn(rows) /\ ApplyEnabled(Collected, rows, FALSE) /\ UNCHANGED ui
  <2>1. /\ raw' = WithEnabled(Collected, rows, FALSE)
        /\ form' = IF sel \in rows THEN [form EXCEPT !.on = FALSE] ELSE form
        /\ want' = [id \in Ids |-> IF \E i \in rows : raw.machines[i].id = id THEN "any"
                                   ELSE want[id]]
        /\ ui' = "ready"
    BY <1>2 DEF ApplyEnabled, Withdrawn
  <2> QED
    BY <2>1, AskedSwitched
<1> QED
  BY <1>1, <1>2 DEF SetEnabled

LEMMA StepAsked == AskedInv /\ [Next]_vars => AskedInv'
<1> SUFFICES ASSUME AskedInv, [Next]_vars PROVE AskedInv'
  OBVIOUS
<1>0. IsText(file)
  BY DEF AskedInv, TextShape
<1>1. CASE Panel
  <2>1. CASE OpenText \/ OpenRevision \/ Tick \/ Type \/ Remove
    BY <2>1, OpenTextAsked, OpenRevisionAsked, TickAsked, TypeAsked, RemoveAsked
  <2>2. ASSUME NEW i \in 1..MaxRows, Select(i) PROVE AskedInv'
    BY <2>2, SelectAsked
  <2>3. ASSUME NEW m \in Fresh, Add(m) PROVE AskedInv'
    BY <2>3, AddAsked
  <2>4. CASE Save
    <3>1. /\ ui = "ready" /\ raw' = Collected /\ SaveOf(raw', "saving")
          /\ UNCHANGED <<file, sel, form, want>>
      BY <2>4 DEF Save, Ready, ghosts
    <3>2. ui' = "ready" \/ (ui' \in {"saving", "run"} /\ Outcome(raw') = "loaded")
      BY <3>1, SaveOfAsked
    <3> QED
      BY <3>1, <3>2, AskedCollected
  <2>5. CASE RunHere
    <3>1. /\ ui = "ready" /\ raw' = Collected /\ SaveOf(raw', "run")
          /\ UNCHANGED <<file, sel, form, want>>
      BY <2>5 DEF RunHere, Ready, ghosts
    <3>2. ui' = "ready" \/ (ui' \in {"saving", "run"} /\ Outcome(raw') = "loaded")
      BY <3>1, SaveOfAsked
    <3> QED
      BY <3>1, <3>2, AskedCollected
  <2>6. ASSUME NEW c \in 1..MaxCommands, Submit(c) PROVE AskedInv'
    <3>1. /\ ui = "ready" /\ raw' = Collected /\ ui' = "ready"
          /\ UNCHANGED <<file, sel, form, want>>
      BY <2>6 DEF Submit, Ready, ghosts
    <3> QED
      BY <3>1, AskedCollected
  <2>7. ASSUME NEW on \in BOOLEAN, EnableSelected(on) PROVE AskedInv'
    <3>1. /\ ui = "ready" /\ SetEnabled({sel}, on) /\ UNCHANGED <<file, sel>> /\ sel # 0
      BY <2>7 DEF EnableSelected, Ready
    <3>2. {sel} \in SUBSET DOMAIN raw.machines
      BY <3>1, AskedFacts
    <3> QED
      BY <3>1, <3>2, SetEnabledAsked
  <2>8. ASSUME NEW on \in BOOLEAN, EnableAll(on) PROVE AskedInv'
    <3>1. PICK rows \in SUBSET DOMAIN raw.machines :
             /\ ui = "ready" /\ SetEnabled(rows, on) /\ UNCHANGED <<file, sel>>
      BY <2>8 DEF EnableAll, Ready
    <3> QED
      BY <3>1, SetEnabledAsked
  <2>9. CASE Replace
    <3>1. /\ ui \in {"saving", "run"} /\ ui' = "ready" /\ file' = raw
          /\ UNCHANGED <<raw, sel, form, want>>
      BY <2>9 DEF Replace
    <3>2. IsText(raw)
      BY <3>1 DEF AskedInv, TextShape
    <3> QED
      BY <3>1, <3>2, AskedKept
  <2>12. CASE ReplaceFails
    <3>1. /\ ui \in {"saving", "run"} /\ ui' = "ready"
          /\ UNCHANGED <<file, raw, sel, form, want>>
      BY <2>12 DEF ReplaceFails, ghosts
    <3> QED
      BY <1>0, <3>1, AskedKept
  <2>10. CASE StopHere \/ Poll \/ Close
    <3>1. /\ UNCHANGED <<file, raw, sel, form, want>>
          /\ ui' = ui \/ ui' = "leaving"
      <4> USE DEF panelVars, ghosts
      <4>1. CASE StopHere
        BY <4>1 DEF StopHere
      <4>2. CASE Poll
        BY <4>2 DEF Poll
      <4>3. CASE Close
        BY <4>3 DEF Close
      <4> QED
        BY <2>10, <4>1, <4>2, <4>3
    <3> QED
      BY <1>0, <3>1, AskedKept
  <2>11. CASE Destroy
    <3>1. /\ ui' = "closed" /\ UNCHANGED file
          /\ form' = [on |-> FALSE, bad |-> FALSE] /\ want' = [id \in Ids |-> "any"]
      BY <2>11 DEF Destroy
    <3> QED
      BY <1>0, <3>1 DEF AskedInv, FormShape, TextShape, Unasked, Kept, Saved
  <2> QED
    BY <1>1, <2>1, <2>2, <2>3, <2>4, <2>5, <2>6, <2>7, <2>8, <2>9, <2>10, <2>11, <2>12
       DEF Panel
<1>2. ASSUME NEW c \in HandEdits, HandEdit(c) PROVE AskedInv'
  <2>1. /\ file' = c /\ UNCHANGED <<ui, raw, sel, form, want>>
    BY <1>2 DEF HandEdit, panelVars
  <2>2. IsText(c)
    BY TextAssumption DEF Texts
  <2> QED
    BY <2>1, <2>2, AskedKept
<1>3. CASE BeginService \/ StopService \/ Crash \/ GoesStale
  <2>1. UNCHANGED <<file, panelVars, ghosts>>
    BY <1>3 DEF BeginService, StopService, Crash, GoesStale
  <2> QED
    BY <1>0, <2>1, AskedKept DEF panelVars, ghosts
<1>4. ASSUME NEW p \in Processes, Service(p) PROVE AskedInv'
  <2>1. UNCHANGED <<file, panelVars, ghosts>>
    BY <1>4 DEF Service, Construct, Acquire, Refused, Started, StartFails,
           UnwindFails, Undone, ReadRevision, RevisionFails, Reload, Consume, Process,
           WriteStatus, Unlock, Stopped, StopFails
  <2> QED
    BY <1>0, <2>1, AskedKept DEF panelVars, ghosts
<1>5. CASE UNCHANGED vars
  BY <1>0, <1>5, AskedKept DEF vars, panelVars, ghosts
<1> QED
  BY <1>1, <1>2, <1>3, <1>4, <1>5 DEF Next

(* What a save puts on its way to the file has every machine the operator   *)
(* switched as it was asked for last, in whatever order rows were ticked,   *)
(* selected, added, removed, switched together and refused (gui/app.py):    *)
(* the flag lives in two places, and saving lets the checkbox win.          *)
THEOREM SavesAsAsked == Spec => []EnabledAsAsked
<1>1. Spec => []AskedInv
  BY InitAsked, StepAsked, PTL DEF Spec
<1>2. AskedInv => EnabledAsAsked
  <2> SUFFICES ASSUME AskedInv, ui \in {"saving", "run"}, NEW i \in DOMAIN raw.machines,
                      Wants(i) # "any"
               PROVE  RowShows(raw.machines[i]) = (Wants(i) = "yes")
    BY DEF EnabledAsAsked, Wants
  <2>1. Single(raw, i) /\ i \in 1..Len(raw.machines)
    BY AskedFacts DEF AskedInv, Saved
  <2>2. i = sel => raw.machines[i].enabled = Flag(form.on)
    BY <2>1, AskedFacts DEF AskedInv, Saved
  <2>3. Wants(i) = raw.machines[i].enabled
    BY <2>1, <2>2, AskedFacts DEF Wants
  <2>4. Wants(i) \in {"yes", "no"}
    BY <2>1, AskedFacts DEF Wants, IsEntry
  <2> QED
    BY <2>3, <2>4 DEF RowShows, Enabled, Is
<1> QED
  BY <1>1, <1>2, PTL

----------------------------------------------------------------------------
(* Listeners, routes and the embedded tool.                                 *)

LEMMA OneListener ==
    ASSUME NEW m, NEW s \in Listeners(m)
    PROVE  /\ Enabled(m) /\ s.port = m.port
           /\ Simulated(m) \/ Passive(m)
           /\ s.addr = IF Simulated(m) THEN Loop ELSE Bind(m)
  BY DEF Listeners

(* Two machines of an accepted configuration never listen on addresses that *)
(* cover each other on one port, whatever mix of real and simulated, active *)
(* and passive they are, provided that the address of a passive one is not  *)
(* blank and that of a simulated one is one it really binds: config.py      *)
(* 713-780 compares the addresses of the file, service/simulator_runtime.py *)
(* 61-66 replaces them.                                                     *)
THEOREM AcceptedListenersDisjoint ==
    ASSUME NEW conf, Accepted(conf),
           NEW i \in DOMAIN conf.machines, NEW j \in DOMAIN conf.machines, i # j,
           PlainBind(conf.machines[i]), PlainBind(conf.machines[j]),
           NEW s \in Listeners(conf.machines[i]), NEW t \in Listeners(conf.machines[j])
    PROVE  ~Overlap(s, t)
<1> DEFINE m == conf.machines[i]
           n == conf.machines[j]
<1>1. /\ ~PassiveClash(m, n) /\ ~SimulatorClash(m, n)
      /\ ~ListenerClash(m, n) /\ ~ListenerClash(n, m)
  BY DEF Accepted, Unique
<1>2. /\ Enabled(m) /\ s.port = m.port /\ (Simulated(m) \/ Passive(m))
      /\ s.addr = IF Simulated(m) THEN Loop ELSE Bind(m)
  BY OneListener
<1>3. /\ Enabled(n) /\ t.port = n.port /\ (Simulated(n) \/ Passive(n))
      /\ t.addr = IF Simulated(n) THEN Loop ELSE Bind(n)
  BY OneListener
<1>4. SUFFICES ASSUME m.port = n.port
               PROVE  ~(s.addr = t.addr \/ {s.addr, t.addr} \cap {Any, Blank} # {})
  BY <1>2, <1>3 DEF Overlap
<1>5. ~(Simulated(m) /\ Simulated(n))
  BY <1>1, <1>2, <1>3, <1>4 DEF SimulatorClash
<1>6. Passive(m) /\ Passive(n)
  BY <1>1, <1>2, <1>3, <1>4, <1>5 DEF ListenerClash
<1>7. Bind(m) # Bind(n) /\ Bind(m) # Any /\ Bind(n) # Any
  BY <1>1, <1>2, <1>3, <1>4, <1>6 DEF PassiveClash
<1>8. /\ s.addr = Bind(m) /\ t.addr = Bind(n)
      /\ Bind(m) # Blank /\ Bind(n) # Blank
  BY <1>2, <1>3, <1>6, <1>7 DEF PlainBind
<1> QED
  BY <1>7, <1>8

(* An enabled machine that is not offline has a queue its events reach when *)
(* the configuration is accepted, although the route that is checked        *)
(* (config.py 903-948) and the one the machine is started with (service/    *)
(* http_outbox.py 97-144) are worked out in different places.               *)
THEOREM RoutedHasUpstream ==
    ASSUME NEW conf, Accepted(conf), NEW i \in DOMAIN conf.machines,
           Enabled(conf.machines[i]), ~Offline(conf.machines[i])
    PROVE  Upstream(conf.machines[i], conf.http, conf.mqtt) # {}
<1> DEFINE m == conf.machines[i]
<1>1. CASE Https(m, conf.http)
  BY <1>1 DEF Upstream, EffectiveHttps
<1>2. CASE ~Https(m, conf.http)
  BY <1>2 DEF Accepted, RouteAccepted, Upstream
<1> QED
  BY <1>1, <1>2

----------------------------------------------------------------------------
(* The embedded simulator.                                                  *)

LEMMA Numbers ==
    /\ Int32 \in Nat /\ Hour \in Nat /\ MaxRestarts \in Nat
    /\ MaxRetry \in Nat /\ 30 <= MaxRetry
  BY SMT DEF Int32, Hour, MaxRestarts, MaxRetry

LEMMA MachineTimersFit ==
    ASSUME NEW m, TimersAccepted(m)
    PROVE  TimersFit(MachineTimers(m))
  BY DEF TimersAccepted, TimersFit, MachineTimers

(* The service builds the settings of an embedded simulator past the        *)
(* validation of the packaged one; what it builds would have passed it all  *)
(* the same, except for the bounds only that one has: an event interval of  *)
(* at most an hour, 32-bit numbers for the alarm and the events, and a      *)
(* known type for a variable without a value (simulator/config.py 476-713   *)
(* beside config.py 630-651).                                               *)
THEOREM EmbeddedAccepted ==
    ASSUME NEW m, NEW s, MachineAccepted(m), SectionAccepted(s), Bounded(m, s)
    PROVE  SettingsAccepted(Embedded(m, s))
<1> DEFINE e == Embedded(m, s)
<1>1. ConnectionAccepted(e.connection)
  <2>1. AddressAccepted(ToolEnd(m, s))
    BY DEF AddressAccepted, ToolEnd, Loop, Any
  <2>2. TimersFit(ToolEnd(m, s).timers)
    BY MachineTimersFit DEF MachineAccepted, ToolEnd
  <2>3. /\ ToolEnd(m, s).role \in {"equipment", "host"}
        /\ ToolEnd(m, s).mode \in {"active", "passive"}
        /\ ToolEnd(m, s).port \in Ports /\ ToolEnd(m, s).device \in DeviceIds
    BY DEF ToolEnd, MachineAccepted, SectionAccepted
  <2> QED
    BY <2>1, <2>2, <2>3 DEF ConnectionAccepted, Embedded
<1>2. SimulationAccepted(e.simulation)
  <2>1. \A x \in DOMAIN m.overrides : m.overrides[x] \in 1..Int32
    BY Numbers DEF MachineAccepted, OverridesAccepted, Bounded
  <2>2. s.interval \in 10..Hour /\ s.alarm \in 0..Int32 /\ s.types \subseteq SecsTypes
    BY Numbers DEF SectionAccepted, Bounded
  <2>3. m.profile \in DOMAIN Profiles /\ DOMAIN m.overrides \subseteq Lifecycle
    BY DEF MachineAccepted, OverridesAccepted
  <2> QED
    BY <2>1, <2>2, <2>3 DEF SimulationAccepted, Embedded, SectionAccepted
<1>3. HostAccepted(e.host, e.connection)
  BY DEF HostAccepted, Embedded
<1>4. RecoveryAccepted(e.recovery) /\ LoggingAccepted(e.logging)
  BY Numbers DEF RecoveryAccepted, LoggingAccepted, Embedded, DefaultRecovery,
           DefaultLogging
<1> QED
  BY <1>1, <1>2, <1>3, <1>4 DEF SettingsAccepted

----------------------------------------------------------------------------
(* The runner.                                                              *)

(* Where a round is under way that "starts" counts and "attempt" not yet.   *)
Serving == {"create", "enable", "serve", "count", "compare", "close", "failed"}

(* As long as the runner goes on, it was served once for every failure and  *)
(* once more in a round, and has failures left.                             *)
Counted ==
    pc # "done" =>
        /\ served = IF pc \in Serving THEN attempt + 1 ELSE attempt
        /\ settings.limit # 0 => attempt < settings.limit

LiveInRound == live => pc \in {"enable", "serve", "count", "compare", "close"}

(* What is to be returned is settled when the round closes.                 *)
CodeHeld ==
    /\ pc \notin {"close", "done"} => code = Running
    /\ pc = "close" =>
          /\ code # Startup
          /\ code = Ok => stop
          /\ code = Exhausted => settings.limit # 0

IInv ==
    /\ RunnerTypeOK /\ Counted /\ RestartsBounded /\ WaitsWithin
    /\ LiveInRound /\ CodeHeld /\ EndsForAReason

LEMMA Integral ==
    ASSUME RecoveryAccepted(settings)
    PROVE  /\ settings.initial \in Nat /\ settings.maximum \in Nat
           /\ 1 <= settings.initial /\ settings.initial <= settings.maximum
<1>1. MaxRetry \in Nat
  BY SMT DEF MaxRetry
<1> QED
  BY <1>1 DEF RecoveryAccepted

(* A delay that is doubled and capped stays within its range.               *)
LEMMA DoubledWithin ==
    ASSUME NEW lo \in Nat, NEW hi \in Nat, NEW d \in lo..hi, 1 <= lo
    PROVE  Least(d * 2, hi) \in lo..hi
  BY DEF Least

LEMMA InitIInv == RunnerInit => IInv
<1> SUFFICES ASSUME RunnerInit PROVE IInv
  OBVIOUS
<1>1. PICK r \in [initial : Nat, maximum : Nat, limit : Nat] :
         \E mode \in {"active", "passive"} :
            RecoveryAccepted(r)
            /\ settings = [initial |-> r.initial, maximum |-> r.maximum,
           limit |-> r.limit,
                           mode |-> mode]
  BY DEF RunnerInit
<1>2. /\ settings \in [initial : Nat, maximum : Nat, limit : Nat,
                       mode : {"active", "passive"}]
      /\ RecoveryAccepted(settings)
  BY <1>1 DEF RecoveryAccepted
<1>3. RunnerTypeOK
  BY <1>2 DEF RunnerInit, RunnerTypeOK, Running
<1>4. WaitsWithin
  BY <1>2, Integral DEF RunnerInit, WaitsWithin
<1>5. Counted /\ RestartsBounded
  BY <1>2 DEF RunnerInit, Counted, RestartsBounded, Serving
<1>6. LiveInRound /\ CodeHeld /\ EndsForAReason
  BY DEF RunnerInit, LiveInRound, CodeHeld, EndsForAReason
<1> QED
  BY <1>3, <1>4, <1>5, <1>6 DEF IInv

LEMMA StepIInv == IInv /\ [RunnerNext]_runnerVars => IInv'
<1> SUFFICES ASSUME IInv, [RunnerNext]_runnerVars PROVE IInv'
  OBVIOUS
<1> USE DEF Running, Ok, Startup, Exhausted
<1>0. /\ settings.limit \in Nat /\ attempt \in Nat /\ served \in Nat
      /\ settings.initial \in Nat /\ settings.maximum \in Nat
      /\ 1 <= settings.initial /\ settings.initial <= settings.maximum
      /\ delay \in settings.initial..settings.maximum
      /\ waiting \in settings.initial..settings.maximum
  BY Integral DEF IInv, RunnerTypeOK, WaitsWithin
<1>00. settings' = settings
  BY DEF RunnerNext, runnerVars, runnerOnly, RequestStop, TcpConnected, TcpDisconnected,
         GemCommunicating, StartRound, PreflightFails, Create, Enable, ServeStops,
         ServeCommunicating, WindowEnds, Count, Compare, CloseSimulator, Failed, Backoff
<1>1. RunnerTypeOK'
  <2>1. /\ stop' \in BOOLEAN /\ live' \in BOOLEAN /\ tcp' \in BOOLEAN /\ gem' \in BOOLEAN
    BY ZenonT(60) DEF IInv, RunnerTypeOK, RunnerNext, runnerVars, runnerOnly, counters,
           RequestStop, TcpConnected,
           TcpDisconnected, GemCommunicating, StartRound, PreflightFails, Create,
           Enable,
           ServeStops, ServeCommunicating, WindowEnds, Count, Compare, CloseSimulator,
           Failed,
           Backoff, Ends
  <2>4. code' \in {Running, Ok, Startup, Exhausted}
    BY DEF IInv, RunnerTypeOK, RunnerNext, runnerVars, runnerOnly, counters,
           RequestStop, TcpConnected,
           TcpDisconnected, GemCommunicating, StartRound, PreflightFails, Create,
           Enable,
           ServeStops, ServeCommunicating, WindowEnds, Count, Compare, CloseSimulator,
           Failed,
           Backoff, Ends
  <2>5. pc' \in {"loop", "create", "enable", "serve", "count", "compare", "close",
                 "failed", "backoff", "done"}
    BY DEF IInv, RunnerTypeOK, RunnerNext, runnerVars, runnerOnly, counters,
           RequestStop, TcpConnected,
           TcpDisconnected, GemCommunicating, StartRound, PreflightFails, Create,
           Enable,
           ServeStops, ServeCommunicating, WindowEnds, Count, Compare, CloseSimulator,
           Failed,
           Backoff, Ends
  <2>2. /\ attempt' \in Nat /\ windows' \in Nat /\ saw' \in Nat /\ served' \in Nat
    BY DEF IInv, RunnerTypeOK, RunnerNext, runnerVars, runnerOnly, counters,
           RequestStop, TcpConnected,
           TcpDisconnected, GemCommunicating, StartRound, PreflightFails, Create,
           Enable,
           ServeStops, ServeCommunicating, WindowEnds, Count, Compare, CloseSimulator,
           Failed,
           Backoff
  <2>3. /\ settings' \in [initial : Nat, maximum : Nat, limit : Nat,
                          mode : {"active", "passive"}]
        /\ RecoveryAccepted(settings')
    BY <1>00 DEF IInv, RunnerTypeOK
  <2> QED
    BY <2>1, <2>2, <2>3, <2>4, <2>5 DEF RunnerTypeOK
<1>2. WaitsWithin'
  <2>1. /\ Least(delay * 2, settings.maximum) \in settings.initial..settings.maximum
        /\ LongerWait \in settings.initial..settings.maximum
        /\ settings.initial \in settings.initial..settings.maximum
    BY <1>0, DoubledWithin DEF LongerWait
  <2> QED
    BY <1>0, <1>00, <2>1 DEF WaitsWithin, RunnerNext, runnerVars, runnerOnly, counters,
         RequestStop, TcpConnected, TcpDisconnected, GemCommunicating, StartRound,
         PreflightFails, Create, Enable, ServeStops, ServeCommunicating, WindowEnds,
           Count,
         Compare, CloseSimulator, Failed, Backoff
<1>3. Counted' /\ RestartsBounded'
  <2>1. CASE StartRound
    BY <1>0, <1>00, <2>1 DEF IInv, Counted, RestartsBounded, Serving, StartRound,
           runnerOnly, Ends
  <2>2. CASE Failed
    BY <1>0, <1>00, <2>2 DEF IInv, Counted, RestartsBounded, Serving, Failed,
           runnerOnly, Ends
  <2>3. CASE Backoff
    BY <1>0, <1>00, <2>3 DEF IInv, Counted, RestartsBounded, Serving, Backoff,
           runnerOnly, Ends
  <2>4. CASE ~(StartRound \/ Failed \/ Backoff)
    <3>1. attempt' = attempt /\ served' = served
      BY <2>4 DEF RunnerNext, runnerVars, counters, RequestStop, TcpConnected,
           TcpDisconnected,
           GemCommunicating, PreflightFails, Create, Enable, ServeStops,
           ServeCommunicating, WindowEnds, Count, Compare, CloseSimulator
    <3>2. pc' = pc \/ (pc \in Serving /\ pc' \in Serving \cup {"done"})
      BY <2>4 DEF RunnerNext, runnerVars, Serving, Ends, RequestStop, TcpConnected,
           TcpDisconnected, GemCommunicating, PreflightFails, Create, Enable,
           ServeStops,
           ServeCommunicating, WindowEnds, Count, Compare, CloseSimulator
    <3> QED
      BY <1>0, <1>00, <3>1, <3>2 DEF IInv, Counted, RestartsBounded, Serving
  <2> QED
    BY <2>1, <2>2, <2>3, <2>4
<1>4. LiveInRound' /\ CodeHeld' /\ EndsForAReason'
  BY <1>00 DEF IInv, RunnerTypeOK, LiveInRound, CodeHeld, EndsForAReason, RunnerNext,
           runnerVars,
         runnerOnly, counters, RequestStop, TcpConnected, TcpDisconnected,
         GemCommunicating, StartRound, PreflightFails, Create, Enable, ServeStops,
         ServeCommunicating, WindowEnds, Count, Compare, CloseSimulator, Failed,
           Backoff, Ends
<1> QED
  BY <1>1, <1>2, <1>3, <1>4 DEF IInv

(* The invariant the properties of the runner follow from.                  *)
THEOREM Invariance == RunnerSpec => []IInv
<1> QED
  BY InitIInv, StepIInv, PTL DEF RunnerSpec

(* A simulator with a limit is served no oftener than that, whatever raises *)
(* and however often (simulator/runner.py 300-324).                         *)
THEOREM RestartsStayBounded == RunnerSpec => []RestartsBounded
<1>1. IInv => RestartsBounded
  BY DEF IInv
<1> QED
  BY Invariance, <1>1, PTL

(* Every wait is between the initial and the maximum one (simulator/        *)
(* runner.py 273, 319).                                                     *)
THEOREM WaitsStayWithin == RunnerSpec => []WaitsWithin
<1>1. IInv => WaitsWithin
  BY DEF IInv
<1> QED
  BY Invariance, <1>1, PTL

(* The runner ends with its instance disabled and forgotten, and only when  *)
(* it was asked to, its port is taken, or it has a limit to exhaust.        *)
THEOREM EndsOnlyForAReason == RunnerSpec => []EndsForAReason
<1>1. IInv => EndsForAReason
  BY DEF IInv
<1> QED
  BY Invariance, <1>1, PTL
=============================================================================
