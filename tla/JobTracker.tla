---- MODULE JobTracker ----
(***************************************************************************)
(* The per-machine association of chambers, wafers, lots and control jobs  *)
(* with load ports (eap_middleware/job_tracker.py), as operators on a      *)
(* record that holds the fields of _MachineState.  An ordered dictionary   *)
(* is a sequence of [key, port] entries, oldest first; ports, chambers and *)
(* identifiers are strings, and the empty string is "not in the payload".  *)
(*                                                                         *)
(* The decoded payload of an event is a record with the fields port, lot,  *)
(* wafer and job, whose values are the first non-empty of the payload keys *)
(* the code tries for each; resolved is the "_resolved_load_port" that the *)
(* mapper adds before it calls note_event.                                 *)
(***************************************************************************)
EXTENDS Naturals, Sequences, Subsequence

CONSTANTS MaxWafers,   \* MAX_WAFER_IDS
          MaxLots,     \* MAX_LOT_IDS
          MaxJobs      \* MAX_CTRL_JOBS

ASSUME CapsAssumption == {MaxWafers, MaxLots, MaxJobs} \subseteq Nat \ {0}

EmptyTracker == [lpHistory    |-> <<>>, ctrlJobs |-> <<>>,
                 waferPorts   |-> <<>>, lotPorts |-> <<>>,
                 chamberPorts |-> <<>>]

HasKey(dict, key) == \E i \in DOMAIN dict : dict[i].key = key

PortFor(dict, key) == dict[CHOOSE i \in DOMAIN dict : dict[i].key = key].port

WithoutKey(dict, key) == Keep(dict, {i \in DOMAIN dict : dict[i].key # key})

WithoutPort(dict, lp) == Keep(dict, {i \in DOMAIN dict : dict[i].port # lp})

\* Insert most recently used last; past the cap the oldest entry goes.
BoundedPut(dict, key, port, cap) ==
    LET others == WithoutKey(dict, key)
        longer == Append(others, [key |-> key, port |-> port])
    IN  IF Len(longer) > cap THEN Tail(longer) ELSE longer

WithoutLp(history, lp) == Keep(history, {i \in DOMAIN history : history[i] # lp})

\* The one active port, or none when there are several: never a guess
\* between concurrently active ports.
ActiveLp(s) == IF Len(s.lpHistory) = 1 THEN s.lpHistory[1] ELSE ""

Activate(s, lp) ==
    IF \E i \in DOMAIN s.lpHistory : s.lpHistory[i] = lp
    THEN s
    ELSE [s EXCEPT !.lpHistory = Append(@, lp)]

\* Defect: the chambers of a carrier that has left keep its port.
Deactivate_chambersKept(s, lp) ==
    [lpHistory    |-> WithoutLp(s.lpHistory, lp),
     ctrlJobs     |-> WithoutPort(s.ctrlJobs, lp),
     waferPorts   |-> WithoutPort(s.waferPorts, lp),
     lotPorts     |-> WithoutPort(s.lotPorts, lp),
     chamberPorts |-> s.chamberPorts]

\* A carrier that has left owns no job, wafer, lot or chamber any more.
Deactivate(s, lp) ==
    [lpHistory    |-> WithoutLp(s.lpHistory, lp),
     ctrlJobs     |-> WithoutPort(s.ctrlJobs, lp),
     waferPorts   |-> WithoutPort(s.waferPorts, lp),
     lotPorts     |-> WithoutPort(s.lotPorts, lp),
     chamberPorts |-> WithoutPort(s.chamberPorts, lp)]

\* The transition tag the profile gives the collection event.
ApplyTransition(s, transition, resolved, job) ==
    LET jobPort == IF resolved # "" THEN resolved ELSE ActiveLp(s)
    IN  CASE transition = "lp_activate_from_payload" /\ resolved # "" ->
                 Activate(s, resolved)
          [] transition = "lp_deactivate_from_payload" /\ resolved # "" ->
                 Deactivate(s, resolved)
          [] transition = "ctrl_job_start" /\ job # "" /\ jobPort # "" ->
                 [s EXCEPT !.ctrlJobs = BoundedPut(@, job, jobPort, MaxJobs)]
          [] transition = "ctrl_job_end" /\ job # "" ->
                 [s EXCEPT !.ctrlJobs = WithoutKey(@, job)]
          [] OTHER -> s

\* Bind the identifiers of a payload to a load port there is evidence for.
NoteResolution(s, data, lp) ==
    [s EXCEPT !.waferPorts = IF data.wafer = "" THEN @
                             ELSE BoundedPut(@, data.wafer, lp, MaxWafers),
              !.lotPorts   = IF data.lot = "" THEN @
                             ELSE BoundedPut(@, data.lot, lp, MaxLots)]

\* The load port the wafer now in a chamber came from.
NoteChamber(s, chamber, lp) ==
    [s EXCEPT !.chamberPorts =
        Append(WithoutKey(@, chamber), [key |-> chamber, port |-> lp])]

\* Transition first, then the identifiers, then the chamber binding: the
\* wafer-level reports are the only ones that name a chamber and a port.
NoteEvent(s, transition, chamber, data, resolved) ==
    LET moved == ApplyTransition(s, transition, resolved, data.job)
        bound == NoteResolution(moved, data, resolved)
    IN  IF resolved = "" THEN moved
        ELSE IF chamber = "NA" THEN bound
        ELSE NoteChamber(bound, chamber, resolved)

\* Defect: an event of an unknown chamber is given the one active port.
LookupLp_guesses(s, data, chamber) ==
    IF data.port # "" THEN data.port
    ELSE IF data.job # "" /\ HasKey(s.ctrlJobs, data.job)
         THEN PortFor(s.ctrlJobs, data.job)
    ELSE IF chamber # "NA" /\ HasKey(s.chamberPorts, chamber)
         THEN PortFor(s.chamberPorts, chamber)
    ELSE ActiveLp(s)

\* The best evidence for the load port of an event that names none, "" if
\* there is none: the control job, then this chamber's own wafer, then the
\* wafer, then the lot; the machine's one active port only for an event that
\* names no chamber.
LookupLp(s, data, chamber) ==
    IF data.port # "" THEN data.port
    ELSE IF data.job # "" /\ HasKey(s.ctrlJobs, data.job)
         THEN PortFor(s.ctrlJobs, data.job)
    ELSE IF chamber # "NA" /\ HasKey(s.chamberPorts, chamber)
         THEN PortFor(s.chamberPorts, chamber)
    ELSE IF data.wafer # "" /\ HasKey(s.waferPorts, data.wafer)
         THEN PortFor(s.waferPorts, data.wafer)
    ELSE IF data.lot # "" /\ HasKey(s.lotPorts, data.lot)
         THEN PortFor(s.lotPorts, data.lot)
    ELSE IF chamber # "NA" THEN ""
    ELSE ActiveLp(s)

\* Every port the tracker still associates with something.
PortsKnown(s) ==
    LET ports(dict) == {dict[i].port : i \in DOMAIN dict}
    IN  {s.lpHistory[i] : i \in DOMAIN s.lpHistory}
            \cup ports(s.ctrlJobs) \cup ports(s.waferPorts)
            \cup ports(s.lotPorts) \cup ports(s.chamberPorts)
====
