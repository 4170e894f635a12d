-------------------------- MODULE ConnectionHealth --------------------------
(* What the service tells upstream about the connection to one tool: the    *)
(* notices of connects, and the event-liveness check of service/health.py,  *)
(* which asks a connected but silent tool for its LastEventID and raises an *)
(* alarm when that advances while no event report arrives.                  *)
(*                                                                          *)
(* Four threads: secsgem's, which brings the link up and delivers reports;  *)
(* the watchdog; the check it spawns; and the restart it spawns when the    *)
(* link is down, of which only the fresh host is kept here (SessionLifecycle*)
(* has the rest).  The state entry of a connection is a dictionary that     *)
(* _on_connect replaces, while a check may still hold the one before: they  *)
(* are numbered by the connection they belong to.                           *)
EXTENDS Integers, Sequences

CONSTANTS
    Machines,      \* configurations the machine may have: [sv, spool, alarms,
                   \* limit, known], with the bounds of what happens to it
                   \* in a run: connects, and switches, how often somebody
                   \* works on the tool or the disk
    Grace,         \* event_liveness_grace_sec, in ticks
    MaxFaults      \* how often an outbox refuses what is published, or the
                   \* process dies

ASSUME HealthAssumption ==
    /\ Grace \in Nat /\ MaxFaults \in Nat
    /\ \A m \in Machines : m.connects \in Nat /\ m.switches \in Nat

VARIABLES
    machine,    \* its configuration
    gate,       \* the storage monitor accepts ingress
    link,       \* "down", "rising" until _on_connect has run, "up"
    heard,      \* host.last_event_time is not None
    heardHere,  \* history: a report arrived on this connection
    conn,       \* the number of the connection, of its state entry
    health,     \* the state entries: a reading of LastEventID to compare with
                \* ("none", the "same" as the tool has now, an "old" one), the
                \* alarms raised, the ticks since the connect
    tool,       \* [reports, online, spooled]
    switches,   \* how often somebody worked on it
    check,      \* the check in flight
    said,       \* history: the last word upstream has about the reports of
                \* this connection, "nothing", "silent" or "flowing"
    faults,     \* how often a publication was refused or the process died
    muted       \* history: one was refused on this connection

healthVars == <<machine, gate, link, heard, heardHere, conn, health, tool, switches,
                check, said, faults, muted>>

Entry == [base |-> "none", alarmed |-> FALSE, offline |-> FALSE, spool |-> FALSE, age |-> 0]
NoCheck == [pc |-> "off", conn |-> 0, answered |-> FALSE, differs |-> FALSE,
            fresh |-> FALSE, spooled |-> FALSE]

HealthInit ==
    /\ machine \in Machines /\ gate = TRUE
    /\ link = "down" /\ heard = FALSE /\ heardHere = FALSE
    /\ conn = 0 /\ health = [c \in 0..machine.connects |-> Entry]
    /\ tool \in IF machine.sv THEN [reports : BOOLEAN, online : {TRUE}, spooled : {TRUE}]
                              ELSE {[reports |-> TRUE, online |-> TRUE, spooled |-> FALSE]}
    /\ switches = 0 /\ check = NoCheck
    /\ said = "nothing" /\ faults = 0 /\ muted = FALSE

(* A word for upstream goes to the queues, unless an outbox is full: then   *)
(* publishing raises in the thread that does it.                            *)
Publishes(word) ==
    /\ said' = IF word \in {"silent", "flowing"} THEN word ELSE said
    /\ UNCHANGED <<faults, muted>>
Refuses ==
    /\ faults < MaxFaults /\ faults' = faults + 1
    /\ muted' = TRUE /\ UNCHANGED said

----------------------------------------------------------------------------
(* The link.                                                                *)

LinkUp ==
    /\ link = "down" /\ gate /\ conn < machine.connects
    /\ link' = "rising" /\ heardHere' = FALSE
    /\ UNCHANGED <<machine, gate, heard, conn, health, tool, switches, check, said,
                   faults, muted>>

(* _on_connect: a new entry, and everything said before is about the        *)
(* connection before.  The old entry is forgotten unless a check holds it.  *)
Held(c) == check.pc \in {"asking", "asked"} /\ check.conn = c
OnConnect ==
    /\ link = "rising" /\ link' = "up"
    /\ conn' = conn + 1
    /\ health' = IF Held(conn) THEN health ELSE [health EXCEPT ![conn] = Entry]
    /\ said' = "nothing" /\ muted' = FALSE
    /\ UNCHANGED <<machine, gate, heard, heardHere, tool, switches, check>>

LinkDown ==
    /\ link \in {"rising", "up"} /\ link' = "down"
    /\ UNCHANGED <<machine, gate, heard, heardHere, conn, health, tool, switches, check,
                   said, faults, muted>>

(* The watchdog finds the link down and restarts the session: a host that   *)
(* has heard nothing.  The tool may be back on the old one before that.     *)
Restart ==
    /\ link = "down" /\ gate /\ heard
    /\ heard' = FALSE
    /\ UNCHANGED <<machine, gate, link, heardHere, conn, health, tool, switches, check,
                   said, faults, muted>>

(* The tool completes an event: its LastEventID moves on, and what it was   *)
(* is old for every reading taken before.  (Of a tool that is not asked for *)
(* it, neither this nor a switch below makes a difference.)                 *)
Fires ==
    /\ machine.sv
    /\ health' = [c \in DOMAIN health |->
                     [health[c] EXCEPT !.base = IF @ = "same" THEN "old" ELSE @]]
    /\ check' = [check EXCEPT !.fresh = FALSE]
    /\ LET arrives == tool.reports /\ tool.online /\ link # "down"
       IN  heard' = (heard \/ arrives) /\ heardHere' = (heardHere \/ arrives)
    /\ UNCHANGED <<machine, gate, link, conn, tool, switches, said, faults, muted>>

(* Somebody switches the report style, takes the tool off or on line; its   *)
(* spool fills or empties.                                                  *)
Switch ==
    /\ machine.sv /\ switches < machine.switches /\ switches' = switches + 1
    /\ \E f \in {"reports", "online", "spooled"} : tool' = [tool EXCEPT ![f] = ~@]
    /\ UNCHANGED <<machine, gate, link, heard, heardHere, conn, health, check, said,
                   faults, muted>>

(* The disk fills and the storage monitor closes the gate; the service then *)
(* stops the session, and starts a new one when there is space again.       *)
CloseGate ==
    /\ gate /\ switches < machine.switches /\ switches' = switches + 1
    /\ gate' = FALSE
    /\ UNCHANGED <<machine, link, heard, heardHere, conn, health, tool, check, said,
                   faults, muted>>

Quiesce ==
    /\ ~gate /\ link # "down" /\ link' = "down"
    /\ UNCHANGED <<machine, gate, heard, heardHere, conn, health, tool, switches, check,
                   said, faults, muted>>

OpenGate ==
    /\ ~gate /\ link = "down" /\ gate' = TRUE /\ heard' = FALSE
    /\ UNCHANGED <<machine, link, heardHere, conn, health, tool, switches, check, said,
                   faults, muted>>

(* The entries a tick later.                                                *)
Older == [c \in DOMAIN health |-> IF machine.sv /\ (c = conn \/ Held(c)) /\ health[c].age < Grace
                                  THEN [health[c] EXCEPT !.age = @ + 1] ELSE health[c]]

----------------------------------------------------------------------------
(* Defect: a tool whose LastEventID was read is not looked at again.        *)
Look_once ==
    /\ gate /\ link # "down"
    /\ machine.sv /\ ~heard /\ health[conn].base = "none" /\ check.pc = "off"
    /\ check' = [NoCheck EXCEPT !.pc = "begun"]
    /\ UNCHANGED <<machine, gate, link, heard, heardHere, conn, health, tool, switches,
                   said, faults, muted>>

(* The watchdog looks at a connected machine: one check at a time, none     *)
(* once a report was heard or the alarm is up.                              *)
Look ==
    /\ gate /\ link # "down"
    /\ machine.sv /\ ~heard /\ ~health[conn].alarmed /\ check.pc = "off"
    /\ check' = [NoCheck EXCEPT !.pc = "begun"]
    /\ UNCHANGED <<machine, gate, link, heard, heardHere, conn, health, tool, switches,
                   said, faults, muted>>

(* The thread takes the entry of the moment, and whether reports arrive; if *)
(* they do, it takes back an alarm that is up, which Look never leaves it.  *)
Begin ==
    /\ check.pc = "begun"
    /\ IF heard
       THEN /\ check' = NoCheck
            /\ health' = [health EXCEPT ![conn].alarmed = FALSE, ![conn].offline = FALSE]
            /\ IF health[conn].alarmed THEN Publishes("flowing")
                                       ELSE UNCHANGED <<said, faults, muted>>
       ELSE /\ check' = IF health[conn].alarmed THEN NoCheck
                        ELSE [check EXCEPT !.pc = "asking", !.conn = conn]
            /\ UNCHANGED <<health, said, faults, muted>>
    /\ UNCHANGED <<machine, gate, link, heard, heardHere, conn, tool, switches>>

(* S1F3 on the connection of now, up to T3 long.  A tool that is off line,  *)
(* or gone, answers nothing.                                                *)
Ask ==
    /\ check.pc = "asking"
    /\ LET answered == link # "down" /\ tool.online
       IN  check' = [check EXCEPT !.pc = "asked", !.answered = answered, !.fresh = answered,
                        !.differs = answered /\ health[check.conn].base = "old",
                        !.spooled = answered /\ machine.spool /\ tool.spooled]
    /\ UNCHANGED <<machine, gate, link, heard, heardHere, conn, health, tool, switches,
                   said, faults, muted>>

(* The answer is lost with the link, or comes too late.                     *)
AnswerLost ==
    /\ check.pc = "asked" /\ check.answered /\ link = "down"
    /\ check' = [check EXCEPT !.answered = FALSE, !.fresh = FALSE, !.differs = FALSE,
                              !.spooled = FALSE]
    /\ UNCHANGED <<machine, gate, link, heard, heardHere, conn, health, tool, switches,
                   said, faults, muted>>

(* The check comes to its end with entry e and nothing said, or one word    *)
(* said, in which case the flag is set before the word is out.              *)
Ends(e) ==
    /\ check' = NoCheck
    /\ health' = [health EXCEPT ![check.conn] = IF check.conn = conn THEN e ELSE Entry]
Quiet(e) == Ends(e) /\ UNCHANGED <<said, faults, muted>>
Tells(e, word) == Ends(e) /\ (Publishes(word) \/ Refuses)

Unanswered ==
    /\ check.pc = "asked" /\ ~check.answered
    /\ LET e == health[check.conn]
       IN  IF e.age >= Grace /\ ~e.offline THEN Tells([e EXCEPT !.offline = TRUE], "offline")
                                          ELSE Quiet(e)
    /\ UNCHANGED <<machine, gate, link, heard, heardHere, conn, tool, switches>>

(* A spool that was not there before is told first; the thread goes on.     *)
Spool ==
    /\ check.pc = "asked" /\ check.answered
    /\ check.spooled /\ ~health[check.conn].spool
    /\ LET e == [health[check.conn] EXCEPT !.spool = TRUE, !.offline = FALSE]
       IN  \/ /\ health' = [health EXCEPT ![check.conn] = e] /\ UNCHANGED check
              /\ Publishes("spooled")
           \/ Ends(e) /\ Refuses
    /\ UNCHANGED <<machine, gate, link, heard, heardHere, conn, tool, switches>>

(* event_liveness_decision.                                                 *)
Decision(e) == IF e.age >= Grace /\ check.differs /\ ~e.alarmed THEN "alarm" ELSE "none"

Judge ==
    /\ check.pc = "asked" /\ check.answered
    /\ check.spooled => health[check.conn].spool
    /\ LET e == [health[check.conn] EXCEPT
                    !.offline = FALSE, !.spool = check.spooled,
                    !.base = IF @ # "none" THEN @ ELSE IF check.fresh THEN "same" ELSE "old"]
       IN  IF Decision(e) = "alarm" THEN Tells([e EXCEPT !.alarmed = TRUE], "silent")
                                    ELSE Quiet(e)
    /\ UNCHANGED <<machine, gate, link, heard, heardHere, conn, tool, switches>>

Check == Begin \/ Ask \/ AnswerLost \/ Unanswered \/ Spool \/ Judge

(* What ends the process or the session: a check keeps nothing.             *)
Forgotten ==
    /\ link' = "down" /\ heard' = FALSE /\ check' = NoCheck
    /\ health' = [health EXCEPT ![conn] = Entry]

HealthTypeOK ==
    /\ machine \in Machines /\ gate \in BOOLEAN
    /\ link \in {"down", "rising", "up"} /\ heard \in BOOLEAN /\ heardHere \in BOOLEAN
    /\ conn \in 0..machine.connects
    /\ health \in [0..machine.connects ->
          [base : {"none", "same", "old"}, alarmed : BOOLEAN, offline : BOOLEAN,
           spool : BOOLEAN, age : 0..Grace]]
    /\ tool \in [reports : BOOLEAN, online : BOOLEAN, spooled : BOOLEAN]
    /\ check \in [pc : {"off", "begun", "asking", "asked"}, conn : 0..machine.connects,
                  answered : BOOLEAN, differs : BOOLEAN, fresh : BOOLEAN, spooled : BOOLEAN]
    /\ said \in {"nothing", "silent", "flowing"}
    /\ faults \in 0..MaxFaults /\ muted \in BOOLEAN
=============================================================================
