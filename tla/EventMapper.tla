---- MODULE EventMapper ----
(***************************************************************************)
(* The mapper (eap_middleware/mapper.py): from the report of one           *)
(* collection event to the canonical event, with the load port and the     *)
(* process module it is attributed to, and the job tracker that remembers  *)
(* what the event said.                                                    *)
(*                                                                         *)
(* An event on the wire is a record of what is true of it: name, port, pm  *)
(* and lot, a lot having one wafer and one job.  What the middleware sees  *)
(* of it is what the profile says the event carries.                       *)
(***************************************************************************)
EXTENDS JobTracker, MachineProfiles

\* _merge_v_array: a value of the report is visible under the name the
\* profile's layout gives its position; the others stay anonymous.
Decode(entry, ev) ==
    LET visible(field, value) == IF field \in entry.layout THEN value ELSE ""
    IN  [port  |-> visible("port", ev.port),
         lot   |-> visible("lot", ev.lot),
         wafer |-> visible("wafer", "W" \o ev.lot),
         job   |-> visible("job", "J" \o ev.lot)]

\* The port in the payload, else the one the event's number implies.
StatedPort(entry, data, ev) ==
    IF data.port # "" THEN data.port
    ELSE IF entry.namesPort THEN ev.port
    ELSE ""

\* No profile's reports carry a chamber: the number implies it or it is NA.
StatedChamber(entry, ev) == IF entry.namesModule THEN ev.pm ELSE "NA"

\* The tracker learns from the event before it is asked about it.
Noted(entry, tracker, ev) ==
    LET data == Decode(entry, ev)
    IN  NoteEvent(tracker, entry.transition, StatedChamber(entry, ev), data,
                  StatedPort(entry, data, ev))

\* The port an event is attributed to: stated, or inferred for the events
\* of a chamber.
AttributedPort(entry, tracker, ev) ==
    LET data == Decode(entry, ev)
        port == StatedPort(entry, data, ev)
    IN  IF port # "" \/ ~entry.chamberEvent THEN port
        ELSE LookupLp(Noted(entry, tracker, ev), data,
                      StatedChamber(entry, ev))

\* _from_merged_event: the tracker afterwards and the canonical event.
Mapped(profile, tracker, ev) ==
    LET entry == Profiles[profile][ev.name]
        data  == Decode(entry, ev)
        port  == AttributedPort(entry, tracker, ev)
        noted == Noted(entry, tracker, ev)
    IN  [tracker |-> IF port = "" THEN noted
                     ELSE NoteResolution(noted, data, port),
         row     |-> [type    |-> entry.type,
                      port    |-> port,
                      lot     |-> data.lot,
                      closes  |-> entry.closes,
                      of      |-> ev]]
====
