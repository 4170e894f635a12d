------------------------ MODULE PartitionedDelivery ------------------------
(***************************************************************************)
(* What a durable outbox promises its producers: every message accepted    *)
(* for a partition stays there until it has arrived or has been given up,  *)
(* and those not given up arrive for the first time in the order they were *)
(* accepted.  Copies may arrive again later; a message given up may still  *)
(* arrive, at any time.                                                    *)
(***************************************************************************)
EXTENDS Integers

CONSTANTS Partitions, NoPartition,
          MaxTickets                  (* bound: messages ever accepted      *)

VARIABLES accepted,   (* how many messages were accepted                    *)
          line,       (* the partition of each                              *)
          waiting,    (* accepted, neither settled nor given up             *)
          given,      (* given up at some time                              *)
          arrived     (* the receiver has it                                *)

vars == <<accepted, line, waiting, given, arrived>>

Tickets == 1..MaxTickets
Older(t) == {s \in waiting : s < t /\ line[s] = line[t]}

Init ==
  /\ accepted = 0 /\ line = [t \in Tickets |-> NoPartition]
  /\ waiting = {} /\ given = {} /\ arrived = {}

Accept(p) ==
  /\ accepted < MaxTickets
  /\ accepted' = accepted + 1
  /\ line' = [line EXCEPT ![accepted + 1] = p]
  /\ waiting' = waiting \cup {accepted + 1}
  /\ UNCHANGED <<given, arrived>>

Arrive(t) ==
  /\ (t \in waiting /\ Older(t) = {}) \/ t \in given
  /\ arrived' = arrived \cup {t}
  /\ UNCHANGED <<accepted, line, waiting, given>>

Settle(t) ==
  /\ t \in waiting \cap arrived
  /\ waiting' = waiting \ {t}
  /\ UNCHANGED <<accepted, line, given, arrived>>

(* The oldest message may be given up; so may one that has arrived, when   *)
(* its sender does not know.                                               *)
GiveUp(t) ==
  /\ (t \in waiting /\ Older(t) = {}) \/ t \in arrived
  /\ waiting' = waiting \ {t}
  /\ given' = given \cup {t}
  /\ UNCHANGED <<accepted, line, arrived>>

Next ==
  \/ \E p \in Partitions : Accept(p)
  \/ \E t \in Tickets : Arrive(t) \/ Settle(t) \/ GiveUp(t)

Spec == Init /\ [][Next]_vars

-----------------------------------------------------------------------------
(* Whatever was accepted waits, has arrived or was given up.               *)
NothingLost == \A t \in 1..accepted : t \in waiting \cup arrived \cup given

(* A message that has arrived was not overtaken: the older ones of its     *)
(* partition have arrived too, or were given up.                           *)
ArrivalOrder ==
  \A s, t \in 1..accepted :
    (s < t /\ line[s] = line[t] /\ t \in arrived) => s \in arrived \cup given
=============================================================================
