---------------------------- MODULE SimulatorSetup ----------------------------
(* The settings of a simulated tool: what the packaged simulator accepts    *)
(* from its own file (simulator/config.py), and what the service hands to   *)
(* the one it embeds for a machine with runtime_mode "simulated"            *)
(* (service/simulator_runtime.py), which is built past that validation.     *)
(*                                                                          *)
(* Addresses are the wildcard, the loopback, another IPv4 address or name   *)
(* ("remote"), and "invalid", which is neither.  Times are milliseconds.    *)
EXTENDS Configuration

Int32 == 2147483647
Hour == 3600000
MaxRetry == 3600
MaxRestarts == 1000000
DeviceIds == 0..32767
SecsTypes == {"A", "ASCII", "STRING", "BOOLEAN", "U1", "U2", "U4", "U8",
              "I1", "I2", "I4", "I8", "F4", "F8"}

(* HSMS timers by name, the ones SEMI E37 has, within what it permits.      *)
TimersFit(f) == \A t \in DOMAIN f : t \in TimerNames /\ f[t] \in 1..120

----------------------------------------------------------------------------
(* The packaged simulator's file.                                           *)

(* A passive simulator listens beyond loopback only when told to, and an    *)
(* active one has to dial somewhere.                                        *)
AddressAccepted(c) ==
    /\ c.address # "invalid"
    /\ c.mode = "active" => c.address # Any
    /\ (c.mode = "passive" /\ ~c.external) => c.address = Loop

ConnectionAccepted(c) ==
    /\ c.role \in {"equipment", "host"} /\ c.mode \in {"active", "passive"}
    /\ AddressAccepted(c)
    /\ c.port \in Ports /\ c.device \in DeviceIds
    /\ TimersFit(c.timers)

SimulationAccepted(s) ==
    /\ s.profile \in DOMAIN Profiles
    /\ DOMAIN s.overrides \subseteq Lifecycle
    /\ \A e \in DOMAIN s.overrides : s.overrides[e] \in 1..Int32
    /\ s.types \subseteq SecsTypes
    /\ s.wafers \in 1..300 /\ s.interval \in 10..Hour /\ s.alarm \in 0..Int32

(* An opening sequence is for a simulated host; a simulated tool refuses it *)
(* rather than never run it.                                                *)
HostAccepted(h, c) == h # {} => c.role = "host"

RecoveryAccepted(r) ==
    /\ r.initial \in 1..MaxRetry /\ r.maximum \in 1..MaxRetry /\ r.limit \in 0..MaxRestarts
    /\ r.initial <= r.maximum

LoggingAccepted(l) == l.size \in 1..1024 /\ l.backups \in 1..100

SettingsAccepted(e) ==
    /\ ConnectionAccepted(e.connection) /\ SimulationAccepted(e.simulation)
    /\ HostAccepted(e.host, e.connection)
    /\ RecoveryAccepted(e.recovery) /\ LoggingAccepted(e.logging)

(* The sections, none of which has a key nobody knows.                      *)
SimulatorAccepted(raw) ==
    /\ "connection" \in DOMAIN raw
    /\ DOMAIN raw \subseteq {"connection", "simulation", "host", "recovery", "logging"}
    /\ SettingsAccepted(raw)

DefaultRecovery == [initial |-> 1, maximum |-> 30, limit |-> 0]
DefaultLogging  == [size |-> 10, backups |-> 5]

----------------------------------------------------------------------------
(* The simulator the service embeds.                                        *)

(* What the loader asks of the numbers of a machine's "simulator" section,  *)
(* and of its device id.                                                    *)
SectionAccepted(s) ==
    /\ s.device \in DeviceIds
    /\ s.wafers \in 1..300 /\ s.interval \in Nat \ 0..9 /\ s.alarm \in Nat

(* The timers of a machine: its profile's, but for those it overrides.      *)
MachineTimers(m) ==
    LET p == Profiles[m.profile].timers
    IN  [t \in DOMAIN p \cup DOMAIN m.timers |->
            IF t \in DOMAIN m.timers THEN m.timers[t] ELSE p[t]]

(* _start_simulator: the other end of the machine's own connection, on      *)
(* loopback.                                                                *)
ToolEnd(m, s) ==
    [role |-> "equipment", mode |-> IF Passive(m) THEN "active" ELSE "passive",
     address |-> Loop, external |-> FALSE,
     port |-> m.port, device |-> s.device, timers |-> MachineTimers(m)]

(* The types of the status variables are those of the definitions, the ones *)
(* without a value included, which the loader compares with nothing.        *)
Embedded(m, s) ==
    [connection |-> ToolEnd(m, s),
     simulation |-> [profile |-> m.profile, overrides |-> m.overrides, types |-> s.types,
                     wafers |-> s.wafers, interval |-> s.interval, alarm |-> s.alarm],
     host |-> {}, recovery |-> DefaultRecovery, logging |-> DefaultLogging]

(* The bounds the packaged simulator sets and the loader does not, and the  *)
(* types it does not look at.                                               *)
Bounded(m, s) ==
    /\ s.interval <= Hour /\ s.alarm <= Int32 /\ s.types \subseteq SecsTypes
    /\ \A e \in DOMAIN m.overrides : m.overrides[e] <= Int32
=============================================================================
