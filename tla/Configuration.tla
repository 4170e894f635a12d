---------------------------- MODULE Configuration ----------------------------
(* What the configuration loader accepts, what it refuses and what escapes  *)
(* it, and what the machines of an accepted configuration then open: their  *)
(* listeners and their routes upstream.  Translated from                    *)
(* eap_middleware/config.py; the texts of the messages, the types of single *)
(* scalars and the fields nobody compares are left out.                     *)
(*                                                                          *)
(* A flag of the file is "yes", "no" or "unset": the code reads a key that  *)
(* is not there by its default, and which default matters below.            *)
EXTENDS Integers, Sequences, FiniteSets, Functions

CONSTANT Profiles   \* profile id -> [timers, events, layout]

ASSUME ProfileAssumption ==
    \A p \in DOMAIN Profiles : DOMAIN Profiles[p] = {"timers", "events", "layout"}

Flags == {"yes", "no", "unset"}
Any   == "0.0.0.0"      \* the wildcard address
Loop  == "127.0.0.1"
Blank == ""             \* what the panel writes for an address left empty

Lifecycle == {"mounted", "loaded", "clamped", "lot_start", "wafer_start",
              "process_start", "process_end", "wafer_end", "lot_end",
              "unloaded", "unmounted"}
Essential == {"lot_start", "lot_end", "wafer_start", "wafer_end"}
Ports == 1..65535
TimerNames == {"t3", "t5", "t6", "t7", "t8"}

(* A flag as the loader reads it.                                           *)
Is(flag, default) == flag = "yes" \/ (flag = "unset" /\ default)

Enabled(m)   == Is(m.enabled, TRUE)
Offline(m)   == Is(m.offline, FALSE)
Passive(m)   == m.mode = "passive"
Simulated(m) == m.runtime = "simulated"
(* The address of a passive machine; a key that is not there is the         *)
(* wildcard, a blank one stays blank.                                       *)
Bind(m) == IF m.bind = "unset" THEN Any ELSE m.bind

----------------------------------------------------------------------------
(* One machine.                                                             *)

(* Every HSMS timer, the profile's and the machine's own, is a known one    *)
(* and within 1..120 seconds, those a machine overrides included.           *)
TimersAccepted(m) ==
    \A f \in {Profiles[m.profile].timers, m.timers} :
        \A t \in DOMAIN f : t \in TimerNames /\ f[t] \in 1..120

(* A SECS value against its declared type: an item says itself whether it   *)
(* "fits".                                                                  *)
ValueAccepted(item) == item.fits

(* The inline event, report and variable definitions of a simulated tool    *)
(* refer only to each other, repeat no identifier, and know a whole lot if  *)
(* they know any event.                                                     *)
DefinitionsAccepted(d) ==
    /\ IsInjective([i \in DOMAIN d.reports |-> d.reports[i].id])
    /\ IsInjective([i \in DOMAIN d.events |-> d.events[i].ceid])
    /\ IsInjective([i \in DOMAIN d.svids |-> d.svids[i].id])
    /\ \A i \in DOMAIN d.reports : d.reports[i].dvids \subseteq d.named \cap d.typed
    /\ \A i \in DOMAIN d.events :
          d.events[i].reports \subseteq {d.reports[j].id : j \in DOMAIN d.reports}
    /\ \A i \in DOMAIN d.svids : ValueAccepted(d.svids[i])
    /\ \A v \in d.values : v.id \in d.typed /\ ValueAccepted(v)
    /\ d.events # <<>> =>
          Essential \subseteq {d.events[i].type : i \in DOMAIN d.events}

(* What an event number is taken for: what the profile documents, and else  *)
(* what the subscription file of the installation says.                     *)
Resolved(m, ceid) ==
    LET known == Profiles[m.profile].events
    IN  IF ceid \in DOMAIN known THEN known[ceid]
        ELSE IF ceid \in DOMAIN m.subscribed THEN m.subscribed[ceid] ELSE "unknown"

(* A CEID override names a lifecycle event, shares its number with no other *)
(* and takes none that already means another event.                         *)
OverridesAccepted(m) ==
    /\ DOMAIN m.overrides \subseteq Lifecycle
    /\ IsInjective(m.overrides)
    /\ \A e \in DOMAIN m.overrides :
          /\ m.overrides[e] \in Nat \ {0}
          /\ Resolved(m, m.overrides[e]) \in {"unknown", e}
          /\ \A i \in DOMAIN m.defs.events :
                m.defs.events[i].ceid = m.overrides[e] =>
                    m.defs.events[i].type \in {"unknown", e}

(* The advanced simulators play one model each.                             *)
ImplementationAccepted(m) ==
    \/ m.impl = "profile"
    \/ m.impl = "davinci_advanced" /\ m.profile = "davinci_200_mc4_hc1"
    \/ m.impl = "nexgen_advanced"  /\ m.profile = "nexgen_mg_series"

(* A real PTIQ has no event numbers of its own: the file of the             *)
(* installation must give the whole lifecycle a layout.                     *)
PtiqComplete(m) ==
    (Enabled(m) /\ ~Simulated(m) /\ m.profile = "ptiq_secsgem") =>
        Essential \subseteq Profiles[m.profile].layout \cup m.layout

(* The flag of a machine's own HTTPS route, its address and its token, each *)
(* taken from the global section when the machine says nothing.             *)
Https(m, http)    == Is(m.https, Is(http.enabled, FALSE))
Base(m, http)     == IF m.base = "none" THEN http.base ELSE m.base
Token(m, http)    == m.token = "set" \/ (m.token = "unset" /\ m.name \in http.tokens)
Verify(m, http)   == Is(m.verify, Is(http.verify, TRUE))
Insecure(m, http) == Is(m.insecure, Is(http.insecure, FALSE))

(* Every other field of an entry has its type and its range: of a "mapping" *)
(* all do, of a "bad" one some do not, and a "scalar" is no entry at all.   *)
FieldsAccepted(m) == m.shape = "mapping"

(* Everything machine_from_dict asks of one entry.                          *)
MachineAccepted(m) ==
    /\ FieldsAccepted(m)
    /\ m.profile \in DOMAIN Profiles
    /\ m.mode \in {"active", "passive"} /\ m.runtime \in {"real", "simulated"}
    /\ m.port \in Ports
    /\ TimersAccepted(m)
    /\ DefinitionsAccepted(m.defs) /\ OverridesAccepted(m)
    /\ ImplementationAccepted(m) /\ PtiqComplete(m)
    /\ m.base # "endpoint"       \* a server address that carries the device path

----------------------------------------------------------------------------
(* Machines together.                                                       *)

(* Two passive machines on one port, where one address covers the other as  *)
(* the loader compares them.                                                *)
PassiveClash(m, n) ==
    /\ Passive(m) /\ Enabled(m) /\ Passive(n) /\ Enabled(n)
    /\ m.port = n.port
    /\ Bind(m) = Bind(n) \/ Bind(m) = Any \/ Bind(n) = Any

(* Two simulated machines on one port.                                      *)
SimulatorClash(m, n) ==
    /\ Simulated(m) /\ Enabled(m) /\ Simulated(n) /\ Enabled(n)
    /\ m.port = n.port

(* The listener of a simulated tool on the port of a passive machine.       *)
ListenerClash(m, n) ==
    /\ Simulated(m) /\ Enabled(m) /\ ~Passive(m)
    /\ Passive(n) /\ Enabled(n)
    /\ m.port = n.port

Unique(ms) ==
    \A i, j \in DOMAIN ms : i # j =>
        /\ ms[i].id # ms[j].id /\ ms[i].name # ms[j].name
        /\ ~PassiveClash(ms[i], ms[j])
        /\ ~SimulatorClash(ms[i], ms[j])
        /\ ~ListenerClash(ms[i], ms[j])

----------------------------------------------------------------------------
(* The sections of the service.                                             *)

MqttAccepted(q) ==
    Is(q.enabled, FALSE) => q.token /\ (Is(q.tls, TRUE) \/ Is(q.insecure, FALSE))

HttpAccepted(h) ==
    /\ h.base # "endpoint"
    /\ (Is(h.enabled, FALSE) /\ (~Is(h.verify, TRUE) \/ h.base = "http")) =>
           Is(h.insecure, FALSE)

(* No machine sends its token in the clear unless told to.                  *)
RouteSecure(m, h) ==
    (Https(m, h) /\ (~Verify(m, h) \/ Base(m, h) = "http")) => Insecure(m, h)

(* An enabled machine that is not offline has somewhere to send, and what   *)
(* it takes to send there.                                                  *)
RouteAccepted(m, h, q) ==
    (Enabled(m) /\ ~Offline(m)) =>
        IF Https(m, h) THEN Base(m, h) # "none" /\ Token(m, h)
                       ELSE Is(q.enabled, FALSE)

LegacyAccepted(l) ==
    Is(l.enabled, FALSE) =>
        /\ l.url \in {"http", "https"}
        /\ l.url = "https" \/ Is(l.insecure, FALSE)
        /\ Is(l.encrypted, TRUE) =>
              \/ l.cipher = "aes_256_gcm_v2" /\ l.key = "32 bytes"
              \/ l.cipher = "legacy_ctr_v1" /\ l.pair

(* The free space the storage gate acts on: critical, then warning, then    *)
(* recovery, in bytes and in percent.                                       *)
ThresholdsAccepted(s) ==
    /\ 0 < s.bytes[1] /\ s.bytes[1] < s.bytes[2] /\ s.bytes[2] < s.bytes[3]
    /\ 0 < s.percent[1] /\ s.percent[1] < s.percent[2]
    /\ s.percent[2] < s.percent[3] /\ s.percent[3] <= 100

Accepted(raw) ==
    /\ raw.shape = "mapping"
    /\ MqttAccepted(raw.mqtt) /\ HttpAccepted(raw.http)
    /\ \A i \in DOMAIN raw.machines : MachineAccepted(raw.machines[i])
    /\ Unique(raw.machines)
    /\ \A i \in DOMAIN raw.machines :
          /\ RouteSecure(raw.machines[i], raw.http)
          /\ RouteAccepted(raw.machines[i], raw.http, raw.mqtt)
    /\ LegacyAccepted(raw.legacy) /\ ThresholdsAccepted(raw.storage)

(* What loading the file comes to: a configuration, a ConfigError, or an    *)
(* exception of another kind, when an entry of the list is no mapping at    *)
(* all and the loader meets it before anything it refuses.                  *)
Outcome(raw) ==
    LET reached == raw.shape = "mapping" /\ MqttAccepted(raw.mqtt) /\ HttpAccepted(raw.http)
        strange == {i \in DOMAIN raw.machines : raw.machines[i].shape = "scalar"}
    IN  IF /\ reached
           /\ \E i \in strange : \A j \in 1..(i - 1) : MachineAccepted(raw.machines[j])
        THEN "raises"
        ELSE IF Accepted(raw) THEN "loaded" ELSE "refused"

----------------------------------------------------------------------------
(* What the machines of a running configuration open.                       *)

(* The sockets a machine listens on: its own when it is passive, the one of *)
(* its embedded simulator when that is the passive end; the loopback pair   *)
(* of a simulated machine never leaves this computer.                       *)
Listeners(m) ==
    IF ~Enabled(m) THEN {}
    ELSE IF Simulated(m) THEN {[addr |-> Loop, port |-> m.port]}
    ELSE IF Passive(m) THEN {[addr |-> Bind(m), port |-> m.port]}
    ELSE {}

Overlap(s, t) ==
    s.port = t.port /\ (s.addr = t.addr \/ {s.addr, t.addr} \cap {Any, Blank} # {})

(* The addresses the loader can judge: one it never sees as blank, and for  *)
(* a simulated machine one it would really bind.                            *)
PlainBind(m) ==
    Passive(m) => Bind(m) # Blank /\ (Simulated(m) => Bind(m) \in {Any, Loop})

(* The route a machine is started with.  One that says nothing of its own   *)
(* takes the global one.                                                    *)
EffectiveHttps(m, h) ==
    IF Https(m, h) \/ Base(m, h) # "none" \/ Token(m, h)
    THEN Https(m, h) ELSE Is(h.enabled, FALSE)

(* The upstream queues a machine's events reach.                            *)
Upstream(m, h, q) ==
    (IF EffectiveHttps(m, h) THEN {"https"} ELSE {}) \cup
    (IF Is(q.enabled, FALSE) THEN {"mqtt"} ELSE {})
=============================================================================
