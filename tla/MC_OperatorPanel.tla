--------------------------- MODULE MC_OperatorPanel ---------------------------
(* Small instances of OperatorPanel and of Configuration: two machines on   *)
(* the file, a third the panel may add, and four texts written by hand.     *)
EXTENDS OperatorPanel

Plain == [timers |-> [t \in {"t3"} |-> 45],
          events |-> [c \in {10, 11} |-> IF c = 10 THEN "lot_start" ELSE "lot_end"],
          layout |-> {}]
SomeProfiles == [p \in {"spts_fxp_omega", "ptiq_secsgem"} |-> Plain]

NoDefs == [reports |-> <<>>, events |-> <<>>, svids |-> <<>>,
           named |-> {}, typed |-> {}, values |-> {}]

Machine(id, port, enabled) ==
    [id |-> id, name |-> id, profile |-> "spts_fxp_omega", port |-> port,
     mode |-> "passive", runtime |-> "real", bind |-> "unset",
     enabled |-> enabled, offline |-> "yes", https |-> "unset", base |-> "none",
     token |-> "unset", verify |-> "unset", insecure |-> "unset",
     timers |-> <<>>, overrides |-> <<>>, defs |-> NoDefs, impl |-> "profile",
     layout |-> {}, subscribed |-> [c \in {12} |-> "wafer_end"], shape |-> "mapping"]

Config(ms) ==
    [shape |-> "mapping", machines |-> ms,
     mqtt |-> [enabled |-> "no", token |-> FALSE, tls |-> "yes", insecure |-> "no"],
     http |-> [enabled |-> "no", base |-> "https", verify |-> "yes", insecure |-> "no",
               tokens |-> {}],
     legacy |-> [enabled |-> "no", url |-> "none", insecure |-> "no", encrypted |-> "yes",
                 cipher |-> "aes_256_gcm_v2", key |-> "none", pair |-> FALSE],
     storage |-> [bytes |-> <<2, 5, 6>>, percent |-> <<5, 10, 12>>]]

A == Machine("a", 1, "yes")
B == Machine("b", 2, "no")
C == Machine("c", 3, "no")

TwoMachines == Config(<<A, B>>)
AddedMachine == {C}
(* One with keys left out, one the loader refuses, one it does not survive. *)
Hand == {Config(<<Machine("a", 1, "unset"), B>>),
         Config(<<A, Machine("b", 1, "yes")>>),
         Config(<<A, [B EXCEPT !.shape = "scalar"]>>)}

(* A foreign edit is not combined with a second start and the last click.   *)
Explored == starts < MaxStarts \/ hand = 0 \/ clicks < MaxClicks
=============================================================================
