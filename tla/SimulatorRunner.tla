--------------------------- MODULE SimulatorRunner ---------------------------
(* The supervised life of one simulated tool: SimulatorRunner.run, which    *)
(* serves, restarts with a growing delay what fails, and gives up after its *)
(* limit; the callbacks of its protocol stack, on a thread of their own;    *)
(* and the thread of the service that runs it and is joined by a stop.      *)
(*                                                                          *)
(* Time passes in the length of the delays: a wait ends in some step, and   *)
(* the delay it had is kept.                                                *)
EXTENDS SimulatorSetup

VARIABLES
    settings,    \* the recovery settings, with the HSMS mode
    stop,        \* the stop event
    pc,          \* where run() is: "loop", "create", "enable", "serve", "count",
                 \* "compare", "close", "failed", "backoff", "done"
    code,        \* what the runner returned, or returns when it has closed
    attempt,     \* restart_attempt
    delay,       \* retry_delay
    live,        \* self._simulator is set
    tcp,         \* the _tcp_connected event
    gem,         \* the equipment is COMMUNICATING
    windows,     \* _connection_attempt_windows
    saw,         \* what the loop read of it, to add one to
    waiting,     \* wait_log_delay
    served       \* history: how often it was served

runnerVars == <<settings, stop, pc, code, attempt, delay, live, tcp, gem, windows, saw,
                waiting, served>>

Running == -1
Ok == 0
Startup == 3
Exhausted == 4

Least(a, b) == IF a < b THEN a ELSE b

RunnerInit ==
    /\ \E r \in [initial : Nat, maximum : Nat, limit : Nat] : \E mode \in {"active", "passive"} :
          RecoveryAccepted(r)
          /\ settings = [initial |-> r.initial, maximum |-> r.maximum, limit |-> r.limit,
                         mode |-> mode]
    /\ stop = FALSE /\ pc = "loop" /\ code = Running
    /\ attempt = 0 /\ delay = settings.initial
    /\ live = FALSE /\ tcp = FALSE /\ gem = FALSE
    /\ windows = 0 /\ saw = 0 /\ waiting = settings.initial /\ served = 0

(* request_stop, from the service, a signal or the panel, at any time.      *)
RequestStop ==
    /\ stop' = TRUE
    /\ UNCHANGED <<settings, pc, code, attempt, delay, live, tcp, gem, windows, saw,
                   waiting, served>>

----------------------------------------------------------------------------
(* The callbacks of the protocol stack.                                     *)

Linked == live /\ pc \in {"serve", "count", "compare", "close"}

TcpConnected ==
    /\ Linked /\ tcp' = TRUE /\ windows' = 0
    /\ UNCHANGED <<settings, stop, pc, code, attempt, delay, live, gem, saw, waiting,
                   served>>

TcpDisconnected ==
    /\ Linked /\ tcp' = FALSE /\ gem' = FALSE
    /\ UNCHANGED <<settings, stop, pc, code, attempt, delay, live, windows, saw, waiting,
                   served>>

GemCommunicating ==
    /\ Linked /\ tcp' = TRUE /\ gem' = TRUE /\ windows' = 0
    /\ UNCHANGED <<settings, stop, pc, code, attempt, delay, live, saw, waiting, served>>

----------------------------------------------------------------------------
(* run() and _serve_once().                                                 *)

runnerOnly == <<settings, stop, tcp, gem>>
counters == <<attempt, delay, windows, saw, waiting, served>>

Ends(c) == pc' = "done" /\ code' = c

StartRound ==
    /\ pc = "loop" /\ UNCHANGED <<runnerOnly, attempt, delay, live, windows, saw, waiting>>
    /\ \/ stop /\ Ends(Ok) /\ UNCHANGED served
       \/ ~stop /\ pc' = "create" /\ served' = served + 1 /\ UNCHANGED code

(* A passive simulator that cannot bind its port is not started again.      *)
PreflightFails ==
    /\ pc = "create" /\ settings.mode = "passive"
    /\ Ends(Startup) /\ UNCHANGED <<runnerOnly, counters, live>>

(* The instance is made, or making it raises.                               *)
Create ==
    /\ pc = "create" /\ UNCHANGED <<runnerOnly, counters, code>>
    /\ \/ pc' = "enable" /\ live' = TRUE
       \/ pc' = "failed" /\ UNCHANGED live

(* enable() and start_events() raise, or the instance serves.               *)
Enable ==
    /\ pc = "enable" /\ pc' \in {"serve", "close"}
    /\ tcp' = FALSE /\ gem' = FALSE /\ windows' = 0 /\ waiting' = settings.initial
    /\ UNCHANGED <<settings, stop, code, attempt, delay, live, saw, served>>

(* A round of the serving loop ends it when a stop was requested.           *)
ServeStops ==
    /\ pc = "serve" /\ stop /\ pc' = "close" /\ code' = Ok
    /\ UNCHANGED <<runnerOnly, counters, live>>

ServeCommunicating ==
    /\ pc = "serve" /\ gem /\ waiting' = settings.initial
    /\ UNCHANGED <<runnerOnly, pc, code, attempt, delay, live, windows, saw, served>>

(* A wait without communication is over; that of an active simulator        *)
(* without a connection is counted, in two steps a callback can come        *)
(* between.                                                                 *)
LongerWait == Least(waiting * 2, settings.maximum)

WindowEnds ==
    /\ pc = "serve" /\ ~gem
    /\ IF settings.mode = "active" /\ ~tcp
       THEN pc' = "count" /\ saw' = windows /\ UNCHANGED waiting
       ELSE waiting' = LongerWait /\ UNCHANGED <<pc, saw>>
    /\ UNCHANGED <<runnerOnly, code, attempt, delay, live, windows, served>>

Count ==
    /\ pc = "count" /\ pc' = "compare" /\ windows' = saw + 1
    /\ UNCHANGED <<runnerOnly, code, attempt, delay, live, saw, waiting, served>>

Compare ==
    /\ pc = "compare"
    /\ IF settings.limit # 0 /\ windows >= settings.limit
       THEN pc' = "close" /\ code' = Exhausted /\ UNCHANGED waiting
       ELSE pc' = "serve" /\ waiting' = LongerWait /\ UNCHANGED code
    /\ UNCHANGED <<runnerOnly, attempt, delay, live, windows, saw, served>>

(* The instance is disabled and forgotten; when that raises, what was to be *)
(* returned is lost with it and the failure is one like any other.          *)
CloseSimulator ==
    /\ pc = "close" /\ live' = FALSE
    /\ \/ code # Running /\ pc' = "done" /\ UNCHANGED code
       \/ pc' = "failed" /\ code' = Running
    /\ UNCHANGED <<runnerOnly, counters>>

(* Failures are counted over the whole life of the runner.                  *)
Failed ==
    /\ pc = "failed" /\ attempt' = attempt + 1
    /\ IF settings.limit # 0 /\ attempt' >= settings.limit
       THEN Ends(Exhausted) ELSE pc' = "backoff" /\ UNCHANGED code
    /\ UNCHANGED <<runnerOnly, live, delay, windows, saw, waiting, served>>

Backoff ==
    /\ pc = "backoff"
    /\ \/ stop /\ Ends(Ok) /\ UNCHANGED delay
       \/ /\ pc' = "loop" /\ delay' = Least(delay * 2, settings.maximum)
          /\ UNCHANGED code
    /\ UNCHANGED <<runnerOnly, live, attempt, windows, saw, waiting, served>>

RunnerNext ==
    \/ RequestStop \/ TcpConnected \/ TcpDisconnected \/ GemCommunicating
    \/ StartRound \/ PreflightFails \/ Create \/ Enable
    \/ ServeStops \/ ServeCommunicating \/ WindowEnds \/ Count \/ Compare
    \/ CloseSimulator \/ Failed \/ Backoff

RunnerSpec == RunnerInit /\ [][RunnerNext]_runnerVars

(* What the service shows of the simulator (_simulator_status).             *)
Status == IF pc # "done" THEN "Running" ELSE IF code = Ok THEN "Stopped" ELSE "Error"

----------------------------------------------------------------------------
RunnerTypeOK ==
    /\ settings \in [initial : Nat, maximum : Nat, limit : Nat, mode : {"active", "passive"}]
    /\ RecoveryAccepted(settings)
    /\ stop \in BOOLEAN /\ live \in BOOLEAN /\ tcp \in BOOLEAN /\ gem \in BOOLEAN
    /\ pc \in {"loop", "create", "enable", "serve", "count", "compare", "close", "failed",
               "backoff", "done"}
    /\ code \in {Running, Ok, Startup, Exhausted}
    /\ attempt \in Nat /\ windows \in Nat /\ saw \in Nat /\ served \in Nat

(* A simulator with a limit is served no oftener than that, although a      *)
(* disable() that raises turns every way out into another failure           *)
(* (runner.py 286-324).                                                     *)
RestartsBounded == settings.limit # 0 => served <= settings.limit

(* No wait before a restart or between two log lines is shorter than the    *)
(* initial one or longer than the maximum (runner.py 273, 319).             *)
WaitsWithin ==
    /\ delay   \in settings.initial..settings.maximum
    /\ waiting \in settings.initial..settings.maximum

(* A simulator ends with nothing left of it, and for a reason: it was asked *)
(* to, its port is taken, or it has a limit, which the one the service      *)
(* embeds has not (simulator_runtime.py 143).                               *)
EndsForAReason ==
    pc = "done" =>
        /\ ~live /\ code # Running
        /\ code = Ok => stop
        /\ code = Startup => settings.mode = "passive"
        /\ code = Exhausted => settings.limit # 0
=============================================================================
