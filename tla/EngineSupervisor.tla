-------------------------- MODULE EngineSupervisor --------------------------
(***************************************************************************)
(* The supervisor of one thread's engine (app/src/main/supervisor): it     *)
(* launches the worker, follows its boot, kills one that hangs, restarts   *)
(* one that dies within a budget, and obeys the person's recovery actions. *)
(*                                                                         *)
(* A worker dies with an exit event; an uncaught exception announces it    *)
(* with an error event first.  Clocks are abstracted to the moments that   *)
(* matter: a timer fires, a launch has become old enough to count as a     *)
(* stable run, a crash falls out of the policy's window.                   *)
(***************************************************************************)
EXTENDS Integers, Sequences

CONSTANTS
    Worker,         \* engine processes that may exist at once
    None,
    MaxAttempts,    \* automatic restarts in a row (5 in the code)
    Failures        \* which failures this instance has

Kinds == {"throws",         \* an uncaught exception: error, exit after a relaunch
          "throwsAndExits", \* ... and the exit while the supervisor still listens
          "refuses",        \* a launch that throws
          "refusesLate",    \* ... after the last successful one has become old
          "hangs", "misspeaks", "dispose"}

ASSUME SupervisorAssumption ==
    /\ None \notin Worker
    /\ MaxAttempts \in Nat
    /\ Failures \subseteq Kinds

VARIABLES
    sup,        \* the supervisor's fields
    worker,     \* the workers: "free", "alive", "down" (error seen), and told to end
    autos,      \* history: automatic restarts since a stable run or the person's act
    stopped     \* history: the person stopped the engine and asked for none since
vars == <<sup, worker, autos, stopped>>

-----------------------------------------------------------------------------
(* The phases and the moves between them; "booting" stands also for the     *)
(* three phases that load storage, graph and tools.                         *)

Ladder == <<"spawning", "booting", "restoring_session">>
Startup == {Ladder[i] : i \in DOMAIN Ladder}
Interactive == {"ready", "degraded"}
Phase == Startup \cup Interactive \cup {"idle", "restarting", "stopping", "exited", "failed"}

Later(p) == {Ladder[j] : j \in {j \in DOMAIN Ladder : \E i \in 1..(j - 1) : Ladder[i] = p}}
Legal(p) ==
    CASE p \in Startup -> Later(p) \cup Interactive
                          \cup {"exited", "failed", "stopping", "restarting"}
      [] p \in Interactive -> Interactive \cup {"restarting", "stopping", "exited", "failed"}
      [] p = "idle" -> {"spawning"}
      [] p = "restarting" -> {"spawning", "failed", "stopping", "idle"}
      [] p = "stopping" -> {"exited", "idle", "spawning"}
      [] OTHER -> {"spawning", "restarting", "idle"}

(* An illegal move keeps the phase.                                         *)
Enter(p, next) == IF next \in Legal(p) THEN next ELSE p

-----------------------------------------------------------------------------
(* What the handlers are made of *)

Supervisor ==
    [phase    : Phase,
     child    : Worker \cup {None},
     heard    : Worker \cup {None},      \* childGen: whose events count
     stopping : BOOLEAN,                 \* intentionalStop
     verdict  : BOOLEAN,                 \* watchdogVerdict is set
     hung     : BOOLEAN,                 \* ... to "unresponsive"
     beat     : BOOLEAN,                 \* heartbeatSeen
     armed    : Nat,                     \* restart timers that will fire
     held     : BOOLEAN,                 \* restartTimer refers to one of them
     streak   : Nat,                     \* consecutiveCrashes(history), up to one too many
     hangs    : Nat,                     \* resource crashes in the history (2 is many)
     floor    : 0..2,                    \* profileFloor: minimal, conservative, full
     spawned  : {"never", "recently", "long ago"},   \* spawnedAt; stableMs are long
     resume   : BOOLEAN,                 \* pendingResume
     project  : BOOLEAN,                 \* a project has been opened
     disposed : BOOLEAN]

Least(m, n) == IF m < n THEN m ELSE n

(* Mutations: a cancelled restart keeps its timer, or a cancel without one  *)
(* counts too.                                                              *)
CancelledTwice(s) == [s EXCEPT !.armed = @ - 1, !.held = FALSE]
CancelledNot(s) == [s EXCEPT !.held = FALSE]
Cancelled(s) == IF s.held THEN [s EXCEPT !.armed = @ - 1, !.held = FALSE] ELSE s
Superseded(s) == [s EXCEPT !.child = None, !.heard = None]
Armed(s) == [s EXCEPT !.armed = @ + 1, !.held = TRUE]

(* Told to end: SIGTERM, and SIGKILL when it lingers.                       *)
Told(w, c) == IF c = None THEN w ELSE [w EXCEPT ![c].told = TRUE]

(* The death joins the history: a stable run starts the count again.        *)
Recorded(s, kind) ==
    [s EXCEPT !.child = None,
              !.streak = IF kind = "clean_shutdown" THEN 0 ELSE IF s.spawned = "long ago" THEN 1
                         ELSE Least(MaxAttempts + 1, @ + 1),
              !.hangs = IF kind = "clean_shutdown" THEN 0
                        ELSE IF kind = "unresponsive" THEN Least(2, @ + 1) ELSE @]
(* Mutation: no budget.                                                     *)
DiedAgain(s, kind) ==
    LET r == Recorded(s, kind) IN
    IF kind = "clean_shutdown" THEN [r EXCEPT !.phase = Enter(@, "exited")]
    ELSE [Armed(r) EXCEPT !.phase = Enter(@, "restarting")]
(* handleDeath, and its classification of what happened.                    *)
Kind(s, kind) ==
    CASE s.stopping                                 -> "clean_shutdown"
      [] ~s.stopping /\ kind = "spawn_error"        -> "spawn_error"
      [] ~s.stopping /\ kind # "spawn_error" /\ s.verdict
                          -> IF s.hung THEN "unresponsive" ELSE "startup_timeout"
      [] OTHER                                      -> kind
Shed(s) == IF s.hangs >= 2 THEN 0 ELSE IF s.hangs = 1 THEN Least(s.floor, 1) ELSE s.floor
Died(s, kind) ==
    LET r == Recorded(s, kind)
        f == IF kind = "unresponsive" THEN [r EXCEPT !.floor = Shed(r)] ELSE r
    IN IF kind = "clean_shutdown" THEN [r EXCEPT !.phase = Enter(@, "exited")]
       ELSE IF r.streak > MaxAttempts THEN [f EXCEPT !.phase = Enter(@, "failed")]
       ELSE [Armed(f) EXCEPT !.phase = Enter(@, "restarting")]

(* spawnChild: a running engine goes to spawning by way of restarting.      *)
Launching(s) ==
    LET from == IF "spawning" \in Legal(s.phase) THEN s.phase ELSE Enter(s.phase, "restarting")
    IN [s EXCEPT !.phase = Enter(from, "spawning"), !.stopping = FALSE, !.verdict = FALSE,
                 !.hung = FALSE, !.beat = FALSE]
MayRefuse(s) == (IF s.spawned = "long ago" THEN "refusesLate" ELSE "refuses") \in Failures

(* `was` are the workers with the superseded one told to end.               *)
SpawnChild(s, was) ==
    \/ \E w \in Worker :
        /\ worker[w].life = "free"
        /\ sup' = [Launching(s) EXCEPT !.child = w, !.heard = w,
                                     !.spawned = "recently"]
        /\ worker' = [was EXCEPT ![w] = [life |-> "alive", told |-> FALSE, ready |-> FALSE]]
    \/ /\ MayRefuse(s)
       /\ sup' = Died([Launching(s) EXCEPT !.heard = None], "spawn_error")
       /\ worker' = was

Automatic(s) == autos' = IF sup'.armed > s.armed THEN autos + 1 ELSE autos

-----------------------------------------------------------------------------
(* What the person does *)

OpenProject ==
    /\ ~sup.disposed
    /\ SpawnChild(Superseded(Cancelled([sup EXCEPT
           !.project = TRUE, !.streak = 0, !.hangs = 0, !.floor = 2, !.resume = FALSE])),
           Told(worker, sup.child))
    /\ autos' = 0 /\ stopped' = FALSE

(* Mutation: a click while the engine starts launches another one.          *)
ManualRestartAnyway(s, floor) ==
    /\ SpawnChild(Cancelled([s EXCEPT !.floor = floor]), worker)
    /\ autos' = 0 /\ stopped' = FALSE

(* A second click must not spawn a second engine; a countdown is cancelled. *)
ManualRestart(s, floor) ==
    IF s.child # None /\ s.phase \in Startup
    THEN sup' = s /\ UNCHANGED <<worker, autos, stopped>>
    ELSE /\ SpawnChild(Superseded(Cancelled([s EXCEPT !.floor = floor])), Told(worker, s.child))
         /\ autos' = 0 /\ stopped' = FALSE

Opened == ~sup.disposed /\ sup.project
Retry == Opened /\ ManualRestart(sup, sup.floor)
(* Mutation: the safe profile is taken even over a safer one.               *)
RestartSafeRaising ==
    /\ Opened
    /\ \E resume \in BOOLEAN : ManualRestart([sup EXCEPT !.resume = @ \/ resume], 1)
RestartSafe ==
    /\ Opened
    /\ \E resume \in BOOLEAN :
        ManualRestart([sup EXCEPT !.resume = @ \/ resume], Least(sup.floor, 1))
StartMinimal == Opened /\ ManualRestart(sup, 0)

Resume ==
    /\ Opened
    /\ IF sup.phase \in Interactive /\ sup.child # None
       THEN UNCHANGED vars
       ELSE LET s == [sup EXCEPT !.resume = TRUE] IN
            IF s.child = None /\ s.phase # "restarting" THEN ManualRestart(s, s.floor)
            ELSE sup' = s /\ UNCHANGED <<worker, autos, stopped>>

Stop ==
    /\ Opened
    /\ sup' = LET s == Cancelled(sup) IN
              IF s.child = None THEN [s EXCEPT !.phase = Enter(@, "idle")]
              ELSE [s EXCEPT !.stopping = TRUE, !.phase = Enter(@, "stopping")]
    /\ worker' = Told(worker, sup.child)
    /\ stopped' = TRUE /\ UNCHANGED autos

(* The thread's Stop, or the app's quit: nothing is launched any more.      *)
Dispose ==
    /\ "dispose" \in Failures /\ ~sup.disposed
    /\ sup' = [Superseded(Cancelled(sup)) EXCEPT !.disposed = TRUE]
    /\ worker' = Told(worker, sup.child)
    /\ stopped' = TRUE /\ UNCHANGED autos

-----------------------------------------------------------------------------
(* What the worker does *)

Listens(w) == sup.heard = w /\ worker[w].life # "free"
Quietly == UNCHANGED <<autos, stopped>>

Boot(w, phase) ==
    /\ Listens(w) /\ phase \in Legal(sup.phase)
    /\ sup' = [sup EXCEPT !.phase = phase]
    /\ Quietly /\ UNCHANGED worker

Health(w) ==
    /\ Listens(w) /\ ~sup.beat
    /\ sup' = [sup EXCEPT !.beat = TRUE]
    /\ Quietly /\ UNCHANGED worker

(* Mutation: the resume waits for another start.                            *)
ReadyForgetting(w) ==
    /\ Listens(w) /\ ~worker[w].ready
    /\ \E phase \in Interactive : sup' = [sup EXCEPT !.phase = Enter(@, phase)]
    /\ worker' = [worker EXCEPT ![w].ready = TRUE]
    /\ Quietly

(* Capabilities may have been shed; a pending resume goes out.              *)
Ready(w) ==
    /\ Listens(w) /\ ~worker[w].ready
    /\ \E phase \in Interactive :
        sup' = [sup EXCEPT !.phase = Enter(@, phase), !.resume = FALSE]
    /\ worker' = [worker EXCEPT ![w].ready = TRUE]
    /\ Quietly

(* An incompatible protocol, or garbage before it is known.                 *)
Misspeaks(w) ==
    /\ "misspeaks" \in Failures /\ Listens(w) /\ ~worker[w].ready
    /\ sup' = [sup EXCEPT !.verdict = TRUE, !.hung = FALSE]
    /\ worker' = Told(worker, sup.child)
    /\ Quietly

(* Mutation: the exit of any worker counts.                                 *)
DiesStale(w, kind) ==
    /\ sup' = Died(sup, Kind(sup, kind))
    /\ Automatic(sup) /\ UNCHANGED stopped

(* The death of a superseded worker is evidence only.                       *)
Dies(w, kind) ==
    /\ sup' = IF sup.heard = w THEN Died(sup, Kind(sup, kind)) ELSE sup
    /\ Automatic(sup) /\ UNCHANGED stopped

Free == [life |-> "free", told |-> FALSE, ready |-> FALSE]

Exits(w, kind) ==
    /\ worker[w].life = "alive"
    /\ Dies(w, kind)
    /\ worker' = [worker EXCEPT ![w] = Free]

Throws(w) ==
    /\ "throws" \in Failures /\ worker[w].life = "alive"
    /\ Dies(w, "spawn_error")
    /\ worker' = [worker EXCEPT ![w].life = "down"]

ExitsAfterThrow(w) ==
    /\ worker[w].life = "down"
    /\ sup.heard = w => "throwsAndExits" \in Failures
    /\ Dies(w, "crash")
    /\ worker' = [worker EXCEPT ![w] = Free]

-----------------------------------------------------------------------------
(* What time does *)

RestartTimer ==
    /\ sup.armed > 0
    /\ LET s == [sup EXCEPT !.armed = @ - 1, !.held = FALSE] IN
        IF s.disposed THEN sup' = s /\ UNCHANGED <<worker, autos>>
        ELSE SpawnChild(s, worker) /\ Automatic(s)
    /\ UNCHANGED stopped

(* Mutation: the verdict is written down and nothing is killed.             *)
StartupTimeoutOnly ==
    /\ sup.child # None /\ ~sup.verdict /\ sup.phase \in Startup
    /\ sup' = [sup EXCEPT !.verdict = TRUE]
    /\ Quietly /\ UNCHANGED worker

(* The watchdog: an engine that does not come up, or stops its heartbeat.   *)
StartupTimeout ==
    /\ sup.child # None /\ ~sup.verdict /\ sup.phase \in Startup
    /\ sup' = [sup EXCEPT !.verdict = TRUE]
    /\ worker' = Told(worker, sup.child)
    /\ Quietly

Unresponsive ==
    /\ "hangs" \in Failures
    /\ sup.child # None /\ ~sup.verdict /\ sup.phase \in Interactive /\ sup.beat
    /\ sup' = [sup EXCEPT !.verdict = TRUE, !.hung = TRUE]
    /\ worker' = Told(worker, sup.child)
    /\ Quietly

(* Minutes pass while an engine runs or none is due; the countdowns of      *)
(* restarts are short.                                                      *)
MinutesPass == sup.child # None \/ sup.phase \in {"idle", "exited", "failed"}

(* stableMs pass: with an engine that lives, that is a stable run.          *)
Settles ==
    /\ MinutesPass /\ sup.spawned = "recently"
    /\ sup' = [sup EXCEPT !.spawned = "long ago"]
    /\ autos' = IF sup.child = None THEN autos ELSE 0
    /\ UNCHANGED <<worker, stopped>>

(* The oldest crashes leave the window of the policy.                       *)
Ages ==
    /\ MinutesPass
    /\ \E n \in 0..sup.streak, m \in 0..sup.hangs :
        /\ n + m < sup.streak + sup.hangs
        /\ sup' = [sup EXCEPT !.streak = n, !.hangs = m]
        /\ autos' = Least(autos, n)
    /\ UNCHANGED <<worker, stopped>>

-----------------------------------------------------------------------------
Init ==
    /\ sup = [phase |-> "idle", child |-> None, heard |-> None, stopping |-> FALSE,
              verdict |-> FALSE, hung |-> FALSE, beat |-> FALSE, armed |-> 0, held |-> FALSE,
              streak |-> 0, hangs |-> 0, floor |-> 2, spawned |-> "never",
              resume |-> FALSE, project |-> FALSE, disposed |-> FALSE]
    /\ worker = [w \in Worker |-> Free]
    /\ autos = 0 /\ stopped = FALSE

Person == OpenProject \/ Retry \/ RestartSafe \/ StartMinimal \/ Resume \/ Stop \/ Dispose
Engine(w) ==
    \/ \E phase \in Startup \ {"spawning"} : Boot(w, phase)
    \/ Health(w) \/ Ready(w) \/ Misspeaks(w)
    \/ \E kind \in {"clean_shutdown", "crash"} : Exits(w, kind)
    \/ Throws(w) \/ ExitsAfterThrow(w)
Time == RestartTimer \/ StartupTimeout \/ Unresponsive \/ Settles \/ Ages

Next == Person \/ (\E w \in Worker : Engine(w)) \/ Time
Spec == Init /\ [][Next]_vars

(* Timers fire, and a worker told to end does: SIGKILL follows SIGTERM.     *)
Fairness ==
    /\ WF_vars(RestartTimer) /\ WF_vars(StartupTimeout)
    /\ \A w \in Worker :
        /\ WF_vars(worker[w].told /\ \E kind \in {"clean_shutdown", "crash"} : Exits(w, kind))
        /\ WF_vars(ExitsAfterThrow(w))
FairSpec == Spec /\ Fairness

-----------------------------------------------------------------------------
(* Every field has its type.                                                *)
TypeOK ==
    /\ sup \in Supervisor
    /\ worker \in [Worker -> [life : {"free", "alive", "down"}, told : BOOLEAN, ready : BOOLEAN]]
    /\ autos \in Nat /\ stopped \in BOOLEAN

(* No engine runs that the supervisor has lost: two would write one folder  *)
(* (supervisor.ts:405, "a second click must not spawn a second engine").    *)
OneEngine ==
    \A w \in Worker : worker[w].life = "alive" /\ ~worker[w].told => w = sup.child

(* The phase on the screen is the engine's: the recovery actions, the       *)
(* watchdog and the queue decide by it (supervisor.ts:335 answerIsComing).  *)
PhaseIsReal ==
    ~sup.disposed =>
        /\ sup.child # None <=> sup.phase \in Startup \cup Interactive \cup {"stopping"}
        /\ sup.phase \in Interactive => worker[sup.child].ready
        /\ sup.armed = IF sup.phase = "restarting" THEN 1 ELSE 0

(* Restarts without a stable run or an act of the person between them stay  *)
(* within the budget (policy.ts:103 decideRestart).                          *)
BudgetKept == autos <= MaxAttempts

(* Once stopped by the person no engine starts until they ask for one       *)
(* (supervisor.ts:230, "Intentional stop").                                 *)
StopSticks == stopped => \A w \in Worker : worker[w].life = "alive" => worker[w].told

(* A resume that was asked for never waits beside a ready engine            *)
(* (supervisor.ts:366 requestResume).                                       *)
ResumeNotForgotten == sup.resume => sup.child = None \/ sup.phase \notin Interactive

(* Capabilities that were shed stay shed until another project is opened    *)
(* (supervisor.ts:600, "keep them shed").                                   *)
ShedStaysShed == [][sup'.floor <= sup.floor \/ OpenProject]_vars

(* No launch, countdown or stop goes on for ever: the watchdog, the timer   *)
(* and SIGKILL see to it (supervisor.ts:648 tick, :696 terminateChild).     *)
ComesUp(w) == sup.child = w /\ sup.phase \in Startup
Ending(w) == sup.child = w /\ sup.phase = "stopping"
Counting(n) == sup.armed > 0 /\ sup.streak = n
NeverStuck ==
    /\ \A w \in Worker : (ComesUp(w) ~> ~ComesUp(w)) /\ (Ending(w) ~> ~Ending(w))
    /\ \A n \in 1..MaxAttempts : Counting(n) ~> ~Counting(n)
=============================================================================
