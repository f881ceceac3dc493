----------------------- MODULE EngineSupervisor_proofs -----------------------
(***************************************************************************)
(* Theorems about the supervisor, for any number of workers, any budget    *)
(* and every failure of the environment unless an assumption says less.    *)
(***************************************************************************)
EXTENDS EngineSupervisor, TLAPS

-----------------------------------------------------------------------------
(* The moves between phases *)

Running == Startup \cup Interactive

LEMMA LadderIs ==
    /\ Startup = {"spawning", "booting", "restoring_session"}
    /\ \A p : Later(p) \subseteq {"booting", "restoring_session"}
<1>1. DOMAIN Ladder = 1..3 /\ Ladder[1] = "spawning" /\ Ladder[2] = "booting"
      /\ Ladder[3] = "restoring_session"
    BY DEF Ladder
<1>2. \A j \in DOMAIN Ladder : j = 1 \/ j = 2 \/ j = 3
    BY <1>1
<1>3. Startup = {"spawning", "booting", "restoring_session"}
    BY <1>1, <1>2 DEF Startup
<1>4. ASSUME NEW p, NEW x \in Later(p) PROVE x \in {"booting", "restoring_session"}
    <2>1. PICK j \in DOMAIN Ladder : x = Ladder[j] /\ \E i \in 1..(j - 1) : Ladder[i] = p
        BY <1>4 DEF Later
    <2>2. j # 1
        BY <2>1
    <2> QED BY <1>1, <1>2, <2>1, <2>2
<1> QED BY <1>3, <1>4

LEMMA Moves ==
    ASSUME NEW p \in Phase
    PROVE  /\ \A next \in Phase : Enter(p, next) \in Phase
           /\ "spawning" \in Legal(p) <=> p \notin Running
           /\ p \in Running => \A next \in {"exited", "failed", "stopping", "restarting"} :
                                    Enter(p, next) = next
           /\ p \in Running => \A next \in Interactive : Enter(p, next) \in Interactive
           /\ p \notin Running => \A next \in Interactive : Enter(p, next) = p
           /\ p = "stopping" => Enter(p, "exited") = "exited" /\ Enter(p, "stopping") = "stopping"
           /\ p \in {"idle", "restarting", "exited", "failed"} => Enter(p, "idle") = "idle"
           /\ p \notin Startup => \A next \in {"booting", "restoring_session"} : next \notin Legal(p)
<1>1. CASE p \in Startup
    <2>1. /\ Legal(p) = Later(p) \cup Interactive \cup {"exited", "failed", "stopping", "restarting"}
          /\ p \notin Interactive
        BY <1>1, LadderIs DEF Legal, Interactive
    <2> QED BY <1>1, <2>1, LadderIs DEF Enter, Interactive, Running, Phase
<1>2. CASE p \in Interactive
    <2>1. /\ Legal(p) = Interactive \cup {"restarting", "stopping", "exited", "failed"}
          /\ p \notin Startup
        BY <1>2, LadderIs DEF Legal, Interactive
    <2> QED BY <1>2, <2>1, LadderIs DEF Enter, Interactive, Running, Phase
<1>3. CASE p \notin Running
    <2>1. p \in {"idle", "restarting", "stopping", "exited", "failed"}
        BY <1>3 DEF Phase, Running
    <2>2. /\ p = "idle" => Legal(p) = {"spawning"}
          /\ p = "restarting" => Legal(p) = {"spawning", "failed", "stopping", "idle"}
          /\ p = "stopping" => Legal(p) = {"exited", "idle", "spawning"}
          /\ p \in {"exited", "failed"} => Legal(p) = {"spawning", "restarting", "idle"}
        BY <1>3 DEF Legal, Running, Interactive
    <2> QED BY <1>3, <2>1, <2>2, LadderIs DEF Enter, Interactive, Running, Phase
<1> QED BY <1>1, <1>2, <1>3 DEF Running

LEMMA PhaseHas ==
    /\ Running \subseteq Phase /\ Interactive \subseteq Phase /\ Startup \subseteq Phase
    /\ {"idle", "restarting", "stopping", "exited", "failed", "spawning"} \subseteq Phase
    /\ "spawning" \in Startup /\ Running \cap {"idle", "restarting", "stopping", "exited", "failed"} = {}
    /\ Startup \cap Interactive = {}
BY LadderIs DEF Phase, Running, Interactive

-----------------------------------------------------------------------------
(* Types *)

DeathKind == {"clean_shutdown", "spawn_error", "unresponsive", "startup_timeout", "crash"}

(* A timer that is referred to is armed: what cancelling subtracts is there. *)
Typed(s) == s \in Supervisor /\ (s.held => s.armed > 0)

LEMMA FieldsOf ==
    ASSUME NEW s, Typed(s)
    PROVE  /\ s.held \in BOOLEAN /\ s.armed \in Nat /\ s.streak \in Nat /\ s.hangs \in Nat
           /\ s.floor \in 0..2 /\ (s.held => s.armed > 0)
BY DEF Typed, Supervisor

(* The fields that are counted take any value of their types.               *)
LEMMA Timed ==
    ASSUME NEW s, Typed(s), NEW n \in Nat, NEW h \in BOOLEAN, h => n > 0
    PROVE  Typed([s EXCEPT !.armed = n, !.held = h])
BY DEF Typed, Supervisor

LEMMA Counted ==
    ASSUME NEW s, Typed(s), NEW n \in Nat, NEW m \in Nat
    PROVE  /\ Typed([s EXCEPT !.child = None, !.streak = n, !.hangs = m])
           /\ Typed([s EXCEPT !.streak = n, !.hangs = m])
BY DEF Typed, Supervisor

LEMMA Floored ==
    ASSUME NEW s, Typed(s), NEW x \in 0..2
    PROVE  Typed([s EXCEPT !.floor = x])
BY DEF Typed, Supervisor

LEMMA LeastNat ==
    ASSUME NEW m \in Nat, NEW n \in Nat
    PROVE  Least(m, n) \in Nat
BY DEF Least

LEMMA CancelledIs ==
    ASSUME NEW s, Typed(s)
    PROVE  Typed(Cancelled(s)) /\ ~Cancelled(s).held
<1>1. CASE s.held
    <2>1. s.armed - 1 \in Nat
        BY <1>1, FieldsOf
    <2>2. Cancelled(s) = [s EXCEPT !.armed = s.armed - 1, !.held = FALSE]
        BY <1>1 DEF Cancelled
    <2>3. Typed([s EXCEPT !.armed = s.armed - 1, !.held = FALSE])
        BY <2>1, Timed
    <2>4. ~[s EXCEPT !.armed = s.armed - 1, !.held = FALSE].held
        BY DEF Typed, Supervisor
    <2> QED BY <2>2, <2>3, <2>4
<1>2. CASE ~s.held
    BY <1>2 DEF Cancelled, Typed
<1> QED BY <1>1, <1>2

LEMMA SupersededTyped ==
    ASSUME NEW s, Typed(s)
    PROVE  Typed(Superseded(s))
BY DEF Superseded, Typed, Supervisor

LEMMA ArmedTyped ==
    ASSUME NEW s, Typed(s)
    PROVE  Typed(Armed(s))
<1>1. s.armed + 1 \in Nat /\ s.armed + 1 > 0
    BY FieldsOf
<1>2. Typed([s EXCEPT !.armed = s.armed + 1, !.held = TRUE])
    BY <1>1, Timed
<1> QED BY <1>2 DEF Armed

LEMMA RecordedTyped ==
    ASSUME NEW s, Typed(s), NEW kind
    PROVE  Typed(Recorded(s, kind))
<1> DEFINE streak == IF kind = "clean_shutdown" THEN 0 ELSE IF s.spawned = "long ago" THEN 1
                     ELSE Least(MaxAttempts + 1, s.streak + 1)
           hangs == IF kind = "clean_shutdown" THEN 0
                    ELSE IF kind = "unresponsive" THEN Least(2, s.hangs + 1) ELSE s.hangs
<1>1. streak \in Nat /\ hangs \in Nat
    <2>1. MaxAttempts + 1 \in Nat /\ s.streak + 1 \in Nat /\ s.hangs + 1 \in Nat /\ 2 \in Nat
        BY FieldsOf, SupervisorAssumption
    <2>2. Least(MaxAttempts + 1, s.streak + 1) \in Nat /\ Least(2, s.hangs + 1) \in Nat
        BY <2>1, LeastNat
    <2> QED BY <2>2, FieldsOf
<1>2. Recorded(s, kind) = [s EXCEPT !.child = None, !.streak = streak, !.hangs = hangs]
    BY DEF Recorded
<1> HIDE DEF streak, hangs
<1>3. Typed([s EXCEPT !.child = None, !.streak = streak, !.hangs = hangs])
    BY <1>1, Counted
<1> QED BY <1>2, <1>3

LEMMA PhaseTyped ==
    ASSUME NEW s, Typed(s), NEW next \in Phase
    PROVE  Typed([s EXCEPT !.phase = Enter(@, next)])
<1>1. Enter(s.phase, next) \in Phase
    BY Moves DEF Typed, Supervisor
<1> QED BY <1>1 DEF Typed, Supervisor

LEMMA DiedTyped ==
    ASSUME NEW s, Typed(s), NEW kind
    PROVE  Typed(Died(s, kind))
<1> DEFINE r == Recorded(s, kind)
           f == IF kind = "unresponsive" THEN [r EXCEPT !.floor = Shed(r)] ELSE r
<1>1. Typed(r)
    BY RecordedTyped
<1>2. Typed(f)
    <2> HIDE DEF r
    <2>1. Shed(r) \in 0..2
        BY <1>1, FieldsOf DEF Shed, Least
    <2>2. Typed([r EXCEPT !.floor = Shed(r)])
        BY <1>1, <2>1, Floored
    <2> QED BY <1>1, <2>2
<1>3. Died(s, kind) = IF kind = "clean_shutdown" THEN [r EXCEPT !.phase = Enter(@, "exited")]
                      ELSE IF r.streak > MaxAttempts THEN [f EXCEPT !.phase = Enter(@, "failed")]
                      ELSE [Armed(f) EXCEPT !.phase = Enter(@, "restarting")]
    BY DEF Died
<1> HIDE DEF r, f
<1> QED BY <1>1, <1>2, <1>3, ArmedTyped, PhaseTyped, PhaseHas

(* A launch always starts from spawning.                                    *)
LEMMA LaunchingIs ==
    ASSUME NEW s, Typed(s)
    PROVE  /\ Typed(Launching(s))
           /\ Launching(s) = [s EXCEPT !.phase = "spawning", !.stopping = FALSE,
                                       !.verdict = FALSE, !.hung = FALSE, !.beat = FALSE]
<1>1. s.phase \in Phase
    BY DEF Typed, Supervisor
<1>2. CASE s.phase \in Running
    <2>1. "spawning" \notin Legal(s.phase) /\ Enter(s.phase, "restarting") = "restarting"
        BY <1>1, <1>2, Moves
    <2>2. "restarting" \in Phase /\ "restarting" \notin Running
        BY PhaseHas
    <2>3. Enter("restarting", "spawning") = "spawning"
        BY <2>2, Moves DEF Enter
    <2> QED BY ZenonT(60), <2>1, <2>3, PhaseHas DEF Launching, Typed, Supervisor
<1>3. CASE s.phase \notin Running
    <2>1. "spawning" \in Legal(s.phase)
        BY <1>1, <1>3, Moves
    <2> QED BY <2>1, PhaseHas DEF Launching, Enter, Typed, Supervisor
<1> QED BY <1>2, <1>3

Workers == [Worker -> [life : {"free", "alive", "down"}, told : BOOLEAN, ready : BOOLEAN]]

LEMMA ToldTyped ==
    ASSUME NEW w \in Workers, NEW c
    PROVE  Told(w, c) \in Workers
BY DEF Told, Workers

LEMMA SpawnTyped ==
    ASSUME NEW s, Typed(s), NEW was \in Workers, SpawnChild(s, was)
    PROVE  Typed(sup') /\ worker' \in Workers
<1>1. ASSUME NEW w \in Worker,
             sup' = [Launching(s) EXCEPT !.child = w, !.heard = w, !.spawned = "recently"],
             worker' = [was EXCEPT ![w] = [life |-> "alive", told |-> FALSE, ready |-> FALSE]]
      PROVE  Typed(sup') /\ worker' \in Workers
    <2>1. Typed(Launching(s))
        BY LaunchingIs
    <2>2. Typed(sup')
        BY <1>1, <2>1 DEF Typed, Supervisor
    <2> QED BY <1>1, <2>2 DEF Workers
<1>2. ASSUME sup' = Died([Launching(s) EXCEPT !.heard = None], "spawn_error"), worker' = was
      PROVE  Typed(sup') /\ worker' \in Workers
    <2>1. Typed([Launching(s) EXCEPT !.heard = None])
        <3>1. Typed(Launching(s))
            BY LaunchingIs
        <3> QED BY <3>1 DEF Typed, Supervisor
    <2> QED BY <1>2, <2>1, DiedTyped
<1> QED BY <1>1, <1>2 DEF SpawnChild

-----------------------------------------------------------------------------
(* The invariant: TypeOK, and a timer that is referred to is armed. *)

ATyped == Typed(sup) /\ worker \in Workers /\ autos \in Nat /\ stopped \in BOOLEAN

(* A launch by hand: the histories start again.                             *)
LEMMA RestartTyped ==
    ASSUME ATyped, NEW s, Typed(s), NEW floor \in 0..2, ManualRestart(s, floor)
    PROVE  ATyped'
<1>1. CASE s.child # None /\ s.phase \in Startup
    BY <1>1 DEF ManualRestart, ATyped
<1>2. CASE ~(s.child # None /\ s.phase \in Startup)
    <2> DEFINE c == Superseded(Cancelled([s EXCEPT !.floor = floor]))
    <2>1. Typed(c)
        BY Floored, CancelledIs, SupersededTyped
    <2>2. Told(worker, s.child) \in Workers
        BY ToldTyped DEF ATyped
    <2>3. SpawnChild(c, Told(worker, s.child)) /\ autos' = 0 /\ stopped' = FALSE
        BY <1>2 DEF ManualRestart
    <2> HIDE DEF c
    <2> QED BY <2>1, <2>2, <2>3, SpawnTyped DEF ATyped
<1> QED BY <1>1, <1>2

LEMMA PersonTyped ==
    ASSUME ATyped, Person
    PROVE  ATyped'
<1>1. Typed(sup) /\ sup.floor \in 0..2 /\ sup.resume \in BOOLEAN
    BY DEF ATyped, Typed, Supervisor
<1>2. ASSUME NEW resume \in BOOLEAN PROVE Typed([sup EXCEPT !.resume = resume])
    BY <1>1 DEF Typed, Supervisor
<1>3. CASE OpenProject
    <2> DEFINE o == [sup EXCEPT !.project = TRUE, !.streak = 0, !.hangs = 0, !.floor = 2,
                                !.resume = FALSE]
               c == Superseded(Cancelled(o))
    <2>1. Typed(o)
        <3>1. 0 \in Nat /\ 2 \in 0..2
            OBVIOUS
        <3>2. Typed([sup EXCEPT !.streak = 0, !.hangs = 0])
            BY <1>1, <3>1, Counted
        <3>3. Typed([[sup EXCEPT !.streak = 0, !.hangs = 0] EXCEPT !.floor = 2])
            BY <3>1, <3>2, Floored
        <3>4. o = [[[sup EXCEPT !.streak = 0, !.hangs = 0] EXCEPT !.floor = 2]
                      EXCEPT !.project = TRUE, !.resume = FALSE]
            BY <1>1 DEF Typed, Supervisor
        <3> QED BY <3>3, <3>4 DEF Typed, Supervisor
    <2> HIDE DEF o
    <2>2. Typed(c)
        BY <2>1, CancelledIs, SupersededTyped
    <2>3. Told(worker, sup.child) \in Workers
        BY ToldTyped DEF ATyped
    <2>4. SpawnChild(c, Told(worker, sup.child)) /\ autos' = 0 /\ stopped' = FALSE
        BY <1>3 DEF OpenProject, o
    <2> HIDE DEF c
    <2> QED BY <2>2, <2>3, <2>4, SpawnTyped DEF ATyped
<1>4. CASE Retry
    BY <1>1, <1>4, RestartTyped DEF Retry
<1>5. CASE RestartSafe
    <2>1. PICK resume \in BOOLEAN :
              ManualRestart([sup EXCEPT !.resume = @ \/ resume], Least(sup.floor, 1))
        BY <1>5 DEF RestartSafe
    <2>2. (sup.resume \/ resume) \in BOOLEAN
        OBVIOUS
    <2>3. Typed([sup EXCEPT !.resume = sup.resume \/ resume])
        BY <1>2, <2>2
    <2>4. Least(sup.floor, 1) \in 0..2
        BY <1>1 DEF Least
    <2> QED BY <2>1, <2>3, <2>4, RestartTyped
<1>6. CASE StartMinimal
    BY <1>1, <1>6, RestartTyped DEF StartMinimal
<1>7. CASE Resume
    <2>1. CASE UNCHANGED vars
        BY <2>1 DEF ATyped, vars
    <2>2. CASE ManualRestart([sup EXCEPT !.resume = TRUE], [sup EXCEPT !.resume = TRUE].floor)
        <3>1. Typed([sup EXCEPT !.resume = TRUE])
            BY <1>2
        <3> QED BY <2>2, <3>1, FieldsOf, RestartTyped
    <2>3. CASE sup' = [sup EXCEPT !.resume = TRUE] /\ UNCHANGED <<worker, autos, stopped>>
        BY <1>2, <2>3 DEF ATyped
    <2> QED BY <1>7, <2>1, <2>2, <2>3 DEF Resume
<1>8. CASE Stop
    <2>1. Typed(Cancelled(sup)) /\ Told(worker, sup.child) \in Workers
        BY <1>1, CancelledIs, ToldTyped DEF ATyped
    <2> DEFINE s == Cancelled(sup)
    <2> HIDE DEF s
    <2>2. Typed([s EXCEPT !.stopping = TRUE])
        BY <2>1 DEF Typed, Supervisor, s
    <2>3. s.phase \in Phase
        BY <2>1 DEF Typed, Supervisor, s
    <2>4. Typed([s EXCEPT !.phase = Enter(@, "idle")])
        BY <2>1, PhaseTyped, PhaseHas DEF s
    <2>5. Typed([s EXCEPT !.stopping = TRUE, !.phase = Enter(@, "stopping")])
        <3>1. Enter(s.phase, "stopping") \in Phase
            BY <2>3, Moves, PhaseHas
        <3> QED BY <2>1, <3>1 DEF Typed, Supervisor, s
    <2>6. sup' = IF s.child = None THEN [s EXCEPT !.phase = Enter(@, "idle")]
                 ELSE [s EXCEPT !.stopping = TRUE, !.phase = Enter(@, "stopping")]
        BY <1>8 DEF Stop, s
    <2> QED BY <1>8, <2>1, <2>4, <2>5, <2>6 DEF Stop, ATyped
<1>9. CASE Dispose
    <2> DEFINE c == Superseded(Cancelled(sup))
    <2>1. Typed(c) /\ Told(worker, sup.child) \in Workers
        BY <1>1, CancelledIs, SupersededTyped, ToldTyped DEF ATyped
    <2> HIDE DEF c
    <2>2. Typed([c EXCEPT !.disposed = TRUE])
        BY <2>1 DEF Typed, Supervisor
    <2> QED BY <1>9, <2>1, <2>2 DEF Dispose, ATyped, c
<1> QED BY <1>3, <1>4, <1>5, <1>6, <1>7, <1>8, <1>9 DEF Person

LEMMA DiesTyped ==
    ASSUME ATyped, NEW w \in Worker, NEW kind, Dies(w, kind)
    PROVE  Typed(sup') /\ autos' \in Nat /\ stopped' \in BOOLEAN
BY DiedTyped DEF Dies, Automatic, ATyped

LEMMA EngineTyped ==
    ASSUME ATyped, NEW w \in Worker, Engine(w)
    PROVE  ATyped'
<1>1. ASSUME NEW phase \in Startup \ {"spawning"}, Boot(w, phase) PROVE ATyped'
    <2>1. Typed([sup EXCEPT !.phase = phase])
        BY <1>1, PhaseHas DEF ATyped, Typed, Supervisor
    <2> QED BY <1>1, <2>1 DEF Boot, Quietly, ATyped
<1>2. CASE Health(w)
    BY <1>2 DEF Health, Quietly, ATyped, Typed, Supervisor
<1>3. CASE Ready(w)
    <2>1. PICK phase \in Interactive :
              sup' = [sup EXCEPT !.phase = Enter(@, phase), !.resume = FALSE]
        BY <1>3 DEF Ready
    <2>2. Enter(sup.phase, phase) \in Phase
        BY Moves, PhaseHas DEF ATyped, Typed, Supervisor
    <2>3. Typed(sup')
        BY <2>1, <2>2 DEF ATyped, Typed, Supervisor
    <2>4. [worker EXCEPT ![w].ready = TRUE] \in Workers
        BY DEF ATyped, Workers
    <2> QED BY <1>3, <2>3, <2>4 DEF Ready, Quietly, ATyped
<1>4. CASE Misspeaks(w)
    <2>1. Typed([sup EXCEPT !.verdict = TRUE, !.hung = FALSE])
        BY DEF ATyped, Typed, Supervisor
    <2> QED BY <1>4, <2>1, ToldTyped DEF Misspeaks, Quietly, ATyped
<1>5. [worker EXCEPT ![w] = Free] \in Workers /\ [worker EXCEPT ![w].life = "down"] \in Workers
    BY DEF ATyped, Workers, Free
<1>6. ASSUME NEW kind, Exits(w, kind) PROVE ATyped'
    BY <1>5, <1>6, DiesTyped DEF Exits, ATyped
<1>7. CASE Throws(w)
    BY <1>5, <1>7, DiesTyped DEF Throws, ATyped
<1>8. CASE ExitsAfterThrow(w)
    BY <1>5, <1>8, DiesTyped DEF ExitsAfterThrow, ATyped
<1> QED BY <1>1, <1>2, <1>3, <1>4, <1>6, <1>7, <1>8 DEF Engine

LEMMA TimeTyped ==
    ASSUME ATyped, Time
    PROVE  ATyped'
<1>1. CASE RestartTimer
    <2> DEFINE s == [sup EXCEPT !.armed = sup.armed - 1, !.held = FALSE]
    <2>1. sup.armed - 1 \in Nat /\ Typed(sup)
        BY <1>1, FieldsOf DEF RestartTimer, ATyped
    <2>2. Typed(s)
        BY <2>1, Timed
    <2> HIDE DEF s
    <2>3. \/ sup' = s /\ UNCHANGED <<worker, autos>>
          \/ SpawnChild(s, worker) /\ Automatic(s)
        BY <1>1 DEF RestartTimer, s
    <2>4. stopped' = stopped
        BY <1>1 DEF RestartTimer
    <2> QED BY <2>2, <2>3, <2>4, SpawnTyped DEF ATyped, Automatic
<1>2. CASE StartupTimeout
    <2>1. Typed([sup EXCEPT !.verdict = TRUE])
        BY DEF ATyped, Typed, Supervisor
    <2> QED BY <1>2, <2>1, ToldTyped DEF StartupTimeout, Quietly, ATyped
<1>3. CASE Unresponsive
    <2>1. Typed([sup EXCEPT !.verdict = TRUE, !.hung = TRUE])
        BY DEF ATyped, Typed, Supervisor
    <2> QED BY <1>3, <2>1, ToldTyped DEF Unresponsive, Quietly, ATyped
<1>4. CASE Settles
    <2>1. Typed([sup EXCEPT !.spawned = "long ago"])
        BY DEF ATyped, Typed, Supervisor
    <2> QED BY <1>4, <2>1 DEF Settles, ATyped
<1>5. CASE Ages
    <2>1. PICK n \in 0..sup.streak, m \in 0..sup.hangs :
              sup' = [sup EXCEPT !.streak = n, !.hangs = m] /\ autos' = Least(autos, n)
        BY <1>5 DEF Ages
    <2>2. n \in Nat /\ m \in Nat
        BY FieldsOf DEF ATyped
    <2>3. Typed(sup')
        BY <2>1, <2>2, Counted DEF ATyped
    <2>4. autos' \in Nat
        BY <2>1, <2>2, LeastNat DEF ATyped
    <2> QED BY <1>5, <2>3, <2>4 DEF Ages, ATyped
<1> QED BY <1>1, <1>2, <1>3, <1>4, <1>5 DEF Time

LEMMA InitTyped == Init => ATyped
<1> SUFFICES ASSUME Init PROVE ATyped
    OBVIOUS
<1>1. 0 \in Nat /\ 2 \in 0..2 /\ "idle" \in Phase /\ None \in Worker \cup {None}
    BY PhaseHas
<1>2. sup \in Supervisor /\ ~sup.held
    BY <1>1 DEF Init, Supervisor
<1>3. worker \in Workers
    BY DEF Init, Workers, Free
<1> QED BY <1>1, <1>2, <1>3 DEF Init, ATyped, Typed

LEMMA StepTyped ==
    ASSUME ATyped, [Next]_vars
    PROVE  ATyped'
<1>1. CASE UNCHANGED vars
    BY <1>1 DEF vars, ATyped
<1> QED BY <1>1, PersonTyped, EngineTyped, TimeTyped DEF Next

(* Every field of the supervisor and of its workers keeps its type; a timer *)
(* that is cancelled was armed, so their number never falls below zero.     *)
THEOREM SupervisorTyped == Spec => []TypeOK
<1>1. ATyped => TypeOK
    BY DEF ATyped, Typed, Workers, TypeOK
<1> QED BY <1>1, InitTyped, StepTyped, PTL DEF Spec

-----------------------------------------------------------------------------
(* The engine and the supervisor agree.  A worker that threw is not heard   *)
(* again here: "throwsAndExits" is the double death of the README.          *)

Sole(s, w) ==
    /\ s.armed = IF s.held THEN 1 ELSE 0
    /\ s.held => s.child = None
    /\ s.child # None => s.heard = s.child /\ w[s.child].life = "alive"
    /\ \A v \in Worker : s.heard = v /\ w[v].life = "alive" => s.child = v
    /\ \A v \in Worker : w[v].life = "alive" /\ ~w[v].told => v = s.child

Halted(s, w) ==
    /\ ~s.held
    /\ s.child # None => s.stopping
    /\ \A v \in Worker : w[v].life = "alive" => w[v].told

(* The fields Sole speaks of.                                               *)
SameEngine(s, r) == s.armed = r.armed /\ s.held = r.held /\ s.child = r.child /\ s.heard = r.heard

LEMMA SoleKept ==
    ASSUME NEW s, NEW r, NEW w, Sole(s, w), SameEngine(r, s)
    PROVE  Sole(r, w)
BY DEF Sole, SameEngine

LEMMA ToldLives ==
    ASSUME NEW w \in Workers, NEW c, NEW v \in Worker
    PROVE  /\ Told(w, c)[v].life = w[v].life
           /\ w[v].told => Told(w, c)[v].told
           /\ v = c => Told(w, c)[v].told
<1>1. CASE c = None
    BY <1>1, SupervisorAssumption DEF Told
<1>2. CASE c # None
    <2>1. Told(w, c) = [w EXCEPT ![c].told = TRUE]
        BY <1>2 DEF Told
    <2> QED BY <2>1 DEF Workers
<1> QED BY <1>1, <1>2

LEMMA ToldHalts ==
    ASSUME NEW s, NEW w \in Workers, Sole(s, w) \/ Halted(s, w), NEW v \in Worker,
           Told(w, s.child)[v].life = "alive"
    PROVE  Told(w, s.child)[v].told
<1>1. w[v].life = "alive"
    BY ToldLives
<1>2. w[v].told \/ v = s.child
    BY <1>1 DEF Sole, Halted
<1> QED BY <1>2, ToldLives

(* More workers told to end, and none that comes or goes.                   *)
LEMMA TellKeeps ==
    ASSUME NEW s, NEW w, NEW u, s.child # None => s.child \in Worker,
           \A v \in Worker : u[v].life = w[v].life /\ (w[v].told => u[v].told)
    PROVE  /\ Sole(s, w) => Sole(s, u)
           /\ Halted(s, w) => Halted(s, u)
<1>1. Sole(s, w) => Sole(s, u)
    BY DEF Sole
<1>2. Halted(s, w) => Halted(s, u)
    BY DEF Halted
<1> QED BY <1>1, <1>2

LEMMA ToldKeeps ==
    ASSUME NEW s, NEW w \in Workers, NEW c, s.child # None => s.child \in Worker
    PROVE  /\ Sole(s, w) => Sole(s, Told(w, c))
           /\ Halted(s, w) => Halted(s, Told(w, c))
<1>1. \A v \in Worker : Told(w, c)[v].life = w[v].life /\ (w[v].told => Told(w, c)[v].told)
    BY ToldLives
<1> QED BY <1>1, TellKeeps

(* A timer is cancelled wherever one is referred to.                        *)
LEMMA CancelledSole ==
    ASSUME NEW s, Typed(s), NEW w, Sole(s, w)
    PROVE  /\ Sole(Cancelled(s), w) /\ ~Cancelled(s).held /\ Cancelled(s).child = s.child
           /\ Cancelled(s).heard = s.heard /\ Cancelled(s).armed = 0
<1>1. CASE s.held
    <2>1. s.armed = 1
        BY <1>1 DEF Sole
    <2>2. Cancelled(s) = [s EXCEPT !.armed = 0, !.held = FALSE]
        BY <1>1, <2>1 DEF Cancelled
    <2>3. /\ Cancelled(s).armed = 0 /\ Cancelled(s).held = FALSE
          /\ Cancelled(s).child = s.child /\ Cancelled(s).heard = s.heard
        BY <2>2 DEF Typed, Supervisor
    <2> QED BY <1>1, <2>3 DEF Sole
<1>2. CASE ~s.held
    BY <1>2 DEF Cancelled, Sole
<1> QED BY <1>1, <1>2

(* With nothing to hear and nothing armed: where every launch starts.       *)
Clear(s, w) ==
    /\ s.armed = 0 /\ ~s.held /\ s.child = None
    /\ \A v \in Worker : s.heard = v => w[v].life # "alive"
    /\ \A v \in Worker : w[v].life = "alive" => w[v].told

LEMMA SupersededClear ==
    ASSUME NEW s, Typed(s), NEW w \in Workers, Sole(s, w)
    PROVE  Clear(Superseded(Cancelled(s)), Told(w, s.child))
<1>1. Typed(Cancelled(s)) /\ ~Cancelled(s).held /\ Cancelled(s).armed = 0
    BY CancelledSole, CancelledIs
<1>2. /\ Superseded(Cancelled(s)).held = Cancelled(s).held
      /\ Superseded(Cancelled(s)).armed = Cancelled(s).armed
      /\ Superseded(Cancelled(s)).child = None /\ Superseded(Cancelled(s)).heard = None
    BY <1>1 DEF Superseded, Typed, Supervisor
<1>3. \A v \in Worker : Told(w, s.child)[v].life = "alive" => Told(w, s.child)[v].told
    BY ToldHalts
<1> QED BY <1>1, <1>2, <1>3, SupervisorAssumption DEF Clear

(* What a death does to the fields Sole speaks of.                          *)
LEMMA DiedIs ==
    ASSUME NEW s, Typed(s), NEW kind
    PROVE  /\ Died(s, kind).child = None /\ Died(s, kind).heard = s.heard
           /\ \/ Died(s, kind).armed = s.armed /\ Died(s, kind).held = s.held
              \/ Died(s, kind).armed = s.armed + 1 /\ Died(s, kind).held = TRUE
           /\ kind = "clean_shutdown" => Died(s, kind).armed = s.armed /\ Died(s, kind).held = s.held
<1> DEFINE r == Recorded(s, kind)
           f == IF kind = "unresponsive" THEN [r EXCEPT !.floor = Shed(r)] ELSE r
<1>1. /\ Typed(r) /\ r.child = None /\ r.heard = s.heard
      /\ r.armed = s.armed /\ r.held = s.held
    <2>1. Typed(r)
        BY RecordedTyped
    <2>2. PICK x, y : r = [s EXCEPT !.child = None, !.streak = x, !.hangs = y]
        BY DEF Recorded
    <2> HIDE DEF r
    <2> QED BY <2>1, <2>2 DEF Typed, Supervisor
<1>2. f.child = None /\ f.heard = s.heard /\ f.armed = s.armed /\ f.held = s.held
    <2> HIDE DEF r
    <2> QED BY <1>1 DEF Typed, Supervisor
<1>3. DOMAIN f = DOMAIN r
    <2> HIDE DEF r
    <2> QED OBVIOUS
<1>4. Died(s, kind) = IF kind = "clean_shutdown" THEN [r EXCEPT !.phase = Enter(@, "exited")]
                      ELSE IF r.streak > MaxAttempts THEN [f EXCEPT !.phase = Enter(@, "failed")]
                      ELSE [Armed(f) EXCEPT !.phase = Enter(@, "restarting")]
    BY DEF Died
<1> HIDE DEF r, f
<1>5. CASE kind = "clean_shutdown"
    <2>1. Died(s, kind) = [r EXCEPT !.phase = Enter(@, "exited")]
        BY <1>4, <1>5
    <2> QED BY <1>1, <2>1 DEF Typed, Supervisor
<1>6. CASE kind # "clean_shutdown" /\ r.streak > MaxAttempts
    <2>1. Died(s, kind) = [f EXCEPT !.phase = Enter(@, "failed")]
        BY <1>4, <1>6
    <2> QED BY <1>1, <1>2, <1>3, <1>6, <2>1 DEF Typed, Supervisor
<1>7. CASE kind # "clean_shutdown" /\ ~(r.streak > MaxAttempts)
    <2>1. Died(s, kind) = [[f EXCEPT !.armed = f.armed + 1, !.held = TRUE]
                              EXCEPT !.phase = Enter(@, "restarting")]
        BY <1>4, <1>7 DEF Armed
    <2> QED BY ZenonT(60), <1>1, <1>2, <1>3, <1>7, <2>1 DEF Typed, Supervisor
<1> QED BY <1>5, <1>6, <1>7

LEMMA DiedSole ==
    ASSUME NEW s, Typed(s), NEW w, NEW kind, s.armed = 0, ~s.held,
           \A v \in Worker : s.heard = v => w[v].life # "alive",
           \A v \in Worker : w[v].life = "alive" => w[v].told
    PROVE  /\ Sole(Died(s, kind), w)
           /\ kind = "clean_shutdown" => Halted(Died(s, kind), w)
<1> DEFINE d == Died(s, kind)
<1>1. /\ d.child = None /\ d.heard = s.heard
      /\ \/ d.armed = 0 /\ ~d.held
         \/ d.armed = 1 /\ d.held
      /\ kind = "clean_shutdown" => ~d.held
    <2>1. /\ d.child = None /\ d.heard = s.heard
          /\ \/ d.armed = s.armed /\ d.held = s.held
             \/ d.armed = s.armed + 1 /\ d.held = TRUE
          /\ kind = "clean_shutdown" => d.armed = s.armed /\ d.held = s.held
        BY DiedIs
    <2> HIDE DEF d
    <2> QED BY <2>1
<1> HIDE DEF d
<1>2. Sole(d, w)
    BY <1>1 DEF Sole
<1>3. kind = "clean_shutdown" => Halted(d, w)
    BY <1>1 DEF Halted
<1> QED BY <1>2, <1>3 DEF d

(* A launch, from where nothing else may be heard.                          *)
LEMMA SpawnSole ==
    ASSUME NEW s, Typed(s), NEW was \in Workers, Clear(s, was), SpawnChild(s, was)
    PROVE  Sole(sup', worker')
<1>1. /\ Typed(Launching(s)) /\ Launching(s).armed = 0 /\ ~Launching(s).held
      /\ Launching(s).child = None
    <2>1. Launching(s) = [s EXCEPT !.phase = "spawning", !.stopping = FALSE,
                                   !.verdict = FALSE, !.hung = FALSE, !.beat = FALSE]
        BY LaunchingIs
    <2>2. s.armed = 0 /\ ~s.held /\ s.child = None
        BY DEF Clear
    <2> QED BY <2>1, <2>2, LaunchingIs DEF Typed, Supervisor
<1>2. \A v \in Worker : was[v].life = "alive" => was[v].told
    BY DEF Clear
<1> DEFINE l == Launching(s)
<1> HIDE DEF l
<1>3. ASSUME NEW w \in Worker,
             sup' = [l EXCEPT !.child = w, !.heard = w, !.spawned = "recently"],
             worker' = [was EXCEPT ![w] = [life |-> "alive", told |-> FALSE, ready |-> FALSE]]
      PROVE  Sole(sup', worker')
    <2>1. sup'.armed = 0 /\ ~sup'.held /\ sup'.child = w /\ sup'.heard = w
        BY <1>1, <1>3 DEF Typed, Supervisor, l
    <2>2. worker'[w].life = "alive"
        BY <1>3 DEF Workers
    <2>3. ASSUME NEW v \in Worker, worker'[v].life = "alive", ~worker'[v].told
          PROVE  v = w
        <3> SUFFICES ASSUME v # w PROVE FALSE
            OBVIOUS
        <3>1. worker'[v] = was[v]
            BY <1>3 DEF Workers
        <3> QED BY <1>2, <2>3, <3>1
    <2>5. sup'.armed = IF sup'.held THEN 1 ELSE 0
        BY <2>1
    <2>6. \A v \in Worker : sup'.heard = v => sup'.child = v
        BY <2>1
    <2>7. sup'.child # None => sup'.heard = sup'.child /\ worker'[sup'.child].life = "alive"
        BY <2>1, <2>2
    <2> QED BY <2>1, <2>3, <2>5, <2>6, <2>7 DEF Sole
<1>4. ASSUME sup' = Died([l EXCEPT !.heard = None], "spawn_error"), worker' = was
      PROVE  Sole(sup', worker')
    <2> DEFINE d == [l EXCEPT !.heard = None]
    <2>1. Typed(d) /\ d.armed = 0 /\ ~d.held /\ d.heard = None
        BY ZenonT(60), <1>1 DEF Typed, Supervisor, l
    <2> HIDE DEF d
    <2>2. sup' = Died(d, "spawn_error")
        BY <1>4 DEF d
    <2>3. \A v \in Worker : d.heard = v => was[v].life # "alive"
        BY <2>1, SupervisorAssumption
    <2>4. Sole(Died(d, "spawn_error"), was)
        BY <1>2, <2>1, <2>3, DiedSole
    <2> QED BY <1>4, <2>2, <2>4
<1> QED BY <1>3, <1>4 DEF SpawnChild, l

-----------------------------------------------------------------------------
(* The invariant, kept by each action *)

Agreed == ATyped /\ Sole(sup, worker) /\ (stopped => Halted(sup, worker))

LEMMA RestartSole ==
    ASSUME Agreed, NEW s, Typed(s), SameEngine(s, sup), s.stopping = sup.stopping,
           NEW floor \in 0..2, ManualRestart(s, floor)
    PROVE  Sole(sup', worker') /\ (stopped' => Halted(sup', worker'))
<1>1. Sole(s, worker) /\ worker \in Workers
    BY SoleKept DEF Agreed, ATyped
<1>2. CASE s.child # None /\ s.phase \in Startup
    BY <1>1, <1>2 DEF ManualRestart, Agreed, Halted, SameEngine
<1>3. CASE ~(s.child # None /\ s.phase \in Startup)
    <2> DEFINE f == [s EXCEPT !.floor = floor]
    <2>1. Typed(f) /\ SameEngine(f, s)
        BY Floored DEF Typed, Supervisor, SameEngine
    <2>2. f.child = s.child
        BY <2>1 DEF SameEngine
    <2> HIDE DEF f
    <2>3. Sole(f, worker)
        BY <1>1, <2>1, SoleKept
    <2>4. Clear(Superseded(Cancelled(f)), Told(worker, s.child))
        BY <1>1, <2>1, <2>2, <2>3, SupersededClear
    <2>5. SpawnChild(Superseded(Cancelled(f)), Told(worker, s.child)) /\ ~stopped'
        BY <1>3 DEF ManualRestart, f
    <2>6. Typed(Superseded(Cancelled(f))) /\ Told(worker, s.child) \in Workers
        BY <1>1, <2>1, CancelledIs, SupersededTyped, ToldTyped
    <2> QED BY <2>4, <2>5, <2>6, SpawnSole
<1> QED BY <1>2, <1>3

LEMMA PersonSole ==
    ASSUME Agreed, Person
    PROVE  Sole(sup', worker') /\ (stopped' => Halted(sup', worker'))
<1>1. /\ Typed(sup) /\ worker \in Workers /\ Sole(sup, worker)
      /\ sup.floor \in 0..2
    BY FieldsOf DEF Agreed, ATyped
<1>2. ASSUME NEW x \in BOOLEAN, NEW s, s = [sup EXCEPT !.resume = x]
      PROVE  Typed(s) /\ SameEngine(s, sup) /\ s.stopping = sup.stopping
    BY <1>1, <1>2 DEF Typed, Supervisor, SameEngine
<1>3. CASE OpenProject
    <2> DEFINE o == [sup EXCEPT !.project = TRUE, !.streak = 0, !.hangs = 0, !.floor = 2,
                                !.resume = FALSE]
    <2>1. Typed(o) /\ SameEngine(o, sup)
        <3>1. Typed([[sup EXCEPT !.streak = 0, !.hangs = 0] EXCEPT !.floor = 2])
            <4>1. 0 \in Nat /\ 2 \in 0..2
                OBVIOUS
            <4>2. Typed([sup EXCEPT !.streak = 0, !.hangs = 0])
                BY <1>1, <4>1, Counted
            <4> QED BY <4>1, <4>2, Floored
        <3>2. o = [[[sup EXCEPT !.streak = 0, !.hangs = 0] EXCEPT !.floor = 2]
                      EXCEPT !.project = TRUE, !.resume = FALSE]
            BY <1>1 DEF Typed, Supervisor
        <3>3. Typed(o)
            BY <3>1, <3>2 DEF Typed, Supervisor
        <3> QED BY <1>1, <3>3 DEF Typed, Supervisor, SameEngine
    <2>2. SpawnChild(Superseded(Cancelled(o)), Told(worker, sup.child)) /\ ~stopped'
        BY <1>3 DEF OpenProject
    <2> HIDE DEF o
    <2>3. Clear(Superseded(Cancelled(o)), Told(worker, o.child)) /\ o.child = sup.child
        BY <1>1, <2>1, SoleKept, SupersededClear DEF SameEngine
    <2>4. Typed(Superseded(Cancelled(o))) /\ Told(worker, sup.child) \in Workers
        BY <1>1, <2>1, CancelledIs, SupersededTyped, ToldTyped
    <2> QED BY <2>2, <2>3, <2>4, SpawnSole
<1>4. SameEngine(sup, sup)
    BY DEF SameEngine
<1>5. CASE Retry
    BY <1>1, <1>4, <1>5, RestartSole DEF Retry
<1>6. CASE RestartSafe
    <2>1. PICK resume \in BOOLEAN :
              ManualRestart([sup EXCEPT !.resume = sup.resume \/ resume], Least(sup.floor, 1))
        BY <1>6 DEF RestartSafe
    <2>2. Least(sup.floor, 1) \in 0..2
        BY <1>1 DEF Least
    <2>3. (sup.resume \/ resume) \in BOOLEAN
        OBVIOUS
    <2> QED BY <1>2, <2>1, <2>2, <2>3, RestartSole
<1>7. CASE StartMinimal
    BY <1>1, <1>4, <1>7, RestartSole DEF StartMinimal
<1>8. CASE Resume
    <2> DEFINE s == [sup EXCEPT !.resume = TRUE]
    <2>1. Typed(s) /\ SameEngine(s, sup) /\ s.stopping = sup.stopping
        BY <1>2
    <2>2. \/ UNCHANGED vars
          \/ ManualRestart(s, s.floor)
          \/ sup' = s /\ UNCHANGED <<worker, autos, stopped>>
        BY <1>8 DEF Resume
    <2> HIDE DEF s
    <2>3. CASE UNCHANGED vars
        BY <2>3 DEF vars, Agreed
    <2>4. CASE ManualRestart(s, s.floor)
        BY <2>1, <2>4, FieldsOf, RestartSole
    <2>5. CASE sup' = s /\ UNCHANGED <<worker, autos, stopped>>
        BY <1>1, <2>1, <2>5, SoleKept DEF Agreed, Halted, SameEngine
    <2> QED BY <2>2, <2>3, <2>4, <2>5
<1>9. CASE Stop
    <2> DEFINE s == Cancelled(sup)
    <2>1. /\ Typed(s) /\ Sole(s, worker) /\ ~s.held /\ s.child = sup.child
          /\ s.child # None => s.child \in Worker
        BY <1>1, CancelledSole, CancelledIs DEF Typed, Supervisor
    <2> HIDE DEF s
    <2>2. /\ SameEngine(sup', s)
          /\ s.child # None => sup'.stopping
        <3>1. sup' = IF s.child = None THEN [s EXCEPT !.phase = Enter(@, "idle")]
                     ELSE [s EXCEPT !.stopping = TRUE, !.phase = Enter(@, "stopping")]
            BY <1>9 DEF Stop, s
        <3> QED BY <2>1, <3>1 DEF Typed, Supervisor, SameEngine
    <2>3. worker' = Told(worker, s.child)
        BY <1>9, <2>1 DEF Stop
    <2>4. \A v \in Worker : worker'[v].life = "alive" => worker'[v].told
        BY <1>1, <2>1, <2>3, ToldHalts
    <2>5. Sole(s, worker')
        BY <1>1, <2>1, <2>3, ToldKeeps
    <2> QED BY <2>1, <2>2, <2>4, <2>5, SoleKept DEF Halted, SameEngine
<1>10. CASE Dispose
    <2> DEFINE c == Superseded(Cancelled(sup))
    <2>1. Typed(c) /\ Clear(c, Told(worker, sup.child))
        BY <1>1, SupersededClear, CancelledIs, SupersededTyped
    <2>2. sup' = [c EXCEPT !.disposed = TRUE] /\ worker' = Told(worker, sup.child)
        BY <1>10 DEF Dispose
    <2> HIDE DEF c
    <2>3. SameEngine(sup', c)
        BY <2>1, <2>2 DEF Typed, Supervisor, SameEngine
    <2>4. Sole(c, worker') /\ Halted(c, worker')
        BY <2>1, <2>2 DEF Clear, Sole, Halted
    <2>5. Sole(sup', worker')
        BY <2>3, <2>4, SoleKept
    <2>6. Halted(sup', worker')
        BY <2>1, <2>3, <2>4 DEF Halted, SameEngine, Clear
    <2> QED BY <2>5, <2>6
<1> QED BY <1>3, <1>5, <1>6, <1>7, <1>8, <1>9, <1>10 DEF Person

LEMMA KindIs ==
    ASSUME NEW s, NEW kind, s.stopping
    PROVE  Kind(s, kind) = "clean_shutdown"
BY DEF Kind

(* A worker that is not alive any more, heard or not.                       *)
LEMMA DiesSole ==
    ASSUME Agreed, NEW w \in Worker, NEW kind, Dies(w, kind), worker' \in Workers,
           \A v \in Worker \ {w} : worker'[v] = worker[v],
           worker'[w].life # "alive",
           worker[w].life # "alive" => sup.heard # w
    PROVE  Sole(sup', worker') /\ (stopped' => Halted(sup', worker'))
<1>1. /\ Typed(sup) /\ worker \in Workers /\ Sole(sup, worker)
      /\ stopped' = stopped
    BY DEF Agreed, ATyped, Dies
<1>2. CASE sup.heard = w
    <2>1. sup.child = w /\ w # None
        BY <1>1, <1>2, SupervisorAssumption DEF Sole
    <2>2. ~sup.held /\ sup.armed = 0
        BY <1>1, <2>1 DEF Sole
    <2>3. \A v \in Worker : sup.heard = v => worker'[v].life # "alive"
        BY <1>2
    <2>4. \A v \in Worker : worker'[v].life = "alive" => worker'[v].told
        BY <1>1, <2>1 DEF Sole
    <2>5. sup' = Died(sup, Kind(sup, kind))
        BY <1>2 DEF Dies
    <2>6. Sole(sup', worker')
        BY <1>1, <2>2, <2>3, <2>4, <2>5, DiedSole
    <2>7. ASSUME stopped PROVE Halted(sup', worker')
        <3>1. Kind(sup, kind) = "clean_shutdown"
            BY <2>1, <2>7, KindIs DEF Agreed, Halted
        <3> QED BY <1>1, <2>2, <2>3, <2>4, <2>5, <3>1, DiedSole
    <2> QED BY <1>1, <2>6, <2>7
<1>3. CASE sup.heard # w
    <2>1. sup' = sup
        BY <1>3 DEF Dies
    <2>2. sup.child # w
        BY <1>1, <1>3, SupervisorAssumption DEF Sole
    <2>3. sup.child # None => sup.child \in Worker
        BY <1>1 DEF Typed, Supervisor
    <2>4. Sole(sup, worker')
        BY <1>1, <2>2, <2>3 DEF Sole
    <2>5. stopped => Halted(sup, worker')
        BY DEF Agreed, Halted
    <2> QED BY <1>1, <2>1, <2>4, <2>5
<1> QED BY <1>2, <1>3

LEMMA EngineSole ==
    ASSUME Agreed, "throwsAndExits" \notin Failures, NEW w \in Worker, Engine(w)
    PROVE  Sole(sup', worker') /\ (stopped' => Halted(sup', worker'))
<1>1. /\ Typed(sup) /\ worker \in Workers /\ Sole(sup, worker)
      /\ stopped => Halted(sup, worker)
      /\ sup.child # None => sup.child \in Worker
    BY DEF Agreed, ATyped, Typed, Supervisor
<1>2. ASSUME SameEngine(sup', sup), sup'.stopping = sup.stopping, stopped' = stopped,
             \A v \in Worker : /\ worker'[v].life = worker[v].life
                               /\ worker[v].told => worker'[v].told
      PROVE  Sole(sup', worker') /\ (stopped' => Halted(sup', worker'))
    <2>1. \A v \in Worker : worker'[v].life = worker[v].life /\ (worker[v].told => worker'[v].told)
        BY <1>2
    <2>2. sup.child # None => sup.child \in Worker
        BY <1>1
    <2>3. /\ Sole(sup, worker) => Sole(sup, worker')
          /\ Halted(sup, worker) => Halted(sup, worker')
        BY <2>1, <2>2, TellKeeps
    <2> QED BY <1>1, <1>2, <2>3, SoleKept DEF Halted, SameEngine
<1>3. ASSUME NEW phase \in Startup \ {"spawning"}, Boot(w, phase)
      PROVE  Sole(sup', worker') /\ (stopped' => Halted(sup', worker'))
    <2>1. SameEngine(sup', sup) /\ sup'.stopping = sup.stopping
        BY <1>1, <1>3 DEF Boot, SameEngine, Typed, Supervisor
    <2> QED BY <1>2, <1>3, <2>1 DEF Boot, Quietly
<1>4. CASE Health(w)
    <2>1. SameEngine(sup', sup) /\ sup'.stopping = sup.stopping
        BY <1>1, <1>4 DEF Health, SameEngine, Typed, Supervisor
    <2> QED BY <1>2, <1>4, <2>1 DEF Health, Quietly
<1>5. CASE Ready(w)
    <2>1. SameEngine(sup', sup) /\ sup'.stopping = sup.stopping
        BY <1>1, <1>5 DEF Ready, SameEngine, Typed, Supervisor
    <2>2. \A v \in Worker : /\ worker'[v].life = worker[v].life
                            /\ worker[v].told => worker'[v].told
        BY <1>1, <1>5 DEF Ready, Workers
    <2> QED BY <1>2, <1>5, <2>1, <2>2 DEF Ready, Quietly
<1>6. CASE Misspeaks(w)
    <2>1. SameEngine(sup', sup) /\ sup'.stopping = sup.stopping
        BY <1>1, <1>6 DEF Misspeaks, SameEngine, Typed, Supervisor
    <2> QED BY <1>1, <1>2, <1>6, <2>1, ToldLives DEF Misspeaks, Quietly
<1>7. ASSUME NEW kind, Exits(w, kind)
      PROVE  Sole(sup', worker') /\ (stopped' => Halted(sup', worker'))
    <2>1. /\ worker' \in Workers /\ worker'[w].life # "alive"
          /\ \A v \in Worker \ {w} : worker'[v] = worker[v]
        BY <1>1, <1>7 DEF Exits, Free, Workers
    <2> QED BY <1>7, <2>1, DiesSole DEF Exits
<1>8. CASE Throws(w)
    <2>1. /\ worker' \in Workers /\ worker'[w].life # "alive"
          /\ \A v \in Worker \ {w} : worker'[v] = worker[v]
        BY <1>1, <1>8 DEF Throws, Workers
    <2> QED BY <1>8, <2>1, DiesSole DEF Throws
<1>9. CASE ExitsAfterThrow(w)
    <2>1. /\ worker' \in Workers /\ worker'[w].life # "alive"
          /\ \A v \in Worker \ {w} : worker'[v] = worker[v]
        BY <1>1, <1>9 DEF ExitsAfterThrow, Free, Workers
    <2> QED BY <1>9, <2>1, DiesSole DEF ExitsAfterThrow
<1> QED BY <1>3, <1>4, <1>5, <1>6, <1>7, <1>8, <1>9 DEF Engine

LEMMA TimeSole ==
    ASSUME Agreed, Time
    PROVE  Sole(sup', worker') /\ (stopped' => Halted(sup', worker'))
<1>1. /\ Typed(sup) /\ worker \in Workers /\ Sole(sup, worker)
      /\ stopped => Halted(sup, worker)
    BY DEF Agreed, ATyped
<1>2. CASE RestartTimer
    <2> DEFINE s == [sup EXCEPT !.armed = sup.armed - 1, !.held = FALSE]
    <2>1. sup.held /\ sup.armed = 1 /\ sup.child = None
        BY <1>1, <1>2, FieldsOf DEF RestartTimer, Sole
    <2>2. ~stopped /\ ~stopped'
        BY <1>1, <1>2, <2>1 DEF RestartTimer, Halted
    <2>3. Typed(s)
        <3>1. sup.armed - 1 \in Nat
            BY <2>1
        <3> QED BY <1>1, <3>1, Timed
    <2>4. s.armed = 0 /\ ~s.held /\ s.child = None /\ s.heard = sup.heard
        <3>1. sup.armed - 1 = 0
            BY <2>1
        <3>2. s = [sup EXCEPT !.armed = 0, !.held = FALSE]
            BY <3>1
        <3> HIDE DEF s
        <3> QED BY <1>1, <2>1, <3>2 DEF Typed, Supervisor
    <2>5. (sup' = s /\ worker' = worker) \/ SpawnChild(s, worker)
        BY <1>2 DEF RestartTimer
    <2> HIDE DEF s
    <2>6. Clear(s, worker)
        BY <1>1, <2>1, <2>4, SupervisorAssumption DEF Sole, Clear
    <2>7. Sole(s, worker)
        BY <2>6 DEF Clear, Sole
    <2> QED BY <1>1, <2>2, <2>3, <2>5, <2>6, <2>7, SpawnSole
<1>3. ASSUME SameEngine(sup', sup), sup'.stopping = sup.stopping, stopped' = stopped,
             worker' = worker \/ worker' = Told(worker, sup.child)
      PROVE  Sole(sup', worker') /\ (stopped' => Halted(sup', worker'))
    <2>1. sup.child # None => sup.child \in Worker
        BY <1>1 DEF Typed, Supervisor
    <2>2. Sole(sup, worker')
        BY <1>1, <1>3, <2>1, ToldKeeps
    <2>3. stopped => Halted(sup, worker')
        BY <1>1, <1>3, <2>1, ToldKeeps
    <2> QED BY <1>3, <2>2, <2>3, SoleKept DEF Halted, SameEngine
<1>4. CASE StartupTimeout
    <2>1. SameEngine(sup', sup) /\ sup'.stopping = sup.stopping
        BY <1>1, <1>4 DEF StartupTimeout, SameEngine, Typed, Supervisor
    <2> QED BY <1>3, <1>4, <2>1 DEF StartupTimeout, Quietly
<1>5. CASE Unresponsive
    <2>1. SameEngine(sup', sup) /\ sup'.stopping = sup.stopping
        BY <1>1, <1>5 DEF Unresponsive, SameEngine, Typed, Supervisor
    <2> QED BY <1>3, <1>5, <2>1 DEF Unresponsive, Quietly
<1>6. CASE Settles
    <2>1. SameEngine(sup', sup) /\ sup'.stopping = sup.stopping
        BY <1>1, <1>6 DEF Settles, SameEngine, Typed, Supervisor
    <2> QED BY <1>3, <1>6, <2>1 DEF Settles
<1>7. CASE Ages
    <2>1. SameEngine(sup', sup) /\ sup'.stopping = sup.stopping
        BY <1>1, <1>7 DEF Ages, SameEngine, Typed, Supervisor
    <2> QED BY <1>3, <1>7, <2>1 DEF Ages
<1> QED BY <1>2, <1>4, <1>5, <1>6, <1>7 DEF Time

LEMMA AgreedAlways ==
    ASSUME "throwsAndExits" \notin Failures
    PROVE  Spec => []Agreed
<1>1. Init => Agreed
    <2>1. Init => ATyped
        BY InitTyped
    <2>2. Init => Sole(sup, worker)
        BY SupervisorAssumption DEF Init, Sole, Free
    <2> QED BY <2>1, <2>2 DEF Init, Agreed
<1>2. ASSUME Agreed, [Next]_vars PROVE Agreed'
    <2>1. ATyped'
        BY <1>2, StepTyped DEF Agreed
    <2>2. CASE UNCHANGED vars
        BY <1>2, <2>2 DEF vars, Agreed, ATyped
    <2>3. Sole(sup', worker') /\ (stopped' => Halted(sup', worker'))
        BY <1>2, <2>2, PersonSole, EngineSole, TimeSole DEF Next, Agreed, vars
    <2> QED BY <2>1, <2>3 DEF Agreed
<1> QED BY <1>1, <1>2, PTL DEF Spec

(* No engine runs that the supervisor has lost, in any order of clicks,     *)
(* deaths, timers and refused launches, unless one worker dies twice.       *)
THEOREM OneEngineAlways ==
    ASSUME "throwsAndExits" \notin Failures
    PROVE  Spec => []OneEngine
<1>1. Agreed => OneEngine
    BY DEF Agreed, Sole, OneEngine
<1> QED BY <1>1, AgreedAlways, PTL

(* Once stopped, no engine is started by anything but the person.           *)
THEOREM StopHolds ==
    ASSUME "throwsAndExits" \notin Failures
    PROVE  Spec => []StopSticks
<1>1. Agreed => StopSticks
    BY DEF Agreed, Halted, StopSticks
<1> QED BY <1>1, AgreedAlways, PTL

-----------------------------------------------------------------------------
(* The phase and its engine, the budget of restarts, a resume that waits    *)
(* and the capabilities that were shed: what the operators do to the fields *)
(* these theorems speak of.                                                 *)

(* The fields that neither a launch nor a death touches.                    *)
Untouched(s, r) == r.disposed = s.disposed /\ r.resume = s.resume

LEMMA RecordedIs ==
    ASSUME NEW s, Typed(s), NEW kind
    PROVE  LET r == Recorded(s, kind)
           IN  /\ Typed(r) /\ r.child = None /\ r.phase = s.phase /\ r.held = s.held
               /\ r.armed = s.armed /\ r.floor = s.floor /\ r.spawned = s.spawned
               /\ Untouched(s, r)
               /\ kind # "clean_shutdown" =>
                      r.streak = IF s.spawned = "long ago" THEN 1
                                 ELSE Least(MaxAttempts + 1, s.streak + 1)
<1> DEFINE r == Recorded(s, kind)
           x == IF kind = "clean_shutdown" THEN 0 ELSE IF s.spawned = "long ago" THEN 1
                ELSE Least(MaxAttempts + 1, s.streak + 1)
<1>1. Typed(r)
    BY RecordedTyped
<1>2. PICK y : r = [s EXCEPT !.child = None, !.streak = x, !.hangs = y]
    BY DEF Recorded
<1>3. kind # "clean_shutdown" =>
          x = IF s.spawned = "long ago" THEN 1 ELSE Least(MaxAttempts + 1, s.streak + 1)
    OBVIOUS
<1> HIDE DEF r, x
<1> QED BY <1>1, <1>2, <1>3 DEF Typed, Supervisor, Untouched, r

LEMMA ShedLess ==
    ASSUME NEW s, Typed(s)
    PROVE  Shed(s) \in 0..2 /\ Shed(s) <= s.floor
<1>1. s.floor \in 0..2
    BY FieldsOf
<1> QED BY <1>1 DEF Shed, Least

(* What a death does: it ends, fails or arms one more restart in budget.    *)
Gone(s, d) == d.child = None /\ d.floor <= s.floor /\ d.spawned = s.spawned /\ Untouched(s, d)
Ended(s, kind, d) ==
    /\ kind = "clean_shutdown" /\ d.phase = Enter(s.phase, "exited")
    /\ d.held = s.held /\ d.armed = s.armed
Failed(s, kind, d) ==
    /\ kind # "clean_shutdown" /\ d.phase = Enter(s.phase, "failed")
    /\ d.held = s.held /\ d.armed = s.armed
Retries(s, kind, d) ==
    /\ kind # "clean_shutdown" /\ d.phase = Enter(s.phase, "restarting")
    /\ d.held = TRUE /\ d.armed = s.armed + 1 /\ d.streak <= MaxAttempts
    /\ d.streak = IF s.spawned = "long ago" THEN 1 ELSE s.streak + 1

LEMMA DiedDoes ==
    ASSUME NEW s, Typed(s), NEW kind, NEW d, d = Died(s, kind)
    PROVE  Gone(s, d) /\ (Ended(s, kind, d) \/ Failed(s, kind, d) \/ Retries(s, kind, d))
<1> DEFINE r == Recorded(s, kind)
           f == IF kind = "unresponsive" THEN [r EXCEPT !.floor = Shed(r)] ELSE r
<1>1. /\ Typed(r) /\ r.child = None /\ r.phase = s.phase /\ r.held = s.held
      /\ r.armed = s.armed /\ r.floor = s.floor /\ r.spawned = s.spawned /\ Untouched(s, r)
      /\ kind # "clean_shutdown" =>
             r.streak = IF s.spawned = "long ago" THEN 1 ELSE Least(MaxAttempts + 1, s.streak + 1)
    BY RecordedIs
<1>2. /\ Typed(f) /\ f.child = None /\ f.phase = s.phase /\ f.held = s.held
      /\ f.armed = s.armed /\ f.floor <= s.floor /\ f.spawned = s.spawned /\ Untouched(s, f)
      /\ f.streak = r.streak
    <2> HIDE DEF r
    <2>1. Shed(r) \in 0..2 /\ Shed(r) <= r.floor /\ r.floor \in 0..2
        BY <1>1, ShedLess, FieldsOf
    <2>2. CASE kind = "unresponsive"
        <3>1. f = [r EXCEPT !.floor = Shed(r)] /\ Typed(f)
            BY <1>1, <2>1, <2>2, Floored
        <3> HIDE DEF f
        <3> QED BY <1>1, <2>1, <3>1 DEF Typed, Supervisor, Untouched
    <2>3. CASE kind # "unresponsive"
        <3>1. f = r /\ r.floor <= r.floor
            BY <2>1, <2>3
        <3> QED BY <1>1, <3>1
    <2> QED BY <2>2, <2>3
<1>3. d = IF kind = "clean_shutdown" THEN [r EXCEPT !.phase = Enter(r.phase, "exited")]
          ELSE IF r.streak > MaxAttempts THEN [f EXCEPT !.phase = Enter(f.phase, "failed")]
          ELSE [Armed(f) EXCEPT !.phase = Enter(Armed(f).phase, "restarting")]
    BY DEF Died
<1>4. s.floor \in 0..2 /\ s.streak \in Nat /\ r.streak \in Nat /\ MaxAttempts \in Nat
    BY <1>1, FieldsOf, SupervisorAssumption
<1> HIDE DEF r, f
<1>5. CASE kind = "clean_shutdown"
    <2>1. d = [r EXCEPT !.phase = Enter(r.phase, "exited")]
        BY <1>3, <1>5
    <2>2. /\ d.child = None /\ d.floor = s.floor /\ d.spawned = s.spawned /\ Untouched(s, d)
          /\ d.phase = Enter(s.phase, "exited") /\ d.held = s.held /\ d.armed = s.armed
        BY <1>1, <2>1 DEF Typed, Supervisor, Untouched
    <2>3. d.floor <= s.floor
        BY <1>4, <2>2
    <2> QED BY <1>5, <2>2, <2>3 DEF Gone, Ended
<1>6. CASE kind # "clean_shutdown" /\ r.streak > MaxAttempts
    <2>1. d = [f EXCEPT !.phase = Enter(f.phase, "failed")]
        BY <1>3, <1>6
    <2>2. /\ d.child = None /\ d.floor = f.floor /\ d.spawned = s.spawned /\ Untouched(s, d)
          /\ d.phase = Enter(s.phase, "failed") /\ d.held = s.held /\ d.armed = s.armed
        BY <1>2, <2>1 DEF Typed, Supervisor, Untouched
    <2> QED BY <1>2, <1>6, <2>2 DEF Gone, Failed
<1>7. CASE kind # "clean_shutdown" /\ ~(r.streak > MaxAttempts)
    <2> DEFINE a == Armed(f)
    <2>1. /\ Typed(a) /\ a.child = None /\ a.phase = s.phase /\ a.held = TRUE
          /\ a.armed = s.armed + 1 /\ a.floor = f.floor /\ a.spawned = s.spawned /\ Untouched(s, a)
          /\ a.streak = f.streak
        <3>1. Typed(a)
            BY <1>2, ArmedTyped
        <3>2. a = [f EXCEPT !.armed = f.armed + 1, !.held = TRUE]
            BY DEF Armed
        <3> HIDE DEF a
        <3> QED BY <1>2, <3>1, <3>2 DEF Typed, Supervisor, Untouched
    <2>2. d = [a EXCEPT !.phase = Enter(a.phase, "restarting")]
        BY <1>3, <1>7
    <2> HIDE DEF a
    <2>3. /\ d.child = None /\ d.floor = f.floor /\ d.spawned = s.spawned /\ Untouched(s, d)
          /\ d.phase = Enter(s.phase, "restarting") /\ d.held = TRUE /\ d.armed = s.armed + 1
          /\ d.streak = f.streak
        <3>1. /\ d.child = a.child /\ d.floor = a.floor /\ d.spawned = a.spawned
              /\ d.phase = Enter(a.phase, "restarting") /\ d.held = a.held
              /\ d.armed = a.armed /\ d.streak = a.streak
              /\ d.disposed = a.disposed /\ d.resume = a.resume
            BY <2>1, <2>2 DEF Typed, Supervisor
        <3> QED BY <2>1, <3>1 DEF Untouched
    <2>4. d.streak <= MaxAttempts
        BY <1>2, <1>4, <1>7, <2>3
    <2>5. d.streak = IF s.spawned = "long ago" THEN 1 ELSE s.streak + 1
        <3>1. r.streak = IF s.spawned = "long ago" THEN 1
                         ELSE Least(MaxAttempts + 1, s.streak + 1)
            BY <1>1, <1>7
        <3>2. d.streak = r.streak
            BY <1>2, <2>3
        <3>3. Least(MaxAttempts + 1, s.streak + 1) \in {MaxAttempts + 1, s.streak + 1}
            BY DEF Least
        <3>4. CASE s.spawned = "long ago"
            BY <3>1, <3>2, <3>4
        <3>5. CASE s.spawned # "long ago"
            <4>1. d.streak # MaxAttempts + 1
                BY <1>4, <2>4
            <4> QED BY <3>1, <3>2, <3>3, <3>5, <4>1
        <3> QED BY <3>4, <3>5
    <2> QED BY <1>2, <1>7, <2>3, <2>4, <2>5 DEF Gone, Retries
<1> QED BY <1>5, <1>6, <1>7

(* A launch: an engine that is spawning, or one more death.                 *)
LEMMA LaunchedIs ==
    ASSUME NEW s, Typed(s), NEW was, SpawnChild(s, was)
    PROVE  /\ Untouched(s, sup') /\ sup'.floor <= s.floor
           /\ \/ /\ sup'.child \in Worker /\ sup'.phase = "spawning" /\ sup'.held = s.held
                 /\ sup'.armed = s.armed /\ sup'.streak = s.streak /\ sup'.spawned = "recently"
              \/ /\ sup'.child = None /\ MayRefuse(s) /\ sup'.phase = "failed"
                 /\ sup'.held = s.held /\ sup'.armed = s.armed
              \/ /\ sup'.child = None /\ MayRefuse(s) /\ sup'.phase = "restarting"
                 /\ sup'.held = TRUE /\ sup'.armed = s.armed + 1 /\ sup'.streak <= MaxAttempts
                 /\ sup'.streak = IF s.spawned = "long ago" THEN 1 ELSE s.streak + 1
<1> DEFINE l == Launching(s)
<1>1. /\ Typed(l) /\ l.phase = "spawning" /\ l.held = s.held /\ l.armed = s.armed
      /\ l.streak = s.streak /\ l.floor = s.floor /\ l.spawned = s.spawned /\ Untouched(s, l)
    <2>1. /\ Typed(l)
          /\ l = [s EXCEPT !.phase = "spawning", !.stopping = FALSE, !.verdict = FALSE,
                           !.hung = FALSE, !.beat = FALSE]
        BY LaunchingIs
    <2> HIDE DEF l
    <2> QED BY <2>1 DEF Typed, Supervisor, Untouched
<1>2. \/ \E w \in Worker : sup' = [l EXCEPT !.child = w, !.heard = w, !.spawned = "recently"]
      \/ MayRefuse(s) /\ sup' = Died([l EXCEPT !.heard = None], "spawn_error")
    BY DEF SpawnChild
<1>3. s.floor \in 0..2 /\ s.floor <= s.floor
    BY FieldsOf
<1> HIDE DEF l
<1>4. ASSUME NEW w \in Worker, sup' = [l EXCEPT !.child = w, !.heard = w, !.spawned = "recently"]
      PROVE  /\ Untouched(s, sup') /\ sup'.floor = s.floor
             /\ sup'.child \in Worker /\ sup'.phase = "spawning" /\ sup'.held = s.held
             /\ sup'.armed = s.armed /\ sup'.streak = s.streak /\ sup'.spawned = "recently"
    BY <1>1, <1>4 DEF Typed, Supervisor, Untouched
<1>5. CASE MayRefuse(s) /\ sup' = Died([l EXCEPT !.heard = None], "spawn_error")
    <2> DEFINE m == [l EXCEPT !.heard = None]
               d == Died(m, "spawn_error")
    <2>1. /\ Typed(m) /\ m.phase = "spawning" /\ m.held = s.held /\ m.armed = s.armed
          /\ m.streak = s.streak /\ m.floor = s.floor /\ m.spawned = s.spawned /\ Untouched(s, m)
        BY <1>1 DEF Typed, Supervisor, Untouched
    <2>2. sup' = d
        BY <1>5
    <2> HIDE DEF m
    <2>3. /\ Gone(m, d)
          /\ Ended(m, "spawn_error", d) \/ Failed(m, "spawn_error", d) \/ Retries(m, "spawn_error", d)
        BY <2>1, DiedDoes
    <2>4. Enter("spawning", "failed") = "failed" /\ Enter("spawning", "restarting") = "restarting"
        <3>1. "spawning" \in Phase /\ "spawning" \in Running
            BY PhaseHas DEF Running
        <3> QED BY <3>1, Moves
    <2> HIDE DEF d
    <2>5. Untouched(s, sup')
        BY <2>1, <2>2, <2>3 DEF Untouched, Gone
    <2> QED BY <1>5, <2>1, <2>2, <2>3, <2>4, <2>5 DEF Gone, Ended, Failed, Retries
<1> QED BY <1>2, <1>3, <1>4, <1>5

-----------------------------------------------------------------------------
(* What each act does, for the theorems below.                              *)

(* The engine is spawning, or its launch was refused.                       *)
Fresh(s) ==
    \/ s.child \in Worker /\ s.phase = "spawning" /\ ~s.held
    \/ s.child = None /\ s.phase = "failed" /\ ~s.held
    \/ s.child = None /\ s.phase = "restarting" /\ s.held

LEMMA CancelledSame ==
    ASSUME NEW s, Typed(s), NEW c, c = Cancelled(s)
    PROVE  /\ Typed(c) /\ ~c.held /\ Untouched(s, c) /\ c.floor = s.floor /\ c.child = s.child
           /\ c.phase = s.phase /\ c.stopping = s.stopping /\ c.streak = s.streak
           /\ c.spawned = s.spawned
<1>1. CASE s.held
    <2>1. c = [s EXCEPT !.armed = s.armed - 1, !.held = FALSE]
        BY <1>1 DEF Cancelled
    <2> QED BY <2>1, CancelledIs DEF Typed, Supervisor, Untouched
<1>2. CASE ~s.held
    BY <1>2 DEF Cancelled, Untouched
<1> QED BY <1>1, <1>2

LEMMA ClearedIs ==
    ASSUME NEW s, Typed(s), NEW c, c = Superseded(Cancelled(s))
    PROVE  Typed(c) /\ ~c.held /\ Untouched(s, c) /\ c.floor = s.floor /\ c.child = None
<1> DEFINE b == Cancelled(s)
<1>1. Typed(b) /\ ~b.held
    BY CancelledIs
<1>2. Untouched(s, b) /\ b.floor = s.floor
    BY DEF Cancelled, Typed, Supervisor, Untouched
<1>3. c = [b EXCEPT !.child = None, !.heard = None]
    BY DEF Superseded
<1>4. Typed(c)
    BY <1>1, SupersededTyped
<1> HIDE DEF b
<1> QED BY <1>1, <1>2, <1>3, <1>4 DEF Typed, Supervisor, Untouched

LEMMA LaunchedFresh ==
    ASSUME NEW s, Typed(s), ~s.held, NEW was, SpawnChild(s, was)
    PROVE  Fresh(sup') /\ Untouched(s, sup') /\ sup'.floor <= s.floor
BY LaunchedIs DEF Fresh

Relaunched(s, floor) ==
    /\ Fresh(sup') /\ autos' = 0 /\ sup'.floor <= floor
    /\ sup'.disposed = s.disposed /\ sup'.resume = s.resume

LEMMA RestartIs ==
    ASSUME NEW s, Typed(s), NEW floor \in 0..2, ManualRestart(s, floor)
    PROVE  \/ /\ s.child # None /\ s.phase \in Startup
              /\ sup' = s /\ UNCHANGED <<worker, autos, stopped>>
           \/ Relaunched(s, floor)
<1>1. CASE s.child # None /\ s.phase \in Startup
    BY <1>1 DEF ManualRestart
<1>2. CASE ~(s.child # None /\ s.phase \in Startup)
    <2> DEFINE f == [s EXCEPT !.floor = floor]
               c == Superseded(Cancelled(f))
    <2>1. Typed(f) /\ f.floor = floor /\ Untouched(s, f)
        BY Floored DEF Typed, Supervisor, Untouched
    <2>2. SpawnChild(c, Told(worker, s.child)) /\ autos' = 0
        BY <1>2 DEF ManualRestart
    <2> HIDE DEF f
    <2>3. Typed(c) /\ ~c.held /\ Untouched(f, c) /\ c.floor = f.floor
        BY <2>1, ClearedIs
    <2> HIDE DEF c
    <2>4. Fresh(sup') /\ Untouched(c, sup') /\ sup'.floor <= c.floor
        BY <2>2, <2>3, LaunchedFresh
    <2> QED BY <2>1, <2>2, <2>3, <2>4 DEF Relaunched, Untouched
<1> QED BY <1>1, <1>2

(* A wish is noted, and nothing else happens.                               *)
Wishes ==
    /\ \E x \in BOOLEAN : /\ sup' = [sup EXCEPT !.resume = x]
                          /\ x => sup.resume \/ sup.child = None \/ sup.phase \notin Interactive
    /\ UNCHANGED <<worker, autos, stopped>>

LEMMA PersonIs ==
    ASSUME ATyped, Person
    PROVE  \/ Wishes
           \/ /\ Fresh(sup') /\ autos' = 0 /\ ~sup'.disposed
              /\ OpenProject \/ sup'.floor <= sup.floor
           \/ Stop \/ Dispose
<1>1. Typed(sup) /\ sup.floor \in 0..2 /\ sup.resume \in BOOLEAN /\ sup.floor <= sup.floor
    <2>1. Typed(sup) /\ sup.resume \in BOOLEAN
        BY DEF ATyped, Typed, Supervisor
    <2> QED BY <2>1, FieldsOf
<1>2. ASSUME NEW x \in BOOLEAN, NEW s, s = [sup EXCEPT !.resume = x]
      PROVE  /\ Typed(s) /\ s.child = sup.child /\ s.phase = sup.phase /\ s.floor = sup.floor
             /\ s.resume = x /\ s.disposed = sup.disposed
    BY <1>1, <1>2 DEF Typed, Supervisor
<1>3. ASSUME NEW x \in BOOLEAN, NEW s, s = [sup EXCEPT !.resume = x], ~sup.disposed,
             NEW floor \in 0..2, floor <= sup.floor, ManualRestart(s, floor)
      PROVE  \/ Wishes
             \/ Fresh(sup') /\ autos' = 0 /\ ~sup'.disposed /\ sup'.floor <= sup.floor
    <2>1. /\ Typed(s) /\ s.child = sup.child /\ s.phase = sup.phase /\ s.disposed = sup.disposed
        BY <1>2, <1>3
    <2>2. CASE /\ s.child # None /\ s.phase \in Startup
               /\ sup' = s /\ UNCHANGED <<worker, autos, stopped>>
        <3>1. sup.phase \notin Interactive
            BY <2>1, <2>2, PhaseHas
        <3> QED BY <1>3, <2>2, <3>1 DEF Wishes
    <2>3. CASE Relaunched(s, floor)
        <3>1. ATyped'
            BY StepTyped DEF Next
        <3>2. sup'.floor \in 0..2
            BY <3>1, FieldsOf DEF ATyped
        <3> QED BY <1>1, <1>3, <2>1, <2>3, <3>2 DEF Relaunched
    <2> QED BY <1>3, <2>1, <2>2, <2>3, RestartIs
<1>4. sup = [sup EXCEPT !.resume = sup.resume]
    BY <1>1 DEF Typed, Supervisor
<1>5. CASE OpenProject
    <2> DEFINE o == [sup EXCEPT !.project = TRUE, !.streak = 0, !.hangs = 0, !.floor = 2,
                                !.resume = FALSE]
               c == Superseded(Cancelled(o))
    <2>1. Typed(o)
        <3>1. 0 \in Nat /\ 2 \in 0..2
            OBVIOUS
        <3>2. Typed([sup EXCEPT !.streak = 0, !.hangs = 0])
            BY <1>1, <3>1, Counted
        <3>3. Typed([[sup EXCEPT !.streak = 0, !.hangs = 0] EXCEPT !.floor = 2])
            BY <3>1, <3>2, Floored
        <3>4. o = [[[sup EXCEPT !.streak = 0, !.hangs = 0] EXCEPT !.floor = 2]
                      EXCEPT !.project = TRUE, !.resume = FALSE]
            BY <1>1 DEF Typed, Supervisor
        <3> QED BY <3>3, <3>4 DEF Typed, Supervisor
    <2>2. ~o.disposed
        BY <1>1, <1>5 DEF OpenProject, Typed, Supervisor
    <2>3. SpawnChild(c, Told(worker, sup.child)) /\ autos' = 0
        BY <1>5 DEF OpenProject
    <2> HIDE DEF o
    <2>4. Typed(c) /\ ~c.held /\ Untouched(o, c)
        BY <2>1, ClearedIs
    <2> HIDE DEF c
    <2>5. Fresh(sup') /\ Untouched(c, sup')
        BY <2>3, <2>4, LaunchedFresh
    <2> QED BY <1>5, <2>2, <2>3, <2>4, <2>5 DEF Untouched
<1>6. CASE Retry
    <2> QED BY <1>1, <1>3, <1>4, <1>6 DEF Retry, Opened
<1>7. CASE RestartSafe
    <2>1. PICK resume \in BOOLEAN :
              ManualRestart([sup EXCEPT !.resume = sup.resume \/ resume], Least(sup.floor, 1))
        BY <1>7 DEF RestartSafe
    <2>2. Least(sup.floor, 1) \in 0..2 /\ Least(sup.floor, 1) <= sup.floor
        BY <1>1 DEF Least
    <2>3. (sup.resume \/ resume) \in BOOLEAN /\ ~sup.disposed
        BY <1>7 DEF RestartSafe, Opened
    <2> QED BY <1>3, <2>1, <2>2, <2>3
<1>8. CASE StartMinimal
    <2>1. 0 \in 0..2 /\ 0 <= sup.floor
        BY <1>1
    <2> QED BY <1>1, <1>3, <1>4, <1>8, <2>1 DEF StartMinimal, Opened
<1>9. CASE Resume
    <2> DEFINE s == [sup EXCEPT !.resume = TRUE]
    <2>1. Typed(s) /\ s.floor = sup.floor /\ ~sup.disposed
        BY <1>2, <1>9 DEF Resume, Opened
    <2>2. \/ UNCHANGED vars
          \/ ManualRestart(s, s.floor)
          \/ /\ sup' = s /\ UNCHANGED <<worker, autos, stopped>>
             /\ sup.child = None \/ sup.phase \notin Interactive
        BY <1>9 DEF Resume
    <2>3. CASE UNCHANGED vars
        BY <1>1, <1>4, <2>3 DEF Wishes, vars
    <2>4. CASE ManualRestart(s, s.floor)
        BY <1>1, <1>3, <2>1, <2>4
    <2>5. CASE /\ sup' = s /\ UNCHANGED <<worker, autos, stopped>>
               /\ sup.child = None \/ sup.phase \notin Interactive
        BY <2>5 DEF Wishes
    <2> QED BY <2>2, <2>3, <2>4, <2>5
<1> QED BY <1>5, <1>6, <1>7, <1>8, <1>9 DEF Person

(* A timer that fires launches, but for a supervisor that was disposed.     *)
LEMMA TimerIs ==
    ASSUME ATyped, RestartTimer
    PROVE  \E s : /\ Typed(s) /\ s.armed = sup.armed - 1 /\ ~s.held /\ Untouched(sup, s)
                  /\ s.floor = sup.floor /\ s.streak = sup.streak /\ s.spawned = sup.spawned
                  /\ s.child = sup.child /\ s.phase = sup.phase
                  /\ \/ s.disposed /\ sup' = s /\ UNCHANGED <<worker, autos>>
                     \/ SpawnChild(s, worker) /\ Automatic(s)
<1> DEFINE s == [sup EXCEPT !.armed = sup.armed - 1, !.held = FALSE]
<1>1. Typed(sup) /\ sup.armed - 1 \in Nat
    BY FieldsOf DEF RestartTimer, ATyped
<1>2. Typed(s)
    BY <1>1, Timed
<1>3. \/ s.disposed /\ sup' = s /\ UNCHANGED <<worker, autos>>
      \/ SpawnChild(s, worker) /\ Automatic(s)
    BY DEF RestartTimer
<1>4. /\ s.armed = sup.armed - 1 /\ ~s.held /\ Untouched(sup, s)
      /\ s.floor = sup.floor /\ s.streak = sup.streak /\ s.spawned = sup.spawned
      /\ s.child = sup.child /\ s.phase = sup.phase
    BY <1>1 DEF Typed, Supervisor, Untouched
<1> HIDE DEF s
<1> QED BY <1>2, <1>3, <1>4

-----------------------------------------------------------------------------
(* A resume that waits, and what was shed.                                  *)

LEMMA FreshResume ==
    ASSUME NEW s, Fresh(s)
    PROVE  s.child = None \/ s.phase \notin Interactive
BY PhaseHas DEF Fresh

LEMMA ResumeStep ==
    ASSUME ATyped, ResumeNotForgotten, [Next]_vars
    PROVE  ResumeNotForgotten' /\ (sup'.floor <= sup.floor \/ OpenProject)
<1>1. Typed(sup) /\ sup.floor \in 0..2 /\ sup.floor <= sup.floor
    BY FieldsOf DEF ATyped
<1>2. CASE Person
    <2>1. CASE Wishes
        <3>1. PICK x \in BOOLEAN :
                  /\ sup' = [sup EXCEPT !.resume = x]
                  /\ x => sup.resume \/ sup.child = None \/ sup.phase \notin Interactive
            BY <2>1 DEF Wishes
        <3>2. /\ sup'.resume = x /\ sup'.child = sup.child /\ sup'.phase = sup.phase
              /\ sup'.floor = sup.floor
            BY <1>1, <3>1 DEF Typed, Supervisor
        <3> QED BY <1>1, <3>1, <3>2 DEF ResumeNotForgotten
    <2>2. CASE Fresh(sup') /\ (OpenProject \/ sup'.floor <= sup.floor)
        BY <2>2, FreshResume DEF ResumeNotForgotten
    <2>3. CASE Stop
        <3> DEFINE s == Cancelled(sup)
        <3>1. Typed(s) /\ s.child = sup.child /\ s.floor = sup.floor /\ s.phase = sup.phase
              /\ s.resume = sup.resume
            BY <1>1, CancelledSame DEF Untouched
        <3>2. sup' = IF s.child = None THEN [s EXCEPT !.phase = Enter(s.phase, "idle")]
                     ELSE [s EXCEPT !.stopping = TRUE, !.phase = Enter(s.phase, "stopping")]
            BY <2>3 DEF Stop
        <3> HIDE DEF s
        <3>3. /\ sup'.child = sup.child /\ sup'.floor = sup.floor /\ sup'.resume = sup.resume
              /\ sup'.child # None => sup'.phase = Enter(sup.phase, "stopping")
            BY <3>1, <3>2 DEF Typed, Supervisor
        <3>4. Enter(sup.phase, "stopping") \in {"stopping", sup.phase}
            BY DEF Enter
        <3>5. "stopping" \notin Interactive
            BY DEF Interactive
        <3> QED BY <1>1, <3>3, <3>4, <3>5 DEF ResumeNotForgotten
    <2>4. CASE Dispose
        <3> DEFINE c == Superseded(Cancelled(sup))
        <3>1. Typed(c) /\ c.floor = sup.floor /\ c.child = None
            BY <1>1, ClearedIs
        <3>2. sup' = [c EXCEPT !.disposed = TRUE]
            BY <2>4 DEF Dispose
        <3> HIDE DEF c
        <3>3. sup'.floor = sup.floor /\ sup'.child = None
            BY <3>1, <3>2 DEF Typed, Supervisor
        <3> QED BY <1>1, <3>3 DEF ResumeNotForgotten
    <2> QED BY <1>2, <2>1, <2>2, <2>3, <2>4, PersonIs
<1>3. ASSUME NEW w \in Worker, NEW kind, Dies(w, kind)
      PROVE  ResumeNotForgotten' /\ (sup'.floor <= sup.floor \/ OpenProject)
    <2>1. CASE sup' = sup
        BY <1>1, <2>1 DEF ResumeNotForgotten
    <2>2. CASE sup' = Died(sup, Kind(sup, kind))
        <3>1. Gone(sup, sup')
            BY <1>1, <2>2, DiedDoes
        <3> QED BY <3>1 DEF Gone, ResumeNotForgotten
    <2> QED BY <1>3, <2>1, <2>2 DEF Dies
<1>4. ASSUME NEW w \in Worker, Engine(w)
      PROVE  ResumeNotForgotten' /\ (sup'.floor <= sup.floor \/ OpenProject)
    <2>1. ASSUME NEW phase \in Startup \ {"spawning"}, Boot(w, phase)
          PROVE  ResumeNotForgotten' /\ sup'.floor <= sup.floor
        <3>1. sup'.phase = phase /\ sup'.floor = sup.floor
            BY <1>1, <2>1 DEF Boot, Typed, Supervisor
        <3> QED BY <1>1, <3>1, PhaseHas DEF ResumeNotForgotten
    <2>2. CASE Health(w) \/ Misspeaks(w)
        <3>1. /\ sup'.phase = sup.phase /\ sup'.floor = sup.floor /\ sup'.resume = sup.resume
              /\ sup'.child = sup.child
            BY <1>1, <2>2 DEF Health, Misspeaks, Typed, Supervisor
        <3> QED BY <1>1, <3>1 DEF ResumeNotForgotten
    <2>3. CASE Ready(w)
        <3>1. sup'.resume = FALSE /\ sup'.floor = sup.floor
            BY <1>1, <2>3 DEF Ready, Typed, Supervisor
        <3> QED BY <1>1, <3>1 DEF ResumeNotForgotten
    <2>4. CASE \/ \E kind \in {"clean_shutdown", "crash"} : Exits(w, kind)
               \/ Throws(w) \/ ExitsAfterThrow(w)
        BY <1>3, <2>4 DEF Exits, Throws, ExitsAfterThrow
    <2> QED BY <1>4, <2>1, <2>2, <2>3, <2>4 DEF Engine
<1>5. CASE RestartTimer
    <2>1. PICK s : /\ Typed(s) /\ ~s.held /\ Untouched(sup, s) /\ s.floor = sup.floor
                   /\ s.child = sup.child /\ s.phase = sup.phase
                   /\ sup' = s \/ SpawnChild(s, worker)
        BY <1>5, TimerIs
    <2>2. CASE sup' = s
        BY <1>1, <2>1, <2>2 DEF ResumeNotForgotten, Untouched
    <2>3. CASE SpawnChild(s, worker)
        <3>1. Fresh(sup') /\ sup'.floor <= s.floor
            BY <2>1, <2>3, LaunchedFresh
        <3> QED BY <2>1, <3>1, FreshResume DEF ResumeNotForgotten
    <2> QED BY <2>1, <2>2, <2>3
<1>6. CASE StartupTimeout \/ Unresponsive \/ Settles \/ Ages
    <2>1. /\ sup'.phase = sup.phase /\ sup'.floor = sup.floor /\ sup'.resume = sup.resume
          /\ sup'.child = sup.child
        <3>1. CASE StartupTimeout
            BY <1>1, <3>1 DEF StartupTimeout, Typed, Supervisor
        <3>2. CASE Unresponsive
            BY <1>1, <3>2 DEF Unresponsive, Typed, Supervisor
        <3>3. CASE Settles
            BY <1>1, <3>3 DEF Settles, Typed, Supervisor
        <3>4. CASE Ages
            BY <1>1, <3>4 DEF Ages, Typed, Supervisor
        <3> QED BY <1>6, <3>1, <3>2, <3>3, <3>4
    <2> QED BY <1>1, <2>1 DEF ResumeNotForgotten
<1>7. CASE UNCHANGED vars
    BY <1>1, <1>7 DEF vars, ResumeNotForgotten
<1> QED BY <1>2, <1>4, <1>5, <1>6, <1>7 DEF Next, Time

LEMMA ResumeAlways == Spec => [](ATyped /\ ResumeNotForgotten)
<1>1. Init => ATyped /\ ResumeNotForgotten
    BY InitTyped DEF Init, ResumeNotForgotten
<1>2. ATyped /\ ResumeNotForgotten /\ [Next]_vars => (ATyped /\ ResumeNotForgotten)'
    BY StepTyped, ResumeStep
<1> QED BY <1>1, <1>2, PTL DEF Spec

(* A resume that the person asked for (requestResume) never waits beside an *)
(* engine that is ready for it, whatever dies, restarts or is clicked while *)
(* it waits.                                                                *)
THEOREM ResumesGoOut == Spec => []ResumeNotForgotten
BY ResumeAlways, PTL

(* Capabilities that were shed, by the person or after an engine that hung, *)
(* stay shed over every restart until a project is opened (openProject).    *)
THEOREM StaysShed == Spec => ShedStaysShed
<1>1. ATyped /\ ResumeNotForgotten /\ [Next]_vars => [sup'.floor <= sup.floor \/ OpenProject]_vars
    BY ResumeStep
<1> QED BY <1>1, ResumeAlways, PTL DEF Spec, ShedStaysShed

-----------------------------------------------------------------------------
(* The phase and the engine.                                                *)

Real(s, w) ==
    ~s.disposed =>
        /\ s.child # None <=> s.phase \in Running \cup {"stopping"}
        /\ s.phase \in Interactive => w[s.child].ready
        /\ s.held <=> s.phase = "restarting"
        /\ s.phase = "stopping" => s.stopping

LEMMA FreshReal ==
    ASSUME NEW s, Fresh(s), NEW w
    PROVE  Real(s, w)
<1>1. "spawning" \in Running /\ "spawning" \notin Interactive /\ "spawning" # "stopping"
    BY PhaseHas DEF Running
<1>2. {"failed", "restarting"} \cap (Running \cup {"stopping"}) = {}
    BY PhaseHas
<1>3. {"failed", "restarting"} \cap Interactive = {}
    BY <1>2 DEF Running
<1> QED BY <1>1, <1>2, <1>3, SupervisorAssumption DEF Fresh, Real

(* The fields Real speaks of.                                               *)
SameScene(s, r) ==
    /\ r.disposed = s.disposed /\ r.child = s.child /\ r.phase = s.phase /\ r.held = s.held
    /\ r.stopping = s.stopping

LEMMA RealKept ==
    ASSUME NEW s, NEW w, Real(s, w), NEW r, NEW u, SameScene(s, r),
           s.phase \in Interactive /\ s.child # None => (w[s.child].ready => u[s.child].ready)
    PROVE  Real(r, u)
BY DEF SameScene, Real, Running

LEMMA ToldReady ==
    ASSUME NEW w \in Workers, NEW c, NEW v \in Worker
    PROVE  Told(w, c)[v].ready = w[v].ready
<1>1. CASE c = None
    BY <1>1 DEF Told
<1>2. CASE c # None
    <2>1. Told(w, c) = [w EXCEPT ![c].told = TRUE]
        BY <1>2 DEF Told
    <2> QED BY <2>1 DEF Workers
<1> QED BY <1>1, <1>2

(* The death of the engine that is heard: it was the child.                 *)
Heard(w) == sup.heard = w /\ sup.child = w /\ ~sup.held

LEMMA DeathIs ==
    ASSUME Agreed, "throwsAndExits" \notin Failures, NEW w \in Worker, Engine(w)
    PROVE  \/ \E phase \in Startup \ {"spawning"} : Boot(w, phase)
           \/ Health(w) \/ Ready(w) \/ Misspeaks(w)
           \/ \E kind : Heard(w) /\ sup' = Died(sup, Kind(sup, kind)) /\ Automatic(sup)
           \/ /\ sup' = sup /\ Automatic(sup) /\ w # sup.child
              /\ \A v \in Worker : v # w => worker'[v] = worker[v]
<1>1. ASSUME NEW kind, Dies(w, kind), sup.heard = w => worker[w].life = "alive",
             \A v \in Worker : v # w => worker'[v] = worker[v]
      PROVE  \/ Heard(w) /\ sup' = Died(sup, Kind(sup, kind)) /\ Automatic(sup)
             \/ /\ sup' = sup /\ Automatic(sup) /\ w # sup.child
                /\ \A v \in Worker : v # w => worker'[v] = worker[v]
    <2>1. CASE sup.heard = w
        <3>1. sup.child = w /\ ~sup.held
            BY <1>1, <2>1, SupervisorAssumption DEF Agreed, Sole
        <3> QED BY <1>1, <2>1, <3>1 DEF Dies, Heard
    <2>2. CASE sup.heard # w
        <3>1. w # sup.child
            BY <2>2, SupervisorAssumption DEF Agreed, Sole
        <3> QED BY <1>1, <2>2, <3>1 DEF Dies
    <2> QED BY <2>1, <2>2
<1>2. worker \in Workers
    BY DEF Agreed, ATyped
<1>3. ASSUME NEW kind, Exits(w, kind)
      PROVE  \A v \in Worker : v # w => worker'[v] = worker[v]
    BY <1>2, <1>3 DEF Exits, Workers
<1>4. ASSUME Throws(w) \/ ExitsAfterThrow(w)
      PROVE  \A v \in Worker : v # w => worker'[v] = worker[v]
    BY <1>2, <1>4 DEF Throws, ExitsAfterThrow, Workers
<1>5. CASE \E kind \in {"clean_shutdown", "crash"} : Exits(w, kind)
    BY <1>1, <1>3, <1>5 DEF Exits
<1>6. CASE Throws(w)
    BY <1>1, <1>4, <1>6 DEF Throws
<1>7. CASE ExitsAfterThrow(w)
    BY <1>1, <1>4, <1>7 DEF ExitsAfterThrow
<1> QED BY <1>5, <1>6, <1>7 DEF Engine

LEMMA DeathReal ==
    ASSUME Agreed, Real(sup, worker), NEW w \in Worker, Heard(w), NEW kind,
           sup' = Died(sup, Kind(sup, kind))
    PROVE  Real(sup', worker')
<1> DEFINE k == Kind(sup, kind)
<1>1. Typed(sup) /\ sup.phase \in Phase
    BY DEF Agreed, ATyped, Typed, Supervisor
<1>2. Gone(sup, sup') /\ (Ended(sup, k, sup') \/ Failed(sup, k, sup') \/ Retries(sup, k, sup'))
    BY <1>1, DiedDoes
<1>3. CASE sup.disposed
    BY <1>2, <1>3 DEF Gone, Untouched, Real
<1>4. CASE ~sup.disposed
    <2>1. sup.phase \in Running \cup {"stopping"} /\ ~sup.held
        BY <1>4, SupervisorAssumption DEF Heard, Real
    <2>2. sup.phase = "stopping" => k = "clean_shutdown"
        BY <1>4, KindIs DEF Real
    <2>3. /\ sup.phase \in Running =>
                 /\ Enter(sup.phase, "exited") = "exited" /\ Enter(sup.phase, "failed") = "failed"
                 /\ Enter(sup.phase, "restarting") = "restarting"
          /\ sup.phase = "stopping" => Enter(sup.phase, "exited") = "exited"
        BY <1>1, Moves
    <2>4. {"exited", "failed", "restarting"} \cap (Running \cup {"stopping"}) = {}
        BY PhaseHas
    <2>5. {"exited", "failed", "restarting"} \cap Interactive = {}
        BY <2>4 DEF Running
    <2>6. sup'.child = None
        BY <1>2 DEF Gone
    <2> HIDE DEF k
    <2>7. \/ sup'.phase = "exited" /\ ~sup'.held
          \/ sup'.phase = "failed" /\ ~sup'.held
          \/ sup'.phase = "restarting" /\ sup'.held
        <3>1. CASE Ended(sup, k, sup')
            BY <2>1, <2>3, <3>1 DEF Ended
        <3>2. CASE Failed(sup, k, sup')
            BY <2>1, <2>2, <2>3, <3>2 DEF Failed
        <3>3. CASE Retries(sup, k, sup')
            BY <2>1, <2>2, <2>3, <3>3 DEF Retries
        <3> QED BY <1>2, <3>1, <3>2, <3>3
    <2>8. CASE sup'.phase = "exited" /\ ~sup'.held
        BY <2>4, <2>5, <2>6, <2>8 DEF Real
    <2>9. CASE sup'.phase = "failed" /\ ~sup'.held
        BY <2>4, <2>5, <2>6, <2>9 DEF Real
    <2>10. CASE sup'.phase = "restarting" /\ sup'.held
        BY <2>4, <2>5, <2>6, <2>10 DEF Real
    <2> QED BY <2>7, <2>8, <2>9, <2>10
<1> QED BY <1>3, <1>4

LEMMA StopReal ==
    ASSUME Agreed, Real(sup, worker), Stop
    PROVE  Real(sup', worker')
<1> DEFINE s == Cancelled(sup)
<1>1. Typed(sup) /\ sup.phase \in Phase /\ ~sup.disposed
    BY DEF Agreed, ATyped, Typed, Supervisor, Stop, Opened
<1>2. Typed(s) /\ ~s.held /\ s.child = sup.child /\ s.phase = sup.phase
    BY <1>1, CancelledSame
<1>3. sup' = IF s.child = None THEN [s EXCEPT !.phase = Enter(s.phase, "idle")]
             ELSE [s EXCEPT !.stopping = TRUE, !.phase = Enter(s.phase, "stopping")]
    BY DEF Stop
<1> HIDE DEF s
<1>4. CASE sup.child = None
    <2>1. sup.phase \in {"idle", "restarting", "exited", "failed"}
        BY <1>1, <1>4 DEF Real, Phase, Running
    <2>2. Enter(sup.phase, "idle") = "idle"
        BY <1>1, <2>1, Moves
    <2>3. sup' = [s EXCEPT !.phase = "idle"]
        BY <1>2, <1>3, <1>4, <2>2
    <2>4. sup'.phase = "idle" /\ ~sup'.held /\ sup'.child = None
        BY <1>2, <1>4, <2>3 DEF Typed, Supervisor
    <2>5. "idle" \notin Running /\ "idle" # "stopping" /\ "idle" # "restarting"
        BY PhaseHas
    <2> QED BY <2>4, <2>5 DEF Real, Running
<1>5. CASE sup.child # None
    <2>1. Enter(sup.phase, "stopping") = "stopping"
        BY <1>1, <1>5, Moves DEF Real
    <2>2. sup' = [s EXCEPT !.stopping = TRUE, !.phase = "stopping"]
        BY <1>2, <1>3, <1>5, <2>1
    <2>3. sup'.phase = "stopping" /\ ~sup'.held /\ sup'.child # None /\ sup'.stopping
        BY <1>2, <1>5, <2>2 DEF Typed, Supervisor
    <2>4. "stopping" \notin Interactive /\ "stopping" # "restarting"
        BY DEF Interactive
    <2> QED BY <2>3, <2>4 DEF Real
<1> QED BY <1>4, <1>5

LEMMA ReadyReal ==
    ASSUME Agreed, Real(sup, worker), NEW w \in Worker, Ready(w)
    PROVE  Real(sup', worker')
<1>1. PICK phase \in Interactive :
          sup' = [sup EXCEPT !.phase = Enter(sup.phase, phase), !.resume = FALSE]
    BY DEF Ready
<1>2. Typed(sup) /\ sup.phase \in Phase /\ worker \in Workers
    BY DEF Agreed, ATyped, Typed, Supervisor
<1>3. /\ sup'.phase = Enter(sup.phase, phase) /\ sup'.disposed = sup.disposed
      /\ sup'.child = sup.child /\ sup'.held = sup.held /\ sup'.stopping = sup.stopping
    BY <1>1, <1>2 DEF Typed, Supervisor
<1>4. worker' = [worker EXCEPT ![w].ready = TRUE] /\ sup.heard = w
    BY DEF Ready, Listens
<1>5. worker'[w].ready /\ \A v \in Worker : worker[v].ready => worker'[v].ready
    BY <1>2, <1>4 DEF Workers
<1>6. CASE sup.disposed
    BY <1>3, <1>6 DEF Real
<1>7. CASE ~sup.disposed /\ sup.phase \in Running
    <2>1. sup.child = w
        BY <1>4, <1>7 DEF Real, Agreed, Sole
    <2>2. sup'.phase \in Interactive
        BY <1>1, <1>2, <1>3, <1>7, Moves
    <2>3. sup'.phase \in Running /\ sup'.phase # "restarting" /\ sup'.phase # "stopping"
        BY <2>2, PhaseHas DEF Running
    <2>4. sup.phase # "restarting"
        BY <1>7, PhaseHas
    <2> QED BY <1>3, <1>5, <1>7, <2>1, <2>2, <2>3, <2>4 DEF Real
<1>8. CASE ~sup.disposed /\ sup.phase \notin Running
    <2>1. SameScene(sup, sup')
        BY <1>1, <1>2, <1>3, <1>8, Moves DEF SameScene
    <2> QED BY <1>8, <2>1, RealKept DEF Running
<1> QED BY <1>6, <1>7, <1>8

LEMMA RealStep ==
    ASSUME Agreed, "throwsAndExits" \notin Failures, Real(sup, worker), [Next]_vars
    PROVE  Real(sup', worker')
<1>1. /\ Typed(sup) /\ worker \in Workers /\ sup.phase \in Phase
      /\ sup.child # None => sup.child \in Worker
    BY DEF Agreed, ATyped, Typed, Supervisor
<1>2. ASSUME SameScene(sup, sup'), worker' = worker \/ \E c : worker' = Told(worker, c)
      PROVE  Real(sup', worker')
    <2>1. \A v \in Worker : worker'[v].ready = worker[v].ready
        BY <1>1, <1>2, ToldReady
    <2> QED BY <1>1, <1>2, <2>1, RealKept
<1>3. CASE Person
    <2>1. CASE Wishes
        <3>1. SameScene(sup, sup') /\ worker' = worker
            BY <1>1, <2>1 DEF Wishes, SameScene, Typed, Supervisor
        <3> QED BY <1>2, <3>1
    <2>2. CASE Dispose
        <3> DEFINE c == Superseded(Cancelled(sup))
        <3>1. Typed(c)
            BY <1>1, ClearedIs
        <3>2. sup' = [c EXCEPT !.disposed = TRUE]
            BY <2>2 DEF Dispose
        <3> HIDE DEF c
        <3>3. sup'.disposed
            BY <3>1, <3>2 DEF Typed, Supervisor
        <3> QED BY <3>3 DEF Real
    <2>3. ATyped
        BY DEF Agreed
    <2> QED BY <1>3, <2>1, <2>2, <2>3, PersonIs, FreshReal, StopReal
<1>4. ASSUME NEW w \in Worker, Engine(w)
      PROVE  Real(sup', worker')
    <2>1. ASSUME NEW phase \in Startup \ {"spawning"}, Boot(w, phase)
          PROVE  Real(sup', worker')
        <3>1. /\ sup'.phase = phase /\ sup'.disposed = sup.disposed /\ worker' = worker
              /\ sup'.child = sup.child /\ sup'.held = sup.held /\ sup'.stopping = sup.stopping
            BY <1>1, <2>1 DEF Boot, Typed, Supervisor
        <3>2. phase \in {"booting", "restoring_session"}
            BY LadderIs
        <3>3. sup.phase \in Startup
            BY <1>1, <2>1, <3>2, Moves DEF Boot
        <3>4. sup.phase \in Running /\ phase \in Running /\ phase \notin Interactive
            BY <3>3, PhaseHas DEF Running
        <3>5. {sup.phase, phase} \cap {"restarting", "stopping"} = {}
            BY <3>4, PhaseHas
        <3> QED BY <3>1, <3>4, <3>5 DEF Real
    <2>2. CASE Health(w)
        <3>1. SameScene(sup, sup') /\ worker' = worker
            BY <1>1, <2>2 DEF Health, SameScene, Typed, Supervisor
        <3> QED BY <1>2, <3>1
    <2>3. CASE Misspeaks(w)
        <3>1. SameScene(sup, sup') /\ worker' = Told(worker, sup.child)
            BY <1>1, <2>3 DEF Misspeaks, SameScene, Typed, Supervisor
        <3> QED BY <1>2, <3>1
    <2>4. CASE \E kind : Heard(w) /\ sup' = Died(sup, Kind(sup, kind))
        BY <2>4, DeathReal
    <2>5. CASE /\ sup' = sup /\ w # sup.child
               /\ \A v \in Worker : v # w => worker'[v] = worker[v]
        <3>1. SameScene(sup, sup')
            BY <2>5 DEF SameScene
        <3>2. sup.child # None => worker'[sup.child] = worker[sup.child]
            BY <1>1, <2>5
        <3> QED BY <3>1, <3>2, RealKept
    <2> QED BY <1>4, <2>1, <2>2, <2>3, <2>4, <2>5, DeathIs, ReadyReal
<1>5. CASE RestartTimer
    <2>1. PICK s : /\ Typed(s) /\ ~s.held /\ Untouched(sup, s)
                   /\ \/ s.disposed /\ sup' = s
                      \/ SpawnChild(s, worker)
        BY <1>5, TimerIs DEF Agreed
    <2> QED BY <2>1, LaunchedFresh, FreshReal DEF Real
<1>6. CASE StartupTimeout \/ Unresponsive
    <2>1. SameScene(sup, sup') /\ worker' = Told(worker, sup.child)
        <3>1. CASE StartupTimeout
            BY <1>1, <3>1 DEF StartupTimeout, SameScene, Typed, Supervisor
        <3>2. CASE Unresponsive
            BY <1>1, <3>2 DEF Unresponsive, SameScene, Typed, Supervisor
        <3> QED BY <1>6, <3>1, <3>2
    <2> QED BY <1>2, <2>1
<1>7. CASE Settles \/ Ages
    <2>1. SameScene(sup, sup') /\ worker' = worker
        <3>1. CASE Settles
            BY <1>1, <3>1 DEF Settles, SameScene, Typed, Supervisor
        <3>2. CASE Ages
            BY <1>1, <3>2 DEF Ages, SameScene, Typed, Supervisor
        <3> QED BY <1>7, <3>1, <3>2
    <2> QED BY <1>2, <2>1
<1>8. CASE UNCHANGED vars
    BY <1>8 DEF vars
<1> QED BY <1>3, <1>4, <1>5, <1>6, <1>7, <1>8 DEF Next, Time

LEMMA RealAlways ==
    ASSUME "throwsAndExits" \notin Failures
    PROVE  Spec => [](Agreed /\ Real(sup, worker))
<1>1. Init => Real(sup, worker)
    <2>1. "idle" \notin Running \cup {"stopping"} /\ "idle" # "restarting"
        BY PhaseHas
    <2> QED BY <2>1 DEF Init, Real, Running
<1>2. Agreed /\ Real(sup, worker) /\ [Next]_vars => Real(sup, worker)'
    BY RealStep
<1> QED BY <1>1, <1>2, AgreedAlways, PTL DEF Spec

(* The phase that the recovery actions, the watchdog and the queue decide   *)
(* by is the engine's: an engine while one is said to run, ready when it is *)
(* said to be, and one timer while a restart is announced; no double death. *)
THEOREM PhaseTrue ==
    ASSUME "throwsAndExits" \notin Failures
    PROVE  Spec => []PhaseIsReal
<1>1. Agreed /\ Real(sup, worker) => PhaseIsReal
    BY DEF Agreed, Sole, Real, PhaseIsReal, Running
<1> QED BY <1>1, RealAlways, PTL

-----------------------------------------------------------------------------
(* The budget.                                                              *)

(* While a run or a countdown goes on, the restarts since the last stable   *)
(* run are all in the history; and a run that has become old was stable.    *)
Spent(s, a) ==
    /\ a <= MaxAttempts
    /\ s.child # None \/ s.held => a <= s.streak
    /\ s.child # None /\ s.spawned = "long ago" => a = 0

LEMMA SpentKept ==
    ASSUME NEW s, NEW a, Spent(s, a), NEW r, r.child = s.child, r.held => s.held,
           r.streak = s.streak, r.spawned = s.spawned
    PROVE  Spent(r, a)
BY DEF Spent

(* One more restart, within what the history counts.                        *)
LEMMA OneMore ==
    ASSUME NEW a \in Nat, NEW n \in Nat, NEW max \in Nat, a <= n, n + 1 <= max
    PROVE  a + 1 <= n + 1 /\ a + 1 <= max
OBVIOUS

LEMMA RetrySpent ==
    ASSUME NEW a \in Nat, NEW n \in Nat, a <= n, NEW old \in BOOLEAN, old => a = 0,
           NEW d, d.streak = (IF old THEN 1 ELSE n + 1), d.streak <= MaxAttempts, d.child = None
    PROVE  Spent(d, a + 1)
<1>1. MaxAttempts \in Nat
    BY SupervisorAssumption
<1>2. PICK m \in Nat : d.streak = m + 1 /\ a <= m
    <2>1. CASE old
        <3>1. d.streak = 0 + 1 /\ a <= 0
            BY <2>1
        <3> QED BY <3>1
    <2>2. CASE ~old
        <3>1. d.streak = n + 1
            BY <2>2
        <3> QED BY <3>1
    <2> QED BY <2>1, <2>2
<1>3. m + 1 <= MaxAttempts
    BY <1>2
<1>4. a + 1 <= m + 1 /\ a + 1 <= MaxAttempts
    BY <1>1, <1>2, <1>3, OneMore
<1>5. a + 1 <= d.streak
    BY <1>2, <1>4
<1> QED BY <1>4, <1>5 DEF Spent

LEMMA SpentStep ==
    ASSUME Agreed, {"throwsAndExits", "refusesLate"} \cap Failures = {}, Agreed',
           Spent(sup, autos), [Next]_vars
    PROVE  Spent(sup', autos')
<1>1. /\ Typed(sup) /\ sup.streak \in Nat /\ sup.armed \in Nat /\ autos \in Nat
      /\ MaxAttempts \in Nat /\ ATyped
    BY FieldsOf, SupervisorAssumption DEF Agreed, ATyped
<1>2. sup'.streak \in Nat
    BY FieldsOf DEF Agreed, ATyped
<1>3. ASSUME autos' = autos, sup'.child = sup.child, sup'.held = sup.held,
             sup'.streak = sup.streak, sup'.spawned = sup.spawned
      PROVE  Spent(sup', autos')
    BY <1>3, SpentKept
<1>4. CASE Person
    <2>1. CASE Wishes
        <3>1. /\ autos' = autos /\ sup'.child = sup.child /\ sup'.held = sup.held
              /\ sup'.streak = sup.streak /\ sup'.spawned = sup.spawned
            BY <1>1, <2>1 DEF Wishes, Typed, Supervisor
        <3> QED BY <1>3, <3>1
    <2>2. CASE autos' = 0 /\ Fresh(sup')
        <3>1. sup'.child # None /\ sup'.spawned = "long ago" => autos' = 0
            BY <2>2
        <3>2. autos' <= MaxAttempts /\ autos' <= sup'.streak
            BY <1>1, <1>2, <2>2
        <3> QED BY <3>1, <3>2 DEF Spent
    <2>3. CASE Stop
        <3> DEFINE s == Cancelled(sup)
        <3>1. /\ Typed(s) /\ ~s.held /\ s.child = sup.child /\ s.streak = sup.streak
              /\ s.spawned = sup.spawned
            BY <1>1, CancelledSame
        <3>2. /\ sup' = IF s.child = None THEN [s EXCEPT !.phase = Enter(s.phase, "idle")]
                        ELSE [s EXCEPT !.stopping = TRUE, !.phase = Enter(s.phase, "stopping")]
              /\ autos' = autos
            BY <2>3 DEF Stop
        <3> HIDE DEF s
        <3>3. /\ sup'.child = sup.child /\ sup'.held = s.held /\ sup'.streak = sup.streak
              /\ sup'.spawned = sup.spawned
            BY <3>1, <3>2 DEF Typed, Supervisor
        <3> QED BY <3>1, <3>2, <3>3, SpentKept
    <2>4. CASE Dispose
        <3> DEFINE c == Superseded(Cancelled(sup))
        <3>1. Typed(c) /\ ~c.held /\ c.child = None
            BY <1>1, ClearedIs
        <3>2. sup' = [c EXCEPT !.disposed = TRUE] /\ autos' = autos
            BY <2>4 DEF Dispose
        <3> HIDE DEF c
        <3>3. ~sup'.held /\ sup'.child = None
            BY <3>1, <3>2 DEF Typed, Supervisor
        <3> QED BY <3>2, <3>3 DEF Spent
    <2> QED BY <1>1, <1>4, <2>1, <2>2, <2>3, <2>4, PersonIs
<1>5. ASSUME NEW w \in Worker, Engine(w)
      PROVE  Spent(sup', autos')
    <2>1. CASE \/ \E phase \in Startup \ {"spawning"} : Boot(w, phase)
               \/ Health(w) \/ Ready(w) \/ Misspeaks(w)
        <3>1. /\ autos' = autos /\ sup'.child = sup.child /\ sup'.held = sup.held
              /\ sup'.streak = sup.streak /\ sup'.spawned = sup.spawned
            <4>1. CASE \E phase \in Startup \ {"spawning"} : Boot(w, phase)
                BY <1>1, <4>1 DEF Boot, Quietly, Typed, Supervisor
            <4>2. CASE Health(w)
                BY <1>1, <4>2 DEF Health, Quietly, Typed, Supervisor
            <4>3. CASE Ready(w)
                BY <1>1, <4>3 DEF Ready, Quietly, Typed, Supervisor
            <4>4. CASE Misspeaks(w)
                BY <1>1, <4>4 DEF Misspeaks, Quietly, Typed, Supervisor
            <4> QED BY <2>1, <4>1, <4>2, <4>3, <4>4
        <3> QED BY <1>3, <3>1
    <2>2. ASSUME NEW kind, Heard(w), sup' = Died(sup, Kind(sup, kind)), Automatic(sup)
          PROVE  Spent(sup', autos')
        <3> DEFINE k == Kind(sup, kind)
        <3>1. Gone(sup, sup')
              /\ (Ended(sup, k, sup') \/ Failed(sup, k, sup') \/ Retries(sup, k, sup'))
            BY <1>1, <2>2, DiedDoes
        <3> HIDE DEF k
        <3>2. ~sup.held /\ sup.child # None
            BY <2>2, SupervisorAssumption DEF Heard
        <3>3. CASE sup'.held = sup.held /\ sup'.armed = sup.armed
            <4>1. autos' = autos
                BY <1>1, <2>2, <3>3 DEF Automatic
            <4> QED BY <3>1, <3>2, <3>3, <4>1 DEF Gone, Spent
        <3>4. CASE Retries(sup, k, sup')
            <4>1. autos' = autos + 1
                <5>1. sup'.armed = sup.armed + 1
                    BY <3>4 DEF Retries
                <5>2. sup'.armed > sup.armed
                    BY <1>1, <5>1
                <5> QED BY <2>2, <5>2 DEF Automatic
            <4>2. autos <= sup.streak /\ (sup.spawned = "long ago" => autos = 0)
                BY <3>2 DEF Spent
            <4>3. Spent(sup', autos + 1)
                <5> DEFINE n == sup.streak
                           old == sup.spawned = "long ago"
                <5>1. n \in Nat /\ old \in BOOLEAN /\ autos <= n /\ (old => autos = 0)
                    BY <1>1, <4>2
                <5>2. /\ sup'.streak = (IF old THEN 1 ELSE n + 1)
                      /\ sup'.streak <= MaxAttempts /\ sup'.child = None
                    BY <3>1, <3>4 DEF Gone, Retries
                <5> HIDE DEF n, old
                <5> QED BY <1>1, <5>1, <5>2, RetrySpent
            <4> QED BY <4>1, <4>3
        <3> QED BY <3>1, <3>3, <3>4 DEF Ended, Failed
    <2>3. CASE sup' = sup /\ Automatic(sup)
        <3>1. autos' = autos
            BY <1>1, <2>3 DEF Automatic
        <3> QED BY <2>3, <3>1
    <2>4. "throwsAndExits" \notin Failures
        OBVIOUS
    <2> QED BY <1>5, <2>1, <2>2, <2>3, <2>4, DeathIs
<1>6. CASE RestartTimer
    <2>1. PICK s : /\ Typed(s) /\ ~s.held /\ s.streak = sup.streak /\ s.spawned = sup.spawned
                   /\ s.child = sup.child
                   /\ \/ sup' = s /\ UNCHANGED autos
                      \/ SpawnChild(s, worker) /\ Automatic(s)
        BY <1>1, <1>6, TimerIs
    <2>2. CASE sup' = s /\ UNCHANGED autos
        BY <2>1, <2>2, SpentKept
    <2>3. CASE SpawnChild(s, worker) /\ Automatic(s)
        <3>1. autos <= sup.streak /\ s.armed \in Nat
            <4>1. sup.held
                <5>1. sup.armed > 0 /\ sup.armed = IF sup.held THEN 1 ELSE 0
                    BY <1>6 DEF RestartTimer, Agreed, Sole
                <5> QED BY <5>1
            <4>2. s.armed \in Nat
                BY <2>1, FieldsOf
            <4> QED BY <4>1, <4>2 DEF Spent
        <3>2. MayRefuse(s) => s.spawned # "long ago"
            BY DEF MayRefuse
        <3>3. autos' = IF sup'.armed > s.armed THEN autos + 1 ELSE autos
            BY <2>3 DEF Automatic
        <3>4. CASE /\ sup'.held = s.held /\ sup'.armed = s.armed /\ sup'.streak = s.streak
                   /\ sup'.spawned = "recently"
            <4>1. autos' = autos /\ sup'.streak = sup.streak
                BY <2>1, <3>1, <3>3, <3>4
            <4> QED BY <3>1, <3>4, <4>1 DEF Spent
        <3>5. CASE sup'.child = None /\ sup'.held = s.held /\ sup'.armed = s.armed
            <4>1. autos' = autos
                BY <3>1, <3>3, <3>5
            <4> QED BY <2>1, <3>5, <4>1 DEF Spent
        <3>6. CASE /\ sup'.child = None /\ MayRefuse(s) /\ sup'.armed = s.armed + 1
                   /\ sup'.streak <= MaxAttempts
                   /\ sup'.streak = IF s.spawned = "long ago" THEN 1 ELSE s.streak + 1
            <4>1. sup'.armed = s.armed + 1 /\ s.armed \in Nat
                BY <3>1, <3>6
            <4>2. sup'.armed > s.armed
                BY <4>1
            <4>3. autos' = autos + 1
                BY <3>3, <4>2
            <4>4. Spent(sup', autos + 1)
                <5> DEFINE n == sup.streak
                           old == FALSE
                <5>1. n \in Nat /\ old \in BOOLEAN /\ autos <= n /\ (old => autos = 0)
                    BY <1>1, <3>1
                <5>2. /\ sup'.streak = (IF old THEN 1 ELSE n + 1)
                      /\ sup'.streak <= MaxAttempts /\ sup'.child = None
                    BY <2>1, <3>2, <3>6
                <5> HIDE DEF n, old
                <5> QED BY <1>1, <5>1, <5>2, RetrySpent
            <4> QED BY <4>3, <4>4
        <3> QED BY <2>1, <2>3, <3>4, <3>5, <3>6, LaunchedIs
    <2> QED BY <2>1, <2>2, <2>3
<1>7. CASE StartupTimeout \/ Unresponsive
    <2>1. /\ autos' = autos /\ sup'.child = sup.child /\ sup'.held = sup.held
          /\ sup'.streak = sup.streak /\ sup'.spawned = sup.spawned
        <3>1. CASE StartupTimeout
            BY <1>1, <3>1 DEF StartupTimeout, Quietly, Typed, Supervisor
        <3>2. CASE Unresponsive
            BY <1>1, <3>2 DEF Unresponsive, Quietly, Typed, Supervisor
        <3> QED BY <1>7, <3>1, <3>2
    <2> QED BY <1>3, <2>1
<1>8. CASE Settles
    <2>1. /\ sup'.child = sup.child /\ sup'.held = sup.held /\ sup'.streak = sup.streak
          /\ autos' = IF sup.child = None THEN autos ELSE 0
        BY <1>1, <1>8 DEF Settles, Typed, Supervisor
    <2>2. 0 <= sup.streak /\ 0 <= MaxAttempts
        BY <1>1
    <2>3. CASE sup.child = None
        BY <2>1, <2>3 DEF Spent
    <2>4. CASE sup.child # None
        <3>1. autos' = 0 /\ autos' <= sup'.streak /\ autos' <= MaxAttempts
            BY <2>1, <2>2, <2>4
        <3> QED BY <3>1 DEF Spent
    <2> QED BY <2>3, <2>4
<1>9. CASE Ages
    <2>1. PICK n \in 0..sup.streak, m \in 0..sup.hangs :
              sup' = [sup EXCEPT !.streak = n, !.hangs = m] /\ autos' = Least(autos, n)
        BY <1>9 DEF Ages
    <2>2. /\ sup'.streak = n /\ sup'.child = sup.child /\ sup'.held = sup.held
          /\ sup'.spawned = sup.spawned
        BY <1>1, <2>1 DEF Typed, Supervisor
    <2>3. n \in Nat /\ autos' <= n /\ autos' <= autos /\ autos' \in Nat
        BY <1>1, <2>1 DEF Least
    <2>4. autos <= MaxAttempts /\ (autos = 0 => autos' = 0)
        <3>1. autos <= MaxAttempts
            BY DEF Spent
        <3>2. autos = 0 => autos' = 0
            BY <2>3
        <3> QED BY <3>1, <3>2
    <2>5. autos' <= MaxAttempts
        BY <1>1, <2>3, <2>4
    <2>6. autos' <= sup'.streak
        BY <2>2, <2>3
    <2> QED BY <2>2, <2>4, <2>5, <2>6 DEF Spent
<1>10. CASE UNCHANGED vars
    BY <1>3, <1>10 DEF vars
<1> QED BY <1>4, <1>5, <1>6, <1>7, <1>8, <1>9, <1>10 DEF Next, Time

LEMMA SpentAlways ==
    ASSUME {"throwsAndExits", "refusesLate"} \cap Failures = {}
    PROVE  Spec => []Spent(sup, autos)
<1>1. "throwsAndExits" \notin Failures
    OBVIOUS
<1>2. Spec => []Agreed
    BY <1>1, AgreedAlways
<1>3. Init => Spent(sup, autos)
    BY SupervisorAssumption DEF Init, Spent
<1>4. Agreed /\ Agreed' /\ Spent(sup, autos) /\ [Next]_vars => Spent(sup, autos)'
    BY SpentStep
<1> QED BY <1>2, <1>3, <1>4, PTL DEF Spec

(* Restarts without a stable run or an act of the person between them stay  *)
(* within the budget of decideRestart, however deaths, settled runs and the *)
(* window of the history mix, if no worker dies twice and no launch is      *)
(* refused after the last one has become old.                               *)
THEOREM WithinBudget ==
    ASSUME {"throwsAndExits", "refusesLate"} \cap Failures = {}
    PROVE  Spec => []BudgetKept
<1>1. Spent(sup, autos) => BudgetKept
    BY DEF Spent, BudgetKept
<1> QED BY <1>1, SpentAlways, PTL

=============================================================================
