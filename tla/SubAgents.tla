----------------------------- MODULE SubAgents ------------------------------
(* Sub-agents and the slots they run in: the ledger of leases shared by all *)
(* engines of the app behind a lock file                                    *)
(* (src/src/core/subagent.capacity.ts), the manager that spawns, watches    *)
(* and settles the worker threads (subagent.manager.ts), the worker's own   *)
(* side (engine/worker.entry.ts), the board, and the tools that spawn and   *)
(* stop (spawn.tool.ts, tasks.tool.ts).  Every use of the ledger is a       *)
(* blocking operation of one thread, taken apart where other threads can    *)
(* come in between.                                                         *)
EXTENDS Naturals, Sequences, FiniteSets

CONSTANTS
    Engine,      \* threads that spawn
    Task,        \* sub-agents, each spawned once
    Parent,      \* the engine whose spawn tool makes the task
    None,        \* no task
    Waiting,     \* the engines whose transport's terminate() answers when the
                 \* worker has ended: a worker thread of its own, not one of
                 \* the desktop's bundle, whose terminate() answers at once
    Limit,       \* max: sub-agents at a time
    Faults,      \* subset of {"engineDies", "dies", "vanishes", "sleeps"}
    MaxFaults    \* bound: how many of them happen

ASSUME CapacityAssumption ==
    /\ Limit \in Nat \ {0} /\ MaxFaults \in Nat /\ None \notin Task
    /\ Engine \cap Task = {} /\ Parent \in [Task -> Engine] /\ Waiting \subseteq Engine
    /\ Faults \subseteq {"engineDies", "dies", "vanishes", "sleeps"}

VARIABLES
    lock,     \* the lock file: "free", "held", or "old" (LOCK_STALE_MS)
    ledger,   \* the tasks with a lease
    expired,  \* those whose lease is past expiresAt
    op,       \* per thread: the operation on the ledger under way
    up,       \* the engines that run
    agent,    \* per task: worker, messages to the parent, manager's state, board
    faults,   \* counter of the bound
    flaws     \* history: "sleep", the leases of workers expired while the
              \* machine slept; "steal", a lock was removed that someone held

vars == <<lock, ledger, expired, op, up, agent, faults, flaws>>

Thread == Engine \cup Task
NoOp == [do |-> "none", on |-> None, at |-> "", seen |-> {}]
Unspawned == [at |-> "none", ending |-> FALSE, says |-> <<>>, code |-> "",
              active |-> FALSE, beat |-> FALSE, owed |-> FALSE,
              board |-> "none", promise |-> "none"]

Init ==
    /\ lock = "free" /\ ledger = {} /\ expired = {}
    /\ op = [a \in Thread |-> NoOp]
    /\ up = Engine
    /\ agent = [t \in Task |-> Unspawned]
    /\ faults = 0 /\ flaws = {}

Alive(t) == agent[t].at \in {"booting", "working", "leaving"}
(* At work, or on its way out of it; but for a worker that nobody waits for *)
(* after its watchdog has ended it.                                         *)
Abandoned(t) == Parent[t] \notin Waiting /\ agent[t].ending /\ agent[t].promise # "open"
Executing(t) == agent[t].at \in {"booting", "working"} /\ ~Abandoned(t)
Fault(f) == f \in Faults /\ faults < MaxFaults /\ faults' = faults + 1
Idle(a) == op[a] = NoOp
ActiveWorkers(e) == {t \in Task : Parent[t] = e /\ agent[t].active}
Live == ledger \ expired
Waits(a, do, t) == op' = [op EXCEPT ![a] = [do |-> do, on |-> t, at |-> "open", seen |-> {}]]
(* An operation begins: the lock is taken at once where it is free.         *)
Begins(a, do, t) ==
    IF lock # "free" THEN Waits(a, do, t) /\ UNCHANGED lock
    ELSE /\ lock' = "held"
         /\ op' = [op EXCEPT ![a] = [do |-> do, on |-> t, at |-> "write", seen |-> Live]]
Ends(a) == op' = [op EXCEPT ![a] = NoOp]
Set(t, r) == agent' = [agent EXCEPT ![t] = r]
InSection(a) == op[a].at = "write"
Unlock(a) ==
    /\ lock' = "free"
    /\ flaws' = IF \E b \in Thread \ {a} : InSection(b) THEN flaws \cup {"steal"} ELSE flaws

-----------------------------------------------------------------------------
(* The ledger.                                                              *)

(* openSync(lock, 'wx'), and the ledger is read without the leases that are *)
(* past their time.                                                         *)
OpensLock(a) ==
    /\ op[a].at = "open" /\ lock = "free"
    /\ lock' = "held"
    /\ op' = [op EXCEPT ![a].at = "write", ![a].seen = Live]
    /\ UNCHANGED <<ledger, expired, up, agent, faults, flaws>>

(* The lock is found old, and removed: two steps, another file by then.     *)
FindsOldLock(a) ==
    /\ op[a].at = "open" /\ lock = "old"
    /\ op' = [op EXCEPT ![a].at = "steal"]
    /\ UNCHANGED <<lock, ledger, expired, up, agent, faults, flaws>>

StealsLock(a) ==
    /\ op[a].at = "steal"
    /\ Unlock(a) /\ op' = [op EXCEPT ![a].at = "open"]
    /\ UNCHANGED <<ledger, expired, up, agent, faults>>

Exited(t, code) == [agent[t] EXCEPT !.at = "exited", !.code = code, !.ending = FALSE]

(* The result or the error is posted, and the thread ends.                  *)
Posts(t, results) == \E r \in results :
    Set(t, [Exited(t, "0") EXCEPT !.says = Append(@, r)])

(* Fifty attempts were in vain: spawning is denied, a heartbeat or a        *)
(* release is skipped.                                                      *)
GivesUp(a) ==
    /\ op[a].at = "open" /\ lock # "free"
    /\ Ends(a)
    /\ CASE op[a].do = "acquire" -> Set(op[a].on, Unspawned)
         [] op[a].do = "boot" -> Posts(a, {"error"})
         [] op[a].do = "leave" -> Posts(a, {"success", "error"})
         [] OTHER -> UNCHANGED agent
    /\ UNCHANGED <<lock, ledger, expired, up, faults, flaws>>

(* Mutation: the tool has counted the active leases before.                 *)
RoomAnyway(seen) == TRUE
Room(seen) == Cardinality(seen) < Limit

(* acquire(), and the worker is created, or that fails and settles.         *)
Acquires(e, t) ==
    IF ~Room(op[e].seen) THEN Set(t, Unspawned) /\ Ends(e) /\ UNCHANGED ledger
    ELSE /\ ledger' = op[e].seen \cup {t}
         /\ \/ /\ Ends(e)
               /\ Set(t, [agent[t] EXCEPT !.at = "booting", !.active = TRUE, !.beat = TRUE,
                                          !.board = "running", !.promise = "open"])
            \/ /\ Waits(e, "release", t)
               /\ Set(t, [agent[t] EXCEPT !.at = "exited",
                                          !.board = "failed", !.promise = "rejected"])

(* The operation, the ledger replaced and the lock removed.                 *)
WritesLedger(a) ==
    /\ op[a].at = "write" /\ Unlock(a)
    /\ LET t == op[a].on
           s == op[a].seen
       IN  CASE op[a].do = "acquire" -> Acquires(a, t)
             [] op[a].do = "release" -> ledger' = s \ {t} /\ Ends(a) /\ UNCHANGED agent
             [] op[a].do = "boot" ->
                    /\ ledger' = s /\ Ends(a)
                    /\ Set(a, [agent[a] EXCEPT !.at = "working", !.says = Append(@, "ready")])
             [] op[a].do = "leave" ->
                    /\ ledger' = s \ {a} /\ Ends(a)
                    /\ Posts(a, {"success", "error"})
    /\ UNCHANGED <<expired, up, faults>>

Ledger(a) ==
    OpensLock(a) \/ FindsOldLock(a) \/ StealsLock(a) \/ GivesUp(a) \/ WritesLedger(a)

(* A heartbeat of a timer, in the moment it has the lock; one that does not *)
(* get it is skipped.  An expired lease is gone before it could be renewed. *)
Renews(a) ==
    /\ Idle(a) /\ lock = "free"
    /\ ledger' = Live
    /\ UNCHANGED <<lock, expired, op, up, agent, faults, flaws>>

-----------------------------------------------------------------------------
(* The worker.                                                              *)

WorkerStep(t, do, at) ==
    /\ Idle(t) /\ Begins(t, do, t)
    /\ Set(t, [agent[t] EXCEPT !.at = at])
    /\ UNCHANGED <<ledger, expired, up, faults, flaws>>

Boots(t) == agent[t].at = "booting" /\ WorkerStep(t, "boot", "booting")
Beats(t) == agent[t].at = "working" /\ Renews(t)

(* The agent returns or throws; it says so when its slot is given back.     *)
Finishes(t) == agent[t].at = "working" /\ WorkerStep(t, "leave", "leaving")

Exits(t, code) ==
    /\ agent[t].at \in {"booting", "working", "leaving"}
    /\ Ends(t) /\ Set(t, Exited(t, code))
    /\ UNCHANGED <<lock, ledger, expired, up, flaws>>

(* terminate() takes effect, wherever the thread is.                        *)
Terminates(t) == agent[t].ending /\ Exits(t, "1") /\ UNCHANGED faults
(* It dies of an error of its own, or ends without a word.                  *)
Dies(t) == ~InSection(t) /\ Exits(t, "1") /\ Fault("dies")
Vanishes(t) == agent[t].at = "working" /\ Idle(t) /\ Exits(t, "0") /\ Fault("vanishes")

-----------------------------------------------------------------------------
(* The manager and the tools.  All of it waits for a lease operation of     *)
(* its thread to end.                                                       *)

Handles(e, t) == e = Parent[t] /\ e \in up /\ Idle(e)

(* SpawnSubagentTool refuses by its own workers, and by a count of the      *)
(* ledger that decides nothing acquire() does not decide again.             *)
Spawns(e, t) ==
    /\ Handles(e, t) /\ agent[t] = Unspawned
    /\ Cardinality(ActiveWorkers(e)) < Limit
    /\ Begins(e, "acquire", t)
    /\ Set(t, [agent[t] EXCEPT !.at = "asked"])
    /\ UNCHANGED <<ledger, expired, up, faults, flaws>>

(* The parent renews the lease until the worker has booted.                 *)
ParentBeats(e, t) == Handles(e, t) /\ agent[t].beat /\ Renews(e)

(* Mutation: a slot that could not be given back is renewed for ever.       *)
FinalizedBeating(r) == [r EXCEPT !.active = FALSE, !.code = ""]

(* finalize(): no worker, no heartbeat, and the slot is given back.         *)
Finalized(r) == [r EXCEPT !.active = FALSE, !.beat = FALSE, !.code = ""]

Settles(e, t, r) == Set(t, Finalized(r)) /\ Begins(e, "release", t)

(* Mutation: what arrives late is taken.                                    *)
OpenAnyway(r) == TRUE
Open(r) == r.promise = "open"

OnMessage(e, t) ==
    /\ Handles(e, t) /\ agent[t].says # <<>>
    /\ LET r == [agent[t] EXCEPT !.says = Tail(@)]
           m == Head(agent[t].says)
       IN  IF ~Open(r) THEN Set(t, r) /\ UNCHANGED <<lock, op>>
           ELSE CASE m = "ready" -> Set(t, [r EXCEPT !.beat = FALSE]) /\ UNCHANGED <<lock, op>>
                  [] m = "success" -> Settles(e, t, [r EXCEPT !.board = "done", !.promise = "resolved"])
                  [] m = "error" -> Settles(e, t, [r EXCEPT !.board = "failed", !.promise = "rejected"])
    /\ UNCHANGED <<ledger, expired, up, faults, flaws>>

(* Mutation: the board is told only of an error that the worker posted.     *)
DiedUnmarked(r) == [r EXCEPT !.promise = "rejected"]
Died(r) == [r EXCEPT !.board = "failed", !.promise = "rejected"]

OnExit(e, t) ==
    /\ Handles(e, t) /\ agent[t].at = "exited" /\ agent[t].says = <<>> /\ Open(agent[t])
    /\ Settles(e, t, IF agent[t].code = "0" THEN [agent[t] EXCEPT !.promise = "empty"]
                     ELSE Died(agent[t]))
    /\ UNCHANGED <<ledger, expired, up, faults, flaws>>

(* The watchdog: the slot is given back when terminate() answers, which may *)
(* be at once, with the worker still running.                               *)
TimedOut(e, t) ==
    LET r == [Died(agent[t]) EXCEPT !.active = FALSE, !.ending = Alive(t), !.owed = e \in Waiting]
    IN  /\ IF e \in Waiting THEN Set(t, r) /\ UNCHANGED <<lock, op>> ELSE Settles(e, t, r)
        /\ UNCHANGED <<ledger, expired, up, faults, flaws>>

(* Mutation: the watchdog watches the boot alone.                           *)
TimesOutBooting(e, t) ==
    Handles(e, t) /\ Open(agent[t]) /\ agent[t].at = "booting" /\ TimedOut(e, t)

TimesOut(e, t) == Handles(e, t) /\ Open(agent[t]) /\ TimedOut(e, t)

Repays(e, t) ==
    /\ Handles(e, t) /\ agent[t].owed /\ agent[t].at = "exited"
    /\ Settles(e, t, [agent[t] EXCEPT !.owed = FALSE])
    /\ UNCHANGED <<ledger, expired, up, faults, flaws>>

(* The orchestrator stops it: killWorker() leaves the rest to its exit.     *)
Stops(e, t) ==
    /\ Handles(e, t) /\ agent[t].board = "running"
    /\ Set(t, [agent[t] EXCEPT !.board = "failed", !.active = FALSE,
                               !.ending = @ \/ (agent[t].active /\ Alive(t))])
    /\ UNCHANGED <<lock, ledger, expired, op, up, faults, flaws>>

-----------------------------------------------------------------------------
(* What happens to all of them.                                             *)

(* An engine ends, in the middle of anything, and its workers with it.      *)
EngineDies(e) ==
    /\ e \in up /\ Fault("engineDies")
    /\ up' = up \ {e}
    /\ LET mine == {t \in Task : Parent[t] = e}
       IN  /\ op' = [a \in Thread |-> IF a = e \/ a \in mine THEN NoOp ELSE op[a]]
           /\ agent' = [t \in Task |->
                  IF t \notin mine THEN agent[t]
                  ELSE [agent[t] EXCEPT !.at = IF Alive(t) THEN "exited" ELSE @]]
    /\ UNCHANGED <<lock, ledger, expired, flaws>>

(* The machine sleeps longer than a lease lives.                            *)
Sleeps ==
    /\ Fault("sleeps") /\ expired' = ledger
    /\ flaws' = IF \E t \in ledger : Executing(t) THEN flaws \cup {"sleep"} ELSE flaws
    /\ UNCHANGED <<lock, ledger, op, up, agent>>

(* A lease that nobody renews expires.                                      *)
Expires(t) ==
    /\ t \in ledger \ expired
    /\ ~Alive(t) /\ ~(Parent[t] \in up /\ agent[t].beat)
    /\ expired' = expired \cup {t}
    /\ UNCHANGED <<lock, ledger, op, up, agent, faults, flaws>>

(* A lock whose holder has gone becomes old.                                *)
LockAges ==
    /\ lock = "held" /\ \A a \in Thread : ~InSection(a)
    /\ lock' = "old"
    /\ UNCHANGED <<ledger, expired, op, up, agent, faults, flaws>>

Manager(e, t) == OnMessage(e, t) \/ OnExit(e, t) \/ TimesOut(e, t) \/ Repays(e, t)
Worker(t) == Boots(t) \/ Terminates(t)

Next ==
    \/ \E a \in Thread : Ledger(a)
    \/ \E t \in Task : Worker(t) \/ Beats(t) \/ Finishes(t) \/ Dies(t) \/ Vanishes(t) \/ Expires(t)
    \/ \E e \in Engine, t \in Task :
           Spawns(e, t) \/ ParentBeats(e, t) \/ Manager(e, t) \/ Stops(e, t)
    \/ \E e \in Engine : EngineDies(e)
    \/ Sleeps \/ LockAges

Spec == Init /\ [][Next]_vars

(* Operations on the ledger end, a lock and a lease age, terminated threads *)
(* end, and an engine takes its timers, messages and exits.                 *)
FairSpec ==
    /\ Spec /\ WF_vars(LockAges)
    /\ \A a \in Thread : WF_vars(Ledger(a))
    /\ \A t \in Task : WF_vars(Worker(t)) /\ WF_vars(Expires(t)) /\ WF_vars(Manager(Parent[t], t))

-----------------------------------------------------------------------------
(* Every variable has its type.                                             *)
TypeOK ==
    /\ lock \in {"free", "held", "old"}
    /\ ledger \subseteq Task /\ expired \subseteq Task /\ up \subseteq Engine
    /\ op \in [Thread -> [do : {"none", "acquire", "boot", "leave", "release"},
                          on : Task \cup {None}, at : {"", "open", "steal", "write"},
                          seen : SUBSET Task]]
    /\ agent \in [Task -> [at : {"none", "asked", "booting", "working", "leaving", "exited"},
                           ending : BOOLEAN, says : Seq({"ready", "success", "error"}),
                           code : {"", "0", "1"}, active : BOOLEAN, beat : BOOLEAN, owed : BOOLEAN,
                           board : {"none", "running", "done", "failed"},
                           promise : {"none", "open", "resolved", "empty", "rejected"}]]
    /\ faults \in 0..MaxFaults /\ flaws \subseteq {"sleep", "steal"}

(* Never more sub-agents at work than the limit, over all engines, those    *)
(* being ended included, whoever dies or finds the lock busy; but for a     *)
(* sleep, a stolen lock and a worker abandoned to its end by its watchdog.  *)
HardCap ==
    /\ TypeOK
    /\ flaws # {} \/ Cardinality({t \in Task : Executing(t)}) <= Limit

(* The board tells what the spawner was told: done when it got the result,  *)
(* failed when it got an error, running until then or until it is stopped;  *)
(* but for a worker that ended without a word.                              *)
BoardTrue == \A t \in Task : LET r == agent[t] IN
    /\ r.board = "done" => r.promise = "resolved"
    /\ r.promise = "rejected" => r.board = "failed"
    /\ r.board = "running" => r.promise \in {"open", "empty"}

(* A settled sub-agent stays as it was settled, whatever arrives later.     *)
StaysSettled == [][\A t \in Task :
    agent[t].promise \notin {"none", "open"} /\ agent[t].board # "running"
        => agent'[t].promise = agent[t].promise /\ agent'[t].board = agent[t].board]_vars

(* The slot of a worker that has gone is free in the end, also when giving  *)
(* it back failed or nobody is left to do it.                               *)
SlotReturns == \A t \in Task :
    (agent[t].at = "exited" /\ t \in ledger) ~> (t \notin ledger \ expired)

(* Every spawned sub-agent is settled while its engine runs.                *)
SpawnSettles == \A t \in Task :
    agent[t].promise = "open" ~> (agent[t].promise # "open" \/ Parent[t] \notin up)

=============================================================================
