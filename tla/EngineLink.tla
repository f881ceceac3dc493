----------------------------- MODULE EngineLink -----------------------------
(***************************************************************************)
(* The state that the desktop's thread manager and the engines it runs     *)
(* share.  A thread (a folder-bound conversation) has at most one current  *)
(* engine.  An engine is a worker of the app that occupies a slot until it *)
(* has exited; the manager and the engine talk over two FIFO ports.        *)
(*                                                                         *)
(* ThreadManager holds the manager's handlers, EngineSession the engine's, *)
(* ThreadSystem composes them.                                             *)
(***************************************************************************)
EXTENDS Integers, Sequences, FiniteSets

CONSTANTS
    Thread,         \* threads in the list
    Msg,            \* the messages the person may send, each at most once
    Slot,           \* room for engine workers, current and still exiting
    NoThread, NoSlot, NoRun,
    OwnTurn,        \* an engine's own continuation turn (no user message)
    Overlapping,    \* the pairs {t, u} whose folders are equal or nested
    Rank,           \* start order: priority first, then creation
    QueueLimit,     \* queued messages a thread takes (20 in the code)
    MaxLive,        \* live engines the machine affords (at most 4 in the code)
    OnScreen,       \* threads in a window, never stopped to make room
    Resumable,      \* threads saved with a conversation to resume
    Unpreparable,   \* messages prepareInput refuses when they are dispatched
    LinkLimit,      \* bound: messages in flight one way on a port
    Allowed         \* which events of the environment this instance has

Events == {"steer", "interrupt", "cancel", "stop", "restop", "restart",
           "command", "resume", "ask", "auto", "engineCrash", "engineGone",
           "engineStop", "appCrash", "diskFail"}

ASSUME ConstantsAssumption ==
    /\ NoThread \notin Thread /\ NoSlot \notin Slot
    /\ NoRun \notin Msg /\ OwnTurn \notin Msg /\ OwnTurn # NoRun
    /\ \A p \in Overlapping : \E t, u \in Thread : t # u /\ p = {t, u}
    /\ Rank \in [Thread -> Nat]
    /\ \A t, u \in Thread : Rank[t] = Rank[u] => t = u
    /\ QueueLimit \in Nat /\ MaxLive \in Nat /\ LinkLimit \in Nat
    /\ OnScreen \subseteq Thread /\ Resumable \subseteq Thread
    /\ Unpreparable \subseteq Msg
    /\ Allowed \subseteq Events

VARIABLES
    th,         \* the manager's LiveThread per thread
    store,      \* what ThreadStorage has of it: on disk, and last handed over
    link,       \* the two ports to its current engine
    engine,     \* the workers
    diskOk      \* whether a write succeeds now

(* History: what the properties talk about, never read by an action's guard *)
(* except `used`, which numbers the person's messages.                      *)
VARIABLES
    used,       \* messages the person has sent
    accepted,   \* messages the manager accepted and saved before returning
    told,       \* messages dropped by the person's own act or with a note
    ran         \* how many times an engine began to act on each message

memory  == <<th, link, engine>>
history == <<used, accepted, told, ran>>
vars    == <<th, store, link, engine, diskOk, used, accepted, told, ran>>

-----------------------------------------------------------------------------
Elements(s) == {s[i] : i \in DOMAIN s}

Status == {"idle", "starting", "working", "needs-you", "stopped"}

(* "turn": the engine asks inside a turn.  "command": a slash command asks, *)
(* with no turn.  "choice": the manager's own card after a failed resume.   *)
EngineCard == {"turn", "command"}
Card == EngineCard \cup {"choice"}

LiveThread ==
    [eng      : Slot \cup {NoSlot},   \* current engine
     ready    : BOOLEAN,
     status   : Status,
     queue    : Seq(Msg),             \* inputs "queued", oldest first
     sent     : SUBSET Msg,           \* inputs "sent", turn not over
     cards    : SUBSET Card,          \* pending approvals
     hold     : BOOLEAN,              \* holdInputs
     blocked  : BOOLEAN,              \* storageBlocked
     draining : Slot \cup {NoSlot},   \* the worker whose exit is awaited
     resume   : BOOLEAN,              \* resumeWanted
     armed    : BOOLEAN,              \* resumeDeadline
     session  : BOOLEAN]              \* summary.sessionId

(* The part of a thread that storage keeps and a restart of the app reads.  *)
Copy(r) == [queue |-> r.queue, sent |-> r.sent, session |-> r.session]
Saved == [queue : Seq(Msg), sent : SUBSET Msg, session : BOOLEAN]
Stored == [disk : Saved, last : Saved]

Carry(k, m)  == [kind |-> k, msg |-> m]
Signal(k)    == [kind |-> k]
Answer(c)    == [kind |-> "reply", card |-> c]
Question(c)  == [kind |-> "ask", card |-> c]
Unused(s)    == [kind |-> "unused", msgs |-> s]

Inbound  == [kind : {"input", "steer"}, msg : Msg]
            \cup [kind : {"interrupt", "resume", "pick", "command"}]
            \cup [kind : {"reply"}, card : EngineCard]
Outbound == [kind : {"ready", "idle", "restored", "picked", "restoreFailed"}]
            \cup [kind : {"ask"}, card : EngineCard]
            \cup [kind : {"unused"}, msgs : Seq(Msg)]
Ports    == [down : Seq(Inbound), up : Seq(Outbound)]
Closed   == [down |-> <<>>, up |-> <<>>]

(* "stopping": told to stop by its supervisor while still the thread's      *)
(* engine.  "exiting": disposed, its ports closed, the worker not yet gone. *)
WorkerRecord ==
    [state  : {"free", "boot", "up", "stopping", "exiting"},
     owner  : Thread \cup {NoThread},
     run    : Msg \cup {NoRun, OwnTurn},   \* the turn in progress
     steers : Seq(Msg),                    \* steering inbox
     asking : SUBSET EngineCard]
Employed == {"boot", "up", "stopping"}
Worker == {w \in WorkerRecord : w.state \in Employed => w.owner \in Thread}
FreeWorker == [state |-> "free", owner |-> NoThread, run |-> NoRun,
               steers |-> <<>>, asking |-> {}]
BootingFor(t) == [FreeWorker EXCEPT !.state = "boot", !.owner = t]

Overlap(t, u) == {t, u} \in Overlapping

(* The worker that t's messages reach, when its supervisor delivers them.   *)
Delivers(t) == th[t].eng # NoSlot /\ engine[th[t].eng].state = "up"
=============================================================================
