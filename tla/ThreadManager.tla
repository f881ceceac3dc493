---------------------------- MODULE ThreadManager ----------------------------
(***************************************************************************)
(* ThreadManager (app/src/main/thread.manager.ts): the queue of every      *)
(* thread, which thread may work in a folder, starting and stopping        *)
(* engines, resuming a conversation, and what a failed save or a crash     *)
(* does to a message.  One action per public method, per kind of engine    *)
(* message it receives, per lifecycle phase and per timer.                 *)
(***************************************************************************)
EXTENDS EngineLink

FirstOf(S) == CHOOSE i \in S : \A j \in S : i <= j

-----------------------------------------------------------------------------
(* Dispatch *)

(* Mutation: a worker that is still exiting does not hold its folder.       *)
FolderTakenByStatus(m, t) ==
    \E u \in Thread \ {t} : Overlap(t, u) /\ m[u].status \in {"working", "needs-you"}

(* Another thread is working, waiting for a decision or still stopping in   *)
(* this folder or in one around or inside it.                               *)
FolderTaken(m, t) ==
    \E u \in Thread \ {t} :
        /\ Overlap(t, u)
        /\ m[u].status \in {"working", "needs-you"} \/ m[u].draining # NoSlot

(* The guards of pump().                                                    *)
CanPump(m, t) ==
    /\ m[t].ready /\ m[t].cards = {} /\ m[t].status # "working"
    /\ m[t].queue # <<>> /\ ~m[t].hold /\ ~m[t].blocked
    /\ m[t].draining = NoSlot
    /\ ~FolderTaken(m, t)

(* A message prepareInput refuses is dropped with a note and the next one   *)
(* is tried.                                                                *)
Sendable(q) == {i \in DOMAIN q : q[i] \notin Unpreparable}
Refused(q) == IF Sendable(q) = {} THEN q ELSE SubSeq(q, 1, FirstOf(Sendable(q)) - 1)
Skip(q) == IF Sendable(q) = {} THEN <<>> ELSE SubSeq(q, FirstOf(Sendable(q)), Len(q))

(* Mutation: a message leaves the queue without being recorded as sent.     *)
PumpedUnrecorded(r) ==
    LET q == Skip(r.queue) IN
    IF q = <<>> \/ ~diskOk THEN [r EXCEPT !.queue = q]
    ELSE [r EXCEPT !.queue = Tail(q), !.status = "working"]

(* What one pump does to the thread: nothing left to send, a message sent,  *)
(* or the failed save of its sent-state that blocks the thread.             *)
PumpedThread(r) ==
    LET q == Skip(r.queue) IN
    IF q = <<>> THEN [r EXCEPT !.queue = q]
    ELSE IF diskOk
         THEN [r EXCEPT !.queue = Tail(q), !.sent = @ \cup {Head(q)}, !.status = "working"]
         ELSE [r EXCEPT !.queue = q, !.status = "idle", !.blocked = TRUE]

(* Every thread of `who` is pumped in start order.  A thread that goes      *)
(* takes its folder from the ones after it, so the set that goes is the     *)
(* greedy one: a thread is tried unless an earlier one of its folder goes.  *)
Goes(m, tried) == IF diskOk THEN {t \in tried : Skip(m[t].queue) # <<>>} ELSE {}
TriedInOrder(m, who, tried) ==
    tried = {t \in who : /\ CanPump(m, t)
                         /\ \A u \in Goes(m, tried) : ~(Overlap(t, u) /\ Rank[u] < Rank[t])}

(* Mutation: every save waits for the flush.                                *)
SaveLater(now, later) ==
    store' = [t \in Thread |->
        IF t \in now \cup later THEN [store[t] EXCEPT !.last = Copy(th'[t])] ELSE store[t]]

(* ThreadStorage: `now` are the threads written before the handler returns, *)
(* `later` those handed over for the next flush.                            *)
Save(now, later) ==
    store' = [t \in Thread |->
        IF t \in now /\ diskOk THEN [disk |-> Copy(th'[t]), last |-> Copy(th'[t])]
        ELSE IF t \in now \cup later THEN [store[t] EXCEPT !.last = Copy(th'[t])]
        ELSE store[t]]

(* The end of a handler: threads m and ports l as it left them, the pumps   *)
(* it runs, the saves it makes, and the messages it told the person about.  *)
(* The supervisor of an engine that is not up drops the input.              *)
Finish(m, l, who, now, later, dropped) ==
    \E tried \in SUBSET who :
        /\ TriedInOrder(m, who, tried)
        /\ th' = [t \in Thread |-> IF t \in tried THEN PumpedThread(m[t]) ELSE m[t]]
        /\ link' = [t \in Thread |->
               IF t \in Goes(m, tried) /\ Delivers(t)
               THEN [l[t] EXCEPT !.down = Append(@, Carry("input", Head(Skip(m[t].queue))))]
               ELSE l[t]]
        /\ told' = told \cup dropped
                        \cup UNION {Elements(Refused(m[t].queue)) : t \in tried}
        /\ Save(now \cup tried, later)

-----------------------------------------------------------------------------
(* Starting and stopping an engine *)

Live == {t \in Thread : th[t].eng # NoSlot}
FreeSlots == {e \in Slot : engine[e].state = "free"}

(* Engines that can be handed back without costing the person work.         *)
Reclaimable ==
    {t \in Thread \ OnScreen :
        /\ th[t].eng # NoSlot /\ th[t].status = "idle"
        /\ th[t].queue = <<>> /\ th[t].sent = {} /\ th[t].cards = {}
        /\ th[t].draining = NoSlot}

(* Mutations: a stop forgets to wait for the exit, or leaves the            *)
(* interrupted message recorded as sent.                                    *)
StoppedUndrained(r, keep) ==
    [r EXCEPT !.queue = IF keep THEN @ ELSE <<>>, !.sent = {}, !.cards = {},
              !.eng = NoSlot, !.ready = FALSE, !.armed = FALSE, !.hold = FALSE,
              !.status = "stopped"]
StoppedSent(r, keep) ==
    [r EXCEPT !.queue = IF keep THEN @ ELSE <<>>, !.cards = {},
              !.eng = NoSlot, !.ready = FALSE, !.armed = FALSE, !.hold = FALSE,
              !.draining = IF r.eng = NoSlot THEN @ ELSE r.eng, !.status = "stopped"]

(* stop(): `keep` is for restarts, which must not lose queued messages.     *)
Stopped(r, keep) ==
    [r EXCEPT !.queue = IF keep THEN @ ELSE <<>>, !.sent = {}, !.cards = {},
              !.eng = NoSlot, !.ready = FALSE, !.armed = FALSE, !.hold = FALSE,
              !.draining = IF r.eng = NoSlot THEN @ ELSE r.eng,
              !.status = "stopped"]
Started(r, e) ==
    [r EXCEPT !.eng = e, !.ready = FALSE, !.resume = r.session, !.status = "starting"]

(* Mutation: the limit is off by one.                                       *)
OpeningsOverLimit(t) ==
    IF th[t].eng # NoSlot THEN {[victim |-> NoThread, slot |-> NoSlot]}
    ELSE [victim : IF Cardinality(Live) <= MaxLive THEN {NoThread} ELSE Reclaimable,
          slot : FreeSlots]

(* How start() can get t an engine: it has one, there is room, or an idle   *)
(* engine is stopped to make room.  With none of these start() throws.      *)
Openings(t) ==
    IF th[t].eng # NoSlot THEN {[victim |-> NoThread, slot |-> NoSlot]}
    ELSE [victim : IF Cardinality(Live) < MaxLive THEN {NoThread} ELSE Reclaimable,
          slot : FreeSlots]

Opened(o, t) ==
    IF o.slot = NoSlot THEN th
    ELSE [u \in Thread |-> IF u = t THEN Started(th[t], o.slot)
                           ELSE IF u = o.victim THEN Stopped(th[u], TRUE)
                           ELSE th[u]]
PortsOpened(o, t) ==
    IF o.slot = NoSlot THEN link
    ELSE [u \in Thread |-> IF u \in {t, o.victim} THEN Closed ELSE link[u]]
OpenEngine(o, t) ==
    engine' = [e \in Slot |->
        IF o.slot = NoSlot THEN engine[e]
        ELSE IF e = o.slot THEN BootingFor(t)
        ELSE IF o.victim # NoThread /\ e = th[o.victim].eng
             THEN [engine[e] EXCEPT !.state = "exiting"]
        ELSE engine[e]]
(* Stopping the victim pumps every thread; t itself is not ready then.      *)
PumpedOnOpening(o) == IF o.victim = NoThread THEN {} ELSE Thread
ToldOnOpening(o) == IF o.victim = NoThread THEN {} ELSE th[o.victim].sent

Dispose(e) == IF e = NoSlot THEN engine ELSE [engine EXCEPT ![e].state = "exiting"]
Pending(r) == Elements(r.queue) \cup r.sent

History(u, a) == used' = used \cup u /\ accepted' = accepted \cup a
Silent == UNCHANGED <<diskOk, used, accepted, ran>>

-----------------------------------------------------------------------------
(* What the person does *)

(* A new message is queued; it also ends the hold of a failed resume.       *)
Queued(r, m) ==
    [r EXCEPT !.queue = Append(@, m), !.blocked = ~diskOk, !.hold = FALSE,
              !.cards = IF r.hold THEN @ \ {"choice"} ELSE @]

Submit(t, m) ==
    /\ m \notin used /\ Len(th[t].queue) < QueueLimit
    /\ \E o \in Openings(t) :
        /\ OpenEngine(o, t)
        /\ Finish([Opened(o, t) EXCEPT ![t] = Queued(@, m)], PortsOpened(o, t),
                  PumpedOnOpening(o) \cup (IF diskOk THEN {t} ELSE {}),
                  {t}, {o.victim} \cap Thread, ToldOnOpening(o))
    /\ History({m}, IF diskOk THEN {m} ELSE {})
    /\ UNCHANGED <<diskOk, ran>>

(* No room for an engine: submit() throws, after it has ended the hold.     *)
SubmitRefused(t) ==
    /\ th[t].eng = NoSlot /\ th[t].hold
    /\ Cardinality(Live) >= MaxLive /\ Reclaimable = {}
    /\ th' = [th EXCEPT ![t].hold = FALSE, ![t].cards = @ \ {"choice"}]
    /\ UNCHANGED <<store, link, engine, told>> /\ Silent

(* Steering goes to the running turn; it is saved as sent before it is sent.*)
Steerable(r) ==
    /\ r.ready /\ r.eng # NoSlot /\ r.status \in {"working", "needs-you"}
    /\ r.draining = NoSlot /\ ~r.hold /\ ~r.blocked

Steered(r, m) ==
    IF diskOk THEN [r EXCEPT !.sent = @ \cup {m}]
    ELSE [r EXCEPT !.queue = Append(@, m), !.blocked = TRUE]

Steer(t, m) ==
    /\ "steer" \in Allowed /\ m \notin used /\ Steerable(th[t])
    /\ Finish([th EXCEPT ![t] = Steered(@, m)],
              IF diskOk /\ Delivers(t)
              THEN [link EXCEPT ![t].down = Append(@, Carry("steer", m))] ELSE link,
              {}, {t}, {}, {})
    /\ History({m}, IF diskOk THEN {m} ELSE {})
    /\ UNCHANGED <<engine, diskOk, ran>>

(* Interrupt cancels the turn and everything queued behind it.              *)
Interrupt(t) ==
    /\ "interrupt" \in Allowed /\ Len(link[t].down) < LinkLimit
    /\ Finish([th EXCEPT ![t].queue = <<>>, ![t].sent = {}, ![t].cards = {}],
              IF Delivers(t) THEN [link EXCEPT ![t].down = Append(@, Signal("interrupt"))]
              ELSE link,
              {}, {}, {t}, Pending(th[t]))
    /\ UNCHANGED engine /\ Silent

CancelQueued(t) ==
    /\ "cancel" \in Allowed /\ th[t].queue # <<>>
    /\ Finish([th EXCEPT ![t].queue = <<>>], link, {}, {t}, {}, Elements(th[t].queue))
    /\ UNCHANGED engine /\ Silent

(* Without "restop" no engine is disposed of while an earlier one of the    *)
(* thread is still exiting.                                                 *)
MayDispose(t) == th[t].eng = NoSlot \/ th[t].draining = NoSlot \/ "restop" \in Allowed

Stop(t) ==
    /\ "stop" \in Allowed /\ MayDispose(t)
    /\ Finish([th EXCEPT ![t] = Stopped(@, FALSE)], [link EXCEPT ![t] = Closed],
              Thread, {}, {t}, Pending(th[t]))
    /\ engine' = Dispose(th[t].eng) /\ Silent

(* Stopped to free memory (the idle sweep) or by quitting: messages kept.   *)
Reap(t) ==
    /\ "restart" \in Allowed /\ MayDispose(t) /\ t \in Reclaimable
    /\ Finish([th EXCEPT ![t] = Stopped(@, TRUE)], [link EXCEPT ![t] = Closed],
              Thread, {}, {t}, th[t].sent)
    /\ engine' = Dispose(th[t].eng) /\ Silent

(* A new engine for new settings: stop keeping the queue, then start.       *)
Restart(t) ==
    /\ "restart" \in Allowed /\ MayDispose(t) /\ th[t].eng # NoSlot
    /\ \E e \in FreeSlots :
        /\ Finish([th EXCEPT ![t] = Started(Stopped(@, TRUE), e)],
                  [link EXCEPT ![t] = Closed], Thread, {}, {t}, th[t].sent)
        /\ engine' = [Dispose(th[t].eng) EXCEPT ![e] = BootingFor(t)]
    /\ Silent

(* Opening a thread starts its engine without a message.                    *)
Start(t) ==
    /\ "restart" \in Allowed /\ th[t].eng = NoSlot
    /\ \E o \in Openings(t) :
        /\ OpenEngine(o, t)
        /\ Finish(Opened(o, t), PortsOpened(o, t), PumpedOnOpening(o),
                  {}, {t, o.victim} \cap Thread, ToldOnOpening(o))
    /\ Silent

(* The answer to a question of the engine.                                  *)
Reply(t, c) ==
    /\ c \in th[t].cards \cap EngineCard
    /\ Finish([th EXCEPT ![t].cards = @ \ {c}, ![t].status = "working"],
              IF Delivers(t) THEN [link EXCEPT ![t].down = Append(@, Answer(c))] ELSE link,
              {}, {}, {t}, {})
    /\ UNCHANGED engine /\ Silent

(* The answer to the choice a failed resume raised.  "Show saved            *)
(* conversations" and "keep my message" leave the message held.             *)
ResumeChoice(t, fresh) ==
    /\ "choice" \in th[t].cards
    /\ Finish([th EXCEPT ![t].cards = @ \ {"choice"}, ![t].status = "idle",
                         ![t].hold = @ /\ ~fresh],
              link, IF fresh THEN {t} ELSE {}, {}, {t}, {})
    /\ UNCHANGED engine /\ Silent

(* A slash command goes past the queue to the engine, and picking a saved   *)
(* conversation from its list likewise; both change nothing here.           *)
PassThrough(t, k) ==
    /\ IF k = "command" THEN "command" \in Allowed
       ELSE k = "pick" /\ "resume" \in Allowed /\ th[t].hold
    /\ Delivers(t) /\ Len(link[t].down) + Len(link[t].up) < LinkLimit
    /\ link' = [link EXCEPT ![t].down = Append(@, Signal(k))]
    /\ UNCHANGED <<th, store, engine, told>> /\ Silent

-----------------------------------------------------------------------------
(* What the engine says *)

(* A resume that could not happen: the thread is usable again, and its      *)
(* messages are held until the person chooses.                              *)
ResumeFailed(r) ==
    LET f == [r EXCEPT !.armed = FALSE, !.resume = FALSE, !.session = FALSE,
                       !.ready = TRUE, !.status = "idle"] IN
    IF r.queue = <<>> THEN f
    ELSE [f EXCEPT !.hold = TRUE, !.cards = @ \cup {"choice"}, !.status = "needs-you"]

ResumeTook(r) ==
    [r EXCEPT !.armed = FALSE, !.resume = FALSE, !.session = TRUE,
              !.ready = TRUE, !.status = "idle"]

(* Mutation: a resuming engine counts as ready at once.                     *)
ReadyAtOnce(r) == [r EXCEPT !.ready = TRUE, !.status = "idle", !.armed = r.resume]

Ready(r) ==
    IF r.resume THEN [r EXCEPT !.ready = FALSE, !.status = "starting", !.armed = TRUE]
    ELSE [r EXCEPT !.ready = TRUE, !.status = "idle"]

(* Mutation: idle ends only a turn that still has a message.               *)
IdleWithSent(r) ==
    IF "choice" \in r.cards THEN [r EXCEPT !.cards = {"choice"}]
    ELSE IF r.sent = {} THEN [r EXCEPT !.cards = {}]
    ELSE [r EXCEPT !.cards = {}, !.status = "idle", !.sent = {}]

(* An idle engine ends the turn, unless it waits on the manager's own card. *)
Idle(r) ==
    IF "choice" \in r.cards THEN [r EXCEPT !.cards = {"choice"}]
    ELSE [r EXCEPT !.cards = {}, !.status = "idle",
                   !.sent = IF r.status \in {"working", "needs-you"} THEN {} ELSE @]

Heard(r, msg) ==
    CASE msg.kind = "ready"    -> Ready(r)
      [] msg.kind = "ask"      -> [r EXCEPT !.cards = @ \cup {msg.card}, !.status = "needs-you"]
      [] msg.kind = "unused"   -> [r EXCEPT !.queue = msg.msgs \o @]
      [] msg.kind = "idle"     -> Idle(r)
      [] msg.kind = "restored" /\ r.resume -> ResumeTook(r)
      [] msg.kind \in {"restored", "picked"} /\ ~r.resume ->
            [r EXCEPT !.session = @ \/ r.hold, !.hold = FALSE]
      [] msg.kind = "restoreFailed" /\ r.resume -> ResumeFailed(r)
      [] OTHER -> r

(* Every message ends by dispatching what waits, for all threads, when this *)
(* one is idle.                                                             *)
PumpedAfter(r) == IF r.ready /\ r.status = "idle" THEN Thread ELSE {}

Receive(t) ==
    /\ link[t].up # <<>>
    /\ LET msg == Head(link[t].up)
           r == Heard(th[t], msg)
           l == [link EXCEPT ![t].up = Tail(@)]
       IN Finish([th EXCEPT ![t] = r],
                 IF msg.kind = "ready" /\ th[t].resume /\ Delivers(t)
                 THEN [l EXCEPT ![t].down = Append(@, Signal("resume"))] ELSE l,
                 PumpedAfter(r), {}, {t}, {})
    /\ UNCHANGED engine /\ Silent

(* The heartbeat and the snapshot that names the engine's conversation.     *)
Heartbeat(t) ==
    /\ Delivers(t)
    /\ LET r == [th[t] EXCEPT !.session = @ \/ ("resume" \in Allowed /\ ~th[t].resume)]
       IN Finish([th EXCEPT ![t] = r], link, PumpedAfter(r), {}, {t}, {})
    /\ UNCHANGED engine /\ Silent

-----------------------------------------------------------------------------
(* What happens to the engine, to the disk, to the app, and timers *)

ResumeDeadline(t) ==
    /\ th[t].armed
    /\ LET r == [th[t] EXCEPT !.armed = FALSE]
       IN Finish([th EXCEPT ![t] = IF r.eng # NoSlot /\ r.resume THEN ResumeFailed(r) ELSE r],
                 link, {}, {}, {t}, {})
    /\ UNCHANGED engine /\ Silent

(* Mutations: the queue goes with the engine, a pending decision survives   *)
(* its engine, the message being worked on goes back to the queue, or the   *)
(* supervisor's phase leaks into the status.                                *)
CutOffDropping(r, status) ==
    [r EXCEPT !.ready = FALSE, !.cards = {}, !.queue = <<>>, !.sent = {}, !.status = status]
CutOffWaiting(r, status) ==
    [r EXCEPT !.ready = FALSE, !.cards = {}, !.sent = {},
              !.status = IF @ = "needs-you" THEN @ ELSE status]
CutOffRequeues(r, status) ==
    [r EXCEPT !.ready = FALSE, !.cards = {}, !.sent = {}, !.status = status,
              !.queue = IF r.sent = {} THEN @ ELSE <<CHOOSE m \in r.sent : TRUE>> \o @]
CutOffByPhase(r, status) ==
    [r EXCEPT !.ready = FALSE, !.cards = {}, !.sent = {},
              !.status = IF status = "starting" THEN "restarting" ELSE status]

(* Every phase in which the engine stops serving: the queue is kept, the    *)
(* message being worked on is reported and not sent again.                  *)
CutOff(r, status) ==
    [r EXCEPT !.ready = FALSE, !.cards = {}, !.sent = {}, !.status = status]

(* The worker died and its supervisor starts another in its place.          *)
EngineRestarts(t) ==
    /\ "engineCrash" \in Allowed /\ th[t].eng # NoSlot
    /\ engine[th[t].eng].state \in {"boot", "up"}
    /\ Finish([th EXCEPT ![t] = CutOff(@, "starting")], [link EXCEPT ![t] = Closed],
              {}, {}, {t}, th[t].sent)
    /\ engine' = [engine EXCEPT ![th[t].eng] = BootingFor(t)] /\ Silent

(* The supervisor is told to stop the engine; it stays the thread's engine  *)
(* until it has exited.                                                     *)
EngineStopping(t) ==
    /\ "engineStop" \in Allowed /\ th[t].eng # NoSlot
    /\ engine[th[t].eng].state \in {"boot", "up"}
    /\ Finish([th EXCEPT ![t] = CutOff(@, "stopped")], [link EXCEPT ![t] = Closed],
              {}, {}, {t}, th[t].sent)
    /\ engine' = [engine EXCEPT ![th[t].eng].state = "stopping"] /\ Silent

(* The engine failed or exited for good.  Disposing it confirms at once, so *)
(* nothing drains afterwards and every thread is pumped.                    *)
EngineGone(t) ==
    /\ th[t].eng # NoSlot /\ MayDispose(t)
    /\ engine[th[t].eng].state = "stopping" \/ "engineGone" \in Allowed
    /\ Finish([th EXCEPT ![t] = [CutOff(@, "stopped") EXCEPT
                    !.eng = NoSlot, !.armed = FALSE, !.draining = NoSlot]],
              [link EXCEPT ![t] = Closed], Thread, {}, {t}, th[t].sent)
    /\ engine' = [engine EXCEPT ![th[t].eng] = FreeWorker] /\ Silent

(* Mutation: the exit frees the worker but not the folder.                  *)
DrainedForNothing(e) ==
    /\ engine[e].state = "exiting"
    /\ Finish(th, link, Thread, {}, {}, {})
    /\ engine' = [engine EXCEPT ![e] = FreeWorker] /\ Silent

(* A disposed worker has exited: its folder is free when it is the one the  *)
(* thread waits for, and what waits is dispatched.                          *)
Drained(e) ==
    /\ engine[e].state = "exiting"
    /\ LET t == engine[e].owner
       IN Finish([th EXCEPT ![t].draining = IF @ = e THEN NoSlot ELSE @],
                 link, Thread, {}, {}, {})
    /\ engine' = [engine EXCEPT ![e] = FreeWorker] /\ Silent

Flush(t) ==
    /\ diskOk /\ store[t].disk # store[t].last
    /\ store' = [store EXCEPT ![t].disk = store[t].last]
    /\ UNCHANGED <<th, link, engine, told>> /\ Silent

DiskTurns ==
    /\ "diskFail" \in Allowed
    /\ diskOk' = ~diskOk
    /\ UNCHANGED <<th, store, link, engine, used, accepted, told, ran>>

(* Mutation: the message that was being worked on is sent again.            *)
AdoptedResending(s) ==
    [eng |-> NoSlot, ready |-> FALSE, status |-> "stopped",
     queue |-> IF s.sent = {} THEN s.queue ELSE <<CHOOSE m \in s.sent : TRUE>> \o s.queue,
     sent |-> {}, cards |-> {}, hold |-> FALSE, blocked |-> FALSE,
     draining |-> NoSlot, resume |-> FALSE, armed |-> FALSE, session |-> s.session]

(* The app dies, its workers with it, and comes back: every thread is       *)
(* adopted, stopped, from what is on disk; a message that was being worked  *)
(* on is reported.                                                          *)
Adopted(s) ==
    [eng |-> NoSlot, ready |-> FALSE, status |-> "stopped", queue |-> s.queue,
     sent |-> {}, cards |-> {}, hold |-> FALSE, blocked |-> FALSE,
     draining |-> NoSlot, resume |-> FALSE, armed |-> FALSE, session |-> s.session]

AppCrash ==
    /\ "appCrash" \in Allowed
    /\ th' = [t \in Thread |-> Adopted(store[t].disk)]
    /\ store' = [t \in Thread |-> [disk |-> store[t].disk, last |-> store[t].disk]]
    /\ link' = [t \in Thread |-> Closed]
    /\ engine' = [e \in Slot |-> FreeWorker]
    /\ told' = told \cup UNION {store[t].disk.sent : t \in Thread}
    /\ Silent

ManagerStep(t) ==
    \/ \E m \in Msg : Submit(t, m) \/ Steer(t, m)
    \/ SubmitRefused(t) \/ Interrupt(t) \/ CancelQueued(t)
    \/ Stop(t) \/ Reap(t) \/ Restart(t) \/ Start(t)
    \/ \E c \in EngineCard : Reply(t, c)
    \/ \E fresh \in BOOLEAN : ResumeChoice(t, fresh)
    \/ \E k \in {"command", "pick"} : PassThrough(t, k)
    \/ Receive(t) \/ Heartbeat(t) \/ ResumeDeadline(t)
    \/ EngineRestarts(t) \/ EngineStopping(t) \/ EngineGone(t)
    \/ Flush(t)
=============================================================================
