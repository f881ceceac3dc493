---------------------------- MODULE ThreadSystem ----------------------------
(***************************************************************************)
(* The manager and the engines together: every interleaving of what the    *)
(* person does, what the engines say, and what fails.                      *)
(***************************************************************************)
EXTENDS ThreadManager, EngineSession

(* A thread is new (idle, no conversation) or was saved with a conversation *)
(* before and adopted, stopped, when the app opened.                        *)
InitialThread(t) ==
    [Adopted([queue |-> <<>>, sent |-> {}, session |-> t \in Resumable])
        EXCEPT !.status = IF t \in Resumable THEN "stopped" ELSE "idle"]

Init ==
    /\ th = [t \in Thread |-> InitialThread(t)]
    /\ store = [t \in Thread |->
                   [disk |-> Copy(InitialThread(t)), last |-> Copy(InitialThread(t))]]
    /\ link = [t \in Thread |-> Closed]
    /\ engine = [e \in Slot |-> FreeWorker]
    /\ diskOk = TRUE
    /\ used = {} /\ accepted = {} /\ told = {}
    /\ ran = [m \in Msg |-> 0]

Next ==
    \/ \E t \in Thread : ManagerStep(t)
    \/ \E e \in Slot : EngineStep(e) \/ Drained(e)
    \/ DiskTurns \/ AppCrash

Spec == Init /\ [][Next]_vars

(* Timers fire, ports deliver, workers run and exit, and the storage writes *)
(* while it can; the person answers what is asked.                          *)
Fairness ==
    /\ \A t \in Thread :
        /\ WF_vars(Receive(t)) /\ WF_vars(Heartbeat(t)) /\ WF_vars(ResumeDeadline(t))
        /\ WF_vars(\E c \in EngineCard : Reply(t, c))
        /\ WF_vars(\E fresh \in BOOLEAN : ResumeChoice(t, fresh))
    /\ \A e \in Slot :
        /\ WF_vars(Drained(e)) /\ WF_vars(Boot(e)) /\ WF_vars(TurnEnds(e))
        /\ WF_vars(TakeInput(e) \/ TakeSteer(e) \/ TakeInterrupt(e) \/ TakeReply(e)
                   \/ TakeResume(e) \/ TakePick(e) \/ TakeCommand(e))

FairSpec == Spec /\ Fairness

-----------------------------------------------------------------------------
(* Every variable has its type, and a worker serves the thread it is for.   *)
TypeOK ==
    /\ th \in [Thread -> LiveThread]
    /\ store \in [Thread -> Stored]
    /\ link \in [Thread -> Ports]
    /\ engine \in [Slot -> Worker]
    /\ diskOk \in BOOLEAN
    /\ used \subseteq Msg /\ accepted \subseteq Msg /\ told \subseteq Msg
    /\ ran \in [Msg -> Nat]

(* A thread's engine is a worker that serves it, and no worker serves two   *)
(* threads or outlives its place unseen: what drains is really exiting      *)
(* (thread.manager.ts:1049 drain, :329 start).                              *)
EnginesServe ==
    \A t \in Thread : th[t].eng # NoSlot =>
        engine[th[t].eng].state \in Employed /\ engine[th[t].eng].owner = t
WorkersKnown ==
    \A e \in Slot :
        /\ engine[e].state # "free" => engine[e].owner \in Thread
        /\ engine[e].state \in Employed => th[engine[e].owner].eng = e
        /\ engine[e].state = "exiting" => th[engine[e].owner].draining = e
DrainingExits ==
    \A t \in Thread : th[t].draining # NoSlot =>
        engine[th[t].draining].state = "exiting" /\ engine[th[t].draining].owner = t
EnginesOwned == EnginesServe /\ WorkersKnown /\ DrainingExits

(* Two workers never run a turn in the same folder, or in one inside the    *)
(* other, at the same time (thread.manager.ts:900 folderTaken, :1049 drain).*)
Together(t, u) == t = u \/ Overlap(t, u)
OneTurnPerFolder ==
    \A e, f \in Slot :
        e # f /\ engine[e].run # NoRun /\ engine[f].run # NoRun
            => ~Together(engine[e].owner, engine[f].owner)

(* A message the manager accepted is acted on by an engine, or is still     *)
(* kept as queued or sent, or the person was told, or dropped it.           *)
Kept(m) == \E t \in Thread : m \in Pending(th[t])
NoSilentLoss == \A m \in accepted : ran[m] > 0 \/ m \in told \/ Kept(m)

(* The same, of a message that is not even on its way to an engine: it has  *)
(* vanished (thread.manager.ts:18, "kept until its turn is over").          *)
Carried(m, s) == \E i \in DOMAIN s : s[i].kind \in {"input", "steer"} /\ s[i].msg = m
Returned(m, s) == \E i \in DOMAIN s : s[i].kind = "unused" /\ m \in Elements(s[i].msgs)
InFlight(m) ==
    \/ \E t \in Thread : Carried(m, link[t].down) \/ Returned(m, link[t].up)
    \/ \E e \in Slot : m \in Elements(engine[e].steers)
NothingVanishes ==
    \A m \in accepted : ran[m] > 0 \/ m \in told \/ Kept(m) \/ InFlight(m)

(* No message is acted on twice: not after a crash of the engine or of the  *)
(* app, and not when steering goes back to the queue (:854 recoverInputs).  *)
AtMostOnce == \A m \in Msg : ran[m] <= 1

(* A message recorded as being worked on belongs to a turn the thread shows *)
(* as going on, so the end of that turn settles it (:667 settleIfIdle).     *)
SentImpliesTurn ==
    \A t \in Thread : th[t].sent # {} =>
        th[t].eng # NoSlot /\ th[t].status \in {"working", "needs-you"}

(* Something that will change a thread's status by itself: a turn, words on *)
(* their way to one, or its end on the way back.                            *)
TurnOnItsWay(t) ==
    /\ th[t].eng # NoSlot
    /\ \/ engine[th[t].eng].run # NoRun
       \/ \E i \in DOMAIN link[t].down : link[t].down[i].kind \in {"input", "steer"}
       \/ \E i \in DOMAIN link[t].up : link[t].up[i].kind = "idle"

(* A thread shown as working, which takes its folder from the others, has a *)
(* turn that will end it (:900 folderTaken, :656 settleIfIdle).             *)
WorkingIsReal ==
    \A t \in Thread : th[t].status = "working" => TurnOnItsWay(t)

(* A thread shown as waiting for a decision has a card to decide on, or a   *)
(* turn that will end the wait (:899, "working, waiting for a decision or   *)
(* still stopping in this folder").                                         *)
NeedsYouIsReal ==
    \A t \in Thread : th[t].status = "needs-you" => th[t].cards # {} \/ TurnOnItsWay(t)

(* What the next start of the app finds on disk covers what was accepted,   *)
(* whatever the disk does after that (:431, "Saved before this returns").   *)
Durable ==
    \A m \in accepted : ran[m] > 0 \/ m \in told
        \/ \E t \in Thread : m \in Elements(store[t].disk.queue) \cup store[t].disk.sent

(* Engines never outnumber what the machine affords (:329 start).           *)
WithinBudget == Cardinality(Live) <= MaxLive

(* Every accepted message is in the end acted on or accounted for.          *)
EventuallyRuns == \A m \in Msg : m \in accepted ~> (ran[m] > 0 \/ m \in told)

-----------------------------------------------------------------------------
(* What the whole promises for each message.                                *)
Fate(m) ==
    IF ran[m] > 0 THEN IF ran[m] = 1 THEN "acted" ELSE "repeated"
    ELSE IF m \in told THEN "accounted"
    ELSE IF m \in accepted THEN IF Kept(m) THEN "kept" ELSE "lost"
    ELSE "unsaved"

Promise == INSTANCE MessageFate WITH fate <- [m \in Msg |-> Fate(m)]
KeepsPromise == Promise!Spec
=============================================================================
