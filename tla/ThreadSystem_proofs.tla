------------------------ MODULE ThreadSystem_proofs ------------------------
(***************************************************************************)
(* What holds of ThreadSystem for any threads, messages, limits and events *)
(* of the environment.                                                     *)
(***************************************************************************)
EXTENDS ThreadSystem, SequenceTheorems, FiniteSetTheorems,
        WellFoundedInduction, TLAPS


(* A set of positions has a first one: of the initial segments it stands    *)
(* for, one is minimal.                                                     *)
LEMMA FirstOfIsIn ==
    ASSUME NEW S \in SUBSET Nat, S # {}
    PROVE  FirstOf(S) \in S
<1> DEFINE T == {0..i : i \in S}
<1>1. T \subseteq FiniteSubsetsOf(Nat) /\ T # {}
    <2>1. ASSUME NEW i \in S PROVE 0..i \in FiniteSubsetsOf(Nat)
        BY FS_Interval DEF FiniteSubsetsOf
    <2> QED BY <2>1, Zenon
<1>2. PICK x \in T : \A y \in T : <<y, x>> \notin StrictSubsetOrdering(Nat)
    <2>1. IsWellFoundedOn(StrictSubsetOrdering(Nat), FiniteSubsetsOf(Nat))
        BY FS_StrictSubsetOrderingWellFounded
    <2> HIDE DEF T
    <2> QED BY <1>1, <2>1, WFMin
<1>3. PICK i \in S : x = 0..i
    OBVIOUS
<1>4. ASSUME NEW j \in S, ~(i <= j) PROVE FALSE
    <2>1. 0..j \subseteq 0..i /\ i \in 0..i /\ i \notin 0..j
        BY <1>4
    <2>2. 0..j \in T /\ 0..j \subseteq Nat /\ 0..i \subseteq Nat
        OBVIOUS
    <2>3. <<0..j, 0..i>> \in StrictSubsetOrdering(Nat)
        BY <2>1, <2>2 DEF StrictSubsetOrdering
    <2> QED BY <1>2, <1>3, <2>2, <2>3
<1> QED BY <1>4 DEF FirstOf

LEMMA ElementsTyped ==
    ASSUME NEW q \in Seq(Msg)
    PROVE  Elements(q) \subseteq Msg
BY LenProperties DEF Elements

(* Leaving out refused messages makes a queue of a queue.                   *)
LEMMA SkipTyped ==
    ASSUME NEW q \in Seq(Msg)
    PROVE  /\ Skip(q) \in Seq(Msg)
           /\ Elements(Refused(q)) \subseteq Msg
<1>1. CASE Sendable(q) = {}
    <2>1. Skip(q) = <<>> /\ Refused(q) = q
        BY <1>1 DEF Skip, Refused
    <2> QED BY <2>1, ElementsTyped, EmptySeq
<1>2. CASE Sendable(q) # {}
    <2>1. Sendable(q) \subseteq 1..Len(q) /\ Len(q) \in Nat
        BY LenProperties DEF Sendable
    <2>2. FirstOf(Sendable(q)) \in 1..Len(q)
        BY <1>2, <2>1, FirstOfIsIn
    <2>3. \A i \in 1..Len(q) : q[i] \in Msg
        BY ElementOfSeq
    <2>4. SubSeq(q, FirstOf(Sendable(q)), Len(q)) \in Seq(Msg)
        BY <2>1, <2>2, <2>3, SubSeqProperties
    <2>5. SubSeq(q, 1, FirstOf(Sendable(q)) - 1) \in Seq(Msg)
        BY <2>1, <2>2, <2>3, SubSeqProperties
    <2> QED BY <1>2, <2>4, <2>5, ElementsTyped DEF Skip, Refused
<1> QED BY <1>1, <1>2

LEMMA CopyTyped ==
    ASSUME NEW r \in LiveThread
    PROVE  Copy(r) \in Saved
BY DEF LiveThread, Copy, Saved

LEMMA PumpedTyped ==
    ASSUME NEW r \in LiveThread
    PROVE  PumpedThread(r) \in LiveThread
<1> DEFINE q == Skip(r.queue)
<1>1. q \in Seq(Msg)
    BY SkipTyped DEF LiveThread
<1>2. q # <<>> => Head(q) \in Msg /\ Tail(q) \in Seq(Msg)
    BY <1>1, HeadTailProperties
<1> HIDE DEF q
<1>3. CASE q = <<>>
    <2>1. PumpedThread(r) = [r EXCEPT !.queue = q]
        BY <1>3 DEF PumpedThread, q
    <2> QED BY <1>1, <2>1 DEF LiveThread
<1>4. CASE q # <<>> /\ diskOk
    <2>1. PumpedThread(r) = [r EXCEPT !.queue = Tail(q), !.sent = @ \cup {Head(q)},
                                      !.status = "working"]
        BY <1>4 DEF PumpedThread, q
    <2>2. r.sent \cup {Head(q)} \in SUBSET Msg
        BY <1>2, <1>4 DEF LiveThread
    <2> QED BY <1>2, <1>4, <2>1, <2>2 DEF LiveThread, Status
<1>5. CASE q # <<>> /\ ~diskOk
    <2>1. PumpedThread(r) = [r EXCEPT !.queue = q, !.status = "idle", !.blocked = TRUE]
        BY <1>5 DEF PumpedThread, q
    <2> QED BY <1>1, <2>1 DEF LiveThread, Status
<1> QED BY <1>3, <1>4, <1>5

(* What any handler leaves behind is typed when what it hands to Finish is. *)
LEMMA FinishTyped ==
    ASSUME TypeOK,
           NEW m \in [Thread -> LiveThread], NEW l \in [Thread -> Ports],
           NEW who \in SUBSET Thread, NEW now, NEW later,
           NEW dropped \in SUBSET Msg,
           Finish(m, l, who, now, later, dropped)
    PROVE  /\ th' \in [Thread -> LiveThread]
           /\ store' \in [Thread -> Stored]
           /\ link' \in [Thread -> Ports]
           /\ told' \subseteq Msg
<1>1. PICK tried \in SUBSET who :
        /\ th' = [t \in Thread |-> IF t \in tried THEN PumpedThread(m[t]) ELSE m[t]]
        /\ link' = [t \in Thread |->
               IF t \in Goes(m, tried) /\ Delivers(t)
               THEN [l[t] EXCEPT !.down = Append(@, Carry("input", Head(Skip(m[t].queue))))]
               ELSE l[t]]
        /\ told' = told \cup dropped
                        \cup UNION {Elements(Refused(m[t].queue)) : t \in tried}
        /\ Save(now \cup tried, later)
    BY DEF Finish
<1>2. \A t \in Thread : m[t].queue \in Seq(Msg)
    BY DEF LiveThread
<1>3. th' \in [Thread -> LiveThread]
    BY <1>1, PumpedTyped
<1>4. store' \in [Thread -> Stored]
    <2>1. \A t \in Thread : Copy(th'[t]) \in Saved
        BY <1>3, CopyTyped
    <2> QED BY <1>1, <2>1 DEF Save, Stored, TypeOK
<1>5. link' \in [Thread -> Ports]
    <2>1. ASSUME NEW t \in Thread, t \in Goes(m, tried)
          PROVE  [l[t] EXCEPT !.down = Append(@, Carry("input", Head(Skip(m[t].queue))))]
                    \in Ports
        <3>1. Skip(m[t].queue) \in Seq(Msg) /\ Skip(m[t].queue) # <<>>
            BY <1>2, <2>1, SkipTyped DEF Goes
        <3>2. Carry("input", Head(Skip(m[t].queue))) \in Inbound
            BY <3>1, HeadTailProperties DEF Carry, Inbound
        <3>3. l[t].down \in Seq(Inbound)
            BY DEF Ports
        <3>4. Append(l[t].down, Carry("input", Head(Skip(m[t].queue)))) \in Seq(Inbound)
            BY <3>2, <3>3, AppendProperties
        <3> QED BY <3>4 DEF Ports
    <2> QED BY <1>1, <2>1
<1>6. told' \subseteq Msg
    <2>1. \A t \in Thread : Elements(Refused(m[t].queue)) \subseteq Msg
        BY <1>2, SkipTyped
    <2>2. told \subseteq Msg
        BY DEF TypeOK
    <2> QED BY <1>1, <2>1, <2>2
<1> QED BY <1>3, <1>4, <1>5, <1>6

LEMMA StoppedTyped ==
    ASSUME NEW r \in LiveThread, NEW keep \in BOOLEAN
    PROVE  Stopped(r, keep) \in LiveThread
BY ZenonT(60), EmptySeq DEF Stopped, LiveThread, Status

(* A stop with an engine leaves it draining.                                *)
LEMMA StoppedDrains ==
    ASSUME NEW r \in LiveThread, NEW keep \in BOOLEAN, r.eng # NoSlot
    PROVE  Stopped(r, keep).eng = NoSlot /\ Stopped(r, keep).draining = r.eng
BY ZenonT(60) DEF Stopped, LiveThread

LEMMA StartedTyped ==
    ASSUME NEW r \in LiveThread, NEW e \in Slot
    PROVE  Started(r, e) \in LiveThread
BY DEF Started, LiveThread, Status

LEMMA CutOffTyped ==
    ASSUME NEW r \in LiveThread, NEW status \in Status
    PROVE  CutOff(r, status) \in LiveThread
BY DEF CutOff, LiveThread

LEMMA AdoptedTyped ==
    ASSUME NEW s \in Saved
    PROVE  Adopted(s) \in LiveThread
BY DEF Adopted, Saved, LiveThread, Status

LEMMA ResumeFailedTyped ==
    ASSUME NEW r \in LiveThread
    PROVE  ResumeFailed(r) \in LiveThread
BY ZenonT(60) DEF ResumeFailed, LiveThread, Status, Card

(* Whatever an engine says, the thread that hears it stays typed.           *)
LEMMA HeardTyped ==
    ASSUME NEW r \in LiveThread, NEW msg \in Outbound
    PROVE  Heard(r, msg) \in LiveThread
<1>1. Ready(r) \in LiveThread /\ Idle(r) \in LiveThread /\ ResumeTook(r) \in LiveThread
    BY DEF Ready, Idle, ResumeTook, LiveThread, Status, Card
<1>2. CASE msg.kind = "ask"
    <2>1. msg.card \in EngineCard
        BY <1>2 DEF Outbound
    <2>2. r.cards \cup {msg.card} \in SUBSET Card
        BY <2>1 DEF LiveThread, Card
    <2>3. Heard(r, msg) = [r EXCEPT !.cards = @ \cup {msg.card}, !.status = "needs-you"]
        BY <1>2 DEF Heard
    <2> QED BY <2>2, <2>3 DEF LiveThread, Status
<1>3. CASE msg.kind = "unused"
    <2>1. msg.msgs \in Seq(Msg) /\ r.queue \in Seq(Msg)
        BY <1>3 DEF Outbound, LiveThread
    <2>2. msg.msgs \o r.queue \in Seq(Msg)
        BY <2>1, ConcatProperties
    <2>3. Heard(r, msg) = [r EXCEPT !.queue = msg.msgs \o @]
        BY <1>3 DEF Heard
    <2> QED BY <2>2, <2>3 DEF LiveThread
<1>4. CASE msg.kind = "ready"
    BY <1>1, <1>4 DEF Heard
<1>5. CASE msg.kind = "idle"
    BY <1>1, <1>5 DEF Heard
<1>6. CASE msg.kind = "restored" /\ r.resume
    BY <1>1, <1>6 DEF Heard
<1>7. CASE msg.kind \in {"restored", "picked"} /\ ~r.resume
    <2>1. Heard(r, msg) = [r EXCEPT !.session = @ \/ r.hold, !.hold = FALSE]
        BY <1>7 DEF Heard
    <2>2. (r.session \/ r.hold) \in BOOLEAN
        OBVIOUS
    <2> QED BY <2>1, <2>2 DEF LiveThread
<1>8. CASE msg.kind = "restoreFailed"
    BY <1>8, ResumeFailedTyped DEF Heard
<1>9. CASE msg.kind = "picked" /\ r.resume
    BY <1>9 DEF Heard
<1> QED
    <2>1. msg.kind \in {"ready", "idle", "restored", "picked", "restoreFailed", "ask", "unused"}
        BY DEF Outbound
    <2>2. r.resume \in BOOLEAN
        BY DEF LiveThread
    <2> QED BY <2>1, <2>2, <1>2, <1>3, <1>4, <1>5, <1>6, <1>7, <1>8, <1>9

-----------------------------------------------------------------------------
(* Type correctness, first of starting and disposing of engines.            *)

LEMMA BootingTyped ==
    ASSUME NEW t \in Thread
    PROVE  BootingFor(t) \in Worker /\ FreeWorker \in Worker
BY EmptySeq DEF BootingFor, FreeWorker, Worker, WorkerRecord, Employed

LEMMA DisposeTyped ==
    ASSUME TypeOK, NEW e \in Slot \cup {NoSlot}
    PROVE  Dispose(e) \in [Slot -> Worker]
<1>1. \A f \in Slot : [engine[f] EXCEPT !.state = "exiting"] \in Worker
    BY DEF TypeOK, Worker, WorkerRecord, Employed
<1> QED BY <1>1 DEF Dispose, TypeOK

LEMMA OpeningTyped ==
    ASSUME TypeOK, NEW t \in Thread, NEW o \in Openings(t), OpenEngine(o, t)
    PROVE  /\ Opened(o, t) \in [Thread -> LiveThread]
           /\ PortsOpened(o, t) \in [Thread -> Ports]
           /\ PumpedOnOpening(o) \in SUBSET Thread
           /\ ToldOnOpening(o) \in SUBSET Msg
           /\ engine' \in [Slot -> Worker]
<1>1. o.slot \in Slot \cup {NoSlot} /\ o.victim \in Thread \cup {NoThread}
    BY DEF Openings, Reclaimable, FreeSlots
<1>2. Opened(o, t) \in [Thread -> LiveThread]
    <2>1. \A u \in Thread : Stopped(th[u], TRUE) \in LiveThread
        BY StoppedTyped DEF TypeOK
    <2>2. o.slot \in Slot => Started(th[t], o.slot) \in LiveThread
        BY StartedTyped DEF TypeOK
    <2> QED BY <1>1, <2>1, <2>2 DEF Opened, TypeOK
<1>3. PortsOpened(o, t) \in [Thread -> Ports]
    BY EmptySeq DEF PortsOpened, Closed, Ports, TypeOK
<1>4. PumpedOnOpening(o) \in SUBSET Thread
    BY DEF PumpedOnOpening
<1>5. ToldOnOpening(o) \in SUBSET Msg
    BY <1>1 DEF ToldOnOpening, TypeOK, LiveThread
<1>6. engine' \in [Slot -> Worker]
    <2>1. \A e \in Slot : [engine[e] EXCEPT !.state = "exiting"] \in Worker
        BY DEF TypeOK, Worker, WorkerRecord, Employed
    <2> QED BY <2>1, BootingTyped DEF OpenEngine, TypeOK
<1> QED BY <1>2, <1>3, <1>4, <1>5, <1>6

LEMMA TypeInit ==
    ASSUME Init
    PROVE  TypeOK
<1>1. \A t \in Thread : InitialThread(t) \in LiveThread
    <2> TAKE t \in Thread
    <2> DEFINE s == [queue |-> <<>>, sent |-> {}, session |-> t \in Resumable]
    <2>1. s \in Saved
        BY EmptySeq DEF Saved
    <2> HIDE DEF s
    <2>2. Adopted(s) \in LiveThread
        BY <2>1, AdoptedTyped
    <2> QED BY <2>2 DEF InitialThread, LiveThread, Status, s
<1>2. \A t \in Thread : Copy(InitialThread(t)) \in Saved
    BY <1>1, CopyTyped
<1>3. Closed \in Ports /\ FreeWorker \in Worker
    BY EmptySeq DEF Closed, Ports, FreeWorker, Worker, WorkerRecord, Employed
<1> QED BY <1>1, <1>2, <1>3 DEF Init, TypeOK, Stored

(* The manager's half of TypeOK, preserved when Finish is given typed       *)
(* arguments; the rest is up to the action.                                 *)
LEMMA HandlerTyped ==
    ASSUME TypeOK,
           NEW m \in [Thread -> LiveThread], NEW l \in [Thread -> Ports],
           NEW who \in SUBSET Thread, NEW now, NEW later,
           NEW dropped \in SUBSET Msg,
           Finish(m, l, who, now, later, dropped),
           engine' \in [Slot -> Worker],
           diskOk' \in BOOLEAN, used' \subseteq Msg, accepted' \subseteq Msg,
           ran' \in [Msg -> Nat]
    PROVE  TypeOK'
BY FinishTyped DEF TypeOK

LEMMA SilentTyped ==
    ASSUME TypeOK, Silent
    PROVE  /\ diskOk' \in BOOLEAN /\ used' \subseteq Msg /\ accepted' \subseteq Msg
           /\ ran' \in [Msg -> Nat]
BY DEF TypeOK, Silent

LEMMA PendingTyped ==
    ASSUME NEW r \in LiveThread
    PROVE  Pending(r) \in SUBSET Msg
BY ElementsTyped DEF Pending, LiveThread

(* A message put on a port leaves a port.                                   *)
LEMMA DownTyped ==
    ASSUME NEW l \in [Thread -> Ports], NEW t \in Thread, NEW x \in Inbound
    PROVE  [l EXCEPT ![t].down = Append(@, x)] \in [Thread -> Ports]
<1>1. Append(l[t].down, x) \in Seq(Inbound)
    BY AppendProperties DEF Ports
<1>2. [l[t] EXCEPT !.down = Append(@, x)] \in Ports
    BY <1>1 DEF Ports
<1> QED BY <1>2

LEMMA ClosedTyped ==
    ASSUME TypeOK, NEW t \in Thread
    PROVE  [link EXCEPT ![t] = Closed] \in [Thread -> Ports]
BY EmptySeq DEF TypeOK, Closed, Ports

LEMMA QueuedTyped ==
    ASSUME TypeOK, NEW r \in LiveThread, NEW m \in Msg
    PROVE  /\ Queued(r, m) \in LiveThread
           /\ Queued(r, m).eng = r.eng /\ Queued(r, m).draining = r.draining
<1>1. Append(r.queue, m) \in Seq(Msg)
    BY AppendProperties DEF LiveThread
<1>2. diskOk \in BOOLEAN /\ (IF r.hold THEN r.cards \ {"choice"} ELSE r.cards) \in SUBSET Card
    BY DEF TypeOK, LiveThread
<1> QED BY <1>1, <1>2 DEF Queued, LiveThread

LEMMA SubmitTyped ==
    ASSUME TypeOK, NEW t \in Thread, NEW m \in Msg, Submit(t, m)
    PROVE  TypeOK'
<1>1. PICK o \in Openings(t) :
        /\ OpenEngine(o, t)
        /\ Finish([Opened(o, t) EXCEPT ![t] = Queued(@, m)], PortsOpened(o, t),
                  PumpedOnOpening(o) \cup (IF diskOk THEN {t} ELSE {}),
                  {t}, {o.victim} \cap Thread, ToldOnOpening(o))
    BY DEF Submit
<1>2. \A r \in LiveThread : Queued(r, m) \in LiveThread
    BY QueuedTyped
<1>3. [Opened(o, t) EXCEPT ![t] = Queued(@, m)] \in [Thread -> LiveThread]
    BY <1>1, <1>2, OpeningTyped
<1>4. used' \subseteq Msg /\ accepted' \subseteq Msg /\ diskOk' \in BOOLEAN
      /\ ran' \in [Msg -> Nat]
    BY DEF Submit, History, TypeOK
<1>5. PumpedOnOpening(o) \cup (IF diskOk THEN {t} ELSE {}) \in SUBSET Thread
    BY <1>1, OpeningTyped
<1> QED BY <1>1, <1>3, <1>4, <1>5, OpeningTyped, HandlerTyped

LEMMA SteerTyped ==
    ASSUME TypeOK, NEW t \in Thread, NEW m \in Msg, Steer(t, m)
    PROVE  TypeOK'
<1> DEFINE h == [th EXCEPT ![t] = Steered(@, m)]
           l == IF diskOk /\ Delivers(t)
                THEN [link EXCEPT ![t].down = Append(@, Carry("steer", m))] ELSE link
<1>1. Finish(h, l, {}, {t}, {}, {}) /\ engine' = engine
    BY DEF Steer
<1>2. Steered(th[t], m) \in LiveThread
    <2>1. th[t] \in LiveThread
        BY DEF TypeOK
    <2>2. Append(th[t].queue, m) \in Seq(Msg) /\ th[t].sent \cup {m} \in SUBSET Msg
        BY <2>1, AppendProperties DEF LiveThread
    <2> QED BY <2>1, <2>2 DEF Steered, LiveThread
<1>3. h \in [Thread -> LiveThread]
    BY <1>2 DEF TypeOK
<1>4. l \in [Thread -> Ports]
    <2>1. Carry("steer", m) \in Inbound
        BY DEF Carry, Inbound
    <2>2. link \in [Thread -> Ports]
        BY DEF TypeOK
    <2>3. [link EXCEPT ![t].down = Append(@, Carry("steer", m))] \in [Thread -> Ports]
        BY <2>1, <2>2, DownTyped
    <2> QED BY <2>2, <2>3
<1>5. used' \subseteq Msg /\ accepted' \subseteq Msg /\ diskOk' \in BOOLEAN
      /\ ran' \in [Msg -> Nat] /\ engine' \in [Slot -> Worker]
    BY DEF Steer, History, TypeOK
<1> HIDE DEF h, l
<1> QED BY <1>1, <1>3, <1>4, <1>5, HandlerTyped

LEMMA InterruptTyped ==
    ASSUME TypeOK, NEW t \in Thread, Interrupt(t)
    PROVE  TypeOK'
<1> DEFINE h == [th EXCEPT ![t].queue = <<>>, ![t].sent = {}, ![t].cards = {}]
           l == IF Delivers(t) THEN [link EXCEPT ![t].down = Append(@, Signal("interrupt"))]
                ELSE link
<1>1. Finish(h, l, {}, {}, {t}, Pending(th[t])) /\ engine' = engine /\ Silent
    BY DEF Interrupt
<1>2. th \in [Thread -> LiveThread] /\ link \in [Thread -> Ports] /\ engine \in [Slot -> Worker]
    BY DEF TypeOK
<1>3. h \in [Thread -> LiveThread]
    <2>1. [th[t] EXCEPT !.queue = <<>>, !.sent = {}, !.cards = {}] \in LiveThread
        BY ZenonT(60), <1>2, EmptySeq DEF LiveThread
    <2> QED BY <1>2, <2>1
<1>4. l \in [Thread -> Ports]
    <2>1. Signal("interrupt") \in Inbound
        BY DEF Signal, Inbound
    <2> QED BY <1>2, <2>1, DownTyped
<1> HIDE DEF h, l
<1> QED BY <1>1, <1>2, <1>3, <1>4, PendingTyped, SilentTyped, HandlerTyped

LEMMA CancelTyped ==
    ASSUME TypeOK, NEW t \in Thread, CancelQueued(t)
    PROVE  TypeOK'
<1>1. th \in [Thread -> LiveThread] /\ link \in [Thread -> Ports] /\ engine' \in [Slot -> Worker]
    BY DEF TypeOK, CancelQueued
<1>2. [th EXCEPT ![t].queue = <<>>] \in [Thread -> LiveThread]
    <2>1. [th[t] EXCEPT !.queue = <<>>] \in LiveThread
        BY ZenonT(60), <1>1, EmptySeq DEF LiveThread
    <2> QED BY <1>1, <2>1
<1>3. Elements(th[t].queue) \in SUBSET Msg
    BY <1>1, ElementsTyped DEF LiveThread
<1> QED BY <1>1, <1>2, <1>3, SilentTyped, HandlerTyped DEF CancelQueued

(* Stop, Reap and Restart: the engine is disposed of, its port closed.      *)
LEMMA StoppingTyped ==
    ASSUME TypeOK, NEW t \in Thread, Stop(t) \/ Reap(t) \/ Restart(t)
    PROVE  TypeOK'
<1>1. th \in [Thread -> LiveThread] /\ [link EXCEPT ![t] = Closed] \in [Thread -> Ports]
      /\ th[t] \in LiveThread /\ th[t].eng \in Slot \cup {NoSlot}
    BY ClosedTyped DEF TypeOK, LiveThread
<1>2. \A keep \in BOOLEAN : Stopped(th[t], keep) \in LiveThread
    BY <1>1, StoppedTyped
<1>3. Pending(th[t]) \in SUBSET Msg /\ th[t].sent \in SUBSET Msg
    BY <1>1, PendingTyped DEF LiveThread
<1>4. Dispose(th[t].eng) \in [Slot -> Worker]
    BY <1>1, DisposeTyped
<1>5. CASE Stop(t)
    <2>1. [th EXCEPT ![t] = Stopped(@, FALSE)] \in [Thread -> LiveThread]
        BY <1>1, <1>2
    <2> QED BY <1>1, <1>3, <1>4, <1>5, <2>1, SilentTyped, HandlerTyped DEF Stop
<1>6. CASE Reap(t)
    <2>1. [th EXCEPT ![t] = Stopped(@, TRUE)] \in [Thread -> LiveThread]
        BY <1>1, <1>2
    <2> QED BY <1>1, <1>3, <1>4, <1>6, <2>1, SilentTyped, HandlerTyped DEF Reap
<1>7. CASE Restart(t)
    <2>1. PICK e \in FreeSlots :
            /\ Finish([th EXCEPT ![t] = Started(Stopped(@, TRUE), e)],
                      [link EXCEPT ![t] = Closed], Thread, {}, {t}, th[t].sent)
            /\ engine' = [Dispose(th[t].eng) EXCEPT ![e] = BootingFor(t)]
        BY <1>7 DEF Restart
    <2>2. e \in Slot
        BY DEF FreeSlots
    <2>3. [th EXCEPT ![t] = Started(Stopped(@, TRUE), e)] \in [Thread -> LiveThread]
        BY <1>1, <1>2, <2>2, StartedTyped
    <2>4. engine' \in [Slot -> Worker]
        BY <1>4, <2>1, BootingTyped
    <2> QED BY <1>1, <1>3, <1>7, <2>1, <2>3, <2>4, SilentTyped, HandlerTyped DEF Restart
<1> QED BY <1>5, <1>6, <1>7

LEMMA StartTyped ==
    ASSUME TypeOK, NEW t \in Thread, Start(t)
    PROVE  TypeOK'
<1>1. PICK o \in Openings(t) :
        /\ OpenEngine(o, t)
        /\ Finish(Opened(o, t), PortsOpened(o, t), PumpedOnOpening(o),
                  {}, {t, o.victim} \cap Thread, ToldOnOpening(o))
    BY DEF Start
<1>2. Silent
    BY DEF Start
<1> QED BY <1>1, <1>2, OpeningTyped, SilentTyped, HandlerTyped

LEMMA AnswerTyped ==
    ASSUME TypeOK, NEW t \in Thread, NEW c \in EngineCard, Reply(t, c)
    PROVE  TypeOK'
<1> DEFINE h == [th EXCEPT ![t].cards = @ \ {c}, ![t].status = "working"]
           l == IF Delivers(t) THEN [link EXCEPT ![t].down = Append(@, Answer(c))] ELSE link
<1>1. Finish(h, l, {}, {}, {t}, {}) /\ engine' = engine /\ Silent
    BY DEF Reply
<1>2. th \in [Thread -> LiveThread] /\ link \in [Thread -> Ports] /\ engine \in [Slot -> Worker]
    BY DEF TypeOK
<1>3. h \in [Thread -> LiveThread]
    <2>1. [th[t] EXCEPT !.cards = @ \ {c}, !.status = "working"] \in LiveThread
        BY ZenonT(60), <1>2 DEF LiveThread, Status
    <2> QED BY <1>2, <2>1
<1>4. l \in [Thread -> Ports]
    <2>1. Answer(c) \in Inbound
        BY DEF Answer, Inbound
    <2> QED BY <1>2, <2>1, DownTyped
<1> HIDE DEF h, l
<1> QED BY <1>1, <1>2, <1>3, <1>4, SilentTyped, HandlerTyped

LEMMA ResumeChoiceTyped ==
    ASSUME TypeOK, NEW t \in Thread, NEW fresh \in BOOLEAN, ResumeChoice(t, fresh)
    PROVE  TypeOK'
<1> DEFINE h == [th EXCEPT ![t].cards = @ \ {"choice"}, ![t].status = "idle",
                           ![t].hold = @ /\ ~fresh]
<1>1. Finish(h, link, IF fresh THEN {t} ELSE {}, {}, {t}, {}) /\ engine' = engine /\ Silent
    BY DEF ResumeChoice
<1>2. th \in [Thread -> LiveThread] /\ link \in [Thread -> Ports] /\ engine \in [Slot -> Worker]
    BY DEF TypeOK
<1>3. h \in [Thread -> LiveThread]
    <2>1. (th[t].hold /\ ~fresh) \in BOOLEAN
        OBVIOUS
    <2>2. [th[t] EXCEPT !.cards = @ \ {"choice"}, !.status = "idle",
                        !.hold = @ /\ ~fresh] \in LiveThread
        BY ZenonT(60), <1>2, <2>1 DEF LiveThread, Status
    <2> QED BY <1>2, <2>2
<1> HIDE DEF h
<1> QED BY <1>1, <1>2, <1>3, SilentTyped, HandlerTyped

(* Requests that leave the threads as they are, or only end a hold.         *)
LEMMA OtherRequestsTyped ==
    ASSUME TypeOK, NEW t \in Thread,
           SubmitRefused(t) \/ \E k \in {"command", "pick"} : PassThrough(t, k)
    PROVE  TypeOK'
<1>1. th \in [Thread -> LiveThread] /\ link \in [Thread -> Ports]
    BY DEF TypeOK
<1>2. CASE SubmitRefused(t)
    <2>1. [th[t] EXCEPT !.hold = FALSE, !.cards = @ \ {"choice"}] \in LiveThread
        BY ZenonT(60), <1>1 DEF LiveThread
    <2> QED BY <1>1, <1>2, <2>1, SilentTyped DEF SubmitRefused, TypeOK
<1>3. ASSUME NEW k \in {"command", "pick"}, PassThrough(t, k)
      PROVE  TypeOK'
    <2>1. Signal(k) \in Inbound
        BY DEF Signal, Inbound
    <2>2. link' \in [Thread -> Ports]
        BY <1>1, <1>3, <2>1, DownTyped DEF PassThrough
    <2> QED BY <1>3, <2>2, SilentTyped DEF PassThrough, TypeOK
<1> QED BY <1>2, <1>3

LEMMA ReceiveTyped ==
    ASSUME TypeOK, NEW t \in Thread, Receive(t)
    PROVE  TypeOK'
<1> DEFINE msg == Head(link[t].up)
           r == Heard(th[t], msg)
           k == [link EXCEPT ![t].up = Tail(@)]
           l == IF msg.kind = "ready" /\ th[t].resume /\ Delivers(t)
                THEN [k EXCEPT ![t].down = Append(@, Signal("resume"))] ELSE k
           h == [th EXCEPT ![t] = r]
<1>1. Finish(h, l, PumpedAfter(r), {}, {t}, {}) /\ engine' = engine /\ Silent
    BY DEF Receive
<1>2. th \in [Thread -> LiveThread] /\ link \in [Thread -> Ports] /\ engine \in [Slot -> Worker]
    BY DEF TypeOK
<1>3. link[t].up \in Seq(Outbound) /\ link[t].up # <<>>
    BY <1>2 DEF Ports, Receive
<1>4. msg \in Outbound /\ Tail(link[t].up) \in Seq(Outbound)
    BY <1>3, HeadTailProperties
<1>5. h \in [Thread -> LiveThread]
    BY <1>2, <1>4, HeardTyped
<1>6. k \in [Thread -> Ports]
    <2>1. [link[t] EXCEPT !.up = Tail(@)] \in Ports
        BY <1>2, <1>4 DEF Ports
    <2> QED BY <1>2, <2>1
<1>7. l \in [Thread -> Ports]
    <2>1. Signal("resume") \in Inbound
        BY DEF Signal, Inbound
    <2> HIDE DEF k
    <2> QED BY <1>6, <2>1, DownTyped
<1>8. PumpedAfter(r) \in SUBSET Thread
    BY DEF PumpedAfter
<1> HIDE DEF h, l, r, k
<1> QED BY <1>1, <1>2, <1>5, <1>7, <1>8, SilentTyped, HandlerTyped

LEMMA HeartbeatTyped ==
    ASSUME TypeOK, NEW t \in Thread, Heartbeat(t)
    PROVE  TypeOK'
<1> DEFINE r == [th[t] EXCEPT !.session = @ \/ ("resume" \in Allowed /\ ~th[t].resume)]
           h == [th EXCEPT ![t] = r]
<1>1. Finish(h, link, PumpedAfter(r), {}, {t}, {}) /\ engine' = engine /\ Silent
    BY DEF Heartbeat
<1>2. th \in [Thread -> LiveThread] /\ link \in [Thread -> Ports] /\ engine \in [Slot -> Worker]
    BY DEF TypeOK
<1>3. (th[t].session \/ ("resume" \in Allowed /\ ~th[t].resume)) \in BOOLEAN
    OBVIOUS
<1>4. r \in LiveThread
    BY ZenonT(60), <1>2, <1>3 DEF LiveThread
<1>5. h \in [Thread -> LiveThread] /\ PumpedAfter(r) \in SUBSET Thread
    BY <1>2, <1>4 DEF PumpedAfter
<1> HIDE DEF h, r
<1> QED BY <1>1, <1>2, <1>5, SilentTyped, HandlerTyped

LEMMA DeadlineTyped ==
    ASSUME TypeOK, NEW t \in Thread, ResumeDeadline(t)
    PROVE  TypeOK'
<1> DEFINE r == [th[t] EXCEPT !.armed = FALSE]
           h == [th EXCEPT ![t] = IF r.eng # NoSlot /\ r.resume THEN ResumeFailed(r) ELSE r]
<1>1. Finish(h, link, {}, {}, {t}, {}) /\ engine' = engine /\ Silent
    BY DEF ResumeDeadline
<1>2. th \in [Thread -> LiveThread] /\ link \in [Thread -> Ports] /\ engine \in [Slot -> Worker]
    BY DEF TypeOK
<1>3. r \in LiveThread
    BY ZenonT(60), <1>2 DEF LiveThread
<1>4. h \in [Thread -> LiveThread]
    <2> HIDE DEF r
    <2> QED BY <1>2, <1>3, ResumeFailedTyped
<1> HIDE DEF h, r
<1> QED BY <1>1, <1>2, <1>4, SilentTyped, HandlerTyped

(* The phases in which an engine stops serving.                             *)
LEMMA EngineLostTyped ==
    ASSUME TypeOK, NEW t \in Thread,
           EngineRestarts(t) \/ EngineStopping(t) \/ EngineGone(t)
    PROVE  TypeOK'
<1>1. th \in [Thread -> LiveThread] /\ [link EXCEPT ![t] = Closed] \in [Thread -> Ports]
      /\ th[t] \in LiveThread /\ engine \in [Slot -> Worker]
    BY ClosedTyped DEF TypeOK
<1>2. th[t].sent \in SUBSET Msg
    BY <1>1 DEF LiveThread
<1>3. CutOff(th[t], "starting") \in LiveThread /\ CutOff(th[t], "stopped") \in LiveThread
    BY <1>1, CutOffTyped DEF Status
<1>4. CASE EngineRestarts(t)
    <2>1. [th EXCEPT ![t] = CutOff(@, "starting")] \in [Thread -> LiveThread]
        BY <1>1, <1>3
    <2>2. engine' \in [Slot -> Worker]
        BY <1>1, <1>4, BootingTyped DEF EngineRestarts
    <2> QED BY <1>1, <1>2, <1>4, <2>1, <2>2, SilentTyped, HandlerTyped DEF EngineRestarts
<1>5. CASE EngineStopping(t)
    <2>1. [th EXCEPT ![t] = CutOff(@, "stopped")] \in [Thread -> LiveThread]
        BY <1>1, <1>3
    <2>2. /\ th[t].eng \in Slot
          /\ [engine[th[t].eng] EXCEPT !.state = "stopping"] \in Worker
        <3>1. th[t].eng \in Slot /\ engine[th[t].eng].state \in Employed
            BY <1>1, <1>5 DEF EngineStopping, LiveThread, Employed
        <3>2. engine[th[t].eng] \in Worker
            BY <1>1, <3>1
        <3> QED BY <3>1, <3>2 DEF Worker, WorkerRecord, Employed
    <2>3. engine' \in [Slot -> Worker]
        BY <1>1, <1>5, <2>2 DEF EngineStopping
    <2> QED BY <1>1, <1>2, <1>5, <2>1, <2>3, SilentTyped, HandlerTyped DEF EngineStopping
<1>6. CASE EngineGone(t)
    <2> DEFINE r == [CutOff(th[t], "stopped") EXCEPT
                        !.eng = NoSlot, !.armed = FALSE, !.draining = NoSlot]
    <2>1. r \in LiveThread
        BY <1>3 DEF LiveThread
    <2>2. [th EXCEPT ![t] = [CutOff(@, "stopped") EXCEPT
                    !.eng = NoSlot, !.armed = FALSE, !.draining = NoSlot]]
            \in [Thread -> LiveThread]
        BY <1>1, <2>1
    <2>3. engine' \in [Slot -> Worker]
        BY <1>1, <1>6, BootingTyped DEF EngineGone
    <2> QED BY <1>1, <1>2, <1>6, <2>2, <2>3, SilentTyped, HandlerTyped DEF EngineGone
<1> QED BY <1>4, <1>5, <1>6

LEMMA DrainedTyped ==
    ASSUME TypeOK, NEW e \in Slot, Drained(e)
    PROVE  TypeOK'
<1> DEFINE t == engine[e].owner
           h == [th EXCEPT ![t].draining = IF @ = e THEN NoSlot ELSE @]
<1>1. Finish(h, link, Thread, {}, {}, {}) /\ engine' = [engine EXCEPT ![e] = FreeWorker] /\ Silent
    BY DEF Drained
<1>2. th \in [Thread -> LiveThread] /\ link \in [Thread -> Ports] /\ engine \in [Slot -> Worker]
    BY DEF TypeOK
<1>3. h \in [Thread -> LiveThread]
    <2>1. \A u \in Thread : [th[u] EXCEPT !.draining = IF @ = e THEN NoSlot ELSE @] \in LiveThread
        BY ZenonT(60), <1>2 DEF LiveThread
    <2> QED BY <1>2, <2>1
<1>4. engine' \in [Slot -> Worker]
    <2>1. FreeWorker \in Worker
        BY EmptySeq DEF FreeWorker, Worker, WorkerRecord, Employed
    <2> QED BY <1>1, <1>2, <2>1
<1> HIDE DEF h
<1> QED BY <1>1, <1>2, <1>3, <1>4, SilentTyped, HandlerTyped

LEMMA StorageTyped ==
    ASSUME TypeOK, AppCrash \/ DiskTurns \/ \E t \in Thread : Flush(t)
    PROVE  TypeOK'
<1>1. \A t \in Thread : store[t] \in Stored /\ store[t].disk \in Saved /\ store[t].last \in Saved
    BY DEF TypeOK, Stored
<1>2. CASE AppCrash
    <2>1. th' \in [Thread -> LiveThread]
        BY <1>1, <1>2, AdoptedTyped DEF AppCrash
    <2>2. store' \in [Thread -> Stored]
        BY <1>1, <1>2 DEF AppCrash, Stored
    <2>3. link' \in [Thread -> Ports] /\ engine' \in [Slot -> Worker]
        BY <1>2, EmptySeq DEF AppCrash, Closed, Ports, FreeWorker, Worker, WorkerRecord, Employed
    <2>4. told' \subseteq Msg
        BY <1>1, <1>2 DEF AppCrash, Saved, TypeOK
    <2>5. Silent
        BY <1>2 DEF AppCrash
    <2> QED BY <2>1, <2>2, <2>3, <2>4, <2>5, SilentTyped DEF TypeOK
<1>3. CASE DiskTurns
    BY <1>3 DEF DiskTurns, TypeOK
<1>4. ASSUME NEW t \in Thread, Flush(t)
      PROVE  TypeOK'
    <2>1. [store[t] EXCEPT !.disk = store[t].last] \in Stored
        BY <1>1 DEF Stored
    <2>2. store' \in [Thread -> Stored]
        BY <1>4, <2>1 DEF Flush, TypeOK
    <2> QED BY <1>4, <2>2, SilentTyped DEF Flush, TypeOK
<1> QED BY <1>2, <1>3, <1>4

-----------------------------------------------------------------------------
(* The engine's steps.                                                      *)

(* A worker that takes what came down its port has a thread, and what came  *)
(* is a message for an engine.                                              *)
LEMMA TakesTyped ==
    ASSUME TypeOK, NEW e \in Slot, NEW kind, NEW w, NEW out \in Seq(Outbound),
           Serves(e), Port(e).down # <<>>, Head(Port(e).down).kind = kind
    PROVE  /\ Incoming(e) \in Inbound /\ Incoming(e).kind = kind
           /\ w \in Worker /\ Takes(e, kind, w, out)
                => /\ engine' \in [Slot -> Worker]
                   /\ link' \in [Thread -> Ports]
<1>1. engine[e] \in Worker /\ engine[e].state = "up" /\ engine[e].owner \in Thread
    BY DEF Serves, TypeOK, Worker, Employed
<1>2. Port(e) \in Ports
    BY <1>1 DEF Port, TypeOK
<1>3. Head(Port(e).down) \in Inbound /\ Tail(Port(e).down) \in Seq(Inbound)
    BY <1>2, HeadTailProperties DEF Ports
<1>4. ASSUME w \in Worker, Takes(e, kind, w, out)
      PROVE  engine' \in [Slot -> Worker] /\ link' \in [Thread -> Ports]
    <2>1. Port(e).up \o out \in Seq(Outbound)
        BY <1>2, ConcatProperties DEF Ports
    <2>2. [down |-> Tail(Port(e).down), up |-> Port(e).up \o out] \in Ports
        BY <1>3, <2>1 DEF Ports
    <2>3. link' = [link EXCEPT ![engine[e].owner] =
                      [down |-> Tail(Port(e).down), up |-> Port(e).up \o out]]
        BY <1>1, <1>4 DEF Takes, Port, TypeOK
    <2>4. engine' = [engine EXCEPT ![e] = w]
        BY <1>4 DEF Takes
    <2> QED BY <1>4, <2>2, <2>3, <2>4 DEF TypeOK
<1> QED BY <1>3, <1>4 DEF Incoming

LEMMA SaysTyped ==
    ASSUME TypeOK, NEW e \in Slot, NEW w \in Worker, NEW out \in Seq(Outbound),
           Says(e, w, out)
    PROVE  engine' \in [Slot -> Worker] /\ link' \in [Thread -> Ports]
<1>1. \A t \in Thread : [link[t] EXCEPT !.up = @ \o out] \in Ports
    <2> TAKE t \in Thread
    <2>1. link[t] \in Ports
        BY DEF TypeOK
    <2>2. link[t].up \o out \in Seq(Outbound)
        BY <2>1, ConcatProperties DEF Ports
    <2> QED BY <2>1, <2>2 DEF Ports
<1>2. link' = [link EXCEPT ![engine[e].owner].up = @ \o out]
      /\ engine' = [engine EXCEPT ![e] = w]
    BY DEF Says
<1> QED BY <1>1, <1>2 DEF TypeOK

(* What is left of TypeOK after a step of an engine.                        *)
LEMMA EngineSideTyped ==
    ASSUME TypeOK, Rest, ran' \in [Msg -> Nat],
           engine' \in [Slot -> Worker], link' \in [Thread -> Ports]
    PROVE  TypeOK'
BY DEF TypeOK, Rest

LEMMA ActsTyped ==
    ASSUME TypeOK, NEW s, Acts(s)
    PROVE  ran' \in [Msg -> Nat]
BY DEF TypeOK, Acts

LEMMA OutTyped ==
    /\ <<>> \in Seq(Outbound)
    /\ \A k \in {"ready", "idle", "restored", "picked", "restoreFailed"} :
            <<Signal(k)>> \in Seq(Outbound)
    /\ \A c \in EngineCard : <<Question(c)>> \in Seq(Outbound)
    /\ \A s \in Seq(Msg) : <<Unused(s)>> \in Seq(Outbound)
BY EmptySeq DEF Signal, Question, Unused, Outbound

LEMMA EngineStepTyped ==
    ASSUME TypeOK, NEW e \in Slot, EngineStep(e)
    PROVE  TypeOK'
<1>1. engine[e] \in Worker /\ ran \in [Msg -> Nat]
    BY DEF TypeOK
<1>2. CASE Boot(e)
    <2>1. [engine[e] EXCEPT !.state = "up"] \in Worker
        BY <1>1, <1>2 DEF Boot, Worker, WorkerRecord, Employed
    <2> QED BY <1>1, <1>2, <2>1, OutTyped, SaysTyped, EngineSideTyped DEF Boot, Says
<1>3. CASE TakeInput(e)
    <2>1. /\ Serves(e) /\ Port(e).down # <<>> /\ Head(Port(e).down).kind = "input"
          /\ Rest
        BY <1>3 DEF TakeInput, Takes
    <2>2. Incoming(e) \in Inbound /\ Incoming(e).kind = "input"
        BY <2>1, TakesTyped, OutTyped
    <2>3. [engine[e] EXCEPT !.run = Incoming(e).msg] \in Worker
        BY <1>1, <2>2 DEF Inbound, Worker, WorkerRecord, Employed
    <2>4. engine' \in [Slot -> Worker] /\ link' \in [Thread -> Ports]
        BY <1>1, <1>3, <2>1, <2>3, TakesTyped, OutTyped DEF TakeInput
    <2>5. ran' \in [Msg -> Nat]
        BY <1>1, <1>3, ActsTyped DEF TakeInput
    <2> QED BY <2>1, <2>4, <2>5, EngineSideTyped
<1>4. CASE TakeSteer(e)
    <2>1. /\ Serves(e) /\ Port(e).down # <<>> /\ Head(Port(e).down).kind = "steer"
          /\ Rest
        BY <1>4 DEF TakeSteer, Takes
    <2>2. Incoming(e) \in Inbound /\ Incoming(e).kind = "steer"
        BY <2>1, TakesTyped, OutTyped
    <2>3. Incoming(e).msg \in Msg
        BY <2>2 DEF Inbound
    <2>4. [engine[e] EXCEPT !.run = Incoming(e).msg] \in Worker
        BY <1>1, <2>3 DEF Worker, WorkerRecord, Employed
    <2>5. [engine[e] EXCEPT !.steers = Append(@, Incoming(e).msg)] \in Worker
        <3>1. Append(engine[e].steers, Incoming(e).msg) \in Seq(Msg)
            BY <1>1, <2>3, AppendProperties DEF Worker, WorkerRecord, Employed
        <3> QED BY <1>1, <3>1 DEF Worker, WorkerRecord, Employed
    <2>6. engine' \in [Slot -> Worker] /\ link' \in [Thread -> Ports]
        BY <1>1, <1>4, <2>1, <2>4, <2>5, TakesTyped, OutTyped DEF TakeSteer
    <2>7. ran' \in [Msg -> Nat]
        BY <1>1, <1>4, ActsTyped DEF TakeSteer
    <2> QED BY <2>1, <2>6, <2>7, EngineSideTyped
<1>5. CASE TakeInterrupt(e)
    <2> DEFINE w == [engine[e] EXCEPT !.asking = {},
                               !.steers = IF engine[e].run = NoRun THEN @ ELSE <<>>]
    <2>1. w \in Worker
        BY <1>1, EmptySeq DEF Worker, WorkerRecord, Employed
    <2>2. Takes(e, "interrupt", w, <<>>) /\ ran' = ran
        BY <1>5 DEF TakeInterrupt
    <2> HIDE DEF w
    <2>3. engine' \in [Slot -> Worker] /\ link' \in [Thread -> Ports] /\ Rest
        BY <2>1, <2>2, TakesTyped, OutTyped DEF Takes
    <2> QED BY <1>1, <2>2, <2>3, EngineSideTyped
<1>6. CASE TakeReply(e)
    <2> DEFINE w == [engine[e] EXCEPT !.asking = @ \ {Incoming(e).card}]
    <2>1. w \in Worker
        BY <1>1 DEF Worker, WorkerRecord, Employed
    <2>2. Takes(e, "reply", w, <<>>) /\ ran' = ran
        BY <1>6 DEF TakeReply
    <2> HIDE DEF w
    <2>3. engine' \in [Slot -> Worker] /\ link' \in [Thread -> Ports] /\ Rest
        BY <2>1, <2>2, TakesTyped, OutTyped DEF Takes
    <2> QED BY <1>1, <2>2, <2>3, EngineSideTyped
<1>7. CASE TakeResume(e)
    <2>1. PICK answer \in {"restored", "restoreFailed", "nothing"} :
            Takes(e, "resume", engine[e],
                  IF answer = "nothing" THEN <<>> ELSE <<Signal(answer)>>)
        BY <1>7 DEF TakeResume
    <2> DEFINE out == IF answer = "nothing" THEN <<>> ELSE <<Signal(answer)>>
    <2>2. out \in Seq(Outbound)
        BY OutTyped
    <2>3. Takes(e, "resume", engine[e], out)
        BY <2>1
    <2> HIDE DEF out
    <2>4. engine' \in [Slot -> Worker] /\ link' \in [Thread -> Ports] /\ Rest
        BY <1>1, <2>2, <2>3, TakesTyped DEF Takes
    <2> QED BY <1>1, <1>7, <2>4, EngineSideTyped DEF TakeResume
<1>8. CASE TakePick(e)
    <2> DEFINE out == IF engine[e].run = NoRun THEN <<Signal("picked")>> ELSE <<>>
    <2>1. out \in Seq(Outbound)
        BY OutTyped
    <2>2. Takes(e, "pick", engine[e], out) /\ ran' = ran
        BY <1>8 DEF TakePick
    <2> HIDE DEF out
    <2>3. engine' \in [Slot -> Worker] /\ link' \in [Thread -> Ports] /\ Rest
        BY <1>1, <2>1, <2>2, TakesTyped DEF Takes
    <2> QED BY <1>1, <2>2, <2>3, EngineSideTyped
<1>9. CASE TakeCommand(e)
    <2> DEFINE w == [engine[e] EXCEPT !.asking = @ \cup {"command"}]
               out == IF "command" \in engine[e].asking THEN <<>> ELSE <<Question("command")>>
    <2>1. w \in Worker
        BY <1>1 DEF Worker, WorkerRecord, Employed, EngineCard
    <2>2. out \in Seq(Outbound)
        BY OutTyped DEF EngineCard
    <2>3. Takes(e, "command", w, out) /\ ran' = ran
        BY <1>9 DEF TakeCommand
    <2> HIDE DEF w, out
    <2>4. engine' \in [Slot -> Worker] /\ link' \in [Thread -> Ports] /\ Rest
        BY <2>1, <2>2, <2>3, TakesTyped DEF Takes
    <2> QED BY <1>1, <2>3, <2>4, EngineSideTyped
<1>10. CASE TurnTakesSteering(e)
    <2>1. [engine[e] EXCEPT !.steers = <<>>] \in Worker
        BY <1>1, EmptySeq DEF Worker, WorkerRecord, Employed
    <2> QED BY <1>10, <2>1, OutTyped, SaysTyped, ActsTyped, EngineSideTyped
            DEF TurnTakesSteering, Says
<1>11. CASE Ask(e)
    <2>1. [engine[e] EXCEPT !.asking = @ \cup {"turn"}] \in Worker
        BY <1>1 DEF Worker, WorkerRecord, Employed, EngineCard
    <2>2. <<Question("turn")>> \in Seq(Outbound)
        BY OutTyped DEF EngineCard
    <2> QED BY <1>1, <1>11, <2>1, <2>2, SaysTyped, EngineSideTyped DEF Ask, Says
<1>12. CASE TurnEnds(e)
    <2> DEFINE w == [engine[e] EXCEPT !.run = NoRun, !.steers = <<>>]
               back == IF engine[e].steers = <<>> THEN <<>> ELSE <<Unused(engine[e].steers)>>
    <2>1. w \in Worker
        BY <1>1, EmptySeq DEF Worker, WorkerRecord, Employed
    <2>2. back \in Seq(Outbound)
        BY <1>1, OutTyped DEF Worker, WorkerRecord, Employed
    <2>3. Says(e, w, back \o <<Signal("idle")>>) /\ ran' = ran
        BY <1>12 DEF TurnEnds
    <2> HIDE DEF w, back
    <2>4. back \o <<Signal("idle")>> \in Seq(Outbound)
        BY <2>2, OutTyped, ConcatProperties
    <2>5. engine' \in [Slot -> Worker] /\ link' \in [Thread -> Ports] /\ Rest
        BY <2>1, <2>3, <2>4, SaysTyped DEF Says
    <2> QED BY <1>1, <2>3, <2>5, EngineSideTyped
<1>13. CASE ContinuesAlone(e)
    <2>1. [engine[e] EXCEPT !.run = OwnTurn] \in Worker
        BY <1>1 DEF Worker, WorkerRecord, Employed
    <2> QED BY <1>1, <1>13, <2>1, OutTyped, SaysTyped, EngineSideTyped
            DEF ContinuesAlone, Says
<1> QED BY <1>2, <1>3, <1>4, <1>5, <1>6, <1>7, <1>8, <1>9, <1>10, <1>11, <1>12, <1>13
        DEF EngineStep

-----------------------------------------------------------------------------
(* Every state of the system is typed: no handler leaves a thread in a      *)
(* status or with a card, a queue or an engine the next one cannot take.    *)
THEOREM TypeCorrect == Spec => []TypeOK
<1>1. TypeOK /\ [Next]_vars => TypeOK'
    <2> SUFFICES ASSUME TypeOK, [Next]_vars PROVE TypeOK'
        OBVIOUS
    <2>1. CASE UNCHANGED vars
        BY <2>1 DEF TypeOK, vars
    <2>2. ASSUME NEW t \in Thread, ManagerStep(t)
          PROVE  TypeOK'
        BY <2>2, SubmitTyped, SteerTyped, OtherRequestsTyped, InterruptTyped, CancelTyped,
           StoppingTyped, StartTyped, AnswerTyped, ResumeChoiceTyped, ReceiveTyped,
           HeartbeatTyped, DeadlineTyped, EngineLostTyped, StorageTyped
           DEF ManagerStep
    <2>3. ASSUME NEW e \in Slot, EngineStep(e) \/ Drained(e)
          PROVE  TypeOK'
        BY <2>3, EngineStepTyped, DrainedTyped
    <2> QED BY <2>1, <2>2, <2>3, StorageTyped DEF Next
<1> QED BY <1>1, TypeInit, PTL DEF Spec

-----------------------------------------------------------------------------
(* Which worker belongs to which thread.                                    *)

(* Dispatching leaves every thread its engine and the exit it waits for.    *)
LEMMA FinishKeepsEngines ==
    ASSUME NEW m \in [Thread -> LiveThread], NEW l,
           NEW who \in SUBSET Thread, NEW now, NEW later, NEW dropped,
           Finish(m, l, who, now, later, dropped)
    PROVE  \A t \in Thread : th'[t].eng = m[t].eng /\ th'[t].draining = m[t].draining
<1>1. \A r \in LiveThread : /\ PumpedThread(r).eng = r.eng
                            /\ PumpedThread(r).draining = r.draining
    BY DEF PumpedThread, LiveThread
<1>2. PICK tried \in SUBSET who :
        th' = [t \in Thread |-> IF t \in tried THEN PumpedThread(m[t]) ELSE m[t]]
    BY DEF Finish
<1> QED BY <1>1, <1>2

LEMMA HeardKeepsEngines ==
    ASSUME NEW r \in LiveThread, NEW msg \in Outbound
    PROVE  Heard(r, msg).eng = r.eng /\ Heard(r, msg).draining = r.draining
<1>1. Ready(r).eng = r.eng /\ Ready(r).draining = r.draining
    BY DEF Ready, LiveThread
<1>2. Idle(r).eng = r.eng /\ Idle(r).draining = r.draining
    BY DEF Idle, LiveThread
<1>3. ResumeTook(r).eng = r.eng /\ ResumeTook(r).draining = r.draining
    BY DEF ResumeTook, LiveThread
<1>4. ResumeFailed(r).eng = r.eng /\ ResumeFailed(r).draining = r.draining
    BY DEF ResumeFailed, LiveThread
<1> QED BY <1>1, <1>2, <1>3, <1>4 DEF Heard, LiveThread

(* EnginesOwned as a relation between the engines g that threads have, the  *)
(* workers d they wait for, and the workers w: one step may do two things   *)
(* to it, stop an engine and start another.                                 *)
Eng(m) == [t \in Thread |-> m[t].eng]
Draining(m) == [t \in Thread |-> m[t].draining]
Place == [Thread -> Slot \cup {NoSlot}]

Owned(g, d, w) ==
    /\ \A t \in Thread : g[t] # NoSlot => w[g[t]].state \in Employed /\ w[g[t]].owner = t
    /\ \A e \in Slot :
          /\ w[e].state # "free" => w[e].owner \in Thread
          /\ w[e].state \in Employed => g[w[e].owner] = e
          /\ w[e].state = "exiting" => d[w[e].owner] = e
    /\ \A t \in Thread : d[t] # NoSlot => w[d[t]].state = "exiting" /\ w[d[t]].owner = t

LEMMA OwnedIsEnginesOwned ==
    ASSUME th \in [Thread -> LiveThread]
    PROVE  /\ Eng(th) \in Place /\ Draining(th) \in Place
           /\ EnginesOwned <=> Owned(Eng(th), Draining(th), engine)
<1>1. Eng(th) \in Place /\ Draining(th) \in Place
    BY DEF Eng, Draining, Place, LiveThread
<1>2. \A t \in Thread : Eng(th)[t] = th[t].eng /\ Draining(th)[t] = th[t].draining
    BY DEF Eng, Draining
<1>3. ASSUME EnginesOwned PROVE Owned(Eng(th), Draining(th), engine)
    BY <1>2, <1>3 DEF EnginesOwned, EnginesServe, WorkersKnown, DrainingExits, Owned, Employed
<1>4. ASSUME Owned(Eng(th), Draining(th), engine) PROVE EnginesOwned
    <2>1. EnginesServe
        BY <1>2, <1>4 DEF EnginesServe, Owned
    <2>2. WorkersKnown
        BY <1>2, <1>4 DEF WorkersKnown, Owned, Employed
    <2>3. DrainingExits
        BY <1>2, <1>4 DEF DrainingExits, Owned
    <2> QED BY <2>1, <2>2, <2>3 DEF EnginesOwned
<1> QED BY <1>1, <1>3, <1>4

LEMMA OwnedSame ==
    ASSUME NEW g \in Place, NEW d \in Place,
           NEW w \in [Slot -> Worker], NEW x \in [Slot -> Worker], Owned(g, d, w),
           \A e \in Slot : /\ x[e].owner = w[e].owner
                           /\ \/ x[e].state = w[e].state
                              \/ w[e].state \in Employed /\ x[e].state \in Employed
    PROVE  Owned(g, d, x)
BY DEF Owned, Place, Employed

(* t's engine is told to exit, and t waits for that.                        *)
LEMMA OwnedStop ==
    ASSUME NEW g \in Place, NEW d \in Place, NEW w \in [Slot -> Worker], Owned(g, d, w),
           NEW t \in Thread, g[t] # NoSlot, d[t] = NoSlot
    PROVE  Owned([g EXCEPT ![t] = NoSlot], [d EXCEPT ![t] = g[t]],
                 [w EXCEPT ![g[t]].state = "exiting"])
<1> DEFINE h == [g EXCEPT ![t] = NoSlot]
           c == [d EXCEPT ![t] = g[t]]
           x == [w EXCEPT ![g[t]].state = "exiting"]
<1>1. g[t] \in Slot /\ w[g[t]].owner = t /\ w[g[t]].state \in Employed
    BY DEF Place, Owned
<1>2. /\ h \in Place /\ h[t] = NoSlot /\ c[t] = g[t]
      /\ \A u \in Thread : u # t => h[u] = g[u] /\ c[u] = d[u]
    BY DEF Place
<1>3. \A e \in Slot : /\ x[e].owner = w[e].owner
                      /\ x[e].state = IF e = g[t] THEN "exiting" ELSE w[e].state
    BY <1>1 DEF Worker, WorkerRecord
<1> HIDE DEF h, c, x
<1>4. \A u \in Thread : h[u] # NoSlot => x[h[u]].state \in Employed /\ x[h[u]].owner = u
    BY <1>1, <1>2, <1>3 DEF Owned, Place, Employed
<1>5. ASSUME NEW e \in Slot
      PROVE  /\ x[e].state # "free" => x[e].owner \in Thread
             /\ x[e].state \in Employed => h[x[e].owner] = e
             /\ x[e].state = "exiting" => c[x[e].owner] = e
    <2>1. CASE e = g[t]
        BY <1>1, <1>2, <1>3, <2>1 DEF Employed
    <2>2. CASE e # g[t]
        <3>1. x[e].state = w[e].state /\ x[e].owner = w[e].owner
            BY <1>3, <2>2
        <3>2. w[e].state \in Employed => w[e].owner \in Thread \ {t} /\ g[w[e].owner] = e
            BY <2>2 DEF Owned, Employed
        <3>3. w[e].state = "exiting" => w[e].owner \in Thread \ {t} /\ d[w[e].owner] = e
            BY ConstantsAssumption DEF Owned
        <3>4. w[e].state # "free" => w[e].owner \in Thread
            BY DEF Owned
        <3> QED BY <1>2, <3>1, <3>2, <3>3, <3>4
    <2> QED BY <2>1, <2>2
<1>6. \A u \in Thread : c[u] # NoSlot => x[c[u]].state = "exiting" /\ x[c[u]].owner = u
    <2>1. \A u \in Thread : d[u] # NoSlot => d[u] \in Slot
        BY DEF Place
    <2> QED BY <1>1, <1>2, <1>3, <2>1 DEF Owned
<1> QED BY <1>4, <1>5, <1>6 DEF Owned, h, c, x

(* A free worker starts for t, which has no engine.                         *)
LEMMA OwnedBoot ==
    ASSUME NEW g \in Place, NEW d \in Place, NEW w \in [Slot -> Worker], Owned(g, d, w),
           NEW t \in Thread, g[t] = NoSlot, NEW e \in Slot, w[e].state = "free"
    PROVE  Owned([g EXCEPT ![t] = e], d, [w EXCEPT ![e] = BootingFor(t)])
<1> DEFINE h == [g EXCEPT ![t] = e]
           x == [w EXCEPT ![e] = BootingFor(t)]
<1>1. /\ h[t] = e /\ \A u \in Thread : u # t => h[u] = g[u]
      /\ x[e].state = "boot" /\ x[e].owner = t
      /\ \A f \in Slot : f # e => x[f] = w[f]
    BY DEF Place, BootingFor, FreeWorker
<1> HIDE DEF h, x
<1>2. \A u \in Thread : g[u] # e /\ d[u] # e
    BY ConstantsAssumption DEF Owned, Employed
<1>3. \A u \in Thread : h[u] # NoSlot => x[h[u]].state \in Employed /\ x[h[u]].owner = u
    <2>1. \A u \in Thread : g[u] # NoSlot => g[u] \in Slot
        BY DEF Place
    <2> QED BY <1>1, <1>2, <2>1 DEF Owned, Employed
<1>4. ASSUME NEW f \in Slot
      PROVE  /\ x[f].state # "free" => x[f].owner \in Thread
             /\ x[f].state \in Employed => h[x[f].owner] = f
             /\ x[f].state = "exiting" => d[x[f].owner] = f
    <2>1. CASE f = e
        BY <1>1, <2>1
    <2>2. CASE f # e
        <3>1. w[f].state \in Employed => w[f].owner \in Thread \ {t} /\ g[w[f].owner] = f
            BY ConstantsAssumption DEF Owned, Employed
        <3> QED BY <1>1, <2>2, <3>1 DEF Owned
    <2> QED BY <2>1, <2>2
<1>5. \A u \in Thread : d[u] # NoSlot => x[d[u]].state = "exiting" /\ x[d[u]].owner = u
    <2>1. \A u \in Thread : d[u] # NoSlot => d[u] \in Slot
        BY DEF Place
    <2> QED BY <1>1, <1>2, <2>1 DEF Owned
<1> QED BY <1>3, <1>4, <1>5 DEF Owned, h, x

(* t's engine is gone at once.                                              *)
LEMMA OwnedGone ==
    ASSUME NEW g \in Place, NEW d \in Place, NEW w \in [Slot -> Worker], Owned(g, d, w),
           NEW t \in Thread, g[t] # NoSlot, d[t] = NoSlot
    PROVE  Owned([g EXCEPT ![t] = NoSlot], d, [w EXCEPT ![g[t]] = FreeWorker])
<1> DEFINE h == [g EXCEPT ![t] = NoSlot]
           x == [w EXCEPT ![g[t]] = FreeWorker]
<1>1. g[t] \in Slot /\ w[g[t]].owner = t /\ w[g[t]].state \in Employed
    BY DEF Place, Owned
<1>2. /\ h[t] = NoSlot /\ \A u \in Thread : u # t => h[u] = g[u]
      /\ x[g[t]].state = "free"
      /\ \A f \in Slot : f # g[t] => x[f] = w[f]
    BY <1>1 DEF Place, FreeWorker
<1> HIDE DEF h, x
<1>3. \A u \in Thread : u # t => g[u] # g[t]
    BY <1>1 DEF Owned
<1>4. \A u \in Thread : d[u] # g[t]
    BY <1>1, ConstantsAssumption DEF Owned, Employed
<1>5. \A u \in Thread : (g[u] # NoSlot => g[u] \in Slot) /\ (d[u] # NoSlot => d[u] \in Slot)
    BY DEF Place
<1>6. ASSUME NEW f \in Slot
      PROVE  /\ x[f].state # "free" => x[f].owner \in Thread
             /\ x[f].state \in Employed => h[x[f].owner] = f
             /\ x[f].state = "exiting" => d[x[f].owner] = f
    <2>1. CASE f = g[t]
        BY <1>2, <2>1 DEF Employed
    <2>2. CASE f # g[t]
        <3>1. w[f].state \in Employed => w[f].owner \in Thread \ {t} /\ g[w[f].owner] = f
            BY <2>2 DEF Owned, Employed
        <3> QED BY <1>2, <2>2, <3>1 DEF Owned
    <2> QED BY <2>1, <2>2
<1>7. \A u \in Thread : h[u] # NoSlot => x[h[u]].state \in Employed /\ x[h[u]].owner = u
    BY <1>2, <1>3, <1>5 DEF Owned
<1>8. \A u \in Thread : d[u] # NoSlot => x[d[u]].state = "exiting" /\ x[d[u]].owner = u
    BY <1>2, <1>4, <1>5 DEF Owned
<1> QED BY <1>6, <1>7, <1>8 DEF Owned, h, x

(* A worker has exited, and its thread no longer waits for it.              *)
LEMMA OwnedDrained ==
    ASSUME NEW g \in Place, NEW d \in Place, NEW w \in [Slot -> Worker], Owned(g, d, w),
           NEW e \in Slot, w[e].state = "exiting"
    PROVE  Owned(g, [d EXCEPT ![w[e].owner] = NoSlot], [w EXCEPT ![e] = FreeWorker])
<1> DEFINE t == w[e].owner
           c == [d EXCEPT ![t] = NoSlot]
           x == [w EXCEPT ![e] = FreeWorker]
<1>1. t \in Thread /\ d[t] = e
    BY DEF Owned
<1>2. /\ c[t] = NoSlot /\ \A u \in Thread : u # t => c[u] = d[u]
      /\ x[e].state = "free" /\ \A f \in Slot : f # e => x[f] = w[f]
    BY <1>1 DEF Place, FreeWorker
<1> HIDE DEF c, x
<1>3. \A u \in Thread : g[u] # e
    BY ConstantsAssumption DEF Owned, Employed
<1>4. \A u \in Thread : u # t => d[u] # e
    BY ConstantsAssumption DEF Owned
<1>5. \A u \in Thread : (g[u] # NoSlot => g[u] \in Slot) /\ (d[u] # NoSlot => d[u] \in Slot)
    BY DEF Place
<1>6. ASSUME NEW f \in Slot
      PROVE  /\ x[f].state # "free" => x[f].owner \in Thread
             /\ x[f].state \in Employed => g[x[f].owner] = f
             /\ x[f].state = "exiting" => c[x[f].owner] = f
    <2>1. CASE f = e
        BY <1>2, <2>1 DEF Employed
    <2>2. CASE f # e
        <3>1. w[f].state = "exiting" => w[f].owner \in Thread \ {t} /\ d[w[f].owner] = f
            BY <1>1, <2>2 DEF Owned
        <3> QED BY <1>2, <2>2, <3>1 DEF Owned
    <2> QED BY <2>1, <2>2
<1>7. \A u \in Thread : g[u] # NoSlot => x[g[u]].state \in Employed /\ x[g[u]].owner = u
    BY <1>2, <1>3, <1>5 DEF Owned
<1>8. \A u \in Thread : c[u] # NoSlot => x[c[u]].state = "exiting" /\ x[c[u]].owner = u
    BY <1>2, <1>4, <1>5 DEF Owned
<1> QED BY <1>6, <1>7, <1>8 DEF Owned, c, x

(* A handler that leaves threads m and workers engine' keeps what it keeps  *)
(* of the relation.                                                         *)
LEMMA OwnedAfter ==
    ASSUME NEW m \in [Thread -> LiveThread], NEW l,
           NEW who \in SUBSET Thread, NEW now, NEW later, NEW dropped,
           Finish(m, l, who, now, later, dropped),
           Owned(Eng(m), Draining(m), engine')
    PROVE  EnginesOwned'
<1>1. \A t \in Thread : th'[t].eng = Eng(m)[t] /\ th'[t].draining = Draining(m)[t]
    BY FinishKeepsEngines DEF Eng, Draining
<1>2. EnginesServe'
    BY <1>1 DEF EnginesServe, Owned
<1>3. WorkersKnown'
    BY <1>1 DEF WorkersKnown, Owned, Employed
<1>4. DrainingExits'
    BY <1>1 DEF DrainingExits, Owned
<1> QED BY <1>2, <1>3, <1>4 DEF EnginesOwned

(* A step in which no thread changes its engine and no worker its owner.    *)
LEMMA OwnedKept ==
    ASSUME TypeOK, EnginesOwned,
           \A t \in Thread : th'[t].eng = th[t].eng /\ th'[t].draining = th[t].draining,
           \A e \in Slot : /\ engine'[e].owner = engine[e].owner
                           /\ \/ engine'[e].state = engine[e].state
                              \/ engine[e].state \in Employed /\ engine'[e].state \in Employed
    PROVE  EnginesOwned'
<1>1. \A t \in Thread : th[t].eng \in Slot \cup {NoSlot} /\ th[t].draining \in Slot \cup {NoSlot}
    BY DEF TypeOK, LiveThread
<1>2. \A e \in Slot : engine[e].state # "free" => engine[e].owner \in Thread
    BY DEF EnginesOwned, WorkersKnown
<1> QED BY <1>1, <1>2
        DEF EnginesOwned, EnginesServe, WorkersKnown, DrainingExits, Employed

(* Handlers that touch no engine.                                           *)
EnginesKept ==
    /\ \A u \in Thread : th'[u].eng = th[u].eng /\ th'[u].draining = th[u].draining
    /\ engine' = engine

LEMMA QuietHandlers ==
    ASSUME TypeOK, NEW t \in Thread,
           \/ \E m \in Msg : Steer(t, m)
           \/ SubmitRefused(t) \/ Interrupt(t) \/ CancelQueued(t)
           \/ \E c \in EngineCard : Reply(t, c)
           \/ \E fresh \in BOOLEAN : ResumeChoice(t, fresh)
           \/ \E k \in {"command", "pick"} : PassThrough(t, k)
           \/ Receive(t) \/ Heartbeat(t) \/ ResumeDeadline(t) \/ Flush(t)
    PROVE  EnginesKept
<1> DEFINE Quiet(m) == /\ m \in [Thread -> LiveThread]
                       /\ \A u \in Thread : m[u].eng = th[u].eng /\ m[u].draining = th[u].draining
<1>1. th \in [Thread -> LiveThread] /\ \A u \in Thread : th[u] \in LiveThread
    BY DEF TypeOK
<1>2. ASSUME NEW r \in LiveThread, r.eng = th[t].eng, r.draining = th[t].draining
      PROVE  Quiet([th EXCEPT ![t] = r])
    BY <1>1, <1>2
<1>3. ASSUME NEW m, Quiet(m), NEW l, NEW who \in SUBSET Thread, NEW now, NEW later,
             NEW dropped, Finish(m, l, who, now, later, dropped), engine' = engine
      PROVE  EnginesKept
    BY <1>3, FinishKeepsEngines DEF EnginesKept
<1>4. ASSUME NEW m \in Msg, Steer(t, m) PROVE EnginesKept
    <2>1. th[t].sent \cup {m} \in SUBSET Msg /\ Append(th[t].queue, m) \in Seq(Msg)
        BY <1>1, AppendProperties DEF LiveThread
    <2>2. Steered(th[t], m) \in LiveThread
        BY <1>1, <2>1 DEF Steered, LiveThread
    <2>3. Steered(th[t], m).eng = th[t].eng /\ Steered(th[t], m).draining = th[t].draining
        BY <1>1 DEF Steered, LiveThread
    <2> QED BY <1>2, <1>3, <1>4, <2>2, <2>3 DEF Steer
<1> HIDE DEF Quiet
<1>5. CASE SubmitRefused(t)
    <2>1. \A u \in Thread : th'[u].eng = th[u].eng /\ th'[u].draining = th[u].draining
        BY <1>1, <1>5 DEF SubmitRefused, LiveThread
    <2> QED BY <1>5, <2>1 DEF SubmitRefused, EnginesKept
<1>6. CASE Interrupt(t)
    <2>1. Quiet([th EXCEPT ![t].queue = <<>>, ![t].sent = {}, ![t].cards = {}])
        <3>1. [th[t] EXCEPT !.queue = <<>>, !.sent = {}, !.cards = {}] \in LiveThread
            BY <1>1, EmptySeq DEF LiveThread
        <3> QED BY <1>1, <3>1 DEF Quiet, LiveThread
    <2> QED BY <1>3, <1>6, <2>1 DEF Interrupt
<1>7. CASE CancelQueued(t)
    <2>1. Quiet([th EXCEPT ![t].queue = <<>>])
        <3>1. [th[t] EXCEPT !.queue = <<>>] \in LiveThread
            BY <1>1, EmptySeq DEF LiveThread
        <3> QED BY <1>1, <3>1 DEF Quiet, LiveThread
    <2> QED BY <1>3, <1>7, <2>1 DEF CancelQueued
<1>8. ASSUME NEW c \in EngineCard, Reply(t, c) PROVE EnginesKept
    <2>1. Quiet([th EXCEPT ![t].cards = @ \ {c}, ![t].status = "working"])
        <3>1. [th[t] EXCEPT !.cards = @ \ {c}, !.status = "working"] \in LiveThread
            BY <1>1 DEF LiveThread, Status
        <3> QED BY <1>1, <3>1 DEF Quiet, LiveThread
    <2> QED BY <1>3, <1>8, <2>1 DEF Reply
<1>9. ASSUME NEW fresh \in BOOLEAN, ResumeChoice(t, fresh) PROVE EnginesKept
    <2>1. Quiet([th EXCEPT ![t].cards = @ \ {"choice"}, ![t].status = "idle",
                           ![t].hold = @ /\ ~fresh])
        <3>1. (th[t].hold /\ ~fresh) \in BOOLEAN
            OBVIOUS
        <3>2. [th[t] EXCEPT !.cards = @ \ {"choice"}, !.status = "idle",
                            !.hold = @ /\ ~fresh] \in LiveThread
            BY ZenonT(60), <1>1, <3>1 DEF LiveThread, Status
        <3> QED BY <1>1, <3>2 DEF Quiet, LiveThread
    <2> QED BY <1>3, <1>9, <2>1 DEF ResumeChoice
<1>10. ASSUME NEW k \in {"command", "pick"}, PassThrough(t, k) PROVE EnginesKept
    BY <1>10 DEF PassThrough, EnginesKept
<1>11. CASE Receive(t)
    <2> DEFINE r == Heard(th[t], Head(link[t].up))
    <2>1. Head(link[t].up) \in Outbound
        BY <1>11, HeadTailProperties DEF Receive, TypeOK, Ports
    <2>2. r \in LiveThread /\ r.eng = th[t].eng /\ r.draining = th[t].draining
        BY <1>1, <2>1, HeardTyped, HeardKeepsEngines
    <2>3. Quiet([th EXCEPT ![t] = r])
        BY <1>2, <2>2
    <2>4. PumpedAfter(r) \in SUBSET Thread
        BY DEF PumpedAfter
    <2>5. \E l : Finish([th EXCEPT ![t] = r], l, PumpedAfter(r), {}, {t}, {})
        BY <1>11 DEF Receive
    <2>6. engine' = engine
        BY <1>11 DEF Receive
    <2> HIDE DEF r
    <2> QED BY <1>3, <2>3, <2>4, <2>5, <2>6
<1>12. CASE Heartbeat(t)
    <2> DEFINE r == [th[t] EXCEPT !.session = @ \/ ("resume" \in Allowed /\ ~th[t].resume)]
    <2>1. (th[t].session \/ ("resume" \in Allowed /\ ~th[t].resume)) \in BOOLEAN
        OBVIOUS
    <2>2. r \in LiveThread /\ r.eng = th[t].eng /\ r.draining = th[t].draining
        BY ZenonT(60), <1>1, <2>1 DEF LiveThread
    <2>3. Finish([th EXCEPT ![t] = r], link, PumpedAfter(r), {}, {t}, {}) /\ engine' = engine
        BY <1>12 DEF Heartbeat
    <2>4. PumpedAfter(r) \in SUBSET Thread
        BY DEF PumpedAfter
    <2> HIDE DEF r
    <2> QED BY <1>2, <1>3, <2>2, <2>3, <2>4
<1>13. CASE ResumeDeadline(t)
    <2> DEFINE q == [th[t] EXCEPT !.armed = FALSE]
               r == IF q.eng # NoSlot /\ q.resume THEN ResumeFailed(q) ELSE q
    <2>1. q \in LiveThread /\ q.eng = th[t].eng /\ q.draining = th[t].draining
        BY <1>1 DEF LiveThread
    <2>2. ResumeFailed(q).eng = q.eng /\ ResumeFailed(q).draining = q.draining
        <3> HIDE DEF q
        <3> QED BY <2>1 DEF ResumeFailed, LiveThread
    <2>3. r \in LiveThread /\ r.eng = th[t].eng /\ r.draining = th[t].draining
        <3> HIDE DEF q
        <3> QED BY <2>1, <2>2, ResumeFailedTyped
    <2>4. Finish([th EXCEPT ![t] = r], link, {}, {}, {t}, {}) /\ engine' = engine
        BY <1>13 DEF ResumeDeadline
    <2> HIDE DEF r
    <2> QED BY <1>2, <1>3, <2>3, <2>4
<1>14. CASE Flush(t)
    BY <1>14 DEF Flush, EnginesKept
<1> QED BY <1>4, <1>5, <1>6, <1>7, <1>8, <1>9, <1>10, <1>11, <1>12, <1>13, <1>14

LEMMA QuietOwned ==
    ASSUME TypeOK, EnginesOwned, EnginesKept
    PROVE  EnginesOwned'
BY OwnedKept DEF EnginesKept

(* Handlers that dispose of an engine or start one.                         *)
LEMMA EngineHandlers ==
    ASSUME TypeOK, EnginesOwned, "restop" \notin Allowed, NEW t \in Thread,
           \/ \E m \in Msg : Submit(t, m)
           \/ Start(t) \/ Stop(t) \/ Reap(t) \/ Restart(t)
           \/ EngineRestarts(t) \/ EngineStopping(t) \/ EngineGone(t)
    PROVE  EnginesOwned'
<1> DEFINE g == Eng(th)
           d == Draining(th)
<1>1. /\ th \in [Thread -> LiveThread] /\ engine \in [Slot -> Worker]
      /\ \A u \in Thread : th[u] \in LiveThread
    BY DEF TypeOK
<1>2. /\ g \in Place /\ d \in Place /\ Owned(g, d, engine)
      /\ \A u \in Thread : g[u] = th[u].eng /\ d[u] = th[u].draining
    BY <1>1, OwnedIsEnginesOwned DEF Eng, Draining
<1>3. \A r \in LiveThread, keep \in BOOLEAN :
        /\ Stopped(r, keep) \in LiveThread
        /\ Stopped(r, keep).eng = NoSlot
        /\ Stopped(r, keep).draining = IF r.eng = NoSlot THEN r.draining ELSE r.eng
    <2> SUFFICES ASSUME NEW r \in LiveThread, NEW keep \in BOOLEAN
                 PROVE  /\ Stopped(r, keep) \in LiveThread
                        /\ Stopped(r, keep).eng = NoSlot
                        /\ Stopped(r, keep).draining = IF r.eng = NoSlot THEN r.draining ELSE r.eng
        OBVIOUS
    <2>1. Stopped(r, keep) \in LiveThread
        BY StoppedTyped
    <2>2. /\ Stopped(r, keep).eng = NoSlot
          /\ Stopped(r, keep).draining = IF r.eng = NoSlot THEN r.draining ELSE r.eng
        BY DEF Stopped, LiveThread
    <2> QED BY <2>1, <2>2
<1>4. \A r \in LiveThread, e \in Slot :
        Started(r, e) \in LiveThread /\ Started(r, e).eng = e /\ Started(r, e).draining = r.draining
    BY StartedTyped DEF Started, LiveThread
<1> HIDE DEF g, d
<1>5. ASSUME NEW u \in Thread, g[u] # NoSlot, d[u] = NoSlot
      PROVE  /\ Dispose(th[u].eng) = [engine EXCEPT ![g[u]].state = "exiting"]
             /\ Owned([g EXCEPT ![u] = NoSlot], [d EXCEPT ![u] = g[u]], Dispose(th[u].eng))
    <2>1. Dispose(th[u].eng) = [engine EXCEPT ![g[u]].state = "exiting"]
        BY <1>2, <1>5 DEF Dispose
    <2>2. Owned([g EXCEPT ![u] = NoSlot], [d EXCEPT ![u] = g[u]],
                [engine EXCEPT ![g[u]].state = "exiting"])
        BY <1>1, <1>2, <1>5, OwnedStop
    <2> QED BY <2>1, <2>2
<1>6. CASE Stop(t) \/ Reap(t)
    <2> DEFINE Stops(keep, dropped) ==
            /\ Finish([th EXCEPT ![t] = Stopped(@, keep)], [link EXCEPT ![t] = Closed],
                      Thread, {}, {t}, dropped)
            /\ engine' = Dispose(th[t].eng) /\ MayDispose(t)
    <2>either. Stops(FALSE, Pending(th[t])) \/ Stops(TRUE, th[t].sent)
        BY <1>6 DEF Stop, Reap
    <2>pair. PICK keep \in BOOLEAN : \E dropped : Stops(keep, dropped)
        BY <2>either
    <2>1. PICK dropped : Stops(keep, dropped)
        BY <2>pair
    <2> DEFINE m == [th EXCEPT ![t] = Stopped(@, keep)]
    <2>2. m \in [Thread -> LiveThread]
        BY <1>1, <1>3
    <2>3. CASE g[t] = NoSlot
        <3>1. Eng(m) = g /\ Draining(m) = d
            BY <1>1, <1>2, <1>3, <2>3 DEF Eng, Draining, Place
        <3>2. engine' = engine
            BY <1>2, <2>1, <2>3 DEF Dispose
        <3> HIDE DEF m
        <3>3. Owned(Eng(m), Draining(m), engine')
            BY <1>2, <3>1, <3>2
        <3> QED BY <2>1, <2>2, <3>3, OwnedAfter DEF m
    <2>4. CASE g[t] # NoSlot
        <3>1. d[t] = NoSlot
            BY <1>2, <2>1, <2>4 DEF MayDispose
        <3>2. Eng(m) = [g EXCEPT ![t] = NoSlot] /\ Draining(m) = [d EXCEPT ![t] = g[t]]
            BY ZenonT(60), <1>1, <1>2, <1>3, <2>4 DEF Eng, Draining, Place
        <3> HIDE DEF m
        <3>3. Owned(Eng(m), Draining(m), engine')
            BY <1>5, <2>1, <2>4, <3>1, <3>2
        <3> QED BY <2>1, <2>2, <3>3, OwnedAfter DEF m
    <2> QED BY <2>3, <2>4
<1>7. CASE Restart(t)
    <2>1. PICK e \in FreeSlots :
            /\ Finish([th EXCEPT ![t] = Started(Stopped(@, TRUE), e)],
                      [link EXCEPT ![t] = Closed], Thread, {}, {t}, th[t].sent)
            /\ engine' = [Dispose(th[t].eng) EXCEPT ![e] = BootingFor(t)]
        BY <1>7 DEF Restart
    <2> DEFINE m == [th EXCEPT ![t] = Started(Stopped(@, TRUE), e)]
               h == [g EXCEPT ![t] = NoSlot]
               c == [d EXCEPT ![t] = g[t]]
               w == Dispose(th[t].eng)
    <2>2. e \in Slot /\ engine[e].state = "free" /\ g[t] # NoSlot /\ d[t] = NoSlot
        BY <1>2, <1>7 DEF FreeSlots, Restart, MayDispose
    <2>3. m \in [Thread -> LiveThread]
        BY <1>1, <1>3, <1>4, <2>2
    <2>4. Owned(h, c, w) /\ w = [engine EXCEPT ![g[t]].state = "exiting"]
        BY <1>5, <2>2
    <2>5. w \in [Slot -> Worker] /\ h \in Place /\ c \in Place /\ h[t] = NoSlot
        BY <1>1, <1>2, DisposeTyped DEF Place, LiveThread
    <2>6. w[e].state = "free"
        <3>1. g[t] # e
            BY <2>2, <1>2 DEF Owned, Employed
        <3> QED BY <1>1, <2>2, <2>4, <3>1
    <2>7. Eng(m) = [h EXCEPT ![t] = e] /\ Draining(m) = c
        <3>1. m[t].eng = e /\ m[t].draining = g[t]
            <4>1. Stopped(th[t], TRUE) \in LiveThread /\ Stopped(th[t], TRUE).draining = g[t]
                BY <1>1, <1>2, <1>3, <2>2
            <4>2. m[t] = Started(Stopped(th[t], TRUE), e)
                BY <1>1
            <4> QED BY <1>4, <2>2, <4>1, <4>2
        <3>2. \A u \in Thread \ {t} : m[u].eng = g[u] /\ m[u].draining = d[u]
            BY <1>1, <1>2
        <3> QED BY <1>2, <3>1, <3>2 DEF Eng, Draining, Place
    <2> HIDE DEF h, c, w, m
    <2>8. Owned([h EXCEPT ![t] = e], c, [w EXCEPT ![e] = BootingFor(t)])
        BY <2>2, <2>4, <2>5, <2>6, OwnedBoot
    <2>9. Owned(Eng(m), Draining(m), engine')
        BY <2>1, <2>7, <2>8 DEF w
    <2> QED BY <2>1, <2>3, <2>9, OwnedAfter DEF m
<1>8. CASE EngineGone(t)
    <2> DEFINE r == [CutOff(th[t], "stopped") EXCEPT
                        !.eng = NoSlot, !.armed = FALSE, !.draining = NoSlot]
               m == [th EXCEPT ![t] = [CutOff(@, "stopped") EXCEPT
                        !.eng = NoSlot, !.armed = FALSE, !.draining = NoSlot]]
    <2>1. /\ Finish(m, [link EXCEPT ![t] = Closed], Thread, {}, {t}, th[t].sent)
          /\ engine' = [engine EXCEPT ![th[t].eng] = FreeWorker]
          /\ g[t] # NoSlot /\ d[t] = NoSlot
        BY <1>2, <1>8 DEF EngineGone, MayDispose
    <2>2. r \in LiveThread /\ r.eng = NoSlot /\ r.draining = NoSlot
        <3> DEFINE q == CutOff(th[t], "stopped")
        <3>1. q \in LiveThread
            BY <1>1, CutOffTyped DEF Status
        <3> HIDE DEF q
        <3>2. [q EXCEPT !.eng = NoSlot, !.armed = FALSE, !.draining = NoSlot] \in LiveThread
            BY <3>1 DEF LiveThread
        <3> QED BY <3>1, <3>2 DEF q, LiveThread
    <2>3. m = [th EXCEPT ![t] = r]
        BY <1>1
    <2> HIDE DEF r, m
    <2>4. m \in [Thread -> LiveThread] /\ Eng(m) = [g EXCEPT ![t] = NoSlot] /\ Draining(m) = d
        BY <1>1, <1>2, <2>1, <2>2, <2>3 DEF Eng, Draining, Place
    <2>5. Owned([g EXCEPT ![t] = NoSlot], d, [engine EXCEPT ![g[t]] = FreeWorker])
        BY <1>1, <1>2, <2>1, OwnedGone
    <2>6. g[t] = th[t].eng
        BY <1>2
    <2>7. Owned(Eng(m), Draining(m), engine')
        BY <2>1, <2>4, <2>5, <2>6
    <2> QED BY <2>1, <2>4, <2>7, OwnedAfter
<1>9. CASE EngineRestarts(t) \/ EngineStopping(t)
    <2>1. \A status : CutOff(th[t], status).eng = th[t].eng
                      /\ CutOff(th[t], status).draining = th[t].draining
        BY <1>1 DEF CutOff, LiveThread
    <2>2. PICK status \in Status :
            Finish([th EXCEPT ![t] = CutOff(@, status)], [link EXCEPT ![t] = Closed],
                   {}, {}, {t}, th[t].sent)
        BY <1>9 DEF EngineRestarts, EngineStopping, Status
    <2> DEFINE m == [th EXCEPT ![t] = CutOff(@, status)]
    <2>3. m \in [Thread -> LiveThread]
        BY <1>1, CutOffTyped
    <2>4. Eng(m) = g /\ Draining(m) = d
        BY <1>1, <1>2, <2>1 DEF Eng, Draining, Place
    <2>5. \A e \in Slot : /\ engine'[e].owner = engine[e].owner
                          /\ \/ engine'[e].state = engine[e].state
                             \/ engine[e].state \in Employed /\ engine'[e].state \in Employed
        <3>1. g[t] # NoSlot /\ g[t] = th[t].eng
            BY <1>2, <1>9 DEF EngineRestarts, EngineStopping
        <3>2. g[t] \in Slot /\ engine[g[t]].owner = t /\ engine[g[t]].state \in Employed
            BY <1>2, <3>1 DEF Owned, Place
        <3>3. CASE EngineRestarts(t)
            <4>1. engine' = [engine EXCEPT ![g[t]] = BootingFor(t)]
                BY <3>1, <3>3 DEF EngineRestarts
            <4>2. BootingFor(t).owner = t /\ BootingFor(t).state = "boot"
                BY DEF BootingFor, FreeWorker
            <4> QED BY <1>1, <3>2, <4>1, <4>2 DEF Employed
        <3>4. CASE EngineStopping(t)
            <4>1. engine' = [engine EXCEPT ![g[t]].state = "stopping"]
                BY <3>1, <3>4 DEF EngineStopping
            <4>2. \A e \in Slot : [engine[e] EXCEPT !.state = "stopping"].owner = engine[e].owner
                                  /\ [engine[e] EXCEPT !.state = "stopping"].state = "stopping"
                BY <1>1 DEF Worker, WorkerRecord
            <4> QED BY <1>1, <3>2, <4>1, <4>2 DEF Employed
        <3> QED BY <1>9, <3>3, <3>4
    <2>6. engine' \in [Slot -> Worker]
        BY <1>9, EngineLostTyped DEF TypeOK
    <2> HIDE DEF m
    <2>7. Owned(Eng(m), Draining(m), engine')
        BY <1>1, <1>2, <2>4, <2>5, <2>6, OwnedSame
    <2> QED BY <2>2, <2>3, <2>7, OwnedAfter DEF m
<1>10. ASSUME NEW o \in Openings(t), OpenEngine(o, t)
       PROVE  Owned(Eng(Opened(o, t)), Draining(Opened(o, t)), engine')
    <2> DEFINE m == Opened(o, t)
    <2>1. CASE o.slot = NoSlot
        <3>1. m = th /\ engine' = engine
            BY <1>1, <1>10, <2>1 DEF Opened, OpenEngine
        <3> QED BY <1>2, <3>1 DEF g, d
    <2>2. CASE o.slot # NoSlot
        <3>1. /\ g[t] = NoSlot /\ o.slot \in Slot /\ engine[o.slot].state = "free"
              /\ o.victim = NoThread \/ (o.victim \in Reclaimable /\ o.victim \in Thread)
            BY <1>2, <2>2 DEF Openings, FreeSlots, Reclaimable
        <3>2. CASE o.victim = NoThread
            <4>1. engine' = [engine EXCEPT ![o.slot] = BootingFor(t)]
                BY <1>1, <1>10, <2>2, <3>2 DEF OpenEngine
            <4>2. \A u \in Thread : m[u] = IF u = t THEN Started(th[t], o.slot) ELSE th[u]
                BY <2>2, <3>2, ConstantsAssumption DEF Opened
            <4>3. \A u \in Thread : /\ m[u].eng = IF u = t THEN o.slot ELSE g[u]
                                    /\ m[u].draining = d[u]
                BY <1>1, <1>2, <1>4, <3>1, <4>2
            <4>4. Eng(m) = [g EXCEPT ![t] = o.slot] /\ Draining(m) = d
                BY <1>2, <4>3 DEF Eng, Draining, Place
            <4>5. Owned([g EXCEPT ![t] = o.slot], d, [engine EXCEPT ![o.slot] = BootingFor(t)])
                BY <1>1, <1>2, <3>1, OwnedBoot
            <4> QED BY <4>1, <4>4, <4>5
        <3>3. CASE o.victim # NoThread
            <4> DEFINE v == o.victim
                       h == [g EXCEPT ![v] = NoSlot]
                       c == [d EXCEPT ![v] = g[v]]
                       w == Dispose(th[v].eng)
            <4>1. v \in Thread /\ v # t /\ g[v] # NoSlot /\ d[v] = NoSlot
                BY <1>2, <3>1, <3>3 DEF Reclaimable
            <4>2. Owned(h, c, w) /\ w = [engine EXCEPT ![g[v]].state = "exiting"]
                BY <1>5, <4>1
            <4>3. w \in [Slot -> Worker] /\ h \in Place /\ c \in Place /\ h[t] = NoSlot
                BY <1>1, <1>2, <3>1, <4>1, DisposeTyped DEF Place, LiveThread
            <4>4. g[v] # o.slot
                BY <1>2, <3>1, <4>1 DEF Owned, Employed
            <4>5. w[o.slot].state = "free"
                BY <1>1, <3>1, <4>2, <4>4
            <4>6. Eng(m) = [h EXCEPT ![t] = o.slot] /\ Draining(m) = c
                <5>1. \A u \in Thread : m[u] = IF u = t THEN Started(th[t], o.slot)
                                               ELSE IF u = v THEN Stopped(th[u], TRUE) ELSE th[u]
                    BY <2>2 DEF Opened
                <5>2. /\ m[t].eng = o.slot /\ m[t].draining = d[t]
                      /\ m[v].eng = NoSlot /\ m[v].draining = g[v]
                    <6> HIDE DEF m, v
                    <6>1. m[t].eng = o.slot /\ m[t].draining = d[t]
                        <7>1. m[t] = Started(th[t], o.slot)
                            BY <5>1
                        <7> QED BY <1>1, <1>2, <1>4, <3>1, <7>1
                    <6>2. m[v] = Stopped(th[v], TRUE) /\ g[v] = th[v].eng
                        BY <1>2, <4>1, <5>1
                    <6>3. m[v].eng = NoSlot /\ m[v].draining = g[v]
                        <7>1. th[v] \in LiveThread /\ th[v].eng # NoSlot
                            BY <1>1, <4>1, <6>2
                        <7> QED BY <6>2, <7>1, StoppedDrains
                    <6> QED BY <6>1, <6>3
                <5>3. \A u \in Thread \ {t, v} : m[u].eng = g[u] /\ m[u].draining = d[u]
                    BY <1>2, <5>1
                <5> QED BY ZenonT(60), <1>2, <4>1, <5>2, <5>3 DEF Eng, Draining, Place
            <4>7. engine' = [w EXCEPT ![o.slot] = BootingFor(t)]
                <5>1. g[v] \in Slot
                    BY <1>2, <4>1 DEF Place
                <5> QED BY <1>1, <1>2, <1>10, <2>2, <3>1, <3>3, <4>1, <4>2, <4>4, <5>1
                        DEF OpenEngine
            <4> HIDE DEF h, c, w
            <4>8. Owned([h EXCEPT ![t] = o.slot], c, [w EXCEPT ![o.slot] = BootingFor(t)])
                BY <3>1, <4>2, <4>3, <4>5, OwnedBoot
            <4> QED BY <4>6, <4>7, <4>8
        <3> QED BY <3>2, <3>3
    <2> QED BY <2>1, <2>2
<1>11. CASE Start(t)
    <2>1. PICK o \in Openings(t) :
            /\ OpenEngine(o, t)
            /\ Finish(Opened(o, t), PortsOpened(o, t), PumpedOnOpening(o),
                      {}, {t, o.victim} \cap Thread, ToldOnOpening(o))
        BY <1>11 DEF Start
    <2> QED BY <1>10, <2>1, OpeningTyped, OwnedAfter
<1>12. ASSUME NEW m \in Msg, Submit(t, m) PROVE EnginesOwned'
    <2>1. PICK o \in Openings(t) :
            /\ OpenEngine(o, t)
            /\ Finish([Opened(o, t) EXCEPT ![t] = Queued(@, m)], PortsOpened(o, t),
                      PumpedOnOpening(o) \cup (IF diskOk THEN {t} ELSE {}),
                      {t}, {o.victim} \cap Thread, ToldOnOpening(o))
        BY <1>12 DEF Submit
    <2> DEFINE k == Opened(o, t)
               n == [k EXCEPT ![t] = Queued(@, m)]
    <2>2. k \in [Thread -> LiveThread] /\ PumpedOnOpening(o) \in SUBSET Thread
        BY <2>1, OpeningTyped
    <2>3. Queued(k[t], m) \in LiveThread /\ Queued(k[t], m).eng = k[t].eng
          /\ Queued(k[t], m).draining = k[t].draining
        BY <2>2, QueuedTyped
    <2> HIDE DEF k
    <2>4. n \in [Thread -> LiveThread] /\ Eng(n) = Eng(k) /\ Draining(n) = Draining(k)
        BY <2>2, <2>3 DEF Eng, Draining
    <2> HIDE DEF n
    <2>5. Owned(Eng(n), Draining(n), engine')
        BY <1>10, <2>1, <2>4 DEF k
    <2>6. PumpedOnOpening(o) \cup (IF diskOk THEN {t} ELSE {}) \in SUBSET Thread
        BY <2>2
    <2> QED BY <2>1, <2>4, <2>5, <2>6, OwnedAfter DEF n, k
<1> QED BY <1>6, <1>7, <1>8, <1>9, <1>11, <1>12

(* What an engine does changes neither its thread nor who it works for.     *)
LEMMA EngineStepOwned ==
    ASSUME TypeOK, EnginesOwned, NEW e \in Slot, EngineStep(e)
    PROVE  EnginesOwned'
<1>1. engine \in [Slot -> Worker] /\ engine[e] \in WorkerRecord
    BY DEF TypeOK, Worker
<1> DEFINE Becomes(w) ==
        /\ th' = th /\ engine' = [engine EXCEPT ![e] = w]
        /\ w.owner = engine[e].owner
        /\ w.state = engine[e].state \/ (engine[e].state = "boot" /\ w.state = "up")
<1>2. ASSUME NEW w, Becomes(w) PROVE EnginesOwned'
    <2>1. \A f \in Slot : engine'[f] = IF f = e THEN w ELSE engine[f]
        BY <1>1, <1>2
    <2>2. \A f \in Slot : /\ engine'[f].owner = engine[f].owner
                          /\ \/ engine'[f].state = engine[f].state
                             \/ engine[f].state \in Employed /\ engine'[f].state \in Employed
        BY <1>2, <2>1 DEF Employed
    <2> QED BY <1>2, <2>2, OwnedKept
<1>3. \E w : Becomes(w)
    <2>1. CASE Boot(e)
        <3>1. Becomes([engine[e] EXCEPT !.state = "up"])
            BY <1>1, <2>1 DEF Boot, Says, Rest, WorkerRecord
        <3> QED BY <3>1
    <2>2. CASE TakeInput(e) \/ TakeSteer(e)
        <3>1. \/ Becomes([engine[e] EXCEPT !.run = Incoming(e).msg])
              \/ Becomes([engine[e] EXCEPT !.steers = Append(engine[e].steers, Incoming(e).msg)])
              \/ Becomes(engine[e])
            BY <1>1, <2>2 DEF TakeInput, TakeSteer, Takes, Rest, WorkerRecord
        <3> QED BY <3>1
    <2>3. CASE TakeInterrupt(e)
        <3>1. Becomes([engine[e] EXCEPT !.asking = {},
                           !.steers = IF engine[e].run = NoRun THEN engine[e].steers ELSE <<>>])
            BY <1>1, <2>3 DEF TakeInterrupt, Takes, Rest, WorkerRecord
        <3> QED BY <3>1
    <2>4. CASE TakeReply(e)
        <3>1. Becomes([engine[e] EXCEPT !.asking = engine[e].asking \ {Incoming(e).card}])
            BY <1>1, <2>4 DEF TakeReply, Takes, Rest, WorkerRecord
        <3> QED BY <3>1
    <2>5. CASE TakeResume(e) \/ TakePick(e)
        <3>1. Becomes(engine[e])
            BY <1>1, <2>5 DEF TakeResume, TakePick, Takes, Rest
        <3> QED BY <3>1
    <2>6. CASE TakeCommand(e)
        <3>1. Becomes([engine[e] EXCEPT !.asking = engine[e].asking \cup {"command"}])
            BY <1>1, <2>6 DEF TakeCommand, Takes, Rest, WorkerRecord
        <3> QED BY <3>1
    <2>7. CASE TurnTakesSteering(e)
        <3>1. Becomes([engine[e] EXCEPT !.steers = <<>>])
            BY <1>1, <2>7 DEF TurnTakesSteering, Says, Rest, WorkerRecord
        <3> QED BY <3>1
    <2>8. CASE Ask(e)
        <3>1. Becomes([engine[e] EXCEPT !.asking = engine[e].asking \cup {"turn"}])
            BY <1>1, <2>8 DEF Ask, Says, Rest, WorkerRecord
        <3> QED BY <3>1
    <2>9. CASE TurnEnds(e)
        <3>1. Becomes([engine[e] EXCEPT !.run = NoRun, !.steers = <<>>])
            BY <1>1, <2>9 DEF TurnEnds, Says, Rest, WorkerRecord
        <3> QED BY <3>1
    <2>10. CASE ContinuesAlone(e)
        <3>1. Becomes([engine[e] EXCEPT !.run = OwnTurn])
            BY <1>1, <2>10 DEF ContinuesAlone, Says, Rest, WorkerRecord
        <3> QED BY <3>1
    <2> QED BY <2>1, <2>2, <2>3, <2>4, <2>5, <2>6, <2>7, <2>8, <2>9, <2>10 DEF EngineStep
<1> HIDE DEF Becomes
<1> QED BY <1>2, <1>3

(* A disposed worker exits: its thread waits for it, and no longer does.    *)
LEMMA DrainedOwned ==
    ASSUME TypeOK, EnginesOwned, NEW e \in Slot, Drained(e)
    PROVE  EnginesOwned'
<1> DEFINE t == engine[e].owner
           m == [th EXCEPT ![t].draining = IF @ = e THEN NoSlot ELSE @]
<1>1. /\ th \in [Thread -> LiveThread] /\ engine \in [Slot -> Worker]
      /\ Eng(th) \in Place /\ Draining(th) \in Place /\ Owned(Eng(th), Draining(th), engine)
      /\ engine[e].state = "exiting"
    BY OwnedIsEnginesOwned DEF TypeOK, Drained
<1>2. t \in Thread /\ th[t].draining = e
    BY <1>1 DEF EnginesOwned, WorkersKnown
<1>3. th[t] \in LiveThread
    BY <1>1, <1>2
<1>4. [th[t] EXCEPT !.draining = NoSlot] \in LiveThread
    BY <1>3 DEF LiveThread
<1> HIDE DEF t
<1>5. m = [th EXCEPT ![t] = [th[t] EXCEPT !.draining = NoSlot]]
    BY <1>1, <1>2
<1>6. Finish(m, link, Thread, {}, {}, {}) /\ engine' = [engine EXCEPT ![e] = FreeWorker]
    BY DEF Drained, t
<1> HIDE DEF m
<1>7. m \in [Thread -> LiveThread]
    BY <1>1, <1>4, <1>5
<1>8. Eng(m) = Eng(th) /\ Draining(m) = [Draining(th) EXCEPT ![t] = NoSlot]
    <2>1. m[t].eng = th[t].eng /\ m[t].draining = NoSlot
        BY <1>1, <1>2, <1>3, <1>5 DEF LiveThread
    <2>2. \A u \in Thread \ {t} : m[u] = th[u]
        BY <1>1, <1>5
    <2> QED BY <1>2, <2>1, <2>2 DEF Eng, Draining
<1>9. Owned(Eng(m), Draining(m), engine')
    <2>1. Owned(Eng(th), [Draining(th) EXCEPT ![t] = NoSlot], [engine EXCEPT ![e] = FreeWorker])
        BY <1>1, OwnedDrained DEF t
    <2> QED BY <1>6, <1>8, <2>1
<1> QED BY <1>6, <1>7, <1>9, OwnedAfter

(* The app starts, or starts again, with no worker at all.                  *)
LEMMA NoEnginesOwned ==
    ASSUME \A t \in Thread : th[t].eng = NoSlot /\ th[t].draining = NoSlot,
           \A e \in Slot : engine[e] = FreeWorker
    PROVE  EnginesOwned
<1>1. FreeWorker.state = "free"
    BY DEF FreeWorker
<1> QED BY <1>1 DEF EnginesOwned, EnginesServe, WorkersKnown, DrainingExits, Employed

(* The manager's table of engines and the workers agree: a thread's engine  *)
(* is a worker that serves it and no other thread, every worker still alive *)
(* is the engine of a thread or the exit that thread waits for, and what a  *)
(* thread waits for is really exiting (thread.manager.ts:329 start, :1049   *)
(* drain), as long as no second stop or reap finds the first still draining *)
(* ("restop").                                                              *)
THEOREM EnginesAccountedFor ==
    ASSUME "restop" \notin Allowed
    PROVE  Spec => []EnginesOwned
<1>1. Init => EnginesOwned
    <2> SUFFICES ASSUME Init PROVE EnginesOwned
        OBVIOUS
    <2>1. \A t \in Thread : th[t].eng = NoSlot /\ th[t].draining = NoSlot
        BY DEF Init, InitialThread, Adopted
    <2> QED BY <2>1, NoEnginesOwned DEF Init
<1>2. TypeOK /\ EnginesOwned /\ [Next]_vars => EnginesOwned'
    <2> SUFFICES ASSUME TypeOK, EnginesOwned, [Next]_vars PROVE EnginesOwned'
        OBVIOUS
    <2>1. CASE UNCHANGED vars
        BY <2>1 DEF vars, EnginesOwned, EnginesServe, WorkersKnown, DrainingExits
    <2>2. ASSUME NEW t \in Thread, ManagerStep(t) PROVE EnginesOwned'
        BY <2>2, QuietHandlers, QuietOwned, EngineHandlers DEF ManagerStep
    <2>3. ASSUME NEW e \in Slot, EngineStep(e) \/ Drained(e) PROVE EnginesOwned'
        BY <2>3, EngineStepOwned, DrainedOwned
    <2>4. CASE DiskTurns
        BY <2>4 DEF DiskTurns, EnginesOwned, EnginesServe, WorkersKnown, DrainingExits
    <2>5. CASE AppCrash
        <3>1. \A t \in Thread : th'[t].eng = NoSlot /\ th'[t].draining = NoSlot
            BY <2>5 DEF AppCrash, Adopted
        <3>2. \A e \in Slot : engine'[e].state = "free"
            BY <2>5 DEF AppCrash, FreeWorker
        <3> QED BY <3>1, <3>2 DEF EnginesOwned, EnginesServe, WorkersKnown, DrainingExits, Employed
    <2> QED BY <2>1, <2>2, <2>3, <2>4, <2>5 DEF Next
<1> QED BY <1>1, <1>2, TypeCorrect, PTL DEF Spec

-----------------------------------------------------------------------------
(* Engines never outnumber what the machine affords: only start() adds one, *)
(* and it does so below the limit or in exchange for a reclaimed one.       *)

EnginesIn(m) == {t \in Thread : m[t].eng # NoSlot}
Affordable(S) == IsFiniteSet(S) /\ Cardinality(S) <= MaxLive

(* The invariant: WithinBudget, and what Cardinality needs to mean it.      *)
Budgeted == Affordable(Live)

LEMMA FewerEngines ==
    ASSUME NEW S, NEW R, Affordable(S), R \subseteq S
    PROVE  Affordable(R)
<1>1. IsFiniteSet(R) /\ Cardinality(R) <= Cardinality(S)
    BY FS_Subset DEF Affordable
<1>2. Cardinality(R) \in Nat /\ Cardinality(S) \in Nat /\ MaxLive \in Nat
    BY <1>1, FS_CardinalityType, ConstantsAssumption DEF Affordable
<1> QED BY <1>1, <1>2 DEF Affordable

(* One more engine below the limit, or in the place of another.             *)
LEMMA OneMoreEngine ==
    ASSUME NEW S, Affordable(S), NEW t, t \notin S, Cardinality(S) < MaxLive
    PROVE  Affordable(S \cup {t})
<1>1. IsFiniteSet(S \cup {t}) /\ Cardinality(S \cup {t}) = Cardinality(S) + 1
    BY FS_AddElement DEF Affordable
<1>2. Cardinality(S) \in Nat /\ MaxLive \in Nat
    BY FS_CardinalityType, ConstantsAssumption DEF Affordable
<1> QED BY <1>1, <1>2 DEF Affordable

LEMMA OneForAnother ==
    ASSUME NEW S, Affordable(S), NEW t, t \notin S, NEW v \in S
    PROVE  Affordable((S \ {v}) \cup {t})
<1> DEFINE R == S \ {v}
<1>1. IsFiniteSet(R) /\ Cardinality(R) = Cardinality(S) - 1
    BY FS_RemoveElement DEF Affordable
<1>2. Cardinality(R) \in Nat /\ Cardinality(S) \in Nat /\ MaxLive \in Nat
    BY <1>1, FS_CardinalityType, ConstantsAssumption DEF Affordable
<1>3. Affordable(R) /\ Cardinality(R) < MaxLive /\ t \notin R
    BY <1>1, <1>2 DEF Affordable
<1> HIDE DEF R
<1>4. Affordable(R \cup {t})
    BY <1>3, OneMoreEngine
<1> QED BY <1>4 DEF R

(* The pumps at the end of a handler change no engine.                      *)
LEMMA EnginesAfter ==
    ASSUME NEW m \in [Thread -> LiveThread], NEW l,
           NEW who \in SUBSET Thread, NEW now, NEW later, NEW dropped,
           Finish(m, l, who, now, later, dropped)
    PROVE  Live' = EnginesIn(m)
BY FinishKeepsEngines DEF Live, EnginesIn

(* start(): whatever it opens, the machine affords.                         *)
LEMMA OpeningAffordable ==
    ASSUME TypeOK, Budgeted, NEW t \in Thread, NEW o \in Openings(t)
    PROVE  Affordable(EnginesIn(Opened(o, t)))
<1> DEFINE m == Opened(o, t)
<1>1. /\ th \in [Thread -> LiveThread]
      /\ \A u \in Thread : th[u] \in LiveThread
    BY DEF TypeOK
<1>2. \A u \in Thread : Stopped(th[u], TRUE).eng = NoSlot
    BY <1>1 DEF Stopped, LiveThread
<1>3. \A u \in Thread, e \in Slot : Started(th[u], e).eng = e
    BY <1>1 DEF Started, LiveThread
<1>4. CASE th[t].eng # NoSlot
    <2>1. o.slot = NoSlot
        BY <1>4 DEF Openings
    <2>2. m = th
        BY <2>1 DEF Opened
    <2>3. EnginesIn(m) = Live
        BY <2>2 DEF EnginesIn, Live
    <2> QED BY <2>3 DEF Budgeted
<1>5. CASE th[t].eng = NoSlot
    <2>1. /\ o.slot \in Slot /\ o.slot # NoSlot
          /\ o.victim \in IF Cardinality(Live) < MaxLive THEN {NoThread} ELSE Reclaimable
        BY <1>5, ConstantsAssumption DEF Openings, FreeSlots
    <2>2. t \notin Live
        BY <1>5 DEF Live
    <2>3. \A u \in Thread : m[u] = IF u = t THEN Started(th[t], o.slot)
                                   ELSE IF u = o.victim THEN Stopped(th[u], TRUE) ELSE th[u]
        BY <2>1 DEF Opened
    <2>4. m[t].eng # NoSlot
        <3>1. m[t] = Started(th[t], o.slot)
            BY <2>3
        <3> QED BY <1>3, <2>1, <3>1
    <2> HIDE DEF m
    <2>5. CASE Cardinality(Live) < MaxLive
        <3>1. \A u \in Thread \ {t} : m[u] = th[u]
            <4>1. o.victim = NoThread
                BY <2>1, <2>5
            <4>2. o.victim \notin Thread
                BY <4>1, ConstantsAssumption
            <4> QED BY <2>3, <4>2
        <3>2. EnginesIn(m) = Live \cup {t}
            BY <2>4, <3>1 DEF EnginesIn, Live
        <3> QED BY <2>2, <2>5, <3>2, OneMoreEngine DEF Budgeted, m
    <2>6. CASE ~(Cardinality(Live) < MaxLive)
        <3>1. o.victim \in Live
            BY <2>1, <2>6 DEF Reclaimable, Live
        <3>2. m[o.victim].eng = NoSlot
            <4>1. o.victim # t /\ o.victim \in Thread
                BY <2>2, <3>1 DEF Live
            <4>2. m[o.victim] = Stopped(th[o.victim], TRUE)
                BY <2>3, <4>1
            <4> QED BY <1>2, <4>1, <4>2
        <3>3. \A u \in Thread \ {t, o.victim} : m[u] = th[u]
            BY <2>3
        <3>4. EnginesIn(m) = (Live \ {o.victim}) \cup {t}
            BY <2>4, <3>2, <3>3 DEF EnginesIn, Live
        <3> QED BY <2>2, <3>1, <3>4, OneForAnother DEF Budgeted, m
    <2> QED BY <2>5, <2>6
<1> QED BY <1>4, <1>5

(* Handlers that stop, lose or restart an engine add none.                  *)
LEMMA NoEngineAdded ==
    ASSUME TypeOK, NEW t \in Thread,
           \/ Stop(t) \/ Reap(t) \/ Restart(t)
           \/ EngineRestarts(t) \/ EngineStopping(t) \/ EngineGone(t)
    PROVE  Live' \subseteq Live
<1>1. th \in [Thread -> LiveThread] /\ th[t] \in LiveThread
    BY DEF TypeOK
<1>2. ASSUME NEW r \in LiveThread, NEW l, NEW who \in SUBSET Thread, NEW now, NEW later,
             NEW dropped, Finish([th EXCEPT ![t] = r], l, who, now, later, dropped),
             r.eng # NoSlot => th[t].eng # NoSlot
      PROVE  Live' \subseteq Live
    <2> DEFINE m == [th EXCEPT ![t] = r]
    <2>1. m \in [Thread -> LiveThread]
        BY <1>1, <1>2
    <2>2. \A u \in Thread : m[u].eng # NoSlot => th[u].eng # NoSlot
        BY <1>1, <1>2
    <2> HIDE DEF m
    <2>3. Live' = EnginesIn(m)
        BY <1>2, <2>1, EnginesAfter DEF m
    <2> QED BY <2>2, <2>3 DEF EnginesIn, Live
<1>3. CASE Stop(t) \/ Reap(t)
    <2>1. PICK keep \in BOOLEAN : \E dropped :
            Finish([th EXCEPT ![t] = Stopped(th[t], keep)], [link EXCEPT ![t] = Closed],
                   Thread, {}, {t}, dropped)
        BY <1>3 DEF Stop, Reap
    <2>2. Stopped(th[t], keep) \in LiveThread
        BY <1>1, StoppedTyped
    <2>3. Stopped(th[t], keep).eng = NoSlot
        BY <1>1 DEF Stopped, LiveThread
    <2> QED BY <1>2, <2>1, <2>2, <2>3
<1>4. CASE Restart(t)
    <2> DEFINE s == Stopped(th[t], TRUE)
    <2>1. PICK e \in FreeSlots :
            Finish([th EXCEPT ![t] = Started(s, e)], [link EXCEPT ![t] = Closed],
                   Thread, {}, {t}, th[t].sent)
        BY <1>4 DEF Restart
    <2>2. e \in Slot /\ s \in LiveThread
        BY <1>1, StoppedTyped DEF FreeSlots
    <2>3. Started(s, e) \in LiveThread
        <3> HIDE DEF s
        <3> QED BY <2>2, StartedTyped
    <2>4. th[t].eng # NoSlot
        BY <1>4 DEF Restart
    <2> HIDE DEF s
    <2> QED BY <1>2, <2>1, <2>3, <2>4
<1>5. CASE EngineRestarts(t) \/ EngineStopping(t)
    <2>1. PICK status \in Status :
            Finish([th EXCEPT ![t] = CutOff(th[t], status)], [link EXCEPT ![t] = Closed],
                   {}, {}, {t}, th[t].sent)
        BY <1>5 DEF EngineRestarts, EngineStopping, Status
    <2>2. CutOff(th[t], status) \in LiveThread
        BY <1>1, CutOffTyped
    <2>3. th[t].eng # NoSlot
        BY <1>5 DEF EngineRestarts, EngineStopping
    <2> QED BY <1>2, <2>1, <2>2, <2>3
<1>6. CASE EngineGone(t)
    <2> DEFINE q == CutOff(th[t], "stopped")
               r == [q EXCEPT !.eng = NoSlot, !.armed = FALSE, !.draining = NoSlot]
    <2>1. q \in LiveThread
        BY <1>1, CutOffTyped DEF Status
    <2>2. Finish([th EXCEPT ![t] = r], [link EXCEPT ![t] = Closed], Thread, {}, {t}, th[t].sent)
        BY <1>6 DEF EngineGone
    <2>3. th[t].eng # NoSlot
        BY <1>6 DEF EngineGone
    <2> HIDE DEF q
    <2>4. r \in LiveThread
        BY <2>1 DEF LiveThread
    <2> HIDE DEF r
    <2> QED BY <1>2, <2>2, <2>3, <2>4
<1> QED BY <1>3, <1>4, <1>5, <1>6

LEMMA OpeningBudgeted ==
    ASSUME TypeOK, Budgeted, NEW t \in Thread, Start(t) \/ \E m \in Msg : Submit(t, m)
    PROVE  Budgeted'
<1>1. CASE Start(t)
    <2>1. PICK o \in Openings(t) :
            /\ OpenEngine(o, t)
            /\ Finish(Opened(o, t), PortsOpened(o, t), PumpedOnOpening(o),
                      {}, {t, o.victim} \cap Thread, ToldOnOpening(o))
        BY <1>1 DEF Start
    <2>2. Opened(o, t) \in [Thread -> LiveThread] /\ PumpedOnOpening(o) \in SUBSET Thread
        BY <2>1, OpeningTyped
    <2>3. Live' = EnginesIn(Opened(o, t))
        BY <2>1, <2>2, EnginesAfter
    <2> QED BY <2>1, <2>3, OpeningAffordable DEF Budgeted
<1>2. ASSUME NEW m \in Msg, Submit(t, m) PROVE Budgeted'
    <2>1. PICK o \in Openings(t) :
            /\ OpenEngine(o, t)
            /\ Finish([Opened(o, t) EXCEPT ![t] = Queued(@, m)], PortsOpened(o, t),
                      PumpedOnOpening(o) \cup (IF diskOk THEN {t} ELSE {}),
                      {t}, {o.victim} \cap Thread, ToldOnOpening(o))
        BY <1>2 DEF Submit
    <2> DEFINE k == Opened(o, t)
               n == [k EXCEPT ![t] = Queued(@, m)]
    <2>2. k \in [Thread -> LiveThread] /\ PumpedOnOpening(o) \in SUBSET Thread
        BY <2>1, OpeningTyped
    <2>3. Queued(k[t], m) \in LiveThread /\ Queued(k[t], m).eng = k[t].eng
        BY <2>2, QueuedTyped
    <2>4. Affordable(EnginesIn(k))
        BY <2>1, OpeningAffordable
    <2> HIDE DEF k
    <2>5. n \in [Thread -> LiveThread] /\ EnginesIn(n) = EnginesIn(k)
        BY <2>2, <2>3 DEF EnginesIn
    <2> HIDE DEF n
    <2>6. PumpedOnOpening(o) \cup (IF diskOk THEN {t} ELSE {}) \in SUBSET Thread
        BY <2>2
    <2>7. Live' = EnginesIn(n)
        BY <2>1, <2>5, <2>6, EnginesAfter DEF n, k
    <2> QED BY <2>4, <2>5, <2>7 DEF Budgeted
<1> QED BY <1>1, <1>2

(* What an engine does leaves the threads alone.                            *)
LEMMA EngineStepKeepsThreads ==
    ASSUME NEW e \in Slot, EngineStep(e)
    PROVE  th' = th
BY DEF EngineStep, Boot, TakeInput, TakeSteer, TakeInterrupt, TakeReply, TakeResume,
       TakePick, TakeCommand, TurnTakesSteering, Ask, TurnEnds, ContinuesAlone,
       Takes, Says, Rest

(* Engines never outnumber what the machine affords: start() opens one only *)
(* below the limit or in exchange for an idle one (thread.manager.ts:329).  *)
THEOREM EnginesAffordable == Spec => []WithinBudget
<1>1. Init => Budgeted
    <2> SUFFICES ASSUME Init PROVE Budgeted
        OBVIOUS
    <2>1. Live = {}
        BY DEF Init, InitialThread, Adopted, Live
    <2>2. MaxLive \in Nat
        BY ConstantsAssumption
    <2> QED BY <2>1, <2>2, FS_EmptySet DEF Budgeted, Affordable
<1>2. TypeOK /\ Budgeted /\ [Next]_vars => Budgeted'
    <2> SUFFICES ASSUME TypeOK, Budgeted, [Next]_vars PROVE Budgeted'
        OBVIOUS
    <2>1. ASSUME Live' \subseteq Live PROVE Budgeted'
        BY <2>1, FewerEngines DEF Budgeted
    <2>2. CASE UNCHANGED vars
        BY <2>1, <2>2 DEF vars, Live
    <2>3. ASSUME NEW t \in Thread, ManagerStep(t) PROVE Budgeted'
        <3>1. ASSUME EnginesKept PROVE Budgeted'
            BY <2>1, <3>1 DEF EnginesKept, Live
        <3> QED BY <2>1, <2>3, <3>1, QuietHandlers, NoEngineAdded, OpeningBudgeted
                DEF ManagerStep
    <2>4. ASSUME NEW e \in Slot, EngineStep(e) PROVE Budgeted'
        BY <2>1, <2>4, EngineStepKeepsThreads DEF Live
    <2>5. ASSUME NEW e \in Slot, Drained(e) PROVE Budgeted'
        <3> DEFINE u == engine[e].owner
                   x == IF th[u].draining = e THEN NoSlot ELSE th[u].draining
                   m == [th EXCEPT ![u].draining = IF @ = e THEN NoSlot ELSE @]
        <3>1. Finish(m, link, Thread, {}, {}, {})
            BY <2>5 DEF Drained
        <3>2. \A t \in Thread : m[t] \in LiveThread /\ m[t].eng = th[t].eng
            <4>1. th \in [Thread -> LiveThread]
                BY DEF TypeOK
            <4>2. m = [th EXCEPT ![u] = [th[u] EXCEPT !.draining = x]]
                BY <4>1
            <4>3. CASE u \in Thread
                <5>1. th[u] \in LiveThread /\ x \in Slot \cup {NoSlot}
                    BY <4>1, <4>3 DEF LiveThread
                <5> HIDE DEF x
                <5>2. /\ [th[u] EXCEPT !.draining = x] \in LiveThread
                      /\ [th[u] EXCEPT !.draining = x].eng = th[u].eng
                    BY <5>1 DEF LiveThread
                <5> HIDE DEF m, u
                <5> QED BY <4>1, <4>2, <4>3, <5>2
            <4>4. CASE u \notin Thread
                <5> HIDE DEF m, u, x
                <5> QED BY <4>1, <4>2, <4>4
            <4> QED BY <4>3, <4>4
        <3>3. m \in [Thread -> LiveThread]
            BY <3>2 DEF TypeOK
        <3> HIDE DEF m
        <3>4. Live' = EnginesIn(m)
            BY <3>1, <3>3, EnginesAfter
        <3> QED BY <2>1, <3>2, <3>4 DEF EnginesIn, Live
    <2>6. CASE DiskTurns
        BY <2>1, <2>6 DEF DiskTurns, Live
    <2>7. CASE AppCrash
        <3>1. Live' = {}
            BY <2>7 DEF AppCrash, Adopted, Live
        <3> QED BY <2>1, <3>1
    <2> QED BY <2>2, <2>3, <2>4, <2>5, <2>6, <2>7 DEF Next
<1>3. Budgeted => WithinBudget
    BY DEF Budgeted, Affordable, WithinBudget
<1> QED BY <1>1, <1>2, <1>3, TypeCorrect, PTL DEF Spec
=============================================================================
