----------------------------- MODULE WireQueue ------------------------------
(* The engine's outbound protocol queue (src/src/protocol/wire.queue.ts)    *)
(* with the host that speaks through it (queued.host.ts), the credit window *)
(* of the message port (port.host.ts), and the app that acknowledges what   *)
(* it has handled (src/app/src/main/engine.ts).  Every call runs to its end *)
(* without an await, the nested calls of its callbacks included, so a call  *)
(* is one step: the operators below turn a queue into the next one.         *)
EXTENDS Naturals, Sequences, FiniteSetsExt, SequencesExt

CONSTANTS
    MaxQueued,   \* maxQueuedBytes
    BulkHigh,    \* bulkHighWaterBytes
    BulkLow,     \* bulkLowWaterBytes
    Window,      \* windowBytes
    AckEvery,    \* ACK_EVERY_BYTES
    BulkSize     \* the sizes of display lines; every other line counts one

ASSUME WatermarkAssumption ==
    /\ {MaxQueued, BulkHigh, BulkLow} \subseteq Nat
    /\ {Window, AckEvery} \subseteq Nat \ {0} /\ BulkSize \subseteq Nat \ {0}
    /\ BulkLow <= BulkHigh /\ BulkHigh < MaxQueued

VARIABLES
    q,        \* the queue and the window of the engine
    port,     \* posted and not yet handled by the app
    unacked,  \* bytes the app has handled and not acknowledged
    acks,     \* acknowledgements on their way to the engine
    dead,     \* the port throws from now on
    gone      \* disposed

vars == <<q, port, unacked, acks, dead, gone>>

Line == [kind : {"event"}, size : BulkSize]
        \cup [kind : {"boot", "ask", "beat", "paused", "resumed", "dropped"}, size : {1}]

outboundClass(line) == IF line.kind = "event" THEN "bulk" ELSE "critical"

Notice(kind) == [kind |-> kind, size |-> 1]
Event(n) == [kind |-> "event", size |-> n]
Bytes(lines) == FoldLeft(LAMBDA n, x : n + x.size, 0, lines)
Critical(lines) == FoldLeft(LAMBDA kept, x : IF outboundClass(x) = "critical"
                                             THEN Append(kept, x) ELSE kept, <<>>, lines)

(* Mutation: what was posted before the queue existed is not counted.       *)
EmptyQueueUncounted(air) == [queue |-> <<>>, paused |-> FALSE, over |-> FALSE, waiting |-> FALSE,
                             failed |-> FALSE, air |-> 0, out |-> <<>>]

(* q.air is inFlight; q.out collects what this step posts.                  *)
EmptyQueue(air) == [queue |-> <<>>, paused |-> FALSE, over |-> FALSE, waiting |-> FALSE,
                    failed |-> FALSE, air |-> air, out |-> <<>>]

Init ==
    /\ port \in {<<>>, <<Notice("boot")>>}
    /\ q = EmptyQueue(Bytes(port))
    /\ unacked = 0 /\ acks = <<>> /\ dead = FALSE /\ gone = FALSE

-----------------------------------------------------------------------------
(* Mutation: a critical line is put in front of the display lines.          *)
PushedAhead(w, line) ==
    IF w.over THEN w
    ELSE IF Bytes(w.queue) + line.size > MaxQueued THEN [w EXCEPT !.over = TRUE]
    ELSE [w EXCEPT !.queue = <<line>> \o @]

(* A critical line goes behind everything queued, or the reserve is full    *)
(* and nothing is accepted any more.                                        *)
Pushed(w, line) ==
    IF w.over THEN w
    ELSE IF Bytes(w.queue) + line.size > MaxQueued THEN [w EXCEPT !.over = TRUE]
    ELSE [w EXCEPT !.queue = Append(@, line)]

MayResume(w) == w.paused /\ ~w.over /\ Bytes(w.queue) <= BulkLow

(* The longest the window lets: up to the line that fills it.               *)
Writable(w) ==
    LET fills == {k \in 1..Len(w.queue) : w.air + Bytes(SubSeq(w.queue, 1, k)) >= Window}
    IN IF fills = {} THEN Len(w.queue) ELSE Min(fills)

(* The writes of flush(); on a port that throws the line stays queued and   *)
(* no drain will come.                                                      *)
Posted(w) ==
    IF dead THEN [w EXCEPT !.failed = @ \/ w.queue # <<>>, !.waiting = w.queue # <<>>]
    ELSE LET k == Writable(w)
             n == Bytes(SubSeq(w.queue, 1, k))
         IN [w EXCEPT !.queue = SubSeq(@, k + 1, Len(@)), !.air = @ + n,
                      !.out = @ \o SubSeq(w.queue, 1, k),
                      !.waiting = (k > 0 /\ w.air + n >= Window)]

(* flush(), with the notice of maybeResumeBulk(): it is queued while the    *)
(* loop is still marked as flushing, so it is not written in this flush.    *)
Flushed(w) ==
    IF w.waiting THEN w
    ELSE LET p == Posted(w)
         IN IF MayResume(p) THEN Pushed([p EXCEPT !.paused = FALSE], Notice("resumed")) ELSE p

(* enqueue() of a critical line.                                            *)
Said(w, line) ==
    LET p == Pushed(w, line) IN IF p.queue = w.queue THEN p ELSE Flushed(p)

(* enqueue() of a display line.                                             *)
Offered(w, line) ==
    IF w.over \/ w.paused THEN w
    ELSE IF Bytes(w.queue) + line.size > BulkHigh
    THEN Said([w EXCEPT !.paused = TRUE], Notice("paused"))
    ELSE Flushed([w EXCEPT !.queue = Append(@, line)])

(* dropPendingBulk() with the notice of its resumption.                     *)
DroppedBulk(w) ==
    LET p == [w EXCEPT !.queue = Critical(@)]
    IN IF MayResume(p) THEN Said([p EXCEPT !.paused = FALSE], Notice("resumed")) ELSE p

(* onInterrupt: congested, what is queued for the cancelled turn goes.      *)
Interrupted(w) ==
    IF Bytes(w.queue) <= BulkLow THEN w
    ELSE IF \E i \in DOMAIN w.queue : outboundClass(w.queue[i]) = "bulk"
    THEN Said(DroppedBulk(w), Notice("dropped"))
    ELSE DroppedBulk(w)

(* Mutations: the drain does not flush; the drain compares the              *)
(* acknowledgement, and not what is in flight, with the window.             *)
DrainedUnflushed(w, n) ==
    LET r == [w EXCEPT !.air = IF n >= @ THEN 0 ELSE @ - n]
    IN IF r.air < Window /\ r.waiting /\ ~r.failed THEN [r EXCEPT !.waiting = FALSE] ELSE r
DrainedByAck(w, n) ==
    LET r == [w EXCEPT !.air = IF n >= @ THEN 0 ELSE @ - n]
    IN IF n >= Window /\ r.waiting /\ ~r.failed
       THEN Flushed([r EXCEPT !.waiting = FALSE]) ELSE r

(* An acknowledgement gives room back and, with room, the drain listener    *)
(* flushes; after a failed write there is no listener.                      *)
Drained(w, n) ==
    LET r == [w EXCEPT !.air = IF n >= @ THEN 0 ELSE @ - n]
    IN IF r.air < Window /\ r.waiting /\ ~r.failed
       THEN Flushed([r EXCEPT !.waiting = FALSE]) ELSE r

-----------------------------------------------------------------------------
(* What a step of the engine leaves: its queue, and its lines on the port.  *)
Becomes(w) ==
    /\ q' = [w EXCEPT !.out = <<>>]
    /\ port' = port \o w.out

(* The turn displays something.                                             *)
Display(n) ==
    /\ ~gone
    /\ Becomes(Offered(q, Event(n)))
    /\ UNCHANGED <<unacked, acks, dead, gone>>

Underway == q.queue \o port
Carries(kind) == \E i \in DOMAIN Underway : Underway[i].kind = kind

(* An approval is requested; the turn waits for it, so there is one.        *)
Ask ==
    /\ ~gone /\ ~Carries("ask")
    /\ Becomes(Said(q, Notice("ask")))
    /\ UNCHANGED <<unacked, acks, dead, gone>>

(* The heartbeat of the engine, every few seconds.                          *)
Beat ==
    /\ ~gone
    /\ Becomes(Said(q, Notice("beat")))
    /\ UNCHANGED <<unacked, acks, dead, gone>>

Interrupt ==
    /\ ~gone
    /\ Becomes(Interrupted(q))
    /\ UNCHANGED <<unacked, acks, dead, gone>>

AckArrives ==
    /\ acks # <<>> /\ acks' = Tail(acks)
    /\ IF gone THEN UNCHANGED <<q, port>> ELSE Becomes(Drained(q, Head(acks)))
    /\ UNCHANGED <<unacked, dead, gone>>

(* dispose(): what is queued is reported outside the channel and dropped.   *)
Dispose ==
    /\ ~gone /\ gone' = TRUE
    /\ q' = [q EXCEPT !.queue = <<>>]
    /\ UNCHANGED <<port, unacked, acks, dead>>

PortBreaks == ~dead /\ dead' = TRUE /\ UNCHANGED <<q, port, unacked, acks, gone>>

(* The app handles a line, and acknowledges at once or at its next turn of  *)
(* the event loop.                                                          *)
AppHandles ==
    /\ port # <<>> /\ port' = Tail(port)
    /\ LET n == unacked + Head(port).size
       IN IF n >= AckEvery THEN acks' = Append(acks, n) /\ unacked' = 0
          ELSE unacked' = n /\ UNCHANGED acks
    /\ UNCHANGED <<q, dead, gone>>

AppAcks ==
    /\ unacked > 0
    /\ acks' = Append(acks, unacked) /\ unacked' = 0
    /\ UNCHANGED <<q, port, dead, gone>>

Next ==
    \/ \E n \in BulkSize : Display(n)
    \/ Ask \/ Beat \/ Interrupt \/ Dispose \/ PortBreaks
    \/ AckArrives \/ AppHandles \/ AppAcks

Spec == Init /\ [][Next]_vars

(* Both event loops go on: the app handles and acknowledges, the engine     *)
(* takes the acknowledgements.                                              *)
AckTaken == acks # <<>> /\ acks' = Tail(acks)
Fairness == WF_vars(AppHandles) /\ WF_vars(AppAcks) /\ WF_acks(AckTaken)
FairSpec == Spec /\ Fairness

-----------------------------------------------------------------------------
(* Every variable has its type.                                             *)
TypeOK ==
    /\ q \in [queue : Seq(Line), paused : BOOLEAN, over : BOOLEAN, waiting : BOOLEAN,
              failed : BOOLEAN, air : Nat, out : {<<>>}]
    /\ port \in Seq(Line) /\ unacked \in Nat /\ acks \in Seq(Nat \ {0})
    /\ dead \in BOOLEAN /\ gone \in BOOLEAN

(* What the engine believes in flight is exactly what the app has still to  *)
(* handle or to acknowledge, what was posted before the queue existed       *)
(* included; so a full window always has an acknowledgement coming.  And no *)
(* acknowledgement is empty (TypeOK).                                       *)
WindowExact ==
    /\ TypeOK
    /\ gone \/ q.air = Bytes(port) + unacked + FoldLeft(LAMBDA n, x : n + x, 0, acks)

(* No line waits for a drain that will not come: the queue holds back only  *)
(* for a full window or a dead port.  The one line it leaves behind without *)
(* a reason is the notice that output is welcome again, which goes with the *)
(* next line.                                                               *)
NothingStranded ==
    q.queue # <<>> /\ ~gone =>
        \/ q.waiting /\ (q.failed \/ q.air >= Window)
        \/ ~q.waiting /\ q.queue = <<Notice("resumed")>>

(* An approval that was admitted reaches the app, whatever is displayed and *)
(* interrupted around it.                                                   *)
AskArrives == Carries("ask") ~> (~Carries("ask") \/ gone \/ dead)

(* The queue, the window and the acknowledgements together are the ordered  *)
(* channel of DisplayChannel.                                               *)
Channel == INSTANCE DisplayChannel WITH
    DisplayLine <- {Event(n) : n \in BulkSize},
    CriticalLine <- {Notice(k) : k \in {"boot", "ask", "beat"}},
    Paused <- Notice("paused"), Resumed <- Notice("resumed"), Dropped <- Notice("dropped"),
    ch <- port \o q.queue, muted <- q.paused, broken <- q.over \/ gone
KeepsChannel == Channel!Spec
=============================================================================
