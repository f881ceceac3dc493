--------------------------- MODULE DisplayChannel ---------------------------
(* What the engine promises the app about its protocol output (the header   *)
(* of src/src/protocol/wire.queue.ts): one ordered channel.  While it works *)
(* a critical line is never lost; a display line is lost only behind a      *)
(* notice that says so.  Once it is broken, what it holds keeps its order.  *)
EXTENDS Naturals, Sequences, SequencesExt

CONSTANTS
    DisplayLine, CriticalLine,         \* the lines of the two classes
    Paused, Resumed, Dropped     \* the notices, critical lines themselves

VARIABLES
    ch,      \* the lines on their way, oldest first
    muted,   \* display output is withheld
    broken   \* overflowed or closed: nothing more is accepted

chan == <<ch, muted, broken>>

Init == ch \in SeqOf(CriticalLine, 1) /\ ~muted /\ ~broken

(* A line is accepted behind all the others.                                *)
Accept ==
    /\ \E line \in CriticalLine \cup (IF muted THEN {} ELSE DisplayLine) : ch' = Append(ch, line)
    /\ muted' = muted

(* A display line is refused: the channel says so, and perhaps at once that *)
(* output is welcome again.                                                 *)
Withhold ==
    /\ ~muted
    /\ \/ ch' = Append(ch, Paused) /\ muted'
       \/ ch' = ch \o <<Paused, Resumed>> /\ ~muted'

GoOn == muted /\ ~muted' /\ ch' = Append(ch, Resumed)

Undisplayed(lines) ==
    FoldLeft(LAMBDA kept, x : IF x \in DisplayLine THEN kept ELSE Append(kept, x), <<>>, lines)

(* Display lines are discarded, all but some of the oldest.                 *)
Discarded(k) == SubSeq(ch, 1, k) \o Undisplayed(SubSeq(ch, k + 1, Len(ch)))

(* An interrupt discards display output and says so.                        *)
Discard ==
    \E k \in 0..Len(ch) :
        /\ Discarded(k) # ch
        /\ \/ ch' = Append(Discarded(k), Dropped) /\ muted' = muted
           \/ ch' = Discarded(k) \o <<Resumed, Dropped>> /\ muted /\ ~muted'

Take == ch # <<>> /\ ch' = Tail(ch) /\ UNCHANGED <<muted, broken>>

(* The channel breaks, or loses lines once it is broken: none overtakes     *)
(* another, and none is added but a notice of the step that breaks it.      *)
Break ==
    \E k \in 0..Len(ch) :
        /\ broken'
        /\ \/ ch' \in {SubSeq(ch, 1, k), Discarded(k)}
           \/ ~broken /\ ch' = Append(Discarded(k), Resumed)

Works == ~broken /\ ~broken' /\ (Accept \/ Withhold \/ GoOn \/ Discard)

Next == Works \/ Take \/ Break

Spec == Init /\ [][Next]_chan
=============================================================================
