---------------------------- MODULE EngineSession ----------------------------
(***************************************************************************)
(* The engine's side (src/src/protocol): one worker runs at most one turn, *)
(* takes what comes down its port in order, and keeps words for the        *)
(* running turn in a steering inbox.  e is the worker, its owner t the     *)
(* thread whose port it reads while it is that thread's current engine.    *)
(***************************************************************************)
EXTENDS EngineLink

Serves(e) == engine[e].state = "up" /\ th[engine[e].owner].eng = e
Port(e) == link[engine[e].owner]

(* The worker acts on the messages of s: it begins a turn with one, or a    *)
(* running turn takes them at its next step.                                *)
Acts(s) == ran' = [m \in Msg |-> IF m \in Elements(s) THEN ran[m] + 1 ELSE ran[m]]

Rest == UNCHANGED <<th, store, diskOk, used, accepted, told>>

(* e takes the head of its port, says `out`, and becomes w.                 *)
Takes(e, kind, w, out) ==
    /\ Serves(e) /\ Port(e).down # <<>> /\ Head(Port(e).down).kind = kind
    /\ link' = [link EXCEPT ![engine[e].owner] =
                   [down |-> Tail(@.down), up |-> @.up \o out]]
    /\ engine' = [engine EXCEPT ![e] = w]
    /\ Rest

Says(e, w, out) ==
    /\ link' = [link EXCEPT ![engine[e].owner].up = @ \o out]
    /\ engine' = [engine EXCEPT ![e] = w]
    /\ Rest

Incoming(e) == Head(Port(e).down)

Boot(e) ==
    /\ engine[e].state = "boot"
    /\ Says(e, [engine[e] EXCEPT !.state = "up"], <<Signal("ready")>>)
    /\ UNCHANGED ran

(* A busy session answers "Busy" and the message goes nowhere.              *)
TakeInput(e) ==
    IF engine[e].run = NoRun
    THEN /\ Takes(e, "input", [engine[e] EXCEPT !.run = Incoming(e).msg], <<>>)
         /\ Acts(<<Incoming(e).msg>>)
    ELSE Takes(e, "input", engine[e], <<>>) /\ UNCHANGED ran

(* Steering with no turn running is an ordinary input.                      *)
TakeSteer(e) ==
    IF engine[e].run = NoRun
    THEN /\ Takes(e, "steer", [engine[e] EXCEPT !.run = Incoming(e).msg], <<>>)
         /\ Acts(<<Incoming(e).msg>>)
    ELSE /\ Takes(e, "steer", [engine[e] EXCEPT !.steers = Append(@, Incoming(e).msg)], <<>>)
         /\ UNCHANGED ran

(* The host answers every open question with nothing; the session clears    *)
(* the inbox when a turn runs.                                              *)
TakeInterrupt(e) ==
    /\ Takes(e, "interrupt",
             [engine[e] EXCEPT !.asking = {},
                               !.steers = IF engine[e].run = NoRun THEN @ ELSE <<>>], <<>>)
    /\ UNCHANGED ran

TakeReply(e) ==
    /\ Takes(e, "reply", [engine[e] EXCEPT !.asking = @ \ {Incoming(e).card}], <<>>)
    /\ UNCHANGED ran

(* A resume is confirmed, refused (always by a busy engine), or met with    *)
(* silence when it fails on the way.                                        *)
TakeResume(e) ==
    /\ \E answer \in {"restored", "restoreFailed", "nothing"} :
        /\ answer = "restored" => engine[e].run = NoRun
        /\ Takes(e, "resume", engine[e],
                 IF answer = "nothing" THEN <<>> ELSE <<Signal(answer)>>)
    /\ UNCHANGED ran

(* A saved conversation picked from the list; a busy engine refuses.        *)
TakePick(e) ==
    /\ Takes(e, "pick", engine[e],
             IF engine[e].run = NoRun THEN <<Signal("picked")>> ELSE <<>>)
    /\ UNCHANGED ran

(* A slash command that asks for a value.                                   *)
TakeCommand(e) ==
    /\ Takes(e, "command", [engine[e] EXCEPT !.asking = @ \cup {"command"}],
             IF "command" \in engine[e].asking THEN <<>> ELSE <<Question("command")>>)
    /\ UNCHANGED ran

(* The agent loop takes the steering at its next step, also in a worker     *)
(* that has been told to exit.                                              *)
TurnTakesSteering(e) ==
    /\ engine[e].run # NoRun /\ engine[e].steers # <<>>
    /\ Acts(engine[e].steers)
    /\ Says(e, [engine[e] EXCEPT !.steers = <<>>], <<>>)

Ask(e) ==
    /\ "ask" \in Allowed /\ Serves(e)
    /\ engine[e].run # NoRun /\ "turn" \notin engine[e].asking
    /\ Len(Port(e).up) < LinkLimit
    /\ Says(e, [engine[e] EXCEPT !.asking = @ \cup {"turn"}], <<Question("turn")>>)
    /\ UNCHANGED ran

(* Steering the turn never took goes back before idle settles the turn.     *)
TurnEnds(e) ==
    /\ Serves(e) /\ engine[e].run # NoRun /\ "turn" \notin engine[e].asking
    /\ Says(e, [engine[e] EXCEPT !.run = NoRun, !.steers = <<>>],
            (IF engine[e].steers = <<>> THEN <<>> ELSE <<Unused(engine[e].steers)>>)
                \o <<Signal("idle")>>)
    /\ UNCHANGED ran

(* The engine continues an outcome on its own while it is idle.             *)
ContinuesAlone(e) ==
    /\ "auto" \in Allowed /\ Serves(e) /\ engine[e].run = NoRun
    /\ Len(Port(e).up) < LinkLimit
    /\ Says(e, [engine[e] EXCEPT !.run = OwnTurn], <<>>)
    /\ UNCHANGED ran

EngineStep(e) ==
    \/ Boot(e) \/ TakeInput(e) \/ TakeSteer(e) \/ TakeInterrupt(e) \/ TakeReply(e)
    \/ TakeResume(e) \/ TakePick(e) \/ TakeCommand(e)
    \/ TurnTakesSteering(e) \/ Ask(e) \/ TurnEnds(e) \/ ContinuesAlone(e)
=============================================================================
