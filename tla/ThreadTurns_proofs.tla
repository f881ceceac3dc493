-------------------------- MODULE ThreadTurns_proofs --------------------------
(***************************************************************************)
(* The manager and the engine agree about the turn: what a thread shows is *)
(* what its engine does or is about to be told.  From that: one turn per   *)
(* folder, no status without a reason, no message lost, and the promise    *)
(* MessageFate makes for each message.                                     *)
(***************************************************************************)
EXTENDS ThreadMessages_proofs

-----------------------------------------------------------------------------
(* What is on its way *)

Has(s, k) == \E i \in DOMAIN s : s[i].kind = k
Single(s, k) == \A i, j \in DOMAIN s : s[i].kind = k /\ s[j].kind = k => i = j

LEMMA HasNone ==
    ASSUME NEW k
    PROVE  ~Has(<<>>, k) /\ Single(<<>>, k)
BY DEF Has, Single

LEMMA HasAppended ==
    ASSUME NEW S, NEW s \in Seq(S), NEW x \in S, NEW k
    PROVE  /\ Has(Append(s, x), k) <=> Has(s, k) \/ x.kind = k
           /\ Single(s, k) /\ (x.kind = k => ~Has(s, k)) => Single(Append(s, x), k)
           /\ Append(s, x) \in Seq(S) /\ Append(s, x) # <<>>
<1> DEFINE a == Append(s, x)
<1>1. /\ a \in Seq(S) /\ Len(s) \in Nat /\ Len(a) = Len(s) + 1
      /\ \A i \in 1..Len(s) : a[i] = s[i]
      /\ a[Len(s) + 1] = x
    BY AppendProperties, LenProperties
<1>2. DOMAIN s = 1..Len(s) /\ DOMAIN a = 1..(Len(s) + 1)
    BY <1>1, LenProperties
<1>3. a # <<>>
    BY <1>1, EmptySeq
<1> HIDE DEF a
<1>4. Has(a, k) <=> Has(s, k) \/ x.kind = k
    <2>1. \A i \in 1..(Len(s) + 1) : i \in 1..Len(s) \/ i = Len(s) + 1
        BY <1>1
    <2>2. 1..Len(s) \subseteq 1..(Len(s) + 1) /\ Len(s) + 1 \in 1..(Len(s) + 1)
        BY <1>1
    <2> QED BY <1>1, <1>2, <2>1, <2>2 DEF Has
<1>5. ASSUME Single(s, k), x.kind = k => ~Has(s, k) PROVE Single(a, k)
    <2>1. \A i \in 1..(Len(s) + 1) : i \in 1..Len(s) \/ i = Len(s) + 1
        BY <1>1
    <2> QED BY <1>1, <1>2, <1>5, <2>1 DEF Has, Single
<1> QED BY <1>1, <1>3, <1>4, <1>5 DEF a

LEMMA HasTaken ==
    ASSUME NEW S, NEW s \in Seq(S), s # <<>>, NEW k
    PROVE  /\ Has(s, k) <=> Head(s).kind = k \/ Has(Tail(s), k)
           /\ Single(s, k) => Single(Tail(s), k)
           /\ Single(s, k) /\ Head(s).kind = k => ~Has(Tail(s), k)
           /\ Head(s) \in S /\ Tail(s) \in Seq(S)
<1> DEFINE t == Tail(s)
<1>1. /\ t \in Seq(S) /\ Head(s) \in S /\ Len(s) \in Nat /\ Len(s) > 0
      /\ Len(t) = Len(s) - 1 /\ Head(s) = s[1]
      /\ \A i \in 1..Len(t) : t[i] = s[i + 1]
    BY HeadTailProperties, LenProperties, EmptySeq
<1>2. DOMAIN s = 1..Len(s) /\ DOMAIN t = 1..(Len(s) - 1)
    BY <1>1, LenProperties
<1> HIDE DEF t
<1>3. \A i \in 1..(Len(s) - 1) : i + 1 \in 1..Len(s) /\ i + 1 # 1 /\ t[i] = s[i + 1]
    BY <1>1
<1>4. \A i \in 1..Len(s) : i = 1 \/ (i - 1 \in 1..(Len(s) - 1) /\ t[i - 1] = s[i])
    BY <1>1
<1>5. 1 \in 1..Len(s)
    BY <1>1
<1>6. Has(s, k) <=> Head(s).kind = k \/ Has(t, k)
    <2>1. ASSUME NEW i \in 1..Len(s), s[i].kind = k PROVE s[1].kind = k \/ Has(t, k)
        <3>1. CASE i = 1
            BY <2>1, <3>1
        <3>2. CASE i - 1 \in 1..(Len(s) - 1) /\ t[i - 1] = s[i]
            <4>1. t[i - 1].kind = k
                BY <2>1, <3>2
            <4> QED BY <1>2, <3>2, <4>1 DEF Has
        <3> QED BY <1>4, <3>1, <3>2
    <2>2. ASSUME NEW i \in 1..(Len(s) - 1), t[i].kind = k PROVE Has(s, k)
        <3>1. s[i + 1].kind = k /\ i + 1 \in DOMAIN s
            BY <1>2, <1>3, <2>2
        <3> QED BY <3>1 DEF Has
    <2>3. s[1].kind = k => Has(s, k)
        BY <1>2, <1>5 DEF Has
    <2>4. Has(s, k) => s[1].kind = k \/ Has(t, k)
        BY <1>2, <2>1 DEF Has
    <2>5. Has(t, k) => Has(s, k)
        BY <1>2, <2>2 DEF Has
    <2> QED BY <1>1, <2>3, <2>4, <2>5
<1>7. ASSUME Single(s, k) PROVE Single(t, k)
    <2> SUFFICES ASSUME NEW i \in 1..(Len(s) - 1), NEW j \in 1..(Len(s) - 1),
                        t[i].kind = k, t[j].kind = k
                 PROVE  i = j
        BY <1>2 DEF Single
    <2>1. i + 1 = j + 1
        BY <1>2, <1>3, <1>7 DEF Single
    <2> QED BY <2>1, <1>1
<1>8. ASSUME Single(s, k), Head(s).kind = k PROVE ~Has(t, k)
    <2>1. \A i \in 1..(Len(s) - 1) : t[i].kind = k => i + 1 = 1
        BY <1>1, <1>2, <1>3, <1>5, <1>8 DEF Single
    <2> QED BY <1>2, <1>3, <2>1 DEF Has
<1> QED BY <1>1, <1>6, <1>7, <1>8 DEF t

-----------------------------------------------------------------------------
(* What the two ends agree on, of a thread r, its ports p and the worker x  *)
(* it has.                                                                  *)

(* The environments in which they do.  Each exclusion is a way out of the   *)
(* agreement that the code leaves open: a steer that meets the end of its   *)
(* turn (thread.manager.ts:387), a turn the engine begins by itself, the    *)
(* answer to a command's question (:741), a thread stopped again before its *)
(* worker has exited (:1058), an interrupt that clears the card of a turn   *)
(* and leaves the status (:746), and a resume deadline that outlives the    *)
(* engine it was armed for (:1066).                                         *)
Resumes == "resume" \in Allowed \/ Resumable # {}
Orderly ==
    /\ Allowed \cap {"steer", "auto", "command", "restop"} = {}
    /\ ~({"ask", "interrupt"} \subseteq Allowed)
    /\ Resumes => Allowed \cap {"engineCrash", "engineStop"} = {}

(* What each end then has to say to the other.                              *)
PlainIn == {x \in Inbound :
    /\ x.kind \in {"input", "interrupt", "resume", "pick", "reply"}
    /\ x.kind = "interrupt" => "ask" \notin Allowed
    /\ x.kind = "reply" => x.card = "turn"}
PlainOut == {x \in Outbound : x.kind # "unused" /\ (x.kind = "ask" => x.card = "turn")}
Plain(p) == p.down \in Seq(PlainIn) /\ p.up \in Seq(PlainOut)

Up(r, x) == r.eng # NoSlot /\ x.state = "up"
Runs(r, x) == Up(r, x) /\ x.run # NoRun

(* A turn runs, is asked for, or its end is on the way back.                *)
Turn(r, p, x) == Runs(r, x) \/ Has(p.down, "input") \/ Has(p.up, "idle")
Asks(r, p) == Has(p.up, "ask") \/ "turn" \in r.cards \/ Has(p.down, "reply")

Attached(r, p, x) == (p = Closed /\ ~r.ready /\ ~r.armed) \/ Up(r, x)

Beginning(r, p) ==
    /\ Single(p.up, "ready")
    /\ Has(p.up, "ready") =>
         /\ ~r.ready /\ ~r.armed /\ ~Has(p.down, "resume")
         /\ ~Has(p.up, "restored") /\ ~Has(p.up, "restoreFailed")
    /\ r.resume => ~r.ready

OneTurn(r, p, x) ==
    /\ Single(p.down, "input") /\ Single(p.up, "idle")
    /\ Runs(r, x) => ~Has(p.down, "input") /\ ~Has(p.up, "idle")
    /\ ~(Has(p.down, "input") /\ Has(p.up, "idle"))

Shown(r, p, x) ==
    /\ Turn(r, p, x) =>
         /\ r.ready /\ r.draining = NoSlot /\ "choice" \notin r.cards
         /\ r.status = "working" \/ (r.status = "needs-you" /\ "turn" \in r.cards)
    /\ r.status = "working" \/ r.sent # {} => Turn(r, p, x)

Asked(r, p, x) ==
    /\ Asks(r, p) => Runs(r, x) /\ "turn" \in x.asking /\ "ask" \in Allowed
    /\ Single(p.up, "ask") /\ Single(p.down, "reply")
    /\ "turn" \in r.cards => ~Has(p.up, "ask") /\ ~Has(p.down, "reply")
    /\ ~(Has(p.up, "ask") /\ Has(p.down, "reply"))
    /\ r.cards \subseteq {"turn", "choice"}

NoResume(r) ==
    /\ ~r.session /\ ~r.resume /\ ~r.hold /\ ~r.armed /\ "choice" \notin r.cards
    /\ r.status = "needs-you" => "turn" \in r.cards

Local(r, p, x) ==
    /\ Plain(p) /\ Attached(r, p, x) /\ Beginning(r, p)
    /\ OneTurn(r, p, x) /\ Shown(r, p, x) /\ Asked(r, p, x)
    /\ ~Resumes => NoResume(r)

(* Of all threads m with ports l and workers w.                             *)
At(w, e) == IF e = NoSlot THEN FreeWorker ELSE w[e]
Agree(m, l, w) == \A t \in Thread : Local(m[t], l[t], At(w, m[t].eng))

(* No steering, no turn before a worker is up, and only where Allowed has   *)
(* it a worker that is told to stop while it is still its thread's.         *)
Settled(w) ==
    \A e \in Slot : /\ w[e].steers = <<>>
                    /\ w[e].state \in {"free", "boot"} => w[e].run = NoRun
                    /\ w[e].state = "stopping" => "engineStop" \in Allowed
Fresh(s) == ~Resumes => \A t \in Thread : ~s[t].disk.session /\ ~s[t].last.session

TurnsAgree == Agree(th, link, engine) /\ Settled(engine) /\ Fresh(store)

(* A word more on a port, or the first one gone.                            *)
Adds(s2, s, x) ==
    \A k : /\ Has(s2, k) <=> Has(s, k) \/ x.kind = k
           /\ Single(s, k) /\ (x.kind = k => ~Has(s, k)) => Single(s2, k)
Loses(s2, s) ==
    \A k : /\ Has(s, k) <=> Head(s).kind = k \/ Has(s2, k)
           /\ Single(s, k) => Single(s2, k)
           /\ Single(s, k) /\ Head(s).kind = k => ~Has(s2, k)

LEMMA PortAdds ==
    ASSUME NEW p, Plain(p)
    PROVE  /\ \A x \in PlainIn : Adds(Append(p.down, x), p.down, x)
                                 /\ Append(p.down, x) \in Seq(PlainIn)
           /\ \A y \in PlainOut : Adds(Append(p.up, y), p.up, y)
                                  /\ Append(p.up, y) \in Seq(PlainOut)
           /\ p.down # <<>> => /\ Loses(Tail(p.down), p.down)
                               /\ Head(p.down) \in PlainIn /\ Tail(p.down) \in Seq(PlainIn)
           /\ p.up # <<>> => /\ Loses(Tail(p.up), p.up)
                             /\ Head(p.up) \in PlainOut /\ Tail(p.up) \in Seq(PlainOut)
<1> USE DEF Plain
<1>1. ASSUME NEW x \in PlainIn
      PROVE  Adds(Append(p.down, x), p.down, x) /\ Append(p.down, x) \in Seq(PlainIn)
    BY HasAppended DEF Adds
<1>2. ASSUME NEW y \in PlainOut
      PROVE  Adds(Append(p.up, y), p.up, y) /\ Append(p.up, y) \in Seq(PlainOut)
    BY HasAppended DEF Adds
<1>3. ASSUME p.down # <<>>
      PROVE  Loses(Tail(p.down), p.down) /\ Head(p.down) \in PlainIn /\ Tail(p.down) \in Seq(PlainIn)
    BY <1>3, HasTaken DEF Loses
<1>4. ASSUME p.up # <<>>
      PROVE  Loses(Tail(p.up), p.up) /\ Head(p.up) \in PlainOut /\ Tail(p.up) \in Seq(PlainOut)
    BY <1>4, HasTaken DEF Loses
<1> QED BY <1>1, <1>2, <1>3, <1>4

LEMMA ClosedSays ==
    /\ Plain(Closed)
    /\ \A k : /\ ~Has(Closed.down, k) /\ ~Has(Closed.up, k)
              /\ Single(Closed.down, k) /\ Single(Closed.up, k)
<1>1. Closed.down = <<>> /\ Closed.up = <<>>
    BY DEF Closed
<1> QED BY <1>1, HasNone, EmptySeq DEF Plain

(* A thread whose ports are closed and whose worker is not up.              *)
LEMMA LocalClosed ==
    ASSUME NEW r, NEW x, ~Up(r, x),
           r.ready = FALSE, r.armed = FALSE, r.sent = {}, r.cards \subseteq {"choice"},
           r.status \notin {"working", "needs-you"},
           ~Resumes => ~r.session /\ ~r.resume /\ ~r.hold /\ r.cards = {}
    PROVE  Local(r, Closed, x)
<1>1. ~Turn(r, Closed, x) /\ ~Asks(r, Closed) /\ ~Runs(r, x)
    BY ClosedSays DEF Turn, Asks, Runs
<1>2. Attached(r, Closed, x) /\ Beginning(r, Closed) /\ OneTurn(r, Closed, x)
    BY <1>1, ClosedSays DEF Attached, Beginning, OneTurn
<1>3. Shown(r, Closed, x) /\ Asked(r, Closed, x)
    BY <1>1, ClosedSays DEF Shown, Asked
<1>4. ~Resumes => NoResume(r)
    BY DEF NoResume
<1> QED BY <1>2, <1>3, <1>4, ClosedSays DEF Local

(* A thread without a worker that is up.                                    *)
LEMMA LocalDown ==
    ASSUME NEW r, NEW p, NEW x, Local(r, p, x), ~Up(r, x)
    PROVE  /\ p = Closed /\ ~r.ready /\ ~r.armed /\ r.sent = {} /\ r.status # "working"
           /\ r.cards \subseteq {"choice"}
           /\ ~Resumes => ~r.session /\ ~r.resume /\ ~r.hold /\ r.cards = {}
                          /\ r.status # "needs-you"
<1>1. p = Closed /\ ~r.ready /\ ~r.armed
    BY DEF Local, Attached
<1>2. ~Turn(r, p, x) /\ "turn" \notin r.cards
    BY <1>1, ClosedSays DEF Turn, Runs, Local, Asked, Asks
<1> QED BY <1>1, <1>2 DEF Local, Shown, Asked, NoResume

(* What a thread may change without its engine noticing.                    *)
LEMMA LocalSame ==
    ASSUME NEW r, NEW p, NEW x, Local(r, p, x), NEW r2,
           /\ r2.eng = r.eng /\ r2.ready = r.ready /\ r2.resume = r.resume
           /\ r2.draining = r.draining /\ r2.status = r.status
           /\ r2.sent = r.sent \/ r2.sent = {}
           /\ r2.cards = r.cards \/ r2.cards = r.cards \ {"choice"}
           /\ r2.armed = r.armed \/ r2.armed = FALSE
           /\ ~Resumes => r2.session = FALSE /\ r2.hold = FALSE
    PROVE  Local(r2, p, x)
<1>1. (Turn(r2, p, x) <=> Turn(r, p, x)) /\ (Runs(r2, x) <=> Runs(r, x)) /\ (Up(r2, x) <=> Up(r, x))
      /\ ("turn" \in r2.cards <=> "turn" \in r.cards) /\ r2.cards \subseteq r.cards
    BY DEF Turn, Runs, Up
<1>2. Attached(r2, p, x) /\ Beginning(r2, p) /\ OneTurn(r2, p, x)
    BY <1>1 DEF Local, Attached, Beginning, OneTurn
<1>3. Shown(r2, p, x)
    BY <1>1 DEF Local, Shown
<1>4. Asked(r2, p, x)
    BY <1>1 DEF Local, Asked, Asks
<1>5. ~Resumes => NoResume(r2)
    BY <1>1 DEF Local, NoResume
<1> QED BY <1>2, <1>3, <1>4, <1>5 DEF Local

-----------------------------------------------------------------------------
(* What the manager does to a thread.                                       *)

(* A message is sent to a thread that may take one.                         *)
LEMMA LocalPumped ==
    ASSUME NEW r, NEW p, NEW x, Local(r, p, x),
           r.ready, r.cards = {}, r.status # "working", r.draining = NoSlot,
           NEW r2,
           /\ r2.eng = r.eng /\ r2.ready = r.ready /\ r2.resume = r.resume
           /\ r2.draining = r.draining /\ r2.cards = r.cards /\ r2.armed = r.armed
           /\ r2.hold = r.hold /\ r2.session = r.session,
           NEW p2,
           \/ p2 = p /\ r2.sent = r.sent /\ r2.status \in {r.status, "idle"}
           \/ /\ r2.status = "working"
              /\ \E m \in Msg : p2.up = p.up /\ p2.down = Append(p.down, Carry("input", m))
    PROVE  Local(r2, p2, x)
<1>1. ~Turn(r, p, x) /\ ~Asks(r, p) /\ Up(r, x) /\ r.sent = {}
    BY DEF Local, Shown, Asked, Turn, Attached
<1>2. /\ Up(r2, x) /\ (Runs(r2, x) <=> Runs(r, x))
      /\ \A k : (Turn(r2, p, x) <=> Turn(r, p, x)) /\ (Asks(r2, p) <=> Asks(r, p))
    BY <1>1 DEF Up, Runs, Turn, Asks
<1>3. CASE p2 = p /\ r2.sent = r.sent /\ r2.status \in {r.status, "idle"}
    <2>1. Attached(r2, p, x) /\ Beginning(r2, p) /\ OneTurn(r2, p, x)
        BY <1>2 DEF Local, Attached, Beginning, OneTurn
    <2>2. Shown(r2, p, x) /\ Asked(r2, p, x)
        BY <1>1, <1>2, <1>3 DEF Local, Shown, Asked
    <2>3. ~Resumes => NoResume(r2)
        BY <1>3 DEF Local, NoResume
    <2> QED BY <1>3, <2>1, <2>2, <2>3 DEF Local
<1>4. ASSUME r2.status = "working", NEW m \in Msg,
             p2.up = p.up, p2.down = Append(p.down, Carry("input", m))
      PROVE  Local(r2, p2, x)
    <2> DEFINE y == Carry("input", m)
    <2>1. y \in PlainIn /\ y.kind = "input"
        BY DEF Carry, PlainIn, Inbound
    <2> HIDE DEF y
    <2>2. Plain(p) /\ Adds(p2.down, p.down, y) /\ Plain(p2)
        BY <1>4, <2>1, PortAdds DEF Plain, Local, y
    <2>3. /\ \A k : k # "input" => (Has(p2.down, k) <=> Has(p.down, k))
                                   /\ (Single(p.down, k) => Single(p2.down, k))
          /\ Has(p2.down, "input")
          /\ Single(p.down, "input") /\ ~Has(p.down, "input") => Single(p2.down, "input")
        BY <2>1, <2>2 DEF Adds
    <2>4. ~Has(p.down, "input") /\ ~Has(p.up, "idle") /\ ~Runs(r2, x)
        BY <1>1, <1>2 DEF Turn
    <2>5. Attached(r2, p2, x) /\ Beginning(r2, p2) /\ OneTurn(r2, p2, x)
        BY <1>2, <1>4, <2>3, <2>4 DEF Local, Attached, Beginning, OneTurn
    <2>6. Shown(r2, p2, x)
        BY <1>4, <2>3 DEF Shown, Turn
    <2>7. Asked(r2, p2, x)
        BY <1>1, <1>4, <2>3 DEF Local, Asked, Asks
    <2>8. ~Resumes => NoResume(r2)
        BY <1>4 DEF Local, NoResume
    <2> QED BY <2>2, <2>5, <2>6, <2>7, <2>8 DEF Local
<1> QED BY <1>3, <1>4

(* The person interrupts: nothing was asked then.                           *)
LEMMA LocalInterrupted ==
    ASSUME NEW r, NEW p, NEW x, Local(r, p, x), "ask" \notin Allowed,
           NEW r2,
           /\ r2.eng = r.eng /\ r2.ready = r.ready /\ r2.resume = r.resume
           /\ r2.draining = r.draining /\ r2.status = r.status
           /\ r2.sent = {} /\ r2.cards = {} /\ r2.armed = r.armed
           /\ r2.hold = r.hold /\ r2.session = r.session,
           NEW p2,
           p2 = p \/ (Up(r, x) /\ p2.up = p.up /\ p2.down = Append(p.down, Signal("interrupt")))
    PROVE  Local(r2, p2, x)
<1> DEFINE y == Signal("interrupt")
<1>1. y \in PlainIn /\ y.kind = "interrupt"
    BY DEF Signal, PlainIn, Inbound
<1> HIDE DEF y
<1>2. ~Asks(r, p) /\ "turn" \notin r.cards
    BY DEF Local, Asked, Asks
<1>3. /\ Plain(p2) /\ p2.up = p.up
      /\ \A k : k # "interrupt" => (Has(p2.down, k) <=> Has(p.down, k))
                                   /\ (Single(p.down, k) => Single(p2.down, k))
    <2>1. CASE p2 = p
        BY <2>1 DEF Local
    <2>2. CASE p2 # p
        <3>1. Plain(p) /\ Adds(p2.down, p.down, y) /\ Plain(p2)
            BY <1>1, <2>2, PortAdds DEF Plain, Local, y
        <3> QED BY <1>1, <2>2, <3>1 DEF Adds
    <2> QED BY <2>1, <2>2
<1>4. /\ (Up(r2, x) <=> Up(r, x)) /\ (Runs(r2, x) <=> Runs(r, x))
      /\ (Turn(r2, p2, x) <=> Turn(r, p, x)) /\ ~Asks(r2, p2)
    BY <1>2, <1>3 DEF Up, Runs, Turn, Asks
<1>5. Attached(r2, p2, x) /\ Beginning(r2, p2) /\ OneTurn(r2, p2, x)
    BY <1>3, <1>4 DEF Local, Attached, Beginning, OneTurn
<1>6. Shown(r2, p2, x)
    BY <1>2, <1>4 DEF Local, Shown
<1>7. Asked(r2, p2, x)
    BY <1>3, <1>4 DEF Local, Asked
<1>8. ~Resumes => NoResume(r2)
    BY <1>2 DEF Local, NoResume
<1> QED BY <1>3, <1>5, <1>6, <1>7, <1>8 DEF Local

(* The person answers what the turn asks.                                   *)
LEMMA LocalReplied ==
    ASSUME NEW r, NEW p, NEW x, Local(r, p, x), "turn" \in r.cards,
           NEW r2,
           /\ r2.eng = r.eng /\ r2.ready = r.ready /\ r2.resume = r.resume
           /\ r2.draining = r.draining /\ r2.status = "working"
           /\ r2.sent = r.sent /\ r2.cards = r.cards \ {"turn"} /\ r2.armed = r.armed
           /\ r2.hold = r.hold /\ r2.session = r.session,
           NEW p2, p2.up = p.up, p2.down = Append(p.down, Answer("turn"))
    PROVE  Local(r2, p2, x)
<1> DEFINE y == Answer("turn")
<1>1. y \in PlainIn /\ y.kind = "reply"
    BY DEF Answer, PlainIn, Inbound, EngineCard
<1> HIDE DEF y
<1>2. Asks(r, p) /\ Runs(r, x) /\ Up(r, x) /\ ~Has(p.down, "reply") /\ ~Has(p.up, "ask")
    BY DEF Local, Asked, Asks, Runs
<1>3. Plain(p) /\ Adds(p2.down, p.down, y) /\ Plain(p2)
    BY <1>1, PortAdds DEF Plain, Local, y
<1>4. /\ \A k : k # "reply" => (Has(p2.down, k) <=> Has(p.down, k))
                               /\ (Single(p.down, k) => Single(p2.down, k))
      /\ Single(p2.down, "reply")
    BY <1>1, <1>2, <1>3 DEF Adds, Local, Asked
<1>5. /\ Up(r2, x) /\ Runs(r2, x) /\ Turn(r2, p2, x) /\ Turn(r, p, x)
    BY <1>2 DEF Up, Runs, Turn
<1>6. Attached(r2, p2, x) /\ Beginning(r2, p2) /\ OneTurn(r2, p2, x)
    BY <1>2, <1>4, <1>5 DEF Local, Attached, Beginning, OneTurn
<1>7. Shown(r2, p2, x)
    BY <1>5 DEF Local, Shown
<1>8. Asked(r2, p2, x)
    BY <1>2, <1>4, <1>5 DEF Local, Asked
<1>9. ~Resumes => NoResume(r2)
    BY DEF Local, NoResume
<1> QED BY <1>3, <1>6, <1>7, <1>8, <1>9 DEF Local

(* The person answers the choice of a failed resume.                        *)
LEMMA LocalChosen ==
    ASSUME NEW r, NEW p, NEW x, Local(r, p, x), "choice" \in r.cards,
           NEW r2,
           /\ r2.eng = r.eng /\ r2.ready = r.ready /\ r2.resume = r.resume
           /\ r2.draining = r.draining /\ r2.status = "idle"
           /\ r2.sent = r.sent /\ r2.cards = r.cards \ {"choice"} /\ r2.armed = r.armed
    PROVE  Local(r2, p, x)
<1>1. ~Turn(r, p, x) /\ Resumes
    BY DEF Local, Shown, NoResume
<1>2. (Up(r2, x) <=> Up(r, x)) /\ (Runs(r2, x) <=> Runs(r, x)) /\ ~Turn(r2, p, x)
    BY <1>1 DEF Up, Runs, Turn
<1>3. Attached(r2, p, x) /\ Beginning(r2, p) /\ OneTurn(r2, p, x)
    BY <1>2 DEF Local, Attached, Beginning, OneTurn
<1>4. Shown(r2, p, x)
    BY <1>1, <1>2 DEF Local, Shown
<1>5. Asked(r2, p, x)
    BY <1>1, <1>2 DEF Local, Asked, Asks
<1> QED BY <1>1, <1>3, <1>4, <1>5 DEF Local

(* The engine is asked to list or to pick a conversation.                   *)
LEMMA LocalPicks ==
    ASSUME NEW r, NEW p, NEW x, Local(r, p, x), Up(r, x),
           NEW p2, p2.up = p.up, p2.down = Append(p.down, Signal("pick"))
    PROVE  Local(r, p2, x)
<1> DEFINE y == Signal("pick")
<1>1. y \in PlainIn /\ y.kind = "pick"
    BY DEF Signal, PlainIn, Inbound
<1> HIDE DEF y
<1>2. Plain(p) /\ Adds(p2.down, p.down, y) /\ Plain(p2)
    BY <1>1, PortAdds DEF Plain, Local, y
<1>3. \A k : k # "pick" => (Has(p2.down, k) <=> Has(p.down, k))
                           /\ (Single(p.down, k) => Single(p2.down, k))
    BY <1>1, <1>2 DEF Adds
<1>4. (Turn(r, p2, x) <=> Turn(r, p, x)) /\ (Asks(r, p2) <=> Asks(r, p))
    BY <1>3 DEF Turn, Asks
<1>5. Attached(r, p2, x) /\ Beginning(r, p2) /\ OneTurn(r, p2, x)
    BY <1>3 DEF Local, Attached, Beginning, OneTurn
<1>6. Shown(r, p2, x) /\ Asked(r, p2, x)
    BY <1>3, <1>4 DEF Local, Shown, Asked
<1> QED BY <1>2, <1>5, <1>6 DEF Local

-----------------------------------------------------------------------------
(* What the manager hears.                                                  *)

(* The fields that a thread keeps when it hears that a resume failed.       *)
LEMMA ResumeFailedIs ==
    ASSUME NEW r \in LiveThread
    PROVE  LET f == ResumeFailed(r)
           IN  /\ f.eng = r.eng /\ f.ready = TRUE /\ f.resume = FALSE /\ f.armed = FALSE
               /\ f.draining = r.draining /\ f.sent = r.sent
               /\ f.status \in {"idle", "needs-you"}
               /\ f.cards \subseteq r.cards \cup {"choice"}
BY DEF ResumeFailed, LiveThread

(* A resume is over, one way or the other.                                  *)
LEMMA LocalResumed ==
    ASSUME NEW r, NEW p, NEW x, Local(r, p, x), r.resume, Up(r, x), ~Has(p.up, "ready"),
           NEW r2,
           /\ r2.eng = r.eng /\ r2.ready = TRUE /\ r2.resume = FALSE /\ r2.armed = FALSE
           /\ r2.draining = r.draining /\ r2.sent = r.sent
           /\ r2.status \in {"idle", "needs-you"}
           /\ r2.cards \subseteq r.cards \cup {"choice"}
    PROVE  Local(r2, p, x)
<1>1. ~r.ready /\ Resumes
    BY DEF Local, Beginning, NoResume
<1>2. ~Turn(r, p, x) /\ ~Asks(r, p) /\ ~Runs(r, x) /\ r.sent = {}
    BY <1>1 DEF Local, Shown, Asked, Turn
<1>3. (Up(r2, x) <=> Up(r, x)) /\ ~Runs(r2, x) /\ ~Turn(r2, p, x) /\ ~Asks(r2, p)
    BY <1>2 DEF Up, Runs, Turn, Asks
<1>4. Attached(r2, p, x) /\ Beginning(r2, p) /\ OneTurn(r2, p, x)
    BY <1>3 DEF Local, Attached, Beginning, OneTurn
<1>5. Shown(r2, p, x)
    BY <1>2, <1>3 DEF Shown
<1>6. Asked(r2, p, x)
    BY <1>2, <1>3 DEF Local, Asked, Asks
<1> QED BY <1>1, <1>4, <1>5, <1>6 DEF Local

(* The first word from the engine is taken, and it changes nothing else.    *)
Dull(k) == k \in {"restored", "picked", "restoreFailed"}

LEMMA LocalTaken ==
    ASSUME NEW r, NEW p, NEW x, Local(r, p, x), p.up # <<>>, Dull(Head(p.up).kind),
           NEW p2, p2.up = Tail(p.up), p2.down = p.down
    PROVE  /\ Local(r, p2, x) /\ Up(r, x)
           /\ Head(p.up).kind # "picked" => ~Has(p2.up, "ready")
<1>1. Plain(p) /\ Loses(p2.up, p.up) /\ Plain(p2)
    BY PortAdds DEF Plain, Local
<1>2. Up(r, x)
    BY DEF Local, Attached, Closed
<1>3. /\ \A k : Has(p2.up, k) => Has(p.up, k)
      /\ \A k : ~Dull(k) => (Has(p2.up, k) <=> Has(p.up, k))
      /\ \A k : Single(p.up, k) => Single(p2.up, k)
      /\ Has(p.up, Head(p.up).kind)
    BY <1>1 DEF Loses
<1>4. \A k : k \in {"ready", "idle", "ask"} => ~Dull(k)
    BY DEF Dull
<1>5. (Turn(r, p2, x) <=> Turn(r, p, x)) /\ (Asks(r, p2) <=> Asks(r, p))
    BY <1>3, <1>4 DEF Turn, Asks
<1>6. Attached(r, p2, x) /\ Beginning(r, p2) /\ OneTurn(r, p2, x)
    BY <1>2, <1>3, <1>4 DEF Local, Attached, Beginning, OneTurn
<1>7. Shown(r, p2, x) /\ Asked(r, p2, x)
    BY <1>3, <1>4, <1>5 DEF Local, Shown, Asked
<1>8. Head(p.up).kind # "picked" => ~Has(p2.up, "ready")
    BY <1>3 DEF Local, Beginning, Dull
<1> QED BY <1>1, <1>2, <1>6, <1>7, <1>8 DEF Local

(* The engine has booted.                                                   *)
LEMMA LocalReady ==
    ASSUME NEW r \in LiveThread, NEW p, NEW x, Local(r, p, x),
           p.up # <<>>, Head(p.up).kind = "ready",
           NEW r2, r2 = Ready(r),
           NEW p2, p2.up = Tail(p.up),
           p2.down = IF r.resume THEN Append(p.down, Signal("resume")) ELSE p.down
    PROVE  Local(r2, p2, x)
<1> DEFINE y == Signal("resume")
<1>1. y \in PlainIn /\ y.kind = "resume"
    BY DEF Signal, PlainIn, Inbound
<1> HIDE DEF y
<1>2. /\ r2.eng = r.eng /\ r2.resume = r.resume /\ r2.draining = r.draining
      /\ r2.sent = r.sent /\ r2.cards = r.cards /\ r2.hold = r.hold /\ r2.session = r.session
      /\ r.resume => ~r2.ready /\ r2.status = "starting" /\ r2.armed = TRUE
      /\ ~r.resume => r2.ready = TRUE /\ r2.status = "idle" /\ r2.armed = r.armed
    BY DEF Ready, LiveThread
<1>3. Plain(p) /\ Loses(p2.up, p.up) /\ Up(r, x)
    BY PortAdds DEF Plain, Local, Attached, Closed
<1>4. /\ \A k : k # "ready" => (Has(p2.up, k) <=> Has(p.up, k))
      /\ \A k : Single(p.up, k) => Single(p2.up, k)
      /\ Has(p.up, "ready") /\ ~Has(p2.up, "ready") /\ Single(p2.up, "ready")
    BY <1>3 DEF Loses, Local, Beginning
<1>5. /\ Plain(p2)
      /\ \A k : k # "resume" => (Has(p2.down, k) <=> Has(p.down, k))
                                /\ (Single(p.down, k) => Single(p2.down, k))
    <2>1. CASE r.resume
        <3>1. Adds(p2.down, p.down, y) /\ Plain(p2)
            BY <1>1, <1>3, <2>1, PortAdds DEF Plain, y
        <3> QED BY <1>1, <3>1 DEF Adds
    <2>2. CASE ~r.resume
        BY <1>3, <2>2, PortAdds DEF Plain
    <2> QED BY <2>1, <2>2
<1>6. ~r.ready /\ ~r.armed /\ ~Turn(r, p, x) /\ ~Runs(r, x) /\ ~Asks(r, p) /\ r.sent = {}
    BY <1>4 DEF Local, Beginning, Shown, Asked, Turn
<1>7. ~Turn(r2, p2, x) /\ ~Runs(r2, x) /\ ~Asks(r2, p2) /\ Up(r2, x)
    BY <1>2, <1>3, <1>4, <1>5, <1>6 DEF Turn, Runs, Asks, Up
<1>8. Attached(r2, p2, x) /\ Beginning(r2, p2)
    BY <1>2, <1>4, <1>7 DEF Attached, Beginning
<1>9. OneTurn(r2, p2, x)
    BY <1>4, <1>5, <1>6, <1>7 DEF Local, OneTurn, Turn
<1>10. Shown(r2, p2, x)
    BY <1>2, <1>6, <1>7 DEF Shown
<1>11. Asked(r2, p2, x)
    BY <1>2, <1>4, <1>5, <1>7 DEF Local, Asked, Asks
<1>12. ~Resumes => NoResume(r2)
    BY <1>2, <1>6 DEF Local, NoResume
<1> QED BY <1>5, <1>8, <1>9, <1>10, <1>11, <1>12 DEF Local

(* The turn asks.                                                           *)
LEMMA LocalHearsAsk ==
    ASSUME NEW r, NEW p, NEW x, Local(r, p, x),
           p.up # <<>>, Head(p.up).kind = "ask",
           NEW r2,
           /\ r2.eng = r.eng /\ r2.ready = r.ready /\ r2.resume = r.resume
           /\ r2.draining = r.draining /\ r2.status = "needs-you"
           /\ r2.sent = r.sent /\ r2.cards = r.cards \cup {"turn"} /\ r2.armed = r.armed
           /\ r2.hold = r.hold /\ r2.session = r.session,
           NEW p2, p2.up = Tail(p.up), p2.down = p.down
    PROVE  Local(r2, p2, x)
<1>1. Plain(p) /\ Loses(p2.up, p.up) /\ Plain(p2)
    BY PortAdds DEF Plain, Local
<1>2. /\ \A k : k # "ask" => (Has(p2.up, k) <=> Has(p.up, k))
      /\ \A k : Single(p.up, k) => Single(p2.up, k)
      /\ Has(p.up, "ask") /\ ~Has(p2.up, "ask")
    BY <1>1 DEF Loses, Local, Asked
<1>3. Asks(r, p) /\ Runs(r, x) /\ Up(r, x) /\ Turn(r, p, x) /\ ~Has(p.down, "reply")
      /\ "turn" \in x.asking /\ "ask" \in Allowed
    BY <1>2 DEF Local, Asked, Asks, Runs, Turn
<1>4. Up(r2, x) /\ Runs(r2, x) /\ Turn(r2, p2, x)
    BY <1>3 DEF Up, Runs, Turn
<1>5. Attached(r2, p2, x) /\ Beginning(r2, p2) /\ OneTurn(r2, p2, x)
    BY <1>2, <1>3, <1>4 DEF Local, Attached, Beginning, OneTurn
<1>6. Shown(r2, p2, x)
    BY <1>3, <1>4 DEF Local, Shown
<1>7. Asked(r2, p2, x)
    BY <1>2, <1>3, <1>4 DEF Local, Asked
<1>8. ~Resumes => NoResume(r2)
    BY DEF Local, NoResume
<1> QED BY <1>1, <1>5, <1>6, <1>7, <1>8 DEF Local

(* The turn is over.                                                        *)
LEMMA LocalIdle ==
    ASSUME NEW r \in LiveThread, NEW p, NEW x, Local(r, p, x),
           p.up # <<>>, Head(p.up).kind = "idle",
           NEW r2, r2 = Idle(r),
           NEW p2, p2.up = Tail(p.up), p2.down = p.down
    PROVE  Local(r2, p2, x)
<1>1. Plain(p) /\ Loses(p2.up, p.up) /\ Plain(p2)
    BY PortAdds DEF Plain, Local
<1>2. /\ \A k : k # "idle" => (Has(p2.up, k) <=> Has(p.up, k))
      /\ \A k : Single(p.up, k) => Single(p2.up, k)
      /\ Has(p.up, "idle") /\ ~Has(p2.up, "idle")
    BY <1>1 DEF Loses, Local, OneTurn
<1>3. /\ Turn(r, p, x) /\ ~Runs(r, x) /\ ~Has(p.down, "input") /\ ~Asks(r, p)
      /\ r.ready /\ "choice" \notin r.cards /\ r.status \in {"working", "needs-you"}
      /\ Up(r, x)
    BY <1>2 DEF Local, Turn, OneTurn, Shown, Asked, Attached
<1>4. /\ r2.eng = r.eng /\ r2.ready = r.ready /\ r2.resume = r.resume
      /\ r2.draining = r.draining /\ r2.status = "idle"
      /\ r2.sent = {} /\ r2.cards = {} /\ r2.armed = r.armed
      /\ r2.hold = r.hold /\ r2.session = r.session
    BY <1>3 DEF Idle, LiveThread
<1>5. Up(r2, x) /\ ~Runs(r2, x) /\ ~Turn(r2, p2, x) /\ ~Asks(r2, p2)
    BY <1>2, <1>3, <1>4 DEF Up, Runs, Turn, Asks
<1>6. Attached(r2, p2, x) /\ Beginning(r2, p2) /\ OneTurn(r2, p2, x)
    BY <1>2, <1>4, <1>5 DEF Local, Attached, Beginning, OneTurn
<1>7. Shown(r2, p2, x)
    BY <1>4, <1>5 DEF Shown
<1>8. Asked(r2, p2, x)
    BY <1>2, <1>4, <1>5 DEF Local, Asked, Asks
<1>9. ~Resumes => NoResume(r2)
    BY <1>4 DEF Local, NoResume
<1> QED BY <1>1, <1>6, <1>7, <1>8, <1>9 DEF Local

(* Whatever it hears.                                                       *)
LEMMA LocalHeard ==
    ASSUME NEW r \in LiveThread, NEW p, NEW x, Local(r, p, x), p.up # <<>>,
           NEW r2, r2 = Heard(r, Head(p.up)),
           NEW p2, p2.up = Tail(p.up),
           p2.down = IF Head(p.up).kind = "ready" /\ r.resume
                     THEN Append(p.down, Signal("resume")) ELSE p.down
    PROVE  Local(r2, p2, x)
<1> DEFINE msg == Head(p.up)
<1>1. msg \in PlainOut
    BY PortAdds DEF Local
<1>2. /\ msg.kind \in {"ready", "idle", "restored", "picked", "restoreFailed", "ask"}
      /\ msg.kind = "ask" => msg.card = "turn"
    BY <1>1 DEF PlainOut, Outbound
<1> HIDE DEF msg
<1>3. CASE msg.kind = "ready"
    <2>1. r2 = Ready(r)
        BY <1>3 DEF Heard, msg
    <2> QED BY <1>3, <2>1, LocalReady DEF msg
<1>4. CASE msg.kind = "ask"
    <2>1. r2 = [r EXCEPT !.cards = @ \cup {"turn"}, !.status = "needs-you"]
        BY <1>2, <1>4 DEF Heard, msg
    <2>2. /\ r2.eng = r.eng /\ r2.ready = r.ready /\ r2.resume = r.resume
          /\ r2.draining = r.draining /\ r2.status = "needs-you"
          /\ r2.sent = r.sent /\ r2.cards = r.cards \cup {"turn"} /\ r2.armed = r.armed
          /\ r2.hold = r.hold /\ r2.session = r.session
        BY <2>1 DEF LiveThread
    <2> QED BY <1>4, <2>2, LocalHearsAsk DEF msg
<1>5. CASE msg.kind = "idle"
    <2>1. r2 = Idle(r)
        BY <1>5 DEF Heard, msg
    <2> QED BY <1>5, <2>1, LocalIdle DEF msg
<1>6. CASE msg.kind \in {"restored", "picked", "restoreFailed"}
    <2>1. /\ Local(r, p2, x) /\ Up(r, x)
          /\ msg.kind # "picked" => ~Has(p2.up, "ready")
        BY <1>6, LocalTaken DEF msg, Dull
    <2>2. CASE r.resume /\ msg.kind # "picked"
        <3>1. r2 = ResumeTook(r) \/ r2 = ResumeFailed(r)
            BY <1>6, <2>2 DEF Heard, msg
        <3>2. /\ r2.eng = r.eng /\ r2.ready = TRUE /\ r2.resume = FALSE /\ r2.armed = FALSE
              /\ r2.draining = r.draining /\ r2.sent = r.sent
              /\ r2.status \in {"idle", "needs-you"}
              /\ r2.cards \subseteq r.cards \cup {"choice"}
            <4>1. CASE r2 = ResumeTook(r)
                BY <4>1 DEF ResumeTook, LiveThread
            <4>2. CASE r2 = ResumeFailed(r)
                BY <4>2, ResumeFailedIs
            <4> QED BY <3>1, <4>1, <4>2
        <3> QED BY <2>1, <2>2, <3>2, LocalResumed
    <2>3. CASE ~r.resume /\ msg.kind \in {"restored", "picked"}
        <3>1. r2 = [r EXCEPT !.session = @ \/ r.hold, !.hold = FALSE]
            BY <2>3 DEF Heard, msg
        <3>2. /\ r2.eng = r.eng /\ r2.ready = r.ready /\ r2.resume = r.resume
              /\ r2.draining = r.draining /\ r2.status = r.status
              /\ r2.sent = r.sent /\ r2.cards = r.cards /\ r2.armed = r.armed
              /\ r2.hold = FALSE
            BY <3>1 DEF LiveThread
        <3>3. r2.session = (r.session \/ r.hold)
            BY <3>1 DEF LiveThread
        <3>4. ~Resumes => r2.session = FALSE
            BY <2>1, <3>3 DEF Local, NoResume
        <3> QED BY <2>1, <3>2, <3>4, LocalSame
    <2>4. CASE (r.resume /\ msg.kind = "picked") \/ (~r.resume /\ msg.kind = "restoreFailed")
        <3>1. r2 = r
            BY <2>4 DEF Heard, msg
        <3> QED BY <2>1, <3>1
    <2> QED BY <1>6, <2>2, <2>3, <2>4
<1> QED BY <1>2, <1>3, <1>4, <1>5, <1>6

-----------------------------------------------------------------------------
(* What the engine does to its ports and to itself.                         *)

(* It takes the first word and says at most one; `took` and `said` are      *)
(* their kinds, or "nothing".                                               *)
Exchanges(p2, p, took, said) ==
    /\ \A k : k # took => (Has(p2.down, k) <=> Has(p.down, k))
    /\ \A k : Single(p.down, k) => Single(p2.down, k)
    /\ took # "nothing" => Has(p.down, took) /\ (Single(p.down, took) => ~Has(p2.down, took))
    /\ \A k : k # said => (Has(p2.up, k) <=> Has(p.up, k)) /\ (Single(p.up, k) => Single(p2.up, k))
    /\ said # "nothing" => Has(p2.up, said)
    /\ said # "nothing" /\ Single(p.up, said) /\ ~Has(p.up, said) => Single(p2.up, said)

LEMMA ExchangeIs ==
    ASSUME NEW p, Plain(p), NEW took, NEW said, NEW out,
           \/ out = <<>> /\ said = "nothing"
           \/ \E y \in PlainOut : out = <<y>> /\ y.kind = said,
           NEW p2, p2.up = p.up \o out,
           \/ took = "nothing" /\ p2.down = p.down
           \/ p.down # <<>> /\ Head(p.down).kind = took /\ p2.down = Tail(p.down)
    PROVE  Exchanges(p2, p, took, said) /\ Plain(p2)
<1>1. ~Has(p.up, "nothing") /\ ~Has(p.down, "nothing")
    <2>1. \A i \in DOMAIN p.up : p.up[i] \in PlainOut
        BY LenProperties DEF Plain
    <2>2. \A i \in DOMAIN p.down : p.down[i] \in PlainIn
        BY LenProperties DEF Plain
    <2>3. \A y \in PlainOut : y.kind # "nothing"
        BY DEF PlainOut, Outbound
    <2>4. \A y \in PlainIn : y.kind # "nothing"
        BY DEF PlainIn
    <2> QED BY <2>1, <2>2, <2>3, <2>4 DEF Has
<1>2. /\ \A k : k # said => (Has(p2.up, k) <=> Has(p.up, k)) /\ (Single(p.up, k) => Single(p2.up, k))
      /\ said # "nothing" => Has(p2.up, said)
      /\ said # "nothing" /\ Single(p.up, said) /\ ~Has(p.up, said) => Single(p2.up, said)
      /\ p2.up \in Seq(PlainOut)
    <2>0. p.up \in Seq(PlainOut)
        BY DEF Plain
    <2>1. CASE out = <<>> /\ said = "nothing"
        <3>1. p2.up = p.up
            BY <2>0, <2>1, SayOne
        <3> QED BY <2>0, <2>1, <3>1
    <2>2. ASSUME NEW y \in PlainOut, out = <<y>>, y.kind = said
          PROVE  <1>2!1 /\ <1>2!2 /\ <1>2!3 /\ <1>2!4
        <3>1. p2.up = Append(p.up, y)
            BY <2>0, <2>2, SayOne
        <3>2. Adds(p2.up, p.up, y) /\ p2.up \in Seq(PlainOut)
            BY <3>1, PortAdds
        <3> QED BY <2>2, <3>2 DEF Adds
    <2> QED BY <2>1, <2>2
<1>3. /\ \A k : k # took => (Has(p2.down, k) <=> Has(p.down, k))
      /\ \A k : Single(p.down, k) => Single(p2.down, k)
      /\ took # "nothing" => Has(p.down, took) /\ (Single(p.down, took) => ~Has(p2.down, took))
      /\ p2.down \in Seq(PlainIn)
    <2>1. CASE took = "nothing" /\ p2.down = p.down
        BY <2>1 DEF Plain
    <2>2. CASE p.down # <<>> /\ Head(p.down).kind = took /\ p2.down = Tail(p.down)
        <3>1. Loses(p2.down, p.down) /\ p2.down \in Seq(PlainIn)
            BY <2>2, PortAdds
        <3> QED BY <2>2, <3>1 DEF Loses
    <2> QED BY <2>1, <2>2
<1> QED BY <1>2, <1>3 DEF Exchanges, Plain

(* It boots.                                                                *)
LEMMA LocalBoots ==
    ASSUME NEW r, NEW p, NEW x, Local(r, p, x), x.state = "boot",
           r.eng # NoSlot, x.run = NoRun,
           NEW x2, x2.state = "up", x2.run = x.run,
           NEW p2, Plain(p2), Exchanges(p2, p, "nothing", "ready")
    PROVE  Local(r, p2, x2)
<1>1. /\ p = Closed /\ ~r.ready /\ ~r.armed /\ r.sent = {} /\ r.status # "working"
      /\ r.cards \subseteq {"choice"}
    BY LocalDown DEF Up
<1>2. /\ \A k : k # "nothing" => ~Has(p2.down, k)
      /\ \A k : Single(p2.down, k) /\ Single(p2.up, k)
      /\ \A k : k # "ready" => ~Has(p2.up, k)
    <2>1. \A k : /\ ~Has(p.down, k) /\ ~Has(p.up, k) /\ Single(p.down, k) /\ Single(p.up, k)
        BY <1>1, ClosedSays
    <2> QED BY <2>1 DEF Exchanges
<1>3. Up(r, x2) /\ ~Runs(r, x2) /\ ~Turn(r, p2, x2) /\ ~Asks(r, p2)
    BY <1>1, <1>2 DEF Up, Runs, Turn, Asks
<1>4. Attached(r, p2, x2) /\ Beginning(r, p2) /\ OneTurn(r, p2, x2)
    BY <1>1, <1>2, <1>3 DEF Local, Attached, Beginning, OneTurn
<1>5. Shown(r, p2, x2) /\ Asked(r, p2, x2)
    BY <1>1, <1>2, <1>3 DEF Shown, Asked
<1> QED BY <1>4, <1>5 DEF Local

(* It begins a turn.                                                        *)
LEMMA LocalBegins ==
    ASSUME NEW r, NEW p, NEW x, Local(r, p, x), Up(r, x), Has(p.down, "input"),
           NEW x2, x2.state = "up", x2.run # NoRun,
           NEW p2, Plain(p2), Exchanges(p2, p, "input", "nothing")
    PROVE  Local(r, p2, x2)
<1>1. Turn(r, p, x) /\ ~Runs(r, x) /\ ~Asks(r, p) /\ ~Has(p.up, "idle")
    BY DEF Turn, Local, OneTurn, Asked
<1>2. /\ ~Has(p2.down, "input") /\ ~Has(p2.up, "idle")
      /\ \A k : k # "input" => (Has(p2.down, k) <=> Has(p.down, k))
      /\ \A k : Single(p.down, k) => Single(p2.down, k)
      /\ \A k : k # "nothing" => (Has(p2.up, k) <=> Has(p.up, k))
                                 /\ (Single(p.up, k) => Single(p2.up, k))
    BY <1>1 DEF Exchanges, Local, OneTurn
<1>3. Up(r, x2) /\ Runs(r, x2) /\ Turn(r, p2, x2) /\ ~Asks(r, p2)
    BY <1>1, <1>2 DEF Up, Runs, Turn, Asks
<1>4. Attached(r, p2, x2) /\ Beginning(r, p2) /\ OneTurn(r, p2, x2)
    BY <1>2, <1>3 DEF Local, Attached, Beginning, OneTurn
<1>5. Shown(r, p2, x2)
    BY <1>1, <1>3 DEF Local, Shown
<1>6. Asked(r, p2, x2)
    BY <1>2, <1>3 DEF Local, Asked
<1> QED BY <1>4, <1>5, <1>6 DEF Local

(* It takes or says a word that is not of the turn.                         *)
LEMMA LocalAside ==
    ASSUME NEW r, NEW p, NEW x, Local(r, p, x), Up(r, x),
           NEW took \in {"interrupt", "resume", "pick"},
           NEW said \in {"nothing", "restored", "picked", "restoreFailed"},
           said \in {"restored", "restoreFailed"} => took = "resume",
           NEW x2, x2.state = "up", x2.run = x.run,
           x2.asking = x.asking \/ "ask" \notin Allowed,
           NEW p2, Plain(p2), Exchanges(p2, p, took, said)
    PROVE  Local(r, p2, x2)
<1>1. /\ Has(p.down, took)
      /\ \A k : k # took => (Has(p2.down, k) <=> Has(p.down, k))
      /\ \A k : Single(p.down, k) => Single(p2.down, k)
      /\ \A k : k # said => (Has(p2.up, k) <=> Has(p.up, k))
                            /\ (Single(p.up, k) => Single(p2.up, k))
    BY DEF Exchanges
<1>2. /\ Up(r, x2) /\ (Runs(r, x2) <=> Runs(r, x))
      /\ (Turn(r, p2, x2) <=> Turn(r, p, x)) /\ (Asks(r, p2) <=> Asks(r, p))
    BY <1>1 DEF Up, Runs, Turn, Asks
<1>3. Attached(r, p2, x2) /\ OneTurn(r, p2, x2)
    BY <1>1, <1>2 DEF Local, Attached, OneTurn
<1>4. Beginning(r, p2)
    <2>1. Has(p2.up, "ready") <=> Has(p.up, "ready")
        BY <1>1
    <2>2. Single(p2.up, "ready")
        BY <1>1 DEF Local, Beginning
    <2>3. Has(p2.down, "resume") => Has(p.down, "resume")
        BY <1>1
    <2>4. ASSUME Has(p.up, "ready") PROVE ~Has(p2.up, "restored") /\ ~Has(p2.up, "restoreFailed")
        <3>1. took # "resume"
            BY <1>1, <2>4 DEF Local, Beginning
        <3> QED BY <1>1, <2>4, <3>1 DEF Local, Beginning
    <2> QED BY <2>1, <2>2, <2>3, <2>4 DEF Local, Beginning
<1>5. Shown(r, p2, x2)
    BY <1>2 DEF Local, Shown
<1>6. Asked(r, p2, x2)
    BY <1>1, <1>2 DEF Local, Asked
<1> QED BY <1>3, <1>4, <1>5, <1>6 DEF Local

(* It takes the answer to what its turn asked.                              *)
LEMMA LocalAnswered ==
    ASSUME NEW r, NEW p, NEW x, Local(r, p, x), Up(r, x), Has(p.down, "reply"),
           NEW x2, x2.state = "up", x2.run = x.run,
           NEW p2, Plain(p2), Exchanges(p2, p, "reply", "nothing")
    PROVE  Local(r, p2, x2)
<1>1. /\ ~Has(p2.down, "reply")
      /\ \A k : k # "reply" => (Has(p2.down, k) <=> Has(p.down, k))
      /\ \A k : Single(p.down, k) => Single(p2.down, k)
      /\ \A k : k # "nothing" => (Has(p2.up, k) <=> Has(p.up, k))
                                 /\ (Single(p.up, k) => Single(p2.up, k))
    BY DEF Exchanges, Local, Asked
<1>2. "turn" \notin r.cards /\ ~Has(p.up, "ask")
    BY DEF Local, Asked
<1>3. /\ Up(r, x2) /\ (Runs(r, x2) <=> Runs(r, x))
      /\ (Turn(r, p2, x2) <=> Turn(r, p, x)) /\ ~Asks(r, p2)
    BY <1>1, <1>2 DEF Up, Runs, Turn, Asks
<1>4. Attached(r, p2, x2) /\ Beginning(r, p2) /\ OneTurn(r, p2, x2)
    BY <1>1, <1>3 DEF Local, Attached, Beginning, OneTurn
<1>5. Shown(r, p2, x2)
    BY <1>3 DEF Local, Shown
<1>6. Asked(r, p2, x2)
    BY <1>1, <1>3 DEF Local, Asked
<1> QED BY <1>4, <1>5, <1>6 DEF Local

(* Its turn asks.                                                           *)
LEMMA LocalAsks ==
    ASSUME NEW r, NEW p, NEW x, Local(r, p, x), Runs(r, x), "turn" \notin x.asking,
           "ask" \in Allowed,
           NEW x2, x2.state = "up", x2.run = x.run, "turn" \in x2.asking,
           NEW p2, Plain(p2), Exchanges(p2, p, "nothing", "ask")
    PROVE  Local(r, p2, x2)
<1>1. ~Asks(r, p) /\ ~Has(p.up, "ask") /\ "turn" \notin r.cards /\ ~Has(p.down, "reply")
      /\ Up(r, x)
    BY DEF Local, Asked, Asks, Runs
<1>2. /\ \A k : k # "nothing" => (Has(p2.down, k) <=> Has(p.down, k))
      /\ \A k : Single(p.down, k) => Single(p2.down, k)
      /\ \A k : k # "ask" => (Has(p2.up, k) <=> Has(p.up, k))
                             /\ (Single(p.up, k) => Single(p2.up, k))
      /\ Single(p2.up, "ask")
    BY <1>1 DEF Exchanges, Local, Asked
<1>3. /\ Up(r, x2) /\ Runs(r, x2) /\ Turn(r, p2, x2) /\ Turn(r, p, x)
    BY <1>1, <1>2 DEF Up, Runs, Turn
<1>4. Attached(r, p2, x2) /\ Beginning(r, p2) /\ OneTurn(r, p2, x2)
    BY <1>2, <1>3 DEF Local, Attached, Beginning, OneTurn
<1>5. Shown(r, p2, x2)
    BY <1>3 DEF Local, Shown
<1>6. Asked(r, p2, x2)
    BY <1>1, <1>2, <1>3 DEF Local, Asked
<1> QED BY <1>4, <1>5, <1>6 DEF Local

(* Its turn ends.                                                           *)
LEMMA LocalEnds ==
    ASSUME NEW r, NEW p, NEW x, Local(r, p, x), Runs(r, x), "turn" \notin x.asking,
           NEW x2, x2.state = "up", x2.run = NoRun,
           NEW p2, Plain(p2), Exchanges(p2, p, "nothing", "idle")
    PROVE  Local(r, p2, x2)
<1>1. /\ ~Asks(r, p) /\ Turn(r, p, x) /\ Up(r, x)
      /\ ~Has(p.down, "input") /\ ~Has(p.up, "idle")
    BY DEF Local, Asked, Turn, OneTurn, Runs
<1>2. /\ \A k : k # "nothing" => (Has(p2.down, k) <=> Has(p.down, k))
      /\ \A k : Single(p.down, k) => Single(p2.down, k)
      /\ \A k : k # "idle" => (Has(p2.up, k) <=> Has(p.up, k))
                              /\ (Single(p.up, k) => Single(p2.up, k))
      /\ Single(p2.up, "idle") /\ Has(p2.up, "idle")
    BY <1>1 DEF Exchanges, Local, OneTurn
<1>3. Up(r, x2) /\ ~Runs(r, x2) /\ Turn(r, p2, x2) /\ ~Asks(r, p2)
    BY <1>1, <1>2 DEF Up, Runs, Turn, Asks
<1>4. Attached(r, p2, x2) /\ Beginning(r, p2) /\ OneTurn(r, p2, x2)
    BY <1>1, <1>2, <1>3 DEF Local, Attached, Beginning, OneTurn
<1>5. Shown(r, p2, x2)
    BY <1>1, <1>3 DEF Local, Shown
<1>6. Asked(r, p2, x2)
    BY <1>2, <1>3 DEF Local, Asked
<1> QED BY <1>4, <1>5, <1>6 DEF Local

-----------------------------------------------------------------------------
(* Handlers.  In the middle of one, before what Finish does, the threads    *)
(* are m, the ports l and the workers w; d is what the person is told of.   *)

Busy(r, p, w) ==
    Has(p.down, "input") \/ Runs(r, At(w, r.eng)) \/ At(w, r.draining).run # NoRun

Handled(t, r, p, w, d) ==
    /\ Local(r, p, At(w, r.eng))
    /\ r.ready => Delivers(t)
    /\ "engineStop" \notin Allowed => (Busy(r, p, w) => Busy(th[t], link[t], engine))
    /\ r.sent \subseteq th[t].sent
    /\ r.sent # {} => \A x : Carried(x, link[t].down) => Carried(x, p.down)
    /\ Pending(th[t]) \subseteq
           Pending(r) \cup d \cup (IF Has(link[t].down, "input") THEN {} ELSE th[t].sent)

(* What a handler may do to workers: those of the threads in T, and free    *)
(* ones.                                                                    *)
Moved(w, T) == \A f \in Slot :
    \/ w[f] = engine[f]
    \/ /\ engine[f].state = "free" \/ engine[f].owner \in T
       /\ \/ w[f] = FreeWorker
          \/ \E t \in Thread : w[f] = BootingFor(t)
          \/ w[f] = [engine[f] EXCEPT !.state = "exiting"]
          \/ "engineStop" \in Allowed /\ w[f] = [engine[f] EXCEPT !.state = "stopping"]

Middle(m, l, w, d) ==
    /\ m \in [Thread -> LiveThread] /\ l \in [Thread -> Ports]
    /\ \A t \in Thread : Handled(t, m[t], l[t], w, d)
    /\ Settled(w)

Calm == TypeOK /\ EnginesOwned /\ TurnsAgree /\ Orderly

LEMMA FreeAndBooting ==
    /\ FreeWorker.run = NoRun /\ FreeWorker.state = "free" /\ FreeWorker.steers = <<>>
    /\ \A t : /\ BootingFor(t).run = NoRun /\ BootingFor(t).state = "boot"
              /\ BootingFor(t).steers = <<>>
BY DEF FreeWorker, BootingFor

LEMMA SettledMoved ==
    ASSUME Calm, NEW w, NEW T, Moved(w, T)
    PROVE  Settled(w)
<1>1. Settled(engine) /\ engine \in [Slot -> Worker]
    BY DEF Calm, TurnsAgree, TypeOK
<1> SUFFICES ASSUME NEW f \in Slot
             PROVE  /\ w[f].steers = <<>>
                    /\ w[f].state \in {"free", "boot"} => w[f].run = NoRun
                    /\ w[f].state = "stopping" => "engineStop" \in Allowed
    BY DEF Settled
<1>2. /\ engine[f] \in Worker /\ engine[f].steers = <<>>
      /\ engine[f].state \in {"free", "boot"} => engine[f].run = NoRun
      /\ engine[f].state = "stopping" => "engineStop" \in Allowed
    BY <1>1 DEF Settled
<1>3. ASSUME NEW s PROVE /\ [engine[f] EXCEPT !.state = s].steers = <<>>
                         /\ [engine[f] EXCEPT !.state = s].state = s
    BY <1>2 DEF Worker
<1>4. CASE w[f] = engine[f]
    BY <1>2, <1>4
<1>5. CASE w[f] = FreeWorker \/ \E t \in Thread : w[f] = BootingFor(t)
    BY <1>5, FreeAndBooting
<1>6. CASE w[f] = [engine[f] EXCEPT !.state = "exiting"]
    BY <1>3, <1>6
<1>7. CASE "engineStop" \in Allowed /\ w[f] = [engine[f] EXCEPT !.state = "stopping"]
    BY <1>3, <1>7
<1> QED BY <1>4, <1>5, <1>6, <1>7 DEF Moved

(* Agreement before, for each thread.                                       *)
LEMMA CalmThread ==
    ASSUME Calm, NEW t \in Thread
    PROVE  /\ Local(th[t], link[t], At(engine, th[t].eng))
           /\ th[t] \in LiveThread /\ link[t] \in Ports
           /\ Up(th[t], At(engine, th[t].eng)) <=> Delivers(t)
           /\ th[t].ready => Delivers(t)
           /\ link[t] # Closed => Delivers(t)
<1>1. Local(th[t], link[t], At(engine, th[t].eng)) /\ th[t] \in LiveThread /\ link[t] \in Ports
    BY DEF Calm, TurnsAgree, Agree, TypeOK
<1>2. Up(th[t], At(engine, th[t].eng)) <=> Delivers(t)
    BY DEF Up, At, Delivers
<1> QED BY <1>1, <1>2 DEF Local, Attached

(* A thread keeps its workers when those of others move.                    *)
LEMMA WorkersStay ==
    ASSUME Calm, NEW w, NEW T, Moved(w, T), NEW t \in Thread, t \notin T
    PROVE  /\ At(w, th[t].eng) = At(engine, th[t].eng)
           /\ At(w, th[t].draining) = At(engine, th[t].draining)
<1>1. th[t].eng \in Slot \cup {NoSlot} /\ th[t].draining \in Slot \cup {NoSlot}
    BY CalmThread DEF LiveThread
<1>2. th[t].eng # NoSlot => w[th[t].eng] = engine[th[t].eng]
    BY <1>1 DEF Calm, EnginesOwned, EnginesServe, Employed, Moved
<1>3. th[t].draining # NoSlot => w[th[t].draining] = engine[th[t].draining]
    BY <1>1 DEF Calm, EnginesOwned, DrainingExits, Moved
<1> QED BY <1>2, <1>3 DEF At

(* A thread whose worker and port, as far as they carry messages, stay.     *)
LEMMA HandledInPlace ==
    ASSUME Calm, NEW t \in Thread, NEW r, NEW p, NEW w, NEW d,
           Local(r, p, At(w, r.eng)),
           r.eng = th[t].eng, r.draining = th[t].draining,
           At(w, th[t].eng) = At(engine, th[t].eng),
           At(w, th[t].draining) = At(engine, th[t].draining),
           Has(p.down, "input") => Has(link[t].down, "input"),
           \A x : Carried(x, link[t].down) => Carried(x, p.down),
           r.sent \subseteq th[t].sent,
           Elements(th[t].queue) \subseteq Elements(r.queue) \cup d,
           th[t].sent \subseteq r.sent \cup d \/ ~Has(link[t].down, "input")
    PROVE  Handled(t, r, p, w, d)
<1>1. r.ready => Delivers(t)
    BY CalmThread DEF Local, Attached, Up, At, Delivers
<1>2. Busy(r, p, w) => Busy(th[t], link[t], engine)
    BY DEF Busy, Runs, Up
<1>3. Pending(th[t]) \subseteq
           Pending(r) \cup d \cup (IF Has(link[t].down, "input") THEN {} ELSE th[t].sent)
    BY DEF Pending
<1> QED BY <1>1, <1>2, <1>3 DEF Handled

LEMMA HandledElse ==
    ASSUME Calm, NEW w, NEW T, Moved(w, T), NEW t \in Thread, t \notin T, NEW d
    PROVE  Handled(t, th[t], link[t], w, d)
<1>1. /\ At(w, th[t].eng) = At(engine, th[t].eng)
      /\ At(w, th[t].draining) = At(engine, th[t].draining)
    BY WorkersStay
<1>2. Local(th[t], link[t], At(w, th[t].eng))
    BY <1>1, CalmThread
<1> QED BY <1>1, <1>2, HandledInPlace

LEMMA NotMoved ==
    ASSUME Calm
    PROVE  Moved(engine, {}) /\ \A T : Moved(engine, T)
BY DEF Moved

(* A thread cut off from its worker, which exits, is lost or is replaced:   *)
(* its port is closed and what was sent is reported.                        *)
LEMMA HandledCutOff ==
    ASSUME Calm, NEW t \in Thread, NEW r, NEW p, NEW w, NEW d,
           p = Closed, ~Up(r, At(w, r.eng)),
           r.ready = FALSE, r.armed = FALSE, r.sent = {},
           r.cards \subseteq {"choice"}, ~Resumes => r.cards = {},
           r.status \notin {"working", "needs-you"},
           ~Resumes => ~r.session /\ ~r.resume /\ ~r.hold,
           \/ At(w, r.draining).run = NoRun
           \/ At(w, r.draining).run = At(engine, th[t].draining).run
           \/ /\ th[t].eng # NoSlot
              /\ At(w, r.draining).run = engine[th[t].eng].run,
           Elements(th[t].queue) \subseteq Elements(r.queue) \cup d,
           th[t].sent \subseteq d
    PROVE  Handled(t, r, p, w, d)
<1>1. Local(r, p, At(w, r.eng))
    BY LocalClosed
<1>2. ~Has(p.down, "input") /\ ~Runs(r, At(w, r.eng))
    BY ClosedSays DEF Runs
<1>3. ASSUME "engineStop" \notin Allowed, Busy(r, p, w)
      PROVE  Busy(th[t], link[t], engine)
    <2>1. At(w, r.draining).run # NoRun
        BY <1>2, <1>3 DEF Busy
    <2>2. CASE At(w, r.draining).run = At(engine, th[t].draining).run
        BY <2>1, <2>2 DEF Busy
    <2>3. CASE th[t].eng # NoSlot /\ At(w, r.draining).run = engine[th[t].eng].run
        <3>1. th[t].eng \in Slot /\ engine[th[t].eng].state \in Employed
            BY <2>3, CalmThread DEF Calm, EnginesOwned, EnginesServe, LiveThread
        <3>2. engine[th[t].eng].state = "up"
            BY <1>3, <2>1, <2>3, <3>1 DEF Calm, TurnsAgree, Settled, Employed
        <3> QED BY <2>1, <2>3, <3>2 DEF Busy, Runs, Up, At
    <2> QED BY <2>1, <2>2, <2>3
<1>4. Pending(th[t]) \subseteq Pending(r) \cup d
    BY DEF Pending
<1> QED BY <1>1, <1>3, <1>4 DEF Handled

-----------------------------------------------------------------------------
(* What each handler hands to Finish                                        *)

(* Messages accepted by the handler are queued in a thread it writes.       *)
Accepts(m, now) ==
    \/ accepted' = accepted
    \/ \E t \in now \cap Thread : \E x \in Elements(m[t].queue) :
           diskOk /\ accepted' = accepted \cup {x}

HandsOver ==
    \E m, l, now, later : \E who \in SUBSET Thread, d \in SUBSET Msg :
        /\ Middle(m, l, engine', d) /\ Finish(m, l, who, now, later, d)
        /\ Accepts(m, now) /\ ran' = ran /\ diskOk' = diskOk

LEMMA LeavesHandsOver ==
    ASSUME Calm, NEW t \in Thread, NEW r, NEW p, NEW who, NEW now, NEW later, NEW d,
           Leaves(t, r, p, who, now, later, d),
           Moved(engine', {t}), Handled(t, r, p, engine', d),
           Silent
    PROVE  HandsOver
<1> DEFINE m == [th EXCEPT ![t] = r]
           l == [link EXCEPT ![t] = p]
<1>1. /\ r \in LiveThread /\ p \in Ports /\ who \in SUBSET Thread /\ d \in SUBSET Msg
      /\ Finish(m, l, who, now, later, d)
    BY DEF Leaves
<1>2. th \in [Thread -> LiveThread] /\ link \in [Thread -> Ports]
    BY DEF Calm, TypeOK
<1>3. /\ m \in [Thread -> LiveThread] /\ l \in [Thread -> Ports]
      /\ m[t] = r /\ l[t] = p
      /\ \A u \in Thread : u # t => m[u] = th[u] /\ l[u] = link[u]
    BY <1>1, <1>2
<1> HIDE DEF m, l
<1>4. ASSUME NEW u \in Thread PROVE Handled(u, m[u], l[u], engine', d)
    <2>1. CASE u = t
        BY <1>3, <2>1
    <2>2. CASE u # t
        <3>1. u \notin {t}
            BY <2>2
        <3>2. Handled(u, th[u], link[u], engine', d)
            BY <3>1, HandledElse
        <3> QED BY <1>3, <2>2, <3>2
    <2> QED BY <2>1, <2>2
<1>5. Middle(m, l, engine', d)
    BY <1>3, <1>4, SettledMoved DEF Middle
<1> QED BY <1>1, <1>5 DEF HandsOver, Accepts, Silent

(* What the disposal, the loss and the replacement of its worker do to the  *)
(* workers of a thread.                                                     *)
LEMMA EngineOf ==
    ASSUME Calm, NEW t \in Thread
    PROVE  /\ th[t].eng \in Slot \cup {NoSlot} /\ th[t].draining \in Slot \cup {NoSlot}
           /\ th[t].eng # NoSlot => /\ engine[th[t].eng].owner = t
                                    /\ engine[th[t].eng].state \in Employed
                                    /\ engine[th[t].eng].run # NoRun =>
                                          \/ engine[th[t].eng].state = "up"
                                          \/ "engineStop" \in Allowed
           /\ th[t].draining # NoSlot => /\ engine[th[t].draining].state = "exiting"
                                         /\ engine[th[t].draining].owner = t
<1>1. th[t].eng \in Slot \cup {NoSlot} /\ th[t].draining \in Slot \cup {NoSlot}
    BY CalmThread DEF LiveThread
<1>2. EnginesServe /\ DrainingExits /\ Settled(engine)
    BY DEF Calm, EnginesOwned, TurnsAgree
<1> QED BY <1>1, <1>2 DEF EnginesServe, DrainingExits, Settled, Employed

LEMMA WorkersMoved ==
    ASSUME Calm, NEW t \in Thread, th[t].eng # NoSlot
    PROVE  LET e == th[t].eng
           IN  /\ Moved(Dispose(e), {t})
               /\ Dispose(e)[e] = [engine[e] EXCEPT !.state = "exiting"]
               /\ \A f \in Slot : f # e => Dispose(e)[f] = engine[f]
               /\ Moved([engine EXCEPT ![e] = BootingFor(t)], {t})
               /\ Moved([engine EXCEPT ![e] = FreeWorker], {t})
               /\ "engineStop" \in Allowed =>
                      Moved([engine EXCEPT ![e].state = "stopping"], {t})
<1> DEFINE e == th[t].eng
<1>1. e \in Slot /\ engine[e].owner = t /\ engine \in [Slot -> Worker]
    BY EngineOf DEF Calm, TypeOK
<1>2. Dispose(e) = [engine EXCEPT ![e] = [engine[e] EXCEPT !.state = "exiting"]]
    BY <1>1 DEF Dispose
<1>3. [engine EXCEPT ![e].state = "stopping"] =
          [engine EXCEPT ![e] = [engine[e] EXCEPT !.state = "stopping"]]
    BY <1>1
<1> HIDE DEF e
<1>4. ASSUME NEW w \in {FreeWorker, BootingFor(t), [engine[e] EXCEPT !.state = "exiting"]}
             \cup IF "engineStop" \in Allowed
                  THEN {[engine[e] EXCEPT !.state = "stopping"]} ELSE {}
      PROVE  Moved([engine EXCEPT ![e] = w], {t})
    <2> DEFINE n == [engine EXCEPT ![e] = w]
    <2>1. n[e] = w /\ \A f \in Slot : f # e => n[f] = engine[f]
        BY <1>1
    <2> HIDE DEF n
    <2>2. /\ engine[e].owner \in {t}
          /\ \/ w = FreeWorker
             \/ \E u \in Thread : w = BootingFor(u)
             \/ w = [engine[e] EXCEPT !.state = "exiting"]
             \/ "engineStop" \in Allowed /\ w = [engine[e] EXCEPT !.state = "stopping"]
        BY <1>1, <1>4
    <2>3. Moved(n, {t})
        BY <2>1, <2>2 DEF Moved
    <2> QED BY <2>3 DEF n
<1>5. /\ [engine EXCEPT ![e] = [engine[e] EXCEPT !.state = "exiting"]][e]
             = [engine[e] EXCEPT !.state = "exiting"]
      /\ \A f \in Slot : f # e =>
             [engine EXCEPT ![e] = [engine[e] EXCEPT !.state = "exiting"]][f] = engine[f]
    BY <1>1
<1> QED BY <1>2, <1>3, <1>4, <1>5 DEF e

-----------------------------------------------------------------------------
(* Handlers that leave the workers as they are                              *)

LEMMA CarriedAppended ==
    ASSUME NEW S, NEW s \in Seq(S), NEW y \in S
    PROVE  /\ \A x : Carried(x, s) => Carried(x, Append(s, y))
           /\ y.kind = "input" => Carried(y.msg, Append(s, y))
BY OneMore DEF Carried

LEMMA HandsInPlace ==
    ASSUME Calm, NEW t \in Thread, NEW r, NEW p, NEW who, NEW now, NEW later, NEW d,
           Leaves(t, r, p, who, now, later, d), engine' = engine, Silent,
           r.eng = th[t].eng, r.draining = th[t].draining,
           Local(r, p, At(engine, th[t].eng)),
           Has(p.down, "input") => Has(link[t].down, "input"),
           \A x : Carried(x, link[t].down) => Carried(x, p.down),
           r.sent \subseteq th[t].sent,
           Elements(th[t].queue) \subseteq Elements(r.queue) \cup d,
           th[t].sent \subseteq r.sent \cup d \/ ~Has(link[t].down, "input")
    PROVE  HandsOver
<1>1. Local(r, p, At(engine', r.eng)) /\ Moved(engine', {t})
    BY NotMoved
<1>2. Handled(t, r, p, engine', d)
    BY <1>1, HandledInPlace
<1> QED BY <1>1, <1>2, LeavesHandsOver

(* A word for the engine that is not a message.                             *)
LEMMA HeededSays ==
    ASSUME Calm, NEW t \in Thread, NEW x \in Inbound, x.kind # "input"
    PROVE  LET p == Heeded(t, x)
           IN  /\ Has(p.down, "input") => Has(link[t].down, "input")
               /\ \A y : Carried(y, link[t].down) => Carried(y, p.down)
               /\ Delivers(t) => p.up = link[t].up /\ p.down = Append(link[t].down, x)
               /\ ~Delivers(t) => p = link[t]
<1>1. link[t].down \in Seq(Inbound) /\ link[t] \in Ports
    BY CalmThread DEF Ports
<1>2. ASSUME Delivers(t)
      PROVE  Heeded(t, x).up = link[t].up /\ Heeded(t, x).down = Append(link[t].down, x)
    BY <1>1, <1>2 DEF Heeded, Ports
<1>3. /\ Has(Append(link[t].down, x), "input") => Has(link[t].down, "input")
      /\ \A y : Carried(y, link[t].down) => Carried(y, Append(link[t].down, x))
    BY <1>1, HasAppended, CarriedAppended
<1>4. ~Delivers(t) => Heeded(t, x) = link[t]
    BY DEF Heeded
<1> QED BY <1>2, <1>3, <1>4

LEMMA InterruptHands ==
    ASSUME Calm, NEW t \in Thread, Interrupt(t)
    PROVE  HandsOver
<1> DEFINE r == [th[t] EXCEPT !.queue = <<>>, !.sent = {}, !.cards = {}]
           p == Heeded(t, Signal("interrupt"))
           x == At(engine, th[t].eng)
<1>1. TypeOK /\ Orderly /\ "interrupt" \in Allowed /\ engine' = engine /\ Silent
    BY DEF Calm, Interrupt
<1>2. Leaves(t, r, p, {}, {}, {t}, Pending(th[t])) /\ "ask" \notin Allowed
    BY <1>1, InterruptLeaves DEF Orderly
<1>3. Signal("interrupt") \in Inbound /\ Signal("interrupt").kind # "input"
    BY DEF Signal, Inbound
<1>4. /\ r.eng = th[t].eng /\ r.ready = th[t].ready /\ r.resume = th[t].resume
      /\ r.draining = th[t].draining /\ r.status = th[t].status
      /\ r.sent = {} /\ r.cards = {} /\ r.armed = th[t].armed
      /\ r.hold = th[t].hold /\ r.session = th[t].session
      /\ r.queue = <<>>
    BY CalmThread DEF LiveThread
<1> HIDE DEF r, p
<1>5. p = link[t] \/ (Up(th[t], x) /\ p.up = link[t].up
                         /\ p.down = Append(link[t].down, Signal("interrupt")))
    BY <1>3, CalmThread, HeededSays DEF p
<1>6. Local(r, p, x)
    BY <1>2, <1>4, <1>5, CalmThread, LocalInterrupted
<1>7. /\ Has(p.down, "input") => Has(link[t].down, "input")
      /\ \A y : Carried(y, link[t].down) => Carried(y, p.down)
    BY <1>3, HeededSays DEF p
<1>8. /\ Elements(th[t].queue) \subseteq Elements(r.queue) \cup Pending(th[t])
      /\ th[t].sent \subseteq r.sent \cup Pending(th[t])
    BY DEF Pending
<1> QED BY <1>1, <1>2, <1>4, <1>6, <1>7, <1>8, HandsInPlace

LEMMA CancelHands ==
    ASSUME Calm, NEW t \in Thread, CancelQueued(t)
    PROVE  HandsOver
<1> DEFINE r == [th[t] EXCEPT !.queue = <<>>]
<1>1. TypeOK /\ engine' = engine /\ Silent
    BY DEF Calm, CancelQueued
<1>2. Leaves(t, r, link[t], {}, {t}, {}, Elements(th[t].queue))
    BY <1>1, CancelLeaves
<1>3. /\ r.eng = th[t].eng /\ r.ready = th[t].ready /\ r.resume = th[t].resume
      /\ r.draining = th[t].draining /\ r.status = th[t].status
      /\ r.sent = th[t].sent /\ r.cards = th[t].cards /\ r.armed = th[t].armed
      /\ r.hold = th[t].hold /\ r.session = th[t].session
    BY CalmThread DEF LiveThread
<1> HIDE DEF r
<1>4. ~Resumes => r.session = FALSE /\ r.hold = FALSE
    BY <1>3, CalmThread DEF Local, NoResume, LiveThread
<1>5. Local(r, link[t], At(engine, th[t].eng))
    BY <1>3, <1>4, CalmThread, LocalSame
<1> QED BY <1>1, <1>2, <1>3, <1>5, HandsInPlace

LEMMA ReplyHands ==
    ASSUME Calm, NEW t \in Thread, NEW c \in EngineCard, Reply(t, c)
    PROVE  HandsOver
<1> DEFINE r == [th[t] EXCEPT !.cards = @ \ {c}, !.status = "working"]
           p == Heeded(t, Answer(c))
           x == At(engine, th[t].eng)
<1>1. TypeOK /\ engine' = engine /\ Silent /\ c \in th[t].cards
    BY DEF Calm, Reply
<1>2. c = "turn" /\ Up(th[t], x)
    <2>1. c \in {"turn", "choice"} /\ c # "choice"
        BY <1>1, CalmThread DEF Local, Asked, EngineCard
    <2> QED BY <1>1, <2>1, CalmThread DEF Local, Asked, Asks, Runs
<1>3. Leaves(t, r, p, {}, {}, {t}, {})
    BY <1>1, AnswerLeaves
<1>4. Answer(c) \in Inbound /\ Answer(c).kind # "input"
    BY DEF Answer, Inbound
<1>5. /\ r.eng = th[t].eng /\ r.ready = th[t].ready /\ r.resume = th[t].resume
      /\ r.draining = th[t].draining /\ r.status = "working"
      /\ r.sent = th[t].sent /\ r.cards = th[t].cards \ {"turn"} /\ r.armed = th[t].armed
      /\ r.hold = th[t].hold /\ r.session = th[t].session
      /\ r.queue = th[t].queue
    BY <1>2, CalmThread DEF LiveThread
<1> HIDE DEF r, p
<1>6. p.up = link[t].up /\ p.down = Append(link[t].down, Answer("turn"))
    BY <1>2, <1>4, CalmThread, HeededSays DEF p
<1>7. Local(r, p, x)
    BY <1>1, <1>2, <1>5, <1>6, CalmThread, LocalReplied
<1>8. /\ Has(p.down, "input") => Has(link[t].down, "input")
      /\ \A y : Carried(y, link[t].down) => Carried(y, p.down)
    BY <1>4, HeededSays DEF p
<1> QED BY <1>1, <1>3, <1>5, <1>7, <1>8, HandsInPlace

LEMMA ChoiceHands ==
    ASSUME Calm, NEW t \in Thread, NEW fresh \in BOOLEAN, ResumeChoice(t, fresh)
    PROVE  HandsOver
<1> DEFINE r == [th[t] EXCEPT !.cards = @ \ {"choice"}, !.status = "idle",
                              !.hold = @ /\ ~fresh]
<1>1. TypeOK /\ engine' = engine /\ Silent /\ "choice" \in th[t].cards
    BY DEF Calm, ResumeChoice
<1>2. Leaves(t, r, link[t], IF fresh THEN {t} ELSE {}, {}, {t}, {})
    BY <1>1, AnswerLeaves
<1>3. /\ r.eng = th[t].eng /\ r.ready = th[t].ready /\ r.resume = th[t].resume
      /\ r.draining = th[t].draining /\ r.status = "idle"
      /\ r.sent = th[t].sent /\ r.cards = th[t].cards \ {"choice"} /\ r.armed = th[t].armed
      /\ r.queue = th[t].queue
    BY CalmThread, ZenonT(60) DEF LiveThread
<1> HIDE DEF r
<1>4. Local(r, link[t], At(engine, th[t].eng))
    BY <1>1, <1>3, CalmThread, LocalChosen
<1> QED BY <1>1, <1>2, <1>3, <1>4, HandsInPlace

LEMMA BeatHands ==
    ASSUME Calm, NEW t \in Thread, Heartbeat(t)
    PROVE  HandsOver
<1> DEFINE r == [th[t] EXCEPT !.session = @ \/ ("resume" \in Allowed /\ ~th[t].resume)]
<1>1. TypeOK /\ engine' = engine /\ Silent
    BY DEF Calm, Heartbeat
<1>2. Leaves(t, r, link[t], PumpedAfter(r), {}, {t}, {})
    BY <1>1, BeatLeaves
<1>3. /\ r.eng = th[t].eng /\ r.ready = th[t].ready /\ r.resume = th[t].resume
      /\ r.draining = th[t].draining /\ r.status = th[t].status
      /\ r.sent = th[t].sent /\ r.cards = th[t].cards /\ r.armed = th[t].armed
      /\ r.hold = th[t].hold /\ r.queue = th[t].queue
      /\ r.session = (th[t].session \/ ("resume" \in Allowed /\ ~th[t].resume))
    BY CalmThread, ZenonT(60) DEF LiveThread
<1> HIDE DEF r
<1>4. ~Resumes => r.session = FALSE /\ r.hold = FALSE
    BY <1>3, CalmThread DEF Local, NoResume, LiveThread, Resumes
<1>5. Local(r, link[t], At(engine, th[t].eng))
    BY <1>3, <1>4, CalmThread, LocalSame
<1> QED BY <1>1, <1>2, <1>3, <1>5, HandsInPlace

LEMMA HeardSent ==
    ASSUME NEW r \in LiveThread, NEW msg \in Outbound
    PROVE  Heard(r, msg).sent = r.sent \/ (msg.kind = "idle" /\ Heard(r, msg).sent = {})
<1>1. Ready(r).sent = r.sent
    BY DEF Ready, LiveThread
<1>2. Idle(r).sent = r.sent \/ Idle(r).sent = {}
    BY DEF Idle, LiveThread
<1>3. ResumeTook(r).sent = r.sent
    BY DEF ResumeTook, LiveThread
<1>4. ResumeFailed(r).sent = r.sent
    BY ResumeFailedIs
<1>5. /\ \A c : [r EXCEPT !.cards = c, !.status = "needs-you"].sent = r.sent
      /\ \A q : [r EXCEPT !.queue = q].sent = r.sent
      /\ \A s : [r EXCEPT !.session = s, !.hold = FALSE].sent = r.sent
    BY DEF LiveThread
<1>6. msg.kind \in {"ready", "ask", "unused", "idle", "restored", "picked", "restoreFailed"}
    BY DEF Outbound
<1>7. CASE msg.kind = "ready"
    BY <1>1, <1>7 DEF Heard
<1>8. CASE msg.kind = "ask"
    BY <1>5, <1>8 DEF Heard
<1>9. CASE msg.kind = "unused"
    BY <1>5, <1>9 DEF Heard
<1>10. CASE msg.kind = "idle"
    BY <1>2, <1>10 DEF Heard
<1>11. CASE msg.kind = "restored"
    <2>1. CASE r.resume
        BY <1>3, <1>11, <2>1 DEF Heard
    <2>2. CASE ~r.resume
        BY <1>5, <1>11, <2>2 DEF Heard
    <2> QED BY <2>1, <2>2
<1>12. CASE msg.kind = "picked"
    BY <1>5, <1>12 DEF Heard
<1>13. CASE msg.kind = "restoreFailed"
    BY <1>4, <1>13 DEF Heard
<1> QED BY <1>6, <1>7, <1>8, <1>9, <1>10, <1>11, <1>12, <1>13

LEMMA ReceiveHands ==
    ASSUME Calm, NEW t \in Thread, Receive(t)
    PROVE  HandsOver
<1> DEFINE msg == Head(link[t].up)
           r == Heard(th[t], msg)
           p == Greeted(t, msg)
           x == At(engine, th[t].eng)
<1>1. TypeOK /\ engine' = engine /\ Silent
    BY DEF Calm, Receive
<1>2. /\ link[t].up # <<>> /\ msg \in Outbound
      /\ Leaves(t, r, p, PumpedAfter(r), {}, {t}, {})
    BY <1>1, ReceiveLeaves
<1>3. th[t] \in LiveThread /\ link[t] \in Ports /\ Local(th[t], link[t], x)
    BY CalmThread
<1>4. Delivers(t)
    BY <1>2, CalmThread DEF Closed
<1>5. /\ p.up = Tail(link[t].up)
      /\ p.down = IF msg.kind = "ready" /\ th[t].resume
                  THEN Append(link[t].down, Signal("resume")) ELSE link[t].down
    BY <1>3, <1>4 DEF Greeted, Taken, Ports
<1>6. /\ msg \in PlainOut /\ Has(link[t].up, msg.kind)
    BY <1>2, <1>3, PortAdds DEF Local, Loses
<1>7. /\ r.eng = th[t].eng /\ r.draining = th[t].draining /\ r.queue = th[t].queue
      /\ r.sent = th[t].sent \/ (msg.kind = "idle" /\ r.sent = {})
    BY <1>2, <1>3, <1>6, HeardKeepsEngines, HeardQueue, HeardSent DEF PlainOut
<1> HIDE DEF r, p
<1>8. Local(r, p, x)
    BY <1>2, <1>3, <1>5, LocalHeard DEF r
<1>9. Signal("resume") \in Inbound /\ Signal("resume").kind = "resume"
      /\ link[t].down \in Seq(Inbound)
    BY <1>3 DEF Signal, Inbound, Ports
<1>10. /\ Has(p.down, "input") => Has(link[t].down, "input")
       /\ \A y : Carried(y, link[t].down) => Carried(y, p.down)
    BY <1>5, <1>9, HasAppended, CarriedAppended
<1>11. msg.kind = "idle" => ~Has(link[t].down, "input")
    BY <1>3, <1>6 DEF Local, OneTurn
<1> QED BY <1>1, <1>2, <1>7, <1>8, <1>10, <1>11, HandsInPlace

LEMMA DeadlineHands ==
    ASSUME Calm, NEW t \in Thread, ResumeDeadline(t)
    PROVE  HandsOver
<1> DEFINE q == [th[t] EXCEPT !.armed = FALSE]
           r == IF q.eng # NoSlot /\ q.resume THEN ResumeFailed(q) ELSE q
           x == At(engine, th[t].eng)
<1>1. TypeOK /\ engine' = engine /\ Silent /\ th[t].armed
    BY DEF Calm, ResumeDeadline
<1>2. q \in LiveThread /\ Leaves(t, r, link[t], {}, {}, {t}, {})
    BY <1>1, DeadlineLeaves
<1>3. th[t] \in LiveThread /\ Local(th[t], link[t], x) /\ Up(th[t], x)
      /\ ~Has(link[t].up, "ready")
    BY <1>1, CalmThread DEF Local, Attached, Beginning
<1>4. /\ q.eng = th[t].eng /\ q.ready = th[t].ready /\ q.resume = th[t].resume
      /\ q.draining = th[t].draining /\ q.status = th[t].status
      /\ q.sent = th[t].sent /\ q.cards = th[t].cards /\ q.armed = FALSE
      /\ q.hold = th[t].hold /\ q.session = th[t].session /\ q.queue = th[t].queue
    BY <1>3 DEF LiveThread
<1> HIDE DEF q
<1>5. /\ r.eng = th[t].eng /\ r.draining = th[t].draining
      /\ r.sent = th[t].sent /\ r.queue = th[t].queue
    BY <1>2, <1>4, ResumeFailedIs, QueueOf
<1>6. Local(r, link[t], x)
    <2>1. CASE q.eng # NoSlot /\ q.resume
        <3>1. LET f == ResumeFailed(q)
              IN  /\ f.eng = q.eng /\ f.ready = TRUE /\ f.resume = FALSE /\ f.armed = FALSE
                  /\ f.draining = q.draining /\ f.sent = q.sent
                  /\ f.status \in {"idle", "needs-you"}
                  /\ f.cards \subseteq q.cards \cup {"choice"}
            BY <1>2, ResumeFailedIs
        <3> QED BY <1>3, <1>4, <2>1, <3>1, LocalResumed
    <2>2. CASE ~(q.eng # NoSlot /\ q.resume)
        <3>1. ~Resumes => q.session = FALSE /\ q.hold = FALSE
            BY <1>3, <1>4 DEF Local, NoResume, LiveThread
        <3>2. Local(q, link[t], x)
            BY <1>3, <1>4, <3>1, LocalSame
        <3> QED BY <2>2, <3>2
    <2> QED BY <2>1, <2>2
<1> HIDE DEF r
<1> QED BY <1>1, <1>2, <1>5, <1>6, HandsInPlace

-----------------------------------------------------------------------------
(* Handlers that end, lose or replace an engine                             *)

(* A stopped thread has no engine that is up, and what it waits for had the *)
(* turn before.                                                             *)
LEMMA StoppedIs ==
    ASSUME NEW r \in LiveThread, NEW keep \in BOOLEAN
    PROVE  LET s == Stopped(r, keep)
           IN  /\ s.eng = NoSlot /\ s.ready = FALSE /\ s.armed = FALSE /\ s.sent = {}
               /\ s.cards = {} /\ s.hold = FALSE /\ s.status = "stopped"
               /\ s.session = r.session /\ s.resume = r.resume
               /\ s.draining = IF r.eng = NoSlot THEN r.draining ELSE r.eng
               /\ s.queue = IF keep THEN r.queue ELSE <<>>
BY ZenonT(60) DEF Stopped, LiveThread

LEMMA NotUp ==
    /\ \A r, x : r.eng = NoSlot => ~Up(r, x)
    /\ \A r, t : ~Up(r, BootingFor(t)) /\ ~Up(r, FreeWorker)
BY FreeAndBooting DEF Up

LEMMA ThreadResumes ==
    ASSUME Calm, NEW t \in Thread
    PROVE  ~Resumes => ~th[t].session /\ ~th[t].resume /\ ~th[t].hold
BY CalmThread DEF Local, NoResume

(* The worker of a disposal, from the thread that waits for it.             *)
LEMMA DisposedIs ==
    ASSUME Calm, NEW t \in Thread, MayDispose(t), NEW keep \in BOOLEAN, NEW w,
           \A f \in Slot : engine[f].state # "free" => w[f] = Dispose(th[t].eng)[f]
    PROVE  LET d == Stopped(th[t], keep).draining
           IN  \/ At(w, d).run = At(engine, th[t].draining).run
               \/ /\ th[t].eng # NoSlot
                  /\ At(w, d).run = engine[th[t].eng].run
<1> DEFINE d == Stopped(th[t], keep).draining
<1>1. d = IF th[t].eng = NoSlot THEN th[t].draining ELSE th[t].eng
    BY CalmThread, StoppedIs
<1> HIDE DEF d
<1>2. CASE th[t].eng = NoSlot
    <2>1. d = th[t].draining /\ Dispose(th[t].eng) = engine
        BY <1>1, <1>2 DEF Dispose
    <2>2. th[t].draining # NoSlot => w[th[t].draining] = engine[th[t].draining]
        BY <2>1, EngineOf
    <2>3. At(w, d) = At(engine, th[t].draining)
        BY <2>1, <2>2 DEF At
    <2> QED BY <2>3 DEF d
<1>3. CASE th[t].eng # NoSlot
    <2>1. /\ th[t].eng \in Slot /\ engine[th[t].eng].state # "free"
          /\ Dispose(th[t].eng)[th[t].eng] = [engine[th[t].eng] EXCEPT !.state = "exiting"]
        BY <1>3, EngineOf, WorkersMoved DEF Employed
    <2>2. At(w, d) = [engine[th[t].eng] EXCEPT !.state = "exiting"]
        BY <1>1, <1>3, <2>1 DEF At
    <2>3. engine[th[t].eng] \in Worker
        BY <2>1 DEF Calm, TypeOK
    <2>4. [engine[th[t].eng] EXCEPT !.state = "exiting"].run = engine[th[t].eng].run
        BY <2>3 DEF Worker, WorkerRecord
    <2> QED BY <1>3, <2>2, <2>4 DEF d
<1> QED BY <1>2, <1>3

LEMMA StopHands ==
    ASSUME Calm, NEW t \in Thread, Stop(t) \/ Reap(t)
    PROVE  HandsOver
<1>1. PICK keep \in BOOLEAN, d \in SUBSET Msg :
        /\ Leaves(t, Stopped(th[t], keep), Closed, Thread, {}, {t}, d)
        /\ th[t].sent \subseteq d
        /\ keep = TRUE \/ Elements(th[t].queue) \subseteq d
    <2>1. TypeOK /\ Pending(th[t]) \in SUBSET Msg /\ th[t].sent \in SUBSET Msg
          /\ th[t].sent \subseteq Pending(th[t]) /\ Elements(th[t].queue) \subseteq Pending(th[t])
        BY PendingTyped, CalmThread DEF Calm, LiveThread, Pending
    <2>2. CASE Stop(t)
        <3>1. Leaves(t, Stopped(th[t], FALSE), Closed, Thread, {}, {t}, Pending(th[t]))
            BY <2>1, <2>2, StopLeaves
        <3> QED BY <2>1, <3>1
    <2>3. CASE Reap(t)
        <3>1. Leaves(t, Stopped(th[t], TRUE), Closed, Thread, {}, {t}, th[t].sent)
            BY <2>1, <2>3, StopLeaves
        <3> QED BY <2>1, <3>1
    <2> QED BY <2>2, <2>3
<1> DEFINE r == Stopped(th[t], keep)
<1>2. engine' = Dispose(th[t].eng) /\ Silent /\ MayDispose(t)
    BY DEF Stop, Reap
<1>3. Moved(engine', {t})
    <2>1. CASE th[t].eng = NoSlot
        BY <1>2, <2>1, NotMoved DEF Dispose
    <2>2. CASE th[t].eng # NoSlot
        BY <1>2, <2>2, WorkersMoved
    <2> QED BY <2>1, <2>2
<1>4. /\ r.eng = NoSlot /\ r.ready = FALSE /\ r.armed = FALSE /\ r.sent = {}
      /\ r.cards = {} /\ r.hold = FALSE /\ r.status = "stopped"
      /\ r.session = th[t].session /\ r.resume = th[t].resume
      /\ r.queue = IF keep THEN th[t].queue ELSE <<>>
    BY CalmThread, StoppedIs
<1>5. \/ At(engine', r.draining).run = At(engine, th[t].draining).run
      \/ /\ th[t].eng # NoSlot
         /\ At(engine', r.draining).run = engine[th[t].eng].run
    BY <1>2, DisposedIs
<1> HIDE DEF r
<1>6. /\ ~Up(r, At(engine', r.eng))
      /\ ~Resumes => ~r.session /\ ~r.resume /\ ~r.hold
      /\ Elements(th[t].queue) \subseteq Elements(r.queue) \cup d
    BY <1>1, <1>4, NotUp, ThreadResumes
<1>7. Handled(t, r, Closed, engine', d)
    <2>1. /\ r.cards \subseteq {"choice"} /\ r.status \notin {"working", "needs-you"}
        BY <1>4
    <2>2. /\ r.ready = FALSE /\ r.armed = FALSE /\ r.sent = {} /\ r.cards = {}
          /\ ~Up(r, At(engine', r.eng)) /\ (~Resumes => ~r.session /\ ~r.resume /\ ~r.hold)
          /\ Elements(th[t].queue) \subseteq Elements(r.queue) \cup d
        BY <1>4, <1>6
    <2>3. th[t].sent \subseteq d
        BY <1>1
    <2> QED BY <1>5, <2>1, <2>2, <2>3, HandledCutOff
<1> QED BY <1>1, <1>2, <1>3, <1>7, LeavesHandsOver DEF r

LEMMA StartedIs ==
    ASSUME NEW r \in LiveThread, NEW e \in Slot
    PROVE  LET s == Started(r, e)
           IN  /\ s.eng = e /\ s.ready = FALSE /\ s.armed = r.armed /\ s.sent = r.sent
               /\ s.cards = r.cards /\ s.hold = r.hold /\ s.status = "starting"
               /\ s.session = r.session /\ s.resume = r.session
               /\ s.draining = r.draining /\ s.queue = r.queue
BY ZenonT(60) DEF Started, LiveThread

LEMMA RestartHands ==
    ASSUME Calm, NEW t \in Thread, Restart(t)
    PROVE  HandsOver
<1>1. /\ MayDispose(t) /\ th[t].eng # NoSlot /\ Silent /\ TypeOK
    BY DEF Restart, Calm
<1>2. PICK e \in FreeSlots :
        /\ Leaves(t, Started(Stopped(th[t], TRUE), e), Closed, Thread, {}, {t}, th[t].sent)
        /\ engine' = [Dispose(th[t].eng) EXCEPT ![e] = BootingFor(t)]
    BY <1>1, StopLeaves
<1> DEFINE g == th[t].eng
           s == Stopped(th[t], TRUE)
           r == Started(s, e)
<1>3. /\ e \in Slot /\ engine[e].state = "free" /\ g \in Slot
      /\ engine[g].state \in Employed /\ Dispose(g) \in [Slot -> Worker]
    BY <1>1, EngineOf, DisposeTyped DEF FreeSlots, Calm
<1>4. /\ e # g /\ engine'[e] = BootingFor(t)
      /\ \A f \in Slot : f # e => engine'[f] = Dispose(g)[f]
    BY <1>2, <1>3 DEF Employed
<1>5. Moved(engine', {t})
    <2>1. Moved(Dispose(g), {t})
        BY <1>1, WorkersMoved
    <2> QED BY <1>3, <1>4, <2>1 DEF Moved
<1>6. /\ s.eng = NoSlot /\ s.ready = FALSE /\ s.armed = FALSE /\ s.sent = {}
      /\ s.cards = {} /\ s.hold = FALSE /\ s.status = "stopped"
      /\ s.session = th[t].session
      /\ s.queue = th[t].queue /\ s \in LiveThread
    BY CalmThread, StoppedIs, StoppedTyped
<1>7. \/ At(engine', s.draining).run = At(engine, th[t].draining).run
      \/ /\ th[t].eng # NoSlot
         /\ At(engine', s.draining).run = engine[th[t].eng].run
    <2>1. \A f \in Slot : engine[f].state # "free" => engine'[f] = Dispose(th[t].eng)[f]
        BY <1>3, <1>4
    <2> QED BY <1>1, <2>1, DisposedIs
<1> HIDE DEF s
<1>8. /\ r.eng = e /\ r.ready = FALSE /\ r.armed = FALSE /\ r.sent = {}
      /\ r.cards = {} /\ r.hold = FALSE /\ r.status = "starting"
      /\ r.session = th[t].session /\ r.resume = th[t].session
      /\ r.draining = s.draining /\ r.queue = th[t].queue
    BY <1>3, <1>6, StartedIs
<1>9. ~Up(r, At(engine', r.eng))
    BY <1>3, <1>4, <1>8, NotUp, ConstantsAssumption DEF At
<1> HIDE DEF r
<1>10. ~Resumes => ~r.session /\ ~r.resume /\ ~r.hold
    BY <1>8, ThreadResumes
<1>11. Handled(t, r, Closed, engine', th[t].sent)
    BY <1>7, <1>8, <1>9, <1>10, HandledCutOff
<1> QED BY <1>1, <1>2, <1>5, <1>11, LeavesHandsOver DEF r, s

LEMMA CutOffIs ==
    ASSUME NEW r \in LiveThread, NEW status
    PROVE  LET s == CutOff(r, status)
           IN  /\ s.eng = r.eng /\ s.ready = FALSE /\ s.armed = r.armed /\ s.sent = {}
               /\ s.cards = {} /\ s.hold = r.hold /\ s.status = status
               /\ s.session = r.session /\ s.resume = r.resume
               /\ s.draining = r.draining /\ s.queue = r.queue
BY ZenonT(60) DEF CutOff, LiveThread

LEMMA GoneIs ==
    ASSUME NEW r \in LiveThread, NEW status \in Status
    PROVE  LET s == [CutOff(r, status) EXCEPT !.eng = NoSlot, !.armed = FALSE,
                                              !.draining = NoSlot]
           IN  /\ s.eng = NoSlot /\ s.ready = FALSE /\ s.armed = FALSE /\ s.sent = {}
               /\ s.cards = {} /\ s.hold = r.hold /\ s.status = status
               /\ s.session = r.session /\ s.resume = r.resume
               /\ s.draining = NoSlot /\ s.queue = r.queue
<1> DEFINE c == CutOff(r, status)
<1>1. c \in LiveThread
    BY CutOffTyped
<1>2. /\ c.ready = FALSE /\ c.sent = {} /\ c.cards = {} /\ c.hold = r.hold
      /\ c.status = status /\ c.session = r.session /\ c.resume = r.resume
      /\ c.queue = r.queue
    BY DEF CutOff, LiveThread
<1> HIDE DEF c
<1>3. LET s == [c EXCEPT !.eng = NoSlot, !.armed = FALSE, !.draining = NoSlot]
      IN  /\ s.eng = NoSlot /\ s.ready = c.ready /\ s.armed = FALSE /\ s.sent = c.sent
          /\ s.cards = c.cards /\ s.hold = c.hold /\ s.status = c.status
          /\ s.session = c.session /\ s.resume = c.resume
          /\ s.draining = NoSlot /\ s.queue = c.queue
    BY <1>1, ZenonT(60) DEF LiveThread
<1> QED BY <1>2, <1>3 DEF c

(* The worker restarts, or is told to stop: the thread keeps its place.     *)
LEMMA RestartsHands ==
    ASSUME Calm, NEW t \in Thread, EngineRestarts(t) \/ EngineStopping(t)
    PROVE  HandsOver
<1> DEFINE g == th[t].eng
<1>1. th[t].eng # NoSlot /\ Silent /\ TypeOK /\ ~Resumes
    BY DEF EngineRestarts, EngineStopping, Calm, Orderly
<1>2. PICK status \in {"starting", "stopped"} :
        Leaves(t, CutOff(th[t], status), Closed, {}, {}, {t}, th[t].sent)
    BY <1>1, LostLeaves
<1> DEFINE r == CutOff(th[t], status)
<1>3. g \in Slot /\ engine \in [Slot -> Worker]
    BY <1>1, EngineOf DEF Calm, TypeOK
<1>4. /\ Moved(engine', {t}) /\ engine'[g].state # "up"
      /\ \A f \in Slot : f # g => engine'[f] = engine[f]
    <2>1. CASE EngineRestarts(t)
        <3>1. engine' = [engine EXCEPT ![g] = BootingFor(t)]
            BY <2>1 DEF EngineRestarts
        <3>2. engine'[g] = BootingFor(t) /\ \A f \in Slot : f # g => engine'[f] = engine[f]
            BY <1>3, <3>1
        <3> QED BY <1>1, <3>1, <3>2, WorkersMoved, FreeAndBooting
    <2>2. CASE EngineStopping(t)
        <3>1. engine' = [engine EXCEPT ![g].state = "stopping"] /\ "engineStop" \in Allowed
            BY <2>2 DEF EngineStopping
        <3>2. engine'[g].state = "stopping" /\ \A f \in Slot : f # g => engine'[f] = engine[f]
            BY <1>3, <3>1 DEF Worker, WorkerRecord
        <3> QED BY <1>1, <3>1, <3>2, WorkersMoved
    <2> QED BY <2>1, <2>2
<1>5. /\ r.eng = g /\ r.ready = FALSE /\ r.armed = th[t].armed /\ r.sent = {}
      /\ r.cards = {} /\ r.hold = th[t].hold /\ r.status = status
      /\ r.session = th[t].session /\ r.resume = th[t].resume
      /\ r.draining = th[t].draining /\ r.queue = th[t].queue
    BY CalmThread, CutOffIs
<1> HIDE DEF r, g
<1>6. r.armed = FALSE /\ ~r.session /\ ~r.resume /\ ~r.hold
    BY <1>1, <1>5, CalmThread DEF Local, NoResume, LiveThread
<1>7. ~Up(r, At(engine', r.eng))
    BY <1>4, <1>5, <1>1 DEF Up, At, g
<1>8. At(engine', r.draining).run = At(engine, th[t].draining).run
    <2>1. th[t].draining # NoSlot => th[t].draining \in Slot /\ th[t].draining # g
        BY <1>1, EngineOf DEF g, Employed
    <2> QED BY <1>4, <1>5, <2>1 DEF At
<1>9. r.status \notin {"working", "needs-you"}
    BY <1>5
<1>10. Handled(t, r, Closed, engine', th[t].sent)
    BY <1>5, <1>6, <1>7, <1>8, <1>9, HandledCutOff
<1> QED BY <1>1, <1>2, <1>4, <1>10, LeavesHandsOver DEF r

LEMMA GoneHands ==
    ASSUME Calm, NEW t \in Thread, EngineGone(t)
    PROVE  HandsOver
<1> DEFINE r == [CutOff(th[t], "stopped") EXCEPT !.eng = NoSlot, !.armed = FALSE,
                                                 !.draining = NoSlot]
<1>1. /\ th[t].eng # NoSlot /\ Silent /\ TypeOK
      /\ engine' = [engine EXCEPT ![th[t].eng] = FreeWorker]
    BY DEF EngineGone, Calm
<1>2. Leaves(t, r, Closed, Thread, {}, {t}, th[t].sent)
    BY <1>1, LostLeaves
<1>3. Moved(engine', {t})
    BY <1>1, WorkersMoved
<1>4. /\ r.eng = NoSlot /\ r.ready = FALSE /\ r.armed = FALSE /\ r.sent = {}
      /\ r.cards = {} /\ r.hold = th[t].hold /\ r.status = "stopped"
      /\ r.session = th[t].session /\ r.resume = th[t].resume
      /\ r.draining = NoSlot /\ r.queue = th[t].queue
    BY CalmThread, GoneIs DEF Status
<1> HIDE DEF r
<1>5. /\ ~Up(r, At(engine', r.eng)) /\ At(engine', r.draining).run = NoRun
      /\ ~Resumes => ~r.session /\ ~r.resume /\ ~r.hold
    BY <1>4, NotUp, FreeAndBooting, ThreadResumes DEF At
<1>6. Handled(t, r, Closed, engine', th[t].sent)
    BY <1>4, <1>5, HandledCutOff
<1> QED BY <1>1, <1>2, <1>3, <1>6, LeavesHandsOver

(* A worker has exited: nothing runs in it, and its thread waits no more.   *)
LEMMA DrainedHands ==
    ASSUME Calm, NEW e \in Slot, Drained(e)
    PROVE  HandsOver
<1> DEFINE o == engine[e].owner
<1>1. TypeOK /\ Silent /\ engine[e].state = "exiting"
      /\ engine' = [engine EXCEPT ![e] = FreeWorker] /\ engine \in [Slot -> Worker]
    BY DEF Calm, Drained, TypeOK
<1>2. PICK h \in [Thread -> LiveThread] :
        /\ Finish(h, link, Thread, {}, {}, {})
        /\ \A t \in Thread : h[t] = th[t] \/
               (t = engine[e].owner /\ th[t].draining = e
                   /\ h[t] = [th[t] EXCEPT !.draining = NoSlot])
    BY <1>1, DrainedLeaves
<1>3. o \in Thread /\ th[o].draining = e
    BY <1>1 DEF Calm, EnginesOwned, WorkersKnown
<1> HIDE DEF o
<1>4. engine'[e] = FreeWorker /\ \A f \in Slot : f # e => engine'[f] = engine[f]
    BY <1>1
<1>5. Moved(engine', {o})
    BY <1>4 DEF Moved, o
<1>6. ASSUME NEW t \in Thread, t # o PROVE Handled(t, h[t], link[t], engine', {})
    <2>1. h[t] = th[t] /\ t \notin {o}
        BY <1>2, <1>6 DEF o
    <2> QED BY <1>5, <2>1, HandledElse
<1>7. Handled(o, h[o], link[o], engine', {})
    <2> DEFINE r == h[o]
               p == link[o]
               x == At(engine, th[o].eng)
    <2>1. Local(th[o], p, x) /\ th[o] \in LiveThread /\ e # NoSlot
        BY <1>3, CalmThread, ConstantsAssumption
    <2>2. /\ r.eng = th[o].eng /\ r.ready = th[o].ready /\ r.resume = th[o].resume
          /\ r.status = th[o].status /\ r.draining \in {e, NoSlot}
          /\ r.sent = th[o].sent /\ r.cards = th[o].cards /\ r.armed = th[o].armed
          /\ r.hold = th[o].hold /\ r.session = th[o].session /\ r.queue = th[o].queue
        BY <1>2, <1>3, <2>1 DEF LiveThread
    <2> HIDE DEF r
    <2>3. At(engine', r.eng) = x
        <3>1. th[o].eng # NoSlot => th[o].eng \in Slot /\ th[o].eng # e
            BY <1>1, <1>3, EngineOf DEF Employed
        <3> QED BY <1>4, <2>2, <3>1 DEF At
    <2>4. At(engine', r.draining).run = NoRun
        BY <1>4, <2>1, <2>2, FreeAndBooting DEF At
    <2>5. /\ ~Turn(th[o], p, x)
          /\ (Runs(r, x) <=> Runs(th[o], x)) /\ (Up(r, x) <=> Up(th[o], x))
        BY <1>3, <2>1, <2>2 DEF Local, Shown, Runs, Up
    <2>6. ~Turn(r, p, x) /\ (Asks(r, p) <=> Asks(th[o], p))
        BY <2>2, <2>5 DEF Turn, Asks
    <2>7. /\ Plain(p) /\ Attached(r, p, x) /\ Beginning(r, p) /\ OneTurn(r, p, x)
          /\ Asked(r, p, x) /\ Shown(r, p, x)
        BY <2>1, <2>2, <2>5, <2>6 DEF Local, Attached, Beginning, OneTurn, Asked, Shown
    <2>8. Local(r, p, x)
        BY <2>1, <2>2, <2>7 DEF Local, NoResume
    <2>9. ~Busy(r, p, engine')
        BY <2>3, <2>4, <2>6, <2>2 DEF Busy, Turn
    <2>10. r.ready => Delivers(o)
        BY <2>2, CalmThread, <1>3
    <2> QED BY <2>2, <2>3, <2>8, <2>9, <2>10 DEF Handled, Pending, r
<1>8. Middle(h, link, engine', {})
    <2>1. \A t \in Thread : Handled(t, h[t], link[t], engine', {})
        BY <1>6, <1>7
    <2> QED BY <1>1, <1>2, <1>5, <2>1, SettledMoved DEF Middle, TypeOK
<1> QED BY <1>1, <1>2, <1>8 DEF HandsOver, Accepts, Silent

-----------------------------------------------------------------------------
(* Starting an engine, for a message or without one                         *)

(* The new worker and the one that makes room for it.                       *)
LEMMA OpeningIs ==
    ASSUME Calm, NEW t \in Thread, NEW o \in Openings(t), OpenEngine(o, t), o.slot # NoSlot
    PROVE  LET v == o.victim
           IN  /\ th[t].eng = NoSlot
               /\ o.slot \in Slot /\ engine[o.slot].state = "free"
               /\ engine'[o.slot] = BootingFor(t)
               /\ Moved(engine', {t, v})
               /\ v # NoThread =>
                    /\ v \in Thread /\ v # t /\ th[v].eng # NoSlot /\ th[v].draining = NoSlot
                    /\ \A f \in Slot : engine[f].state # "free" =>
                           engine'[f] = Dispose(th[v].eng)[f]
               /\ \A f \in Slot : engine[f].state # "free" /\ engine[f].owner # v =>
                      engine'[f] = engine[f]
<1> DEFINE v == o.victim
<1>1. /\ th[t].eng = NoSlot /\ o.slot \in Slot /\ engine[o.slot].state = "free"
      /\ v = NoThread \/ v \in Reclaimable
    BY DEF Openings, FreeSlots
<1>2. v # NoThread => v \in Thread /\ v # t /\ th[v].eng # NoSlot /\ th[v].draining = NoSlot
    BY <1>1 DEF Reclaimable
<1>3. /\ engine'[o.slot] = BootingFor(t)
      /\ \A f \in Slot : f # o.slot => engine'[f] =
             IF v # NoThread /\ f = th[v].eng
             THEN [engine[f] EXCEPT !.state = "exiting"] ELSE engine[f]
    BY <1>1 DEF OpenEngine
<1>4. v # NoThread => /\ th[v].eng \in Slot /\ engine[th[v].eng].owner = v
                      /\ engine[th[v].eng].state \in Employed
    BY <1>2, EngineOf
<1>5. v # NoThread => \A f \in Slot : engine[f].state # "free" =>
                           engine'[f] = Dispose(th[v].eng)[f]
    <2> SUFFICES ASSUME v # NoThread, NEW f \in Slot, engine[f].state # "free"
                 PROVE  engine'[f] = Dispose(th[v].eng)[f]
        OBVIOUS
    <2>1. f # o.slot
        BY <1>1
    <2>2. /\ Dispose(th[v].eng)[th[v].eng] = [engine[th[v].eng] EXCEPT !.state = "exiting"]
          /\ f # th[v].eng => Dispose(th[v].eng)[f] = engine[f]
        BY <1>2, WorkersMoved
    <2> QED BY <1>3, <2>1, <2>2
<1>6. Moved(engine', {t, v})
    <2> SUFFICES ASSUME NEW f \in Slot
                 PROVE  \/ engine'[f] = engine[f]
                        \/ /\ engine[f].state = "free" \/ engine[f].owner \in {t, v}
                           /\ \/ \E u \in Thread : engine'[f] = BootingFor(u)
                              \/ engine'[f] = [engine[f] EXCEPT !.state = "exiting"]
        BY DEF Moved
    <2>1. CASE f = o.slot
        BY <1>1, <1>3, <2>1
    <2>2. CASE f # o.slot /\ v # NoThread /\ f = th[v].eng
        BY <1>3, <1>4, <2>2
    <2>3. CASE f # o.slot /\ ~(v # NoThread /\ f = th[v].eng)
        BY <1>3, <2>3
    <2> QED BY <2>1, <2>2, <2>3
<1>7. \A f \in Slot : engine[f].state # "free" /\ engine[f].owner # v => engine'[f] = engine[f]
    BY <1>1, <1>3, <1>4
<1> QED BY <1>1, <1>2, <1>3, <1>5, <1>6, <1>7

(* The thread an engine is started for, with or without a new message.      *)
LEMMA OpensFor ==
    ASSUME Calm, NEW t \in Thread, NEW o \in Openings(t), OpenEngine(o, t), o.slot # NoSlot,
           NEW r, r.eng = o.slot, r.ready = FALSE, r.armed = th[t].armed,
           r.sent = th[t].sent, r.cards \subseteq th[t].cards, r.status = "starting",
           r.session = th[t].session, r.resume = th[t].session,
           r.draining = th[t].draining, ~Resumes => r.hold = FALSE,
           Elements(th[t].queue) \subseteq Elements(r.queue), NEW d
    PROVE  Handled(t, r, Closed, engine', d)
<1> DEFINE x == At(engine, th[t].eng)
<1>1. /\ th[t].eng = NoSlot /\ o.slot \in Slot /\ engine'[o.slot] = BootingFor(t)
      /\ \A f \in Slot : engine[f].state # "free" /\ engine[f].owner # o.victim =>
             engine'[f] = engine[f]
      /\ o.victim # t
    <2>1. LET v == o.victim
          IN  /\ th[t].eng = NoSlot /\ o.slot \in Slot /\ engine'[o.slot] = BootingFor(t)
              /\ v # NoThread => v # t
              /\ \A f \in Slot : engine[f].state # "free" /\ engine[f].owner # v =>
                     engine'[f] = engine[f]
        BY OpeningIs
    <2>2. NoThread # t
        BY ConstantsAssumption
    <2> QED BY <2>1, <2>2
<1>2. Local(th[t], link[t], x) /\ ~Up(th[t], x)
    BY <1>1, CalmThread, NotUp
<1>3. ~th[t].armed /\ th[t].sent = {} /\ th[t].cards \subseteq {"choice"}
      /\ (~Resumes => ~th[t].session /\ th[t].cards = {})
      /\ th[t] \in LiveThread
    BY <1>2, LocalDown, CalmThread
<1>4. ~Up(r, At(engine', r.eng))
    BY <1>1, NotUp, ConstantsAssumption DEF At
<1>5. At(engine', r.draining).run = At(engine, th[t].draining).run
    <2>1. th[t].draining # NoSlot =>
            th[t].draining \in Slot /\ engine'[th[t].draining] = engine[th[t].draining]
        BY <1>1, EngineOf
    <2> QED BY <2>1 DEF At
<1>6. /\ r.armed = FALSE /\ r.sent = {} /\ r.cards \subseteq {"choice"}
      /\ r.status \notin {"working", "needs-you"}
      /\ ~Resumes => r.cards = {}
      /\ ~Resumes => ~r.session /\ ~r.resume /\ ~r.hold
      /\ Elements(th[t].queue) \subseteq Elements(r.queue) \cup d
      /\ th[t].sent \subseteq d
    BY <1>3 DEF LiveThread
<1> QED BY <1>4, <1>5, <1>6, HandledCutOff

(* The thread whose idle engine makes room.                                 *)
LEMMA MakesRoom ==
    ASSUME Calm, NEW t \in Thread, NEW o \in Openings(t), OpenEngine(o, t), o.slot # NoSlot,
           o.victim # NoThread
    PROVE  Handled(o.victim, Stopped(th[o.victim], TRUE), Closed, engine', th[o.victim].sent)
<1> DEFINE v == o.victim
           r == Stopped(th[v], TRUE)
<1>1. /\ v \in Thread /\ th[v].eng # NoSlot /\ th[v].draining = NoSlot
      /\ \A f \in Slot : engine[f].state # "free" => engine'[f] = Dispose(th[v].eng)[f]
    BY OpeningIs
<1> HIDE DEF v
<1>2. /\ r.eng = NoSlot /\ r.ready = FALSE /\ r.armed = FALSE /\ r.sent = {}
      /\ r.cards = {} /\ r.hold = FALSE /\ r.status = "stopped"
      /\ r.session = th[v].session /\ r.resume = th[v].resume /\ r.queue = th[v].queue
    BY <1>1, CalmThread, StoppedIs
<1>3. \/ At(engine', r.draining).run = At(engine, th[v].draining).run
      \/ /\ th[v].eng # NoSlot
         /\ At(engine', r.draining).run = engine[th[v].eng].run
    BY <1>1, DisposedIs DEF MayDispose
<1> HIDE DEF r
<1>4. /\ ~Up(r, At(engine', r.eng))
      /\ ~Resumes => ~r.session /\ ~r.resume /\ ~r.hold
    BY <1>1, <1>2, NotUp, ThreadResumes
<1>5. Handled(v, r, Closed, engine', th[v].sent)
    BY <1>1, <1>2, <1>3, <1>4, HandledCutOff
<1> QED BY <1>5 DEF r, v

LEMMA OpeningMiddle ==
    ASSUME Calm, NEW t \in Thread, NEW o \in Openings(t), OpenEngine(o, t), o.slot # NoSlot,
           NEW m \in [Thread -> LiveThread],
           \A u \in Thread : u # t => m[u] = Opened(o, t)[u],
           Handled(t, m[t], Closed, engine', ToldOnOpening(o))
    PROVE  Middle(m, PortsOpened(o, t), engine', ToldOnOpening(o))
<1> DEFINE v == o.victim
           l == PortsOpened(o, t)
           d == ToldOnOpening(o)
<1>1. Moved(engine', {t, v}) /\ (v # NoThread => v \in Thread /\ v # t)
    BY OpeningIs
<1>2. l \in [Thread -> Ports]
    BY OpeningTyped DEF Calm
<1>3. \A u \in Thread : /\ l[u] = IF u \in {t, v} THEN Closed ELSE link[u]
                        /\ u # t => m[u] = IF u = v THEN Stopped(th[u], TRUE) ELSE th[u]
    BY DEF PortsOpened, Opened
<1>4. d = IF v = NoThread THEN {} ELSE th[v].sent
    BY DEF ToldOnOpening
<1>5. v # NoThread => Handled(v, Stopped(th[v], TRUE), Closed, engine', th[v].sent)
    BY MakesRoom
<1> HIDE DEF v, l, d
<1>6. ASSUME NEW u \in Thread PROVE Handled(u, m[u], l[u], engine', d)
    <2>1. CASE u = t
        <3>1. l[u] = Closed /\ Handled(t, m[t], Closed, engine', d)
            BY <1>3, <2>1 DEF d
        <3> QED BY <2>1, <3>1
    <2>2. CASE u # t /\ u = v
        <3>1. v # NoThread
            BY <2>2, ConstantsAssumption
        <3>2. m[u] = Stopped(th[v], TRUE) /\ l[u] = Closed /\ d = th[v].sent
            BY <1>3, <1>4, <2>2, <3>1
        <3>3. Handled(v, m[u], l[u], engine', d)
            BY <1>5, <3>1, <3>2
        <3> QED BY <2>2, <3>3
    <2>3. CASE u # t /\ u # v
        <3>1. m[u] = th[u] /\ l[u] = link[u] /\ u \notin {t, v}
            BY <1>3, <2>3
        <3>2. Handled(u, th[u], link[u], engine', d)
            BY <1>1, <3>1, HandledElse
        <3> QED BY <3>1, <3>2
    <2> QED BY <2>1, <2>2, <2>3
<1>7. Settled(engine')
    BY <1>1, SettledMoved
<1> QED BY <1>2, <1>6, <1>7 DEF Middle, l, d

LEMMA StartHands ==
    ASSUME Calm, NEW t \in Thread, Start(t)
    PROVE  HandsOver
<1>1. PICK o \in Openings(t) :
        /\ OpenEngine(o, t)
        /\ Finish(Opened(o, t), PortsOpened(o, t), PumpedOnOpening(o),
                  {}, {t, o.victim} \cap Thread, ToldOnOpening(o))
    BY DEF Start
<1>2. th[t].eng = NoSlot /\ Silent /\ TypeOK
    BY DEF Start, Calm
<1>3. o.slot \in Slot /\ o.slot # NoSlot
    BY <1>2, ConstantsAssumption DEF Openings, FreeSlots
<1>4. /\ Opened(o, t) \in [Thread -> LiveThread]
      /\ PumpedOnOpening(o) \in SUBSET Thread /\ ToldOnOpening(o) \in SUBSET Msg
    BY <1>1, <1>2, OpeningTyped
<1>5. Opened(o, t)[t] = Started(th[t], o.slot)
    BY <1>3 DEF Opened
<1> DEFINE r == Started(th[t], o.slot)
<1>6. /\ r.eng = o.slot /\ r.ready = FALSE /\ r.armed = th[t].armed
      /\ r.sent = th[t].sent /\ r.cards = th[t].cards /\ r.status = "starting"
      /\ r.session = th[t].session /\ r.resume = th[t].session /\ r.hold = th[t].hold
      /\ r.draining = th[t].draining /\ r.queue = th[t].queue
    BY <1>3, CalmThread, StartedIs
<1> HIDE DEF r
<1>7. ~Resumes => r.hold = FALSE
    BY <1>6, CalmThread, ThreadResumes DEF LiveThread
<1>8. Handled(t, r, Closed, engine', ToldOnOpening(o))
    BY <1>1, <1>3, <1>6, <1>7, OpensFor
<1>9. Middle(Opened(o, t), PortsOpened(o, t), engine', ToldOnOpening(o))
    BY <1>1, <1>3, <1>4, <1>5, <1>8, OpeningMiddle DEF r
<1> QED BY <1>1, <1>2, <1>4, <1>9 DEF HandsOver, Accepts, Silent

LEMMA QueuedIs ==
    ASSUME NEW r \in LiveThread, NEW x \in Msg
    PROVE  LET s == Queued(r, x)
           IN  /\ s.eng = r.eng /\ s.ready = r.ready /\ s.armed = r.armed /\ s.sent = r.sent
               /\ s.cards = r.cards \/ s.cards = r.cards \ {"choice"}
               /\ s.hold = FALSE /\ s.status = r.status
               /\ s.session = r.session /\ s.resume = r.resume
               /\ s.draining = r.draining
               /\ Elements(s.queue) = Elements(r.queue) \cup {x}
<1>1. LET s == Queued(r, x)
      IN  /\ s.eng = r.eng /\ s.ready = r.ready /\ s.armed = r.armed /\ s.sent = r.sent
          /\ s.hold = FALSE /\ s.status = r.status
          /\ s.session = r.session /\ s.resume = r.resume
          /\ s.draining = r.draining
          /\ s.queue = Append(r.queue, x)
    BY ZenonT(60) DEF Queued, LiveThread
<1>2. Queued(r, x).cards = r.cards \/ Queued(r, x).cards = r.cards \ {"choice"}
    BY DEF Queued, LiveThread
<1>3. Elements(Append(r.queue, x)) = Elements(r.queue) \cup {x}
    BY OnceAppended DEF LiveThread
<1> QED BY <1>1, <1>2, <1>3

LEMMA SubmitHands ==
    ASSUME Calm, NEW t \in Thread, NEW x \in Msg, Submit(t, x)
    PROVE  HandsOver
<1>1. PICK o \in Openings(t) :
        /\ OpenEngine(o, t)
        /\ Finish([Opened(o, t) EXCEPT ![t] = Queued(@, x)], PortsOpened(o, t),
                  PumpedOnOpening(o) \cup (IF diskOk THEN {t} ELSE {}),
                  {t}, {o.victim} \cap Thread, ToldOnOpening(o))
    BY DEF Submit
<1>2. /\ TypeOK /\ ran' = ran /\ diskOk' = diskOk
      /\ accepted' = accepted \cup (IF diskOk THEN {x} ELSE {})
    BY DEF Submit, History, Calm
<1> DEFINE m == [Opened(o, t) EXCEPT ![t] = Queued(@, x)]
           l == PortsOpened(o, t)
           d == ToldOnOpening(o)
           s == Opened(o, t)[t]
           r == Queued(s, x)
           who == PumpedOnOpening(o) \cup (IF diskOk THEN {t} ELSE {})
<1>3. /\ Opened(o, t) \in [Thread -> LiveThread] /\ l \in [Thread -> Ports]
      /\ who \in SUBSET Thread /\ d \in SUBSET Msg
    BY <1>1, <1>2, OpeningTyped
<1>4. s \in LiveThread /\ r \in LiveThread
    BY <1>2, <1>3, QueuedTyped
<1>5. /\ m \in [Thread -> LiveThread] /\ m[t] = r
      /\ \A u \in Thread : u # t => m[u] = Opened(o, t)[u]
    BY <1>3, <1>4
<1>6. /\ r.eng = s.eng /\ r.ready = s.ready /\ r.armed = s.armed /\ r.sent = s.sent
      /\ r.cards = s.cards \/ r.cards = s.cards \ {"choice"}
      /\ r.hold = FALSE /\ r.status = s.status
      /\ r.session = s.session /\ r.resume = s.resume
      /\ r.draining = s.draining
      /\ Elements(r.queue) = Elements(s.queue) \cup {x}
    BY <1>4, QueuedIs
<1> HIDE DEF m, r, who
<1>7. Middle(m, l, engine', d)
    <2>1. CASE o.slot = NoSlot
        <3>1. Opened(o, t) = th /\ l = link
            BY <2>1 DEF Opened, PortsOpened
        <3>2. engine' = engine
            BY <1>1, <2>1, <1>2 DEF OpenEngine, TypeOK
        <3>3. s = th[t]
            BY <3>1
        <3>4. ~Resumes => r.session = FALSE /\ r.hold = FALSE
            BY <1>6, <3>3, CalmThread, ThreadResumes DEF LiveThread
        <3>5. Local(r, link[t], At(engine, th[t].eng))
            BY <1>6, <3>3, <3>4, CalmThread, LocalSame
        <3>6. Handled(t, r, link[t], engine', d)
            BY <1>6, <3>2, <3>3, <3>5, HandledInPlace
        <3>7. ASSUME NEW u \in Thread PROVE Handled(u, m[u], l[u], engine', d)
            <4>1. CASE u = t
                BY <1>5, <3>1, <3>6, <4>1
            <4>2. CASE u # t
                <5>1. u \notin {t} /\ Moved(engine', {t})
                    BY <3>2, <4>2, NotMoved
                <5>2. Handled(u, th[u], link[u], engine', d)
                    BY <5>1, HandledElse
                <5> QED BY <1>5, <3>1, <4>2, <5>2
            <4> QED BY <4>1, <4>2
        <3>8. Settled(engine')
            BY <3>2, NotMoved, SettledMoved
        <3> QED BY <1>3, <1>5, <3>7, <3>8 DEF Middle
    <2>2. CASE o.slot # NoSlot
        <3>1. s = Started(th[t], o.slot) /\ o.slot \in Slot
            BY <2>2 DEF Opened, Openings, FreeSlots
        <3> DEFINE b == Started(th[t], o.slot)
        <3>2. /\ b.eng = o.slot /\ b.ready = FALSE /\ b.armed = th[t].armed
              /\ b.sent = th[t].sent /\ b.cards = th[t].cards /\ b.status = "starting"
              /\ b.session = th[t].session /\ b.resume = th[t].session
              /\ b.draining = th[t].draining /\ b.queue = th[t].queue
            BY <3>1, CalmThread, StartedIs
        <3>4. s = b
            BY <3>1
        <3> HIDE DEF b
        <3>3. Handled(t, r, Closed, engine', d)
            BY <1>1, <1>6, <2>2, <3>2, <3>4, OpensFor
        <3> QED BY <1>1, <1>5, <2>2, <3>3, OpeningMiddle
    <2> QED BY <2>1, <2>2
<1>8. Accepts(m, {t})
    <2>1. x \in Elements(m[t].queue)
        BY <1>5, <1>6
    <2>2. CASE diskOk
        BY <1>2, <2>1, <2>2 DEF Accepts
    <2>3. CASE ~diskOk
        BY <1>2, <2>3 DEF Accepts
    <2> QED BY <2>2, <2>3
<1>9. Finish(m, l, who, {t}, {o.victim} \cap Thread, d)
    BY <1>1 DEF m, who
<1> QED BY <1>2, <1>3, <1>7, <1>8, <1>9 DEF HandsOver

-----------------------------------------------------------------------------
(* Dispatch                                                                 *)

LEMMA FirstPart ==
    ASSUME NEW q \in Seq(Msg), NEW f \in 1..Len(q)
    PROVE  LET b == SubSeq(q, 1, f - 1)
           IN  b \in Seq(Msg) /\ Len(b) = f - 1 /\ \A i \in 1 .. f - 1 : b[i] = q[i]
<1> DEFINE e == f - 1
           b == SubSeq(q, 1, e)
<1>1. Len(q) \in Nat /\ \A i \in 1..Len(q) : q[i] \in Msg
    BY LenProperties, ElementOfSeq
<1>2. e \in Nat /\ \A i \in 1..e : i \in 1..Len(q)
    BY <1>1
<1>3. e \in Int /\ 1 \in Int /\ \A i \in 1..e : q[i] \in Msg
    BY <1>1, <1>2
<1> HIDE DEF e
<1>4. /\ b \in Seq(Msg)
      /\ Len(b) = IF 1 <= e THEN e - 1 + 1 ELSE 0
      /\ \A i \in 1 .. e - 1 + 1 : b[i] = q[1 + i - 1]
    BY <1>3, SubSeqProperties
<1>5. (IF 1 <= e THEN e - 1 + 1 ELSE 0) = e
    BY <1>2
<1>6. \A i \in 1..e : i \in 1 .. e - 1 + 1 /\ 1 + i - 1 = i
    BY <1>2
<1> HIDE DEF b
<1>7. Len(b) = e /\ \A i \in 1..e : b[i] = q[i]
    BY <1>4, <1>5, <1>6
<1> QED BY <1>4, <1>7 DEF b, e

(* A message that waits is refused or stays in line.                        *)
LEMMA SkippedOrRefused ==
    ASSUME NEW q \in Seq(Msg)
    PROVE  Elements(q) \subseteq Elements(Refused(q)) \cup Elements(Skip(q))
<1>1. CASE Sendable(q) = {}
    BY <1>1 DEF Refused
<1>2. CASE Sendable(q) # {}
    <2> DEFINE f == FirstOf(Sendable(q))
               n == Len(q)
               k == SubSeq(q, f, n)
               b == SubSeq(q, 1, f - 1)
    <2>1. Sendable(q) \subseteq 1..n /\ n \in Nat /\ DOMAIN q = 1..n
        BY LenProperties DEF Sendable
    <2>2. f \in 1..n
        BY <1>2, <2>1, FirstOfIsIn
    <2>3. \A i \in 1..n : q[i] \in Msg
        BY ElementOfSeq
    <2>4. /\ k \in Seq(Msg) /\ Len(k) = n - f + 1
          /\ \A i \in 1 .. n - f + 1 : k[i] = q[f + i - 1]
        BY <2>1, <2>2, <2>3, SubSeqProperties
    <2>5. /\ b \in Seq(Msg) /\ Len(b) = f - 1
          /\ \A i \in 1 .. f - 1 : b[i] = q[i]
        BY <2>2, FirstPart
    <2>6. DOMAIN k = 1..(n - f + 1) /\ DOMAIN b = 1..(f - 1)
        BY <2>4, <2>5, LenProperties
    <2>7. Skip(q) = k /\ Refused(q) = b
        BY <1>2 DEF Skip, Refused
    <2> HIDE DEF f, n, k, b
    <2>8. ASSUME NEW i \in DOMAIN q PROVE q[i] \in Elements(b) \cup Elements(k)
        <3>1. CASE i <= f - 1
            <4>1. i \in DOMAIN b /\ b[i] = q[i]
                BY <2>1, <2>2, <2>5, <2>6, <3>1
            <4> QED BY <4>1 DEF Elements
        <3>2. CASE ~(i <= f - 1)
            <4>1. i - f + 1 \in 1..(n - f + 1) /\ f + (i - f + 1) - 1 = i
                BY <2>1, <2>2, <3>2
            <4>2. k[i - f + 1] = q[i]
                BY <2>4, <4>1
            <4> QED BY <2>6, <4>1, <4>2 DEF Elements
        <3> QED BY <3>1, <3>2
    <2> QED BY <2>7, <2>8 DEF Elements
<1> QED BY <1>1, <1>2

Alike(s, r) ==
    /\ s.eng = r.eng /\ s.ready = r.ready /\ s.resume = r.resume
    /\ s.draining = r.draining /\ s.cards = r.cards /\ s.armed = r.armed
    /\ s.hold = r.hold /\ s.session = r.session
Keeps(s, r) ==
    /\ s.sent = r.sent /\ s.status \in {r.status, "idle"}
    /\ Elements(r.queue) \subseteq Elements(s.queue) \cup Elements(Refused(r.queue))
Sends(s, r, x) ==
    /\ s.status = "working" /\ s.sent = r.sent \cup {x}
    /\ Elements(r.queue) \subseteq Elements(s.queue) \cup {x} \cup Elements(Refused(r.queue))

LEMMA PumpedIs ==
    ASSUME NEW r \in LiveThread
    PROVE  LET s == PumpedThread(r)
               q == Skip(r.queue)
           IN  /\ Alike(s, r)
               /\ diskOk /\ q # <<>> => Head(q) \in Msg /\ Sends(s, r, Head(q))
               /\ ~(diskOk /\ q # <<>>) => Keeps(s, r)
<1> DEFINE q == Skip(r.queue)
           s == PumpedThread(r)
<1>1. r.queue \in Seq(Msg)
    BY DEF LiveThread
<1>2. q \in Seq(Msg) /\ Elements(r.queue) \subseteq Elements(Refused(r.queue)) \cup Elements(q)
    BY <1>1, SkipTyped, SkippedOrRefused
<1>3. q # <<>> => Head(q) \in Msg /\ Elements(q) = {Head(q)} \cup Elements(Tail(q))
    BY <1>2, OnceTaken, HeadTailProperties
<1> HIDE DEF q
<1>4. CASE q = <<>>
    <2>1. s = [r EXCEPT !.queue = q]
        BY <1>4 DEF PumpedThread, q
    <2>2. s.queue = q /\ s.sent = r.sent /\ s.status = r.status /\ Alike(s, r)
        BY <2>1 DEF LiveThread, Alike
    <2> QED BY <1>2, <1>4, <2>2 DEF Keeps, q
<1>5. CASE q # <<>> /\ diskOk
    <2>1. s = [r EXCEPT !.queue = Tail(q), !.sent = @ \cup {Head(q)}, !.status = "working"]
        BY <1>5 DEF PumpedThread, q
    <2>2. s.queue = Tail(q) /\ s.sent = r.sent \cup {Head(q)} /\ s.status = "working"
          /\ Alike(s, r)
        BY <2>1 DEF LiveThread, Alike
    <2> QED BY <1>2, <1>3, <1>5, <2>2 DEF Sends, q
<1>6. CASE q # <<>> /\ ~diskOk
    <2>1. s = [r EXCEPT !.queue = q, !.status = "idle", !.blocked = TRUE]
        BY <1>6 DEF PumpedThread, q
    <2>2. s.queue = q /\ s.sent = r.sent /\ s.status = "idle" /\ Alike(s, r)
        BY <2>1 DEF LiveThread, Alike
    <2> QED BY <1>2, <1>6, <2>2 DEF Keeps, q
<1> QED BY <1>4, <1>5, <1>6

(* What Finish does to a thread that m, l and w leave as they do.           *)
Passed(t, m, l) == th'[t] = m[t] /\ link'[t] = l[t]
Waits(t, m, l) ==
    /\ CanPump(m, t) /\ Alike(th'[t], m[t]) /\ Elements(Refused(m[t].queue)) \subseteq told'
    /\ Keeps(th'[t], m[t]) /\ link'[t] = l[t]
Dispatched(t, m, l) ==
    /\ CanPump(m, t) /\ Alike(th'[t], m[t]) /\ Elements(Refused(m[t].queue)) \subseteq told'
    /\ \E x \in Msg : /\ Sends(th'[t], m[t], x) /\ link'[t].up = l[t].up
                      /\ link'[t].down = Append(l[t].down, Carry("input", x))

SavedAs(t, now, tried, later) ==
    store'[t] = IF t \in now \cup tried /\ diskOk
                THEN [disk |-> Copy(th'[t]), last |-> Copy(th'[t])]
                ELSE IF t \in now \cup tried \cup later
                     THEN [store[t] EXCEPT !.last = Copy(th'[t])]
                     ELSE store[t]

Finished(m, l, now, later, d, tried, goes) ==
    /\ \A t \in Thread :
        /\ IF t \in goes THEN Dispatched(t, m, l) /\ t \in tried /\ diskOk
           ELSE Passed(t, m, l) \/ (t \in tried /\ Waits(t, m, l))
        /\ SavedAs(t, now, tried, later)
    /\ \A t, u \in goes : Overlap(t, u) => ~(Rank[u] < Rank[t])
    /\ told \cup d \subseteq told'

LEMMA FinishIs ==
    ASSUME NEW m \in [Thread -> LiveThread], NEW l \in [Thread -> Ports],
           NEW who \in SUBSET Thread, NEW now, NEW later, NEW d,
           Finish(m, l, who, now, later, d),
           \A t \in Thread : m[t].ready => Delivers(t)
    PROVE  \E tried \in SUBSET who, goes \in SUBSET Thread :
               Finished(m, l, now, later, d, tried, goes)
<1>1. PICK tried \in SUBSET who :
        /\ TriedInOrder(m, who, tried)
        /\ th' = [t \in Thread |-> IF t \in tried THEN PumpedThread(m[t]) ELSE m[t]]
        /\ link' = [t \in Thread |->
               IF t \in Goes(m, tried) /\ Delivers(t)
               THEN [l[t] EXCEPT !.down = Append(@, Carry("input", Head(Skip(m[t].queue))))]
               ELSE l[t]]
        /\ told' = told \cup d
                        \cup UNION {Elements(Refused(m[t].queue)) : t \in tried}
        /\ Save(now \cup tried, later)
    BY DEF Finish
<1> DEFINE goes == Goes(m, tried)
<1>2. /\ goes \subseteq tried /\ goes \in SUBSET Thread
      /\ \A t \in tried : t \in goes <=> diskOk /\ Skip(m[t].queue) # <<>>
    BY DEF Goes
<1>3. /\ \A t \in tried : CanPump(m, t)
      /\ \A t \in tried, u \in goes : ~(Overlap(t, u) /\ Rank[u] < Rank[t])
    BY <1>1 DEF TriedInOrder
<1> HIDE DEF goes
<1>4. ASSUME NEW t \in Thread
      PROVE  /\ IF t \in goes THEN Dispatched(t, m, l) /\ t \in tried /\ diskOk
                ELSE Passed(t, m, l) \/ (t \in tried /\ Waits(t, m, l))
             /\ SavedAs(t, now, tried, later)
    <2> DEFINE r == m[t]
               q == Skip(r.queue)
               s == PumpedThread(r)
    <2>1. r \in LiveThread /\ l[t] \in Ports
        OBVIOUS
    <2>2. /\ Alike(s, r)
          /\ diskOk /\ q # <<>> => Head(q) \in Msg /\ Sends(s, r, Head(q))
          /\ ~(diskOk /\ q # <<>>) => Keeps(s, r)
        BY PumpedIs
    <2>3. /\ th'[t] = IF t \in tried THEN s ELSE r
          /\ link'[t] = IF t \in goes /\ Delivers(t)
                        THEN [l[t] EXCEPT !.down = Append(@, Carry("input", Head(q)))]
                        ELSE l[t]
          /\ t \in tried => Elements(Refused(r.queue)) \subseteq told'
        BY <1>1 DEF goes
    <2>4. SavedAs(t, now, tried, later)
        BY <1>1 DEF Save, SavedAs
    <2> HIDE DEF s, q
    <2>5. CASE t \in goes
        <3>1. t \in tried /\ diskOk /\ q # <<>> /\ CanPump(m, t) /\ Delivers(t)
            BY <1>2, <1>3, <2>5 DEF CanPump, q
        <3>2. Head(q) \in Msg /\ Sends(th'[t], r, Head(q)) /\ Alike(th'[t], r)
            BY <2>2, <2>3, <3>1
        <3>3. link'[t].up = l[t].up /\ link'[t].down = Append(l[t].down, Carry("input", Head(q)))
            BY <2>1, <2>3, <2>5, <3>1 DEF Ports
        <3>4. Dispatched(t, m, l)
            BY <2>3, <3>1, <3>2, <3>3 DEF Dispatched
        <3> QED BY <2>4, <2>5, <3>1, <3>4
    <2>6. CASE t \in tried /\ t \notin goes
        <3>1. ~(diskOk /\ q # <<>>) /\ CanPump(m, t)
            BY <1>2, <1>3, <2>6 DEF q
        <3>2. Keeps(th'[t], r) /\ Alike(th'[t], r) /\ link'[t] = l[t]
            BY <2>2, <2>3, <2>6, <3>1
        <3>3. Waits(t, m, l)
            BY <2>3, <2>6, <3>1, <3>2 DEF Waits
        <3> QED BY <2>4, <2>6, <3>3
    <2>7. CASE t \notin tried
        <3>1. t \notin goes /\ Passed(t, m, l)
            BY <1>2, <2>3, <2>7 DEF Passed
        <3> QED BY <2>4, <3>1
    <2> QED BY <2>5, <2>6, <2>7
<1>5. \A t, u \in goes : Overlap(t, u) => ~(Rank[u] < Rank[t])
    BY <1>2, <1>3
<1>6. told \cup d \subseteq told'
    BY <1>1
<1>7. Finished(m, l, now, later, d, tried, goes)
    BY <1>4, <1>5, <1>6 DEF Finished
<1> QED BY <1>2, <1>7

-----------------------------------------------------------------------------
(* What a handler leaves behind                                             *)

(* At most one thread of those that share a folder is busy.                 *)
Exclusive ==
    "engineStop" \notin Allowed =>
        \A t, u \in Thread : Overlap(t, u) =>
            ~(Busy(th[t], link[t], engine) /\ Busy(th[u], link[u], engine))

(* A message is with its thread and on disk, in what is written and in what *)
(* will be; one recorded as sent was acted on or goes out.                  *)
Held(c) == Elements(c.queue) \cup c.sent
OnDisk(t) == Held(store[t].disk) \cap Held(store[t].last)
Safe == \A m \in accepted :
    ran[m] > 0 \/ m \in told \/ \E t \in Thread : m \in Pending(th[t]) /\ m \in OnDisk(t)
SentGoes == \A t \in Thread : \A m \in th[t].sent : ran[m] > 0 \/ Carried(m, link[t].down)

LEMMA FinishAgrees ==
    ASSUME Calm, NEW m, NEW l, NEW now, NEW later, NEW d, NEW tried, NEW goes,
           Middle(m, l, engine', d), Finished(m, l, now, later, d, tried, goes)
    PROVE  TurnsAgree'
<1>1. ASSUME NEW t \in Thread
      PROVE  Local(th'[t], link'[t], At(engine', th'[t].eng))
    <2> DEFINE r == m[t]
               x == At(engine', r.eng)
               s == th'[t]
    <2>1. Local(r, l[t], x)
        BY DEF Middle, Handled
    <2>2. CASE Passed(t, m, l)
        BY <2>1, <2>2 DEF Passed
    <2>3. CASE Waits(t, m, l)
        <3>1. /\ Alike(s, r) /\ Keeps(s, r) /\ link'[t] = l[t] /\ CanPump(m, t)
            BY <2>3 DEF Waits
        <3>2. At(engine', s.eng) = x
            BY <3>1 DEF Alike
        <3> HIDE DEF r, s, x
        <3>3. r.ready /\ r.cards = {} /\ r.status # "working" /\ r.draining = NoSlot
            BY <3>1 DEF CanPump, r
        <3>4. Local(s, link'[t], x)
            BY <2>1, <3>1, <3>3, LocalPumped DEF Alike, Keeps
        <3> QED BY <3>2, <3>4 DEF s
    <2>4. CASE Dispatched(t, m, l)
        <3>1. PICK y \in Msg :
                /\ Alike(s, r) /\ Sends(s, r, y) /\ CanPump(m, t)
                /\ link'[t].up = l[t].up
                /\ link'[t].down = Append(l[t].down, Carry("input", y))
            BY <2>4 DEF Dispatched
        <3>2. At(engine', s.eng) = x
            BY <3>1 DEF Alike
        <3> HIDE DEF r, s, x
        <3>3. r.ready /\ r.cards = {} /\ r.status # "working" /\ r.draining = NoSlot
            BY <3>1 DEF CanPump, r
        <3>4. Local(s, link'[t], x)
            BY <2>1, <3>1, <3>3, LocalPumped DEF Alike, Sends
        <3> QED BY <3>2, <3>4 DEF s
    <2> QED BY <2>2, <2>3, <2>4 DEF Finished
<1>2. Agree(th', link', engine')
    BY <1>1 DEF Agree
<1>3. ASSUME ~Resumes, NEW t \in Thread
      PROVE  ~store'[t].disk.session /\ ~store'[t].last.session
    <2>1. ~th'[t].session
        BY <1>1, <1>3 DEF Local, NoResume
    <2>2. ~Copy(th'[t]).session
        BY <2>1 DEF Copy
    <2>3. ~store[t].disk.session /\ ~store[t].last.session /\ store[t] \in Stored
        BY <1>3 DEF Calm, TurnsAgree, Fresh, TypeOK
    <2>4. SavedAs(t, now, tried, later)
        BY DEF Finished
    <2> QED BY <2>2, <2>3, <2>4 DEF SavedAs, Stored
<1>4. Settled(engine')
    BY DEF Middle
<1> QED BY <1>2, <1>3, <1>4 DEF TurnsAgree, Fresh

LEMMA BusyShows ==
    ASSUME NEW r, NEW p, NEW w, Local(r, p, At(w, r.eng)), Busy(r, p, w)
    PROVE  r.status \in {"working", "needs-you"} \/ r.draining # NoSlot
<1>1. CASE Has(p.down, "input") \/ Runs(r, At(w, r.eng))
    BY <1>1 DEF Local, Shown, Turn
<1>2. CASE At(w, r.draining).run # NoRun
    BY <1>2, FreeAndBooting DEF At
<1> QED BY <1>1, <1>2 DEF Busy

(* A thread that goes is alone in its folder.                               *)
LEMMA FinishExclusive ==
    ASSUME Exclusive, NEW m, NEW l, NEW now, NEW later, NEW d, NEW tried,
           NEW goes \in SUBSET Thread,
           Middle(m, l, engine', d), Finished(m, l, now, later, d, tried, goes)
    PROVE  Exclusive'
<1> SUFFICES ASSUME "engineStop" \notin Allowed, NEW t \in Thread, NEW u \in Thread,
                    Overlap(t, u), Busy(th'[t], link'[t], engine'),
                    Busy(th'[u], link'[u], engine')
             PROVE  FALSE
    BY DEF Exclusive
<1>1. t # u /\ Overlap(u, t)
    <2>1. \A p \in Overlapping : \E a, b \in Thread : a # b /\ p = {a, b}
        BY ConstantsAssumption
    <2>2. {t, u} \in Overlapping /\ {t, u} = {u, t}
        BY DEF Overlap
    <2>3. PICK a \in Thread, b \in Thread : a # b /\ {t, u} = {a, b}
        BY <2>1, <2>2
    <2>4. t # u
        BY <2>3
    <2> QED BY <2>2, <2>4 DEF Overlap
<1>2. ASSUME NEW v \in Thread, v \notin goes, Busy(th'[v], link'[v], engine')
      PROVE  Busy(m[v], l[v], engine') /\ Busy(th[v], link[v], engine)
    <2>1. Passed(v, m, l) \/ Waits(v, m, l)
        BY <1>2 DEF Finished
    <2>2. CASE Passed(v, m, l)
        BY <1>2, <2>2 DEF Passed, Middle, Handled
    <2>3. CASE Waits(v, m, l)
        <3>1. /\ th'[v].eng = m[v].eng /\ th'[v].draining = m[v].draining
              /\ link'[v] = l[v]
            BY <2>3 DEF Waits, Alike
        <3>2. Busy(m[v], l[v], engine')
            BY <1>2, <3>1 DEF Busy, Runs, Up
        <3> QED BY <3>2 DEF Middle, Handled
    <2> QED BY <2>1, <2>2, <2>3
<1>3. ASSUME NEW v \in Thread, v \in goes, NEW k \in Thread \ {v}, Overlap(v, k)
      PROVE  k \in goes \/ ~Busy(th'[k], link'[k], engine')
    <2>1. ~FolderTaken(m, v)
        BY <1>3 DEF Finished, Dispatched, CanPump
    <2>2. m[k].status \notin {"working", "needs-you"} /\ m[k].draining = NoSlot
        BY <1>3, <2>1 DEF FolderTaken
    <2>3. Local(m[k], l[k], At(engine', m[k].eng))
        BY <1>3 DEF Middle, Handled
    <2>4. ~Busy(m[k], l[k], engine')
        BY <2>2, <2>3, BusyShows
    <2> QED BY <1>2, <2>4
<1>4. CASE t \in goes /\ u \in goes
    <2>1. Rank \in [Thread -> Nat] /\ Rank[t] # Rank[u]
        BY <1>1, ConstantsAssumption
    <2>2. ~(Rank[u] < Rank[t]) /\ ~(Rank[t] < Rank[u])
        BY <1>1, <1>4 DEF Finished
    <2>3. Rank[t] \in Nat /\ Rank[u] \in Nat
        BY <2>1
    <2> QED BY <2>1, <2>2, <2>3
<1>5. CASE t \notin goes /\ u \notin goes
    BY <1>2, <1>5 DEF Exclusive
<1>6. CASE t \in goes /\ u \notin goes
    BY <1>1, <1>3, <1>6
<1>7. CASE t \notin goes /\ u \in goes
    BY <1>1, <1>3, <1>7
<1> QED BY <1>4, <1>5, <1>6, <1>7

(* What a thread holds in the middle of a handler it holds at its end, or   *)
(* the person is told.                                                      *)
LEMMA FinishHolds ==
    ASSUME NEW m, NEW l, NEW now, NEW later, NEW d, NEW tried, NEW goes,
           Finished(m, l, now, later, d, tried, goes),
           NEW t \in Thread, NEW x \in Pending(m[t])
    PROVE  x \in Pending(th'[t]) \/ x \in told'
<1>1. CASE Passed(t, m, l)
    BY <1>1 DEF Passed
<1>2. CASE Waits(t, m, l)
    BY <1>2 DEF Waits, Keeps, Pending
<1>3. CASE Dispatched(t, m, l)
    BY <1>3 DEF Dispatched, Sends, Pending
<1> QED BY <1>1, <1>2, <1>3 DEF Finished

LEMMA FinishSends ==
    ASSUME SentGoes, ran' = ran, NEW m, NEW l \in [Thread -> Ports],
           NEW now, NEW later, NEW d, NEW tried, NEW goes,
           Middle(m, l, engine', d), Finished(m, l, now, later, d, tried, goes)
    PROVE  SentGoes'
<1> SUFFICES ASSUME NEW t \in Thread, NEW x \in th'[t].sent
             PROVE  ran[x] > 0 \/ Carried(x, link'[t].down)
    BY DEF SentGoes
<1>1. /\ m[t].sent \subseteq th[t].sent
      /\ m[t].sent # {} => \A y : Carried(y, link[t].down) => Carried(y, l[t].down)
    BY DEF Middle, Handled
<1>2. \A y \in m[t].sent : ran[y] > 0 \/ Carried(y, l[t].down)
    BY <1>1 DEF SentGoes
<1>3. CASE Passed(t, m, l)
    BY <1>2, <1>3 DEF Passed
<1>4. CASE Waits(t, m, l)
    BY <1>2, <1>4 DEF Waits, Keeps
<1>5. CASE Dispatched(t, m, l)
    <2>1. PICK y \in Msg : /\ th'[t].sent = m[t].sent \cup {y}
                           /\ link'[t].down = Append(l[t].down, Carry("input", y))
        BY <1>5 DEF Dispatched, Sends
    <2>2. /\ Carry("input", y) \in Inbound /\ Carry("input", y).kind = "input"
          /\ Carry("input", y).msg = y /\ l[t].down \in Seq(Inbound)
        BY DEF Carry, Inbound, Ports
    <2>3. /\ \A z : Carried(z, l[t].down) => Carried(z, link'[t].down)
          /\ Carried(y, link'[t].down)
        BY <2>1, <2>2, CarriedAppended
    <2> QED BY <1>2, <2>1, <2>3
<1> QED BY <1>3, <1>4, <1>5 DEF Finished

LEMMA SavedHolds ==
    ASSUME NEW t, NEW now, NEW tried, NEW later, SavedAs(t, now, tried, later),
           store[t] \in Stored, NEW x, x \in Pending(th'[t]),
           x \in OnDisk(t) \/ (t \in now /\ diskOk)
    PROVE  x \in OnDisk(t)'
<1>1. x \in Held(Copy(th'[t]))
    BY DEF Held, Copy, Pending
<1>2. CASE t \in now \cup tried /\ diskOk
    <2>1. store'[t].disk = Copy(th'[t]) /\ store'[t].last = Copy(th'[t])
        BY <1>2 DEF SavedAs
    <2> QED BY <1>1, <2>1 DEF OnDisk
<1>3. CASE ~(t \in now \cup tried /\ diskOk)
    <2>1. store'[t].disk = store[t].disk
          /\ store'[t].last \in {store[t].last, Copy(th'[t])}
        BY <1>3 DEF SavedAs, Stored
    <2>2. x \in OnDisk(t)
        BY <1>3
    <2> QED BY <1>1, <2>1, <2>2 DEF OnDisk
<1> QED BY <1>2, <1>3

LEMMA FinishSafe ==
    ASSUME Calm, Safe, SentGoes, ran' = ran, NEW m, NEW l, NEW now, NEW later,
           NEW d, NEW tried, NEW goes, Accepts(m, now),
           Middle(m, l, engine', d), Finished(m, l, now, later, d, tried, goes)
    PROVE  Safe'
<1>1. told \cup d \subseteq told' /\ \A t \in Thread : SavedAs(t, now, tried, later)
    BY DEF Finished
<1>2. \A t \in Thread : store[t] \in Stored
    BY DEF Calm, TypeOK
<1>3. ASSUME NEW x \in accepted
      PROVE  ran[x] > 0 \/ x \in told'
                 \/ \E t \in Thread : x \in Pending(th'[t]) /\ x \in OnDisk(t)'
    <2>1. CASE ran[x] > 0 \/ x \in told
        BY <1>1, <2>1
    <2>2. ASSUME NEW t \in Thread, x \in Pending(th[t]), x \in OnDisk(t), ~(ran[x] > 0)
          PROVE  x \in told' \/ (x \in Pending(th'[t]) /\ x \in OnDisk(t)')
        <3>1. Pending(th[t]) \subseteq Pending(m[t]) \cup d
                  \cup (IF Has(link[t].down, "input") THEN {} ELSE th[t].sent)
            BY DEF Middle, Handled
        <3>2. x \in th[t].sent => Has(link[t].down, "input")
            <4>1. \A i \in DOMAIN link[t].down : link[t].down[i].kind # "steer"
                <5>1. link[t].down \in Seq(PlainIn)
                    BY CalmThread DEF Local, Plain
                <5>2. \A i \in DOMAIN link[t].down : link[t].down[i] \in PlainIn
                    BY <5>1
                <5> QED BY <5>2 DEF PlainIn
            <4>2. Carried(x, link[t].down) => Has(link[t].down, "input")
                BY <4>1 DEF Carried, Has
            <4> QED BY <2>2, <4>2 DEF SentGoes
        <3>3. CASE x \in d
            BY <1>1, <3>3
        <3>4. CASE x \in Pending(m[t])
            <4>1. x \in Pending(th'[t]) \/ x \in told'
                BY <3>4, FinishHolds
            <4>2. x \in Pending(th'[t]) => x \in OnDisk(t)'
                BY <1>1, <1>2, <2>2, SavedHolds
            <4> QED BY <4>1, <4>2
        <3> QED BY <2>2, <3>1, <3>2, <3>3, <3>4
    <2> QED BY <2>1, <2>2 DEF Safe
<1>4. ASSUME NEW t \in now \cap Thread, NEW x \in Elements(m[t].queue), diskOk
      PROVE  x \in told' \/ (x \in Pending(th'[t]) /\ x \in OnDisk(t)')
    <2>1. x \in Pending(th'[t]) \/ x \in told'
        BY FinishHolds DEF Pending
    <2>2. x \in Pending(th'[t]) => x \in OnDisk(t)'
        BY <1>1, <1>2, <1>4, SavedHolds
    <2> QED BY <2>1, <2>2
<1>5. ASSUME NEW x \in accepted'
      PROVE  ran[x] > 0 \/ x \in told'
                 \/ \E t \in Thread : x \in Pending(th'[t]) /\ x \in OnDisk(t)'
    <2>1. CASE x \in accepted
        BY <1>3, <2>1
    <2>2. CASE x \notin accepted
        <3>1. PICK t \in now \cap Thread : x \in Elements(m[t].queue) /\ diskOk
            BY <1>5, <2>2 DEF Accepts
        <3> QED BY <1>4, <3>1
    <2> QED BY <2>1, <2>2
<1> QED BY <1>5 DEF Safe

(* The inductive invariant.                                                 *)
Sound == TurnsAgree /\ Exclusive /\ Safe /\ SentGoes

LEMMA HandsOverSound ==
    ASSUME TypeOK, EnginesOwned, Orderly, Sound, HandsOver
    PROVE  Sound'
<1>1. Calm
    BY DEF Calm, Sound
<1>2. PICK m, l, now, later : \E who \in SUBSET Thread, d \in SUBSET Msg :
        /\ Middle(m, l, engine', d) /\ Finish(m, l, who, now, later, d)
        /\ Accepts(m, now) /\ ran' = ran /\ diskOk' = diskOk
    BY DEF HandsOver
<1>3. PICK who \in SUBSET Thread, d \in SUBSET Msg :
        /\ Middle(m, l, engine', d) /\ Finish(m, l, who, now, later, d)
        /\ Accepts(m, now) /\ ran' = ran
    BY <1>2
<1>4. /\ m \in [Thread -> LiveThread] /\ l \in [Thread -> Ports]
      /\ \A t \in Thread : m[t].ready => Delivers(t)
    BY <1>3 DEF Middle, Handled
<1>5. PICK tried \in SUBSET who, goes \in SUBSET Thread :
        Finished(m, l, now, later, d, tried, goes)
    BY <1>3, <1>4, FinishIs
<1>6. TurnsAgree'
    BY <1>1, <1>3, <1>5, FinishAgrees
<1>7. Exclusive'
    BY <1>3, <1>5, FinishExclusive DEF Sound
<1>8. SentGoes'
    BY <1>3, <1>4, <1>5, FinishSends DEF Sound
<1>9. Safe'
    BY <1>1, <1>3, <1>5, FinishSafe DEF Sound
<1> QED BY <1>6, <1>7, <1>8, <1>9 DEF Sound

-----------------------------------------------------------------------------
(* Steps without a handler's end                                            *)

(* Nothing but one thread's record or port changes, and not what it holds.  *)
LEMMA AsideSound ==
    ASSUME TypeOK, EnginesOwned, Orderly, Sound, NEW t \in Thread,
           SubmitRefused(t) \/ \E k \in {"command", "pick"} : PassThrough(t, k)
    PROVE  Sound'
<1>1. Calm /\ Agree(th, link, engine)
    BY DEF Calm, Sound, TurnsAgree
<1>2. /\ store' = store /\ engine' = engine /\ told' = told
      /\ accepted' = accepted /\ ran' = ran
    BY DEF SubmitRefused, PassThrough, Silent
<1>3. th \in [Thread -> LiveThread] /\ link \in [Thread -> Ports]
    BY DEF TypeOK
<1>4. PICK r, p :
        /\ th' = [th EXCEPT ![t] = r] /\ link' = [link EXCEPT ![t] = p]
        /\ r.eng = th[t].eng /\ r.draining = th[t].draining
        /\ r.queue = th[t].queue /\ r.sent = th[t].sent
        /\ Local(r, p, At(engine, th[t].eng))
        /\ Has(p.down, "input") => Has(link[t].down, "input")
        /\ \A x : Carried(x, link[t].down) => Carried(x, p.down)
    <2>1. CASE SubmitRefused(t)
        <3> DEFINE r == [th[t] EXCEPT !.hold = FALSE, !.cards = @ \ {"choice"}]
        <3>1. th' = [th EXCEPT ![t] = r] /\ link' = [link EXCEPT ![t] = link[t]]
            BY <1>3, <2>1 DEF SubmitRefused
        <3>2. /\ r.eng = th[t].eng /\ r.ready = th[t].ready /\ r.resume = th[t].resume
              /\ r.draining = th[t].draining /\ r.status = th[t].status
              /\ r.sent = th[t].sent /\ r.cards = th[t].cards \ {"choice"}
              /\ r.armed = th[t].armed /\ r.hold = FALSE
              /\ r.session = th[t].session /\ r.queue = th[t].queue
            BY <1>3 DEF LiveThread
        <3> HIDE DEF r
        <3>3. ~Resumes => r.session = FALSE /\ r.hold = FALSE
            BY <1>1, <1>3, <3>2, ThreadResumes DEF LiveThread
        <3>4. Local(r, link[t], At(engine, th[t].eng))
            BY <1>1, <3>2, <3>3, CalmThread, LocalSame
        <3> QED BY <3>1, <3>2, <3>4
    <2>2. CASE \E k \in {"command", "pick"} : PassThrough(t, k)
        <3> DEFINE p == Heeded(t, Signal("pick"))
        <3>1. PassThrough(t, "pick") /\ Delivers(t)
            BY <2>2 DEF PassThrough, Orderly
        <3>2. Signal("pick") \in Inbound /\ Signal("pick").kind = "pick"
            BY DEF Signal, Inbound
        <3>3. /\ th' = [th EXCEPT ![t] = th[t]] /\ link' = [link EXCEPT ![t] = p]
            BY <1>3, <3>1 DEF PassThrough, Heeded
        <3>4. /\ p.up = link[t].up /\ p.down = Append(link[t].down, Signal("pick"))
              /\ Has(p.down, "input") => Has(link[t].down, "input")
              /\ \A x : Carried(x, link[t].down) => Carried(x, p.down)
            BY <1>1, <3>1, <3>2, HeededSays
        <3> HIDE DEF p
        <3>5. Local(th[t], p, At(engine, th[t].eng))
            BY <1>1, <3>1, <3>4, CalmThread, LocalPicks
        <3> QED BY <3>3, <3>4, <3>5
    <2> QED BY <2>1, <2>2
<1>5. /\ th'[t] = r /\ link'[t] = p
      /\ \A u \in Thread : u # t => th'[u] = th[u] /\ link'[u] = link[u]
    BY <1>3, <1>4
<1>6. \A u \in Thread : Local(th'[u], link'[u], At(engine', th'[u].eng))
    BY <1>1, <1>2, <1>4, <1>5 DEF Agree
<1>7. TurnsAgree'
    BY <1>2, <1>6 DEF TurnsAgree, Agree, Sound
<1>8. \A u \in Thread : Busy(th'[u], link'[u], engine') => Busy(th[u], link[u], engine)
    BY <1>2, <1>4, <1>5 DEF Busy, Runs, Up
<1>9. Exclusive'
    BY <1>8 DEF Exclusive, Sound
<1>10. \A u \in Thread : /\ Pending(th'[u]) = Pending(th[u]) /\ th'[u].sent = th[u].sent
                         /\ \A x : Carried(x, link[u].down) => Carried(x, link'[u].down)
    BY <1>4, <1>5 DEF Pending
<1>11. Safe' /\ SentGoes'
    BY <1>2, <1>10 DEF Safe, SentGoes, Sound, OnDisk
<1> QED BY <1>7, <1>9, <1>11 DEF Sound

-----------------------------------------------------------------------------
(* The disk and the app                                                     *)

LEMMA DiskSound ==
    ASSUME TypeOK, Sound, DiskTurns \/ \E t \in Thread : Flush(t)
    PROVE  Sound'
<1>1. th' = th /\ link' = link /\ engine' = engine
      /\ told' = told /\ accepted' = accepted /\ ran' = ran
    BY DEF DiskTurns, Flush, Silent
<1>2. ASSUME NEW u \in Thread
      PROVE  /\ store'[u].last = store[u].last
             /\ store'[u].disk \in {store[u].disk, store[u].last}
    <2>1. store \in [Thread -> Stored]
        BY DEF TypeOK
    <2>2. CASE DiskTurns
        BY <2>2 DEF DiskTurns
    <2>3. ASSUME NEW t \in Thread, Flush(t) PROVE <1>2!2
        BY <2>1, <2>3 DEF Flush, Stored
    <2> QED BY <2>2, <2>3
<1>3. Fresh(store')
    BY <1>2 DEF Fresh, Sound, TurnsAgree
<1>4. \A u \in Thread : OnDisk(u) \subseteq OnDisk(u)'
    BY <1>2 DEF OnDisk
<1>5. TurnsAgree' /\ Exclusive' /\ SentGoes'
    BY <1>1, <1>3 DEF Sound, TurnsAgree, Exclusive, SentGoes
<1>6. Safe'
    BY <1>1, <1>4 DEF Sound, Safe
<1> QED BY <1>5, <1>6 DEF Sound

LEMMA AdoptedIs ==
    ASSUME NEW s
    PROVE  LET r == Adopted(s)
           IN  /\ r.eng = NoSlot /\ r.draining = NoSlot /\ r.ready = FALSE /\ r.armed = FALSE
               /\ r.sent = {} /\ r.cards = {} /\ r.status = "stopped" /\ r.queue = s.queue
               /\ ~r.resume /\ ~r.hold /\ r.session = s.session
BY DEF Adopted

LEMMA AppCrashSound ==
    ASSUME TypeOK, Sound, AppCrash
    PROVE  Sound'
<1>1. /\ \A t \in Thread : /\ th'[t] = Adopted(store[t].disk) /\ link'[t] = Closed
                           /\ store'[t].disk = store[t].disk /\ store'[t].last = store[t].disk
                           /\ store[t].disk.sent \subseteq told'
      /\ \A e \in Slot : engine'[e] = FreeWorker
      /\ told \subseteq told' /\ accepted' = accepted /\ ran' = ran
    BY DEF AppCrash, Silent
<1>2. ASSUME NEW t \in Thread
      PROVE  /\ Local(th'[t], link'[t], At(engine', th'[t].eng))
             /\ ~Busy(th'[t], link'[t], engine')
    <2> DEFINE r == Adopted(store[t].disk)
    <2>1. /\ r.eng = NoSlot /\ r.draining = NoSlot /\ r.ready = FALSE /\ r.armed = FALSE
          /\ r.sent = {} /\ r.cards = {} /\ r.status = "stopped"
          /\ ~r.resume /\ ~r.hold /\ r.session = store[t].disk.session
        BY AdoptedIs
    <2>2. th'[t] = r /\ link'[t] = Closed
        BY <1>1
    <2> HIDE DEF r
    <2>3. ~Resumes => ~r.session
        BY <2>1 DEF Sound, TurnsAgree, Fresh
    <2>4. ~Up(r, At(engine', r.eng)) /\ At(engine', r.draining).run = NoRun
        BY <2>1, FreeAndBooting DEF Up, At
    <2>5. Local(r, Closed, At(engine', r.eng))
        BY <2>1, <2>3, <2>4, LocalClosed
    <2>6. ~Busy(r, Closed, engine')
        BY <2>4, ClosedSays DEF Busy, Runs
    <2> QED BY <2>2, <2>5, <2>6
<1>3. Settled(engine')
    BY <1>1, FreeAndBooting DEF Settled
<1>4. Fresh(store')
    BY <1>1 DEF Fresh, Sound, TurnsAgree
<1>5. TurnsAgree' /\ Exclusive'
    BY <1>2, <1>3, <1>4 DEF TurnsAgree, Agree, Exclusive
<1>6. SentGoes'
    BY <1>1, AdoptedIs DEF SentGoes
<1>7. ASSUME NEW x \in accepted
      PROVE  ran[x] > 0 \/ x \in told'
                 \/ \E t \in Thread : x \in Pending(th'[t]) /\ x \in OnDisk(t)'
    <2>1. CASE ran[x] > 0 \/ x \in told
        BY <1>1, <2>1
    <2>2. ASSUME NEW t \in Thread, x \in OnDisk(t)
          PROVE  x \in told' \/ (x \in Pending(th'[t]) /\ x \in OnDisk(t)')
        <3>1. x \in Held(store[t].disk) /\ (OnDisk(t)' = Held(store[t].disk))
            BY <1>1, <2>2 DEF OnDisk
        <3>2. th'[t].queue = store[t].disk.queue
            BY <1>1, AdoptedIs
        <3> QED BY <1>1, <3>1, <3>2 DEF Held, Pending
    <2> QED BY <2>1, <2>2 DEF Safe, Sound
<1>8. Safe'
    BY <1>1, <1>7 DEF Safe
<1> QED BY <1>5, <1>6, <1>8 DEF Sound

-----------------------------------------------------------------------------
(* The engine's steps                                                       *)

(* The worker e of t becomes w, takes a word off its port and says one.     *)
Spoken(e, t, w, took, said) ==
    /\ t \in Thread /\ th[t].eng = e /\ e \in Slot /\ engine[e].owner = t
    /\ engine[e].state \in Employed
    /\ Exchanges(link'[t], link[t], took, said) /\ Plain(link'[t])
    /\ link'[t].down \in {link[t].down, Tail(link[t].down)}
    /\ link'[t].down = link[t].down \/
           (link[t].down # <<>> /\ Head(link[t].down).kind = took)
    /\ \A u \in Thread : u # t => link'[u] = link[u]
    /\ engine'[e] = w /\ \A f \in Slot : f # e => engine'[f] = engine[f]
    /\ Rest

PlainlySays(out, said) ==
    \/ out = <<>> /\ said = "nothing"
    \/ \E y \in PlainOut : out = <<y>> /\ y.kind = said

LEMMA TakesSpoken ==
    ASSUME Calm, NEW e \in Slot, NEW kind, NEW w, NEW out, NEW said,
           Takes(e, kind, w, out), PlainlySays(out, said)
    PROVE  /\ Spoken(e, engine[e].owner, w, kind, said)
           /\ engine[e].state = "up" /\ Port(e) = link[engine[e].owner]
           /\ link[engine[e].owner].down # <<>>
           /\ Incoming(e) = Head(link[engine[e].owner].down)
           /\ Incoming(e) \in PlainIn /\ Incoming(e).kind = kind
<1> DEFINE t == engine[e].owner
           p == link[t]
<1>1. /\ engine[e].state = "up" /\ th[t].eng = e /\ p.down # <<>>
      /\ Head(p.down).kind = kind /\ Rest
      /\ link' = [link EXCEPT ![t] = [down |-> Tail(@.down), up |-> @.up \o out]]
      /\ engine' = [engine EXCEPT ![e] = w]
    BY DEF Takes, Serves, Port
<1>2. link \in [Thread -> Ports] /\ engine \in [Slot -> Worker]
    BY DEF Calm, TypeOK
<1>3. engine[e].state \in Employed /\ t \in Thread
    BY <1>1, <1>2 DEF Employed, Worker
<1>4. Plain(p)
    BY <1>3, CalmThread DEF Local
<1> HIDE DEF t
<1>5. /\ link'[t].down = Tail(p.down) /\ link'[t].up = p.up \o out
      /\ \A u \in Thread : u # t => link'[u] = link[u]
    BY <1>1, <1>2, <1>3
<1>6. engine'[e] = w /\ \A f \in Slot : f # e => engine'[f] = engine[f]
    BY <1>1, <1>2
<1>7. Exchanges(link'[t], p, kind, said) /\ Plain(link'[t])
    <2>1. \/ out = <<>> /\ said = "nothing"
          \/ \E y \in PlainOut : out = <<y>> /\ y.kind = said
        BY DEF PlainlySays
    <2>2. p.down # <<>> /\ Head(p.down).kind = kind /\ link'[t].down = Tail(p.down)
        BY <1>1, <1>5
    <2>3. link'[t].up = p.up \o out
        BY <1>5
    <2> HIDE DEF p
    <2> QED BY <1>4, <2>1, <2>2, <2>3, ExchangeIs
<1>8. Head(p.down) \in PlainIn
    BY <1>1, <1>4, PortAdds
<1>9. Spoken(e, t, w, kind, said)
    BY <1>1, <1>3, <1>5, <1>6, <1>7 DEF Spoken, t
<1> QED BY <1>1, <1>8, <1>9 DEF t, Port, Incoming

LEMMA SaysSpoken ==
    ASSUME Calm, NEW e \in Slot, NEW w, NEW out, NEW said,
           engine[e].state \in Employed,
           Says(e, w, out), PlainlySays(out, said)
    PROVE  Spoken(e, engine[e].owner, w, "nothing", said)
<1> DEFINE t == engine[e].owner
           p == link[t]
<1>1. /\ Rest /\ engine' = [engine EXCEPT ![e] = w]
      /\ link' = [link EXCEPT ![t].up = @ \o out]
    BY DEF Says
<1>2. link \in [Thread -> Ports] /\ engine \in [Slot -> Worker]
    BY DEF Calm, TypeOK
<1>3. t \in Thread /\ th[t].eng = e
    BY <1>2 DEF Worker, Calm, EnginesOwned, WorkersKnown
<1>4. Plain(p)
    BY <1>3, CalmThread DEF Local
<1> HIDE DEF t
<1>5. /\ link'[t].down = p.down /\ link'[t].up = p.up \o out
      /\ \A u \in Thread : u # t => link'[u] = link[u]
    BY <1>1, <1>2, <1>3 DEF Ports
<1>6. engine'[e] = w /\ \A f \in Slot : f # e => engine'[f] = engine[f]
    BY <1>1, <1>2
<1>7. Exchanges(link'[t], p, "nothing", said) /\ Plain(link'[t])
    BY <1>4, <1>5, ExchangeIs DEF PlainlySays
<1>8. Spoken(e, t, w, "nothing", said)
    BY <1>1, <1>3, <1>5, <1>6, <1>7 DEF Spoken, t
<1> QED BY <1>8 DEF t

(* A message on its way is the first of its port or stays on its way.       *)
LEMMA CarriedTaken ==
    ASSUME NEW S, NEW s \in Seq(S), s # <<>>, NEW x, Carried(x, s)
    PROVE  \/ Head(s).kind \in {"input", "steer"} /\ Head(s).msg = x
           \/ Carried(x, Tail(s))
<1>1. PICK j \in DOMAIN s : s[j].kind \in {"input", "steer"} /\ s[j].msg = x
    BY DEF Carried
<1>2. CASE j = 1
    BY <1>1, <1>2, OneLess
<1>3. ASSUME NEW i \in DOMAIN Tail(s), j = i + 1 PROVE Carried(x, Tail(s))
    <2>1. Tail(s)[i] = s[j]
        BY <1>3, OneLess
    <2> QED BY <1>1, <2>1 DEF Carried
<1> QED BY <1>2, <1>3, OneLess

LEMMA SpokenSound ==
    ASSUME Calm, Sound, NEW e, NEW t, NEW w, NEW took, NEW said,
           Spoken(e, t, w, took, said),
           Local(th[t], link'[t], w), w.steers = <<>>, w.state = "up",
           Has(link'[t].down, "input") \/ w.run # NoRun => Busy(th[t], link[t], engine),
           \A m \in Msg : ran[m] > 0 => ran'[m] > 0,
           \A m \in Msg : took = "input" /\ Head(link[t].down).msg = m => ran'[m] > 0
    PROVE  Sound'
<1>1. /\ th' = th /\ store' = store /\ told' = told /\ accepted' = accepted
      /\ t \in Thread /\ e \in Slot /\ th[t].eng = e
      /\ engine[e].owner = t /\ engine[e].state \in Employed
      /\ engine'[e] = w /\ \A f \in Slot : f # e => engine'[f] = engine[f]
      /\ \A u \in Thread : u # t => link'[u] = link[u]
    BY DEF Spoken, Rest
<1>2. /\ th \in [Thread -> LiveThread] /\ accepted \subseteq Msg /\ NoSlot \notin Slot
      /\ EnginesServe /\ DrainingExits
    BY ConstantsAssumption DEF Calm, TypeOK, EnginesOwned
<1>3. ASSUME NEW u \in Thread
      PROVE  /\ u # t => At(engine', th[u].eng) = At(engine, th[u].eng)
             /\ At(engine', th[u].draining) = At(engine, th[u].draining)
    <2>1. th[u].eng \in Slot \cup {NoSlot} /\ th[u].draining \in Slot \cup {NoSlot}
        BY <1>2 DEF LiveThread
    <2>2. th[u].draining # NoSlot => th[u].draining # e
        BY <1>1, <1>2 DEF DrainingExits, Employed
    <2>3. u # t /\ th[u].eng # NoSlot => th[u].eng # e
        BY <1>1, <1>2 DEF EnginesServe
    <2> QED BY <1>1, <2>1, <2>2, <2>3 DEF At
<1>4. At(engine', th[t].eng) = w
    BY <1>1, <1>2 DEF At
<1>5. ASSUME NEW u \in Thread
      PROVE  Local(th'[u], link'[u], At(engine', th'[u].eng))
    BY <1>1, <1>3, <1>4, CalmThread
<1>6. Settled(engine')
    <2>1. Settled(engine)
        BY DEF Sound, TurnsAgree
    <2> QED BY <1>1, <2>1 DEF Settled
<1>7. TurnsAgree'
    BY <1>1, <1>5, <1>6 DEF TurnsAgree, Agree, Sound
<1>8. ASSUME NEW u \in Thread, Busy(th'[u], link'[u], engine')
      PROVE  Busy(th[u], link[u], engine)
    <2>1. CASE u # t
        BY <1>1, <1>3, <1>8, <2>1 DEF Busy
    <2>2. CASE u = t /\ At(engine, th[t].draining).run # NoRun
        BY <2>2 DEF Busy
    <2>3. CASE u = t /\ At(engine, th[t].draining).run = NoRun
        BY <1>1, <1>3, <1>4, <1>8, <2>3 DEF Busy, Runs
    <2> QED BY <2>1, <2>2, <2>3
<1>9. Exclusive'
    BY <1>8 DEF Exclusive, Sound
<1>10. \A u \in Thread : OnDisk(u)' = OnDisk(u) /\ Pending(th'[u]) = Pending(th[u])
    BY <1>1 DEF OnDisk
<1>11. Safe'
    BY <1>1, <1>2, <1>10 DEF Safe, Sound
<1>12. ASSUME NEW u \in Thread, NEW m \in th[u].sent
       PROVE  ran'[m] > 0 \/ Carried(m, link'[u].down)
    <2>1. m \in Msg /\ (ran[m] > 0 \/ Carried(m, link[u].down))
        BY <1>2 DEF Sound, SentGoes, LiveThread
    <2>2. CASE ran[m] > 0 \/ link'[u].down = link[u].down
        BY <2>1, <2>2
    <2>3. CASE Carried(m, link[u].down) /\ link'[u].down # link[u].down
        <3>1. /\ u = t /\ link[t].down # <<>> /\ link'[t].down = Tail(link[t].down)
              /\ Head(link[t].down).kind = took
            BY <1>1, <2>3 DEF Spoken
        <3>2. Plain(link[t])
            BY <1>1, CalmThread DEF Local
        <3>3. Head(link[t].down) \in PlainIn /\ link[t].down \in Seq(PlainIn)
            BY <3>1, <3>2, PortAdds DEF Plain
        <3>4. \/ took \in {"input", "steer"} /\ Head(link[t].down).msg = m
              \/ Carried(m, link'[t].down)
            BY <2>3, <3>1, <3>3, CarriedTaken
        <3>5. took # "steer"
            BY <3>1, <3>3 DEF PlainIn
        <3> QED BY <2>1, <3>1, <3>4, <3>5
    <2> QED BY <2>1, <2>2, <2>3
<1>13. SentGoes'
    BY <1>1, <1>12 DEF SentGoes
<1> QED BY <1>7, <1>9, <1>11, <1>13 DEF Sound

LEMMA OwnWorker ==
    ASSUME Calm, NEW e \in Slot, engine[e].state \in Employed
    PROVE  LET g == engine[e]
               t == g.owner
           IN  /\ t \in Thread /\ th[t].eng = e /\ g \in Worker /\ g.steers = <<>>
               /\ g.state = "boot" => g.run = NoRun
               /\ Local(th[t], link[t], g)
               /\ Up(th[t], g) <=> g.state = "up"
               /\ Has(link[t].down, "input") \/ Runs(th[t], g) => Busy(th[t], link[t], engine)
               /\ th[t].eng # NoSlot
<1> DEFINE g == engine[e]
           t == g.owner
<1>1. g \in Worker /\ t \in Thread /\ th[t].eng = e /\ NoSlot \notin Slot
    BY ConstantsAssumption DEF Calm, TypeOK, Worker, EnginesOwned, WorkersKnown
<1>2. At(engine, th[t].eng) = g
    BY <1>1 DEF At
<1>3. g.steers = <<>> /\ (g.state = "boot" => g.run = NoRun)
    BY DEF Calm, TurnsAgree, Settled
<1>4. Local(th[t], link[t], g)
    BY <1>1, <1>2, CalmThread
<1>5. Up(th[t], g) <=> g.state = "up"
    BY <1>1 DEF Up
<1>6. Has(link[t].down, "input") \/ Runs(th[t], g) => Busy(th[t], link[t], engine)
    BY <1>2 DEF Busy
<1> QED BY <1>1, <1>3, <1>4, <1>5, <1>6

LEMMA InputTaken ==
    ASSUME NEW p2, NEW p, NEW took, NEW said, Exchanges(p2, p, took, said)
    PROVE  /\ Has(p2.down, "input") => Has(p.down, "input")
           /\ took # "nothing" => Has(p.down, took)
BY DEF Exchanges

(* A step of a worker that is up, or comes up, and begins no turn.          *)
LEMMA StepSound ==
    ASSUME Calm, Sound, NEW e \in Slot, NEW w, NEW took, NEW said,
           Spoken(e, engine[e].owner, w, took, said), ran' = ran, took # "input",
           Local(th[engine[e].owner], link'[engine[e].owner], w),
           w.state = "up", w.steers = <<>>,
           w.run = NoRun \/ (w.run = engine[e].run /\ engine[e].state = "up")
    PROVE  Sound'
<1> DEFINE t == engine[e].owner
<1>1. engine[e].state \in Employed /\ Exchanges(link'[t], link[t], took, said)
    BY DEF Spoken
<1>2. Has(link'[t].down, "input") => Has(link[t].down, "input")
    BY <1>1, InputTaken
<1>3. w.run # NoRun => Runs(th[t], engine[e])
    BY <1>1, OwnWorker DEF Runs
<1>4. Has(link'[t].down, "input") \/ w.run # NoRun => Busy(th[t], link[t], engine)
    BY <1>1, <1>2, <1>3, OwnWorker
<1> QED BY <1>4, SpokenSound

(* Words that a worker may say.                                             *)
LEMMA Words ==
    /\ \A k \in {"ready", "idle", "restored", "picked", "restoreFailed"} :
           PlainlySays(<<Signal(k)>>, k)
    /\ PlainlySays(<<>>, "nothing")
    /\ PlainlySays(<<Question("turn")>>, "ask")
<1>1. ASSUME NEW k \in {"ready", "idle", "restored", "picked", "restoreFailed"}
      PROVE  Signal(k) \in PlainOut /\ Signal(k).kind = k
    BY DEF Signal, PlainOut, Outbound
<1>2. Question("turn") \in PlainOut /\ Question("turn").kind = "ask"
    BY DEF Question, PlainOut, Outbound, EngineCard
<1> QED BY <1>1, <1>2 DEF PlainlySays

LEMMA BootSound ==
    ASSUME Calm, Sound, NEW e \in Slot, Boot(e)
    PROVE  Sound'
<1> DEFINE g == engine[e]
           w == [g EXCEPT !.state = "up"]
           t == g.owner
<1>1. /\ g.state = "boot" /\ g.state \in Employed /\ ran' = ran
      /\ Says(e, w, <<Signal("ready")>>)
    BY DEF Boot, Employed
<1>2. /\ Local(th[t], link[t], g) /\ g.run = NoRun /\ g.steers = <<>>
      /\ th[t].eng # NoSlot /\ g \in Worker
    BY <1>1, OwnWorker
<1>3. w.state = "up" /\ w.run = g.run /\ w.steers = g.steers
    BY <1>2 DEF Worker, WorkerRecord
<1>4. Spoken(e, t, w, "nothing", "ready")
    BY <1>1, Words, SaysSpoken
<1>5. Exchanges(link'[t], link[t], "nothing", "ready") /\ Plain(link'[t])
    BY <1>4 DEF Spoken
<1> HIDE DEF w
<1>6. Local(th[t], link'[t], w)
    BY <1>1, <1>2, <1>3, <1>5, LocalBoots
<1> QED BY <1>1, <1>2, <1>3, <1>4, <1>6, StepSound

LEMMA TakeInputSound ==
    ASSUME Calm, Sound, NEW e \in Slot, TakeInput(e)
    PROVE  Sound'
<1> DEFINE g == engine[e]
           x == Incoming(e)
           w == [g EXCEPT !.run = x.msg]
           t == g.owner
<1>1. PICK v : Takes(e, "input", v, <<>>)
    BY DEF TakeInput
<1>2. /\ Spoken(e, t, v, "input", "nothing") /\ g.state = "up"
      /\ x = Head(link[t].down) /\ x \in PlainIn /\ x.kind = "input"
    BY <1>1, Words, TakesSpoken
<1>3. /\ g.state \in Employed /\ Exchanges(link'[t], link[t], "input", "nothing")
      /\ Plain(link'[t])
    BY <1>2 DEF Spoken
<1>4. Has(link[t].down, "input")
    BY <1>3, InputTaken
<1>5. /\ Local(th[t], link[t], g) /\ g.steers = <<>> /\ Up(th[t], g) /\ g \in Worker
      /\ Busy(th[t], link[t], engine)
    BY <1>2, <1>3, <1>4, OwnWorker
<1>6. g.run = NoRun
    BY <1>4, <1>5 DEF Local, OneTurn, Runs
<1>7. Takes(e, "input", w, <<>>) /\ Acts(<<x.msg>>)
    BY <1>6 DEF TakeInput
<1>8. Spoken(e, t, w, "input", "nothing")
    BY <1>7, Words, TakesSpoken
<1>9. x.msg \in Msg /\ x.msg # NoRun
    BY <1>2, ConstantsAssumption DEF PlainIn, Inbound
<1>10. w.state = "up" /\ w.run # NoRun /\ w.steers = <<>>
    BY <1>2, <1>5, <1>9 DEF Worker, WorkerRecord
<1>11. \A m \in Msg : /\ ran[m] > 0 => ran'[m] > 0
                      /\ m = x.msg => ran'[m] > 0
    <2>1. ran \in [Msg -> Nat]
        BY DEF Calm, TypeOK
    <2>2. x.msg \in Elements(<<x.msg>>)
        BY DEF Elements
    <2> HIDE DEF x
    <2> QED BY <1>7, <2>1, <2>2 DEF Acts
<1>12. \A m \in Msg : "input" = "input" /\ Head(link[t].down).msg = m => ran'[m] > 0
    BY <1>2, <1>11
<1>13. \A m \in Msg : ran[m] > 0 => ran'[m] > 0
    BY <1>11
<1> HIDE DEF w, x
<1>14. Local(th[t], link'[t], w)
    BY <1>3, <1>4, <1>5, <1>10, LocalBegins
<1> HIDE DEF t
<1> QED BY <1>5, <1>8, <1>10, <1>12, <1>13, <1>14, SpokenSound

LEMMA TakeAsideSound ==
    ASSUME Calm, Sound, NEW e \in Slot, TakeInterrupt(e) \/ TakeResume(e) \/ TakePick(e)
    PROVE  Sound'
<1> DEFINE g == engine[e]
           t == g.owner
<1>0. PICK w, out :
        \E took \in {"interrupt", "resume", "pick"},
           said \in {"nothing", "restored", "picked", "restoreFailed"} :
            /\ Takes(e, took, w, out) /\ PlainlySays(out, said) /\ ran' = ran
            /\ said \in {"restored", "restoreFailed"} => took = "resume"
            /\ \/ w = g
               \/ /\ took = "interrupt"
                  /\ w = [g EXCEPT !.asking = {},
                                   !.steers = IF g.run = NoRun THEN @ ELSE <<>>]
    <2>1. CASE TakeInterrupt(e)
        <3>1. Takes(e, "interrupt", [g EXCEPT !.asking = {},
                    !.steers = IF g.run = NoRun THEN @ ELSE <<>>], <<>>) /\ ran' = ran
            BY <2>1 DEF TakeInterrupt
        <3>2. PlainlySays(<<>>, "nothing")
            BY Words
        <3> QED BY <3>1, <3>2
    <2>2. CASE TakeResume(e)
        <3>1. PICK a \in {"restored", "restoreFailed", "nothing"} :
                Takes(e, "resume", g, IF a = "nothing" THEN <<>> ELSE <<Signal(a)>>)
            BY <2>2 DEF TakeResume
        <3>2. PlainlySays(IF a = "nothing" THEN <<>> ELSE <<Signal(a)>>, a)
            BY Words
        <3>3. ran' = ran
            BY <2>2 DEF TakeResume
        <3> QED BY <3>1, <3>2, <3>3
    <2>3. CASE TakePick(e)
        <3>1. PICK out : Takes(e, "pick", g, out) /\ out \in {<<>>, <<Signal("picked")>>}
            BY <2>3 DEF TakePick
        <3>2. \E said \in {"nothing", "picked"} : PlainlySays(out, said)
            BY <3>1, Words
        <3>3. ran' = ran
            BY <2>3 DEF TakePick
        <3> QED BY <3>1, <3>2, <3>3
    <2> QED BY <2>1, <2>2, <2>3
<1>1. PICK took \in {"interrupt", "resume", "pick"},
           said \in {"nothing", "restored", "picked", "restoreFailed"} :
        /\ Takes(e, took, w, out) /\ PlainlySays(out, said) /\ ran' = ran
        /\ said \in {"restored", "restoreFailed"} => took = "resume"
        /\ \/ w = g
           \/ /\ took = "interrupt"
              /\ w = [g EXCEPT !.asking = {},
                               !.steers = IF g.run = NoRun THEN @ ELSE <<>>]
    BY <1>0
<1>2. /\ Spoken(e, t, w, took, said) /\ g.state = "up"
      /\ Incoming(e) \in PlainIn /\ Incoming(e).kind = took
    BY <1>1, TakesSpoken
<1>3. /\ g.state \in Employed /\ Exchanges(link'[t], link[t], took, said)
      /\ Plain(link'[t])
    BY <1>2 DEF Spoken
<1>4. /\ Local(th[t], link[t], g) /\ g.steers = <<>> /\ Up(th[t], g) /\ g \in Worker
    BY <1>2, <1>3, OwnWorker
<1>5. /\ w.state = "up" /\ w.run = g.run /\ w.steers = <<>>
      /\ w.asking = g.asking \/ took = "interrupt"
    BY <1>1, <1>2, <1>4 DEF Worker, WorkerRecord
<1>6. w.asking = g.asking \/ "ask" \notin Allowed
    BY <1>2, <1>5 DEF PlainIn
<1>7. Local(th[t], link'[t], w)
    BY <1>1, <1>3, <1>4, <1>5, <1>6, LocalAside
<1> QED BY <1>1, <1>2, <1>5, <1>7, StepSound

LEMMA TakeReplySound ==
    ASSUME Calm, Sound, NEW e \in Slot, TakeReply(e)
    PROVE  Sound'
<1> DEFINE g == engine[e]
           t == g.owner
           w == [g EXCEPT !.asking = @ \ {Incoming(e).card}]
<1>1. Takes(e, "reply", w, <<>>) /\ ran' = ran
    BY DEF TakeReply
<1>2. Spoken(e, t, w, "reply", "nothing") /\ g.state = "up"
    BY <1>1, Words, TakesSpoken
<1>3. /\ g.state \in Employed /\ Exchanges(link'[t], link[t], "reply", "nothing")
      /\ Plain(link'[t])
    BY <1>2 DEF Spoken
<1>4. Local(th[t], link[t], g) /\ g.steers = <<>> /\ Up(th[t], g) /\ g \in Worker
    BY <1>2, <1>3, OwnWorker
<1>5. w.state = "up" /\ w.run = g.run /\ w.steers = <<>>
    BY <1>2, <1>4 DEF Worker, WorkerRecord
<1>6. Has(link[t].down, "reply")
    BY <1>3, InputTaken
<1> HIDE DEF w
<1>7. Local(th[t], link'[t], w)
    BY <1>3, <1>4, <1>5, <1>6, LocalAnswered
<1> QED BY <1>1, <1>2, <1>5, <1>7, StepSound

LEMMA AskSound ==
    ASSUME Calm, Sound, NEW e \in Slot, Ask(e)
    PROVE  Sound'
<1> DEFINE g == engine[e]
           t == g.owner
           w == [g EXCEPT !.asking = @ \cup {"turn"}]
<1>1. /\ Says(e, w, <<Question("turn")>>) /\ ran' = ran /\ g.state = "up"
      /\ g.run # NoRun /\ "turn" \notin g.asking /\ "ask" \in Allowed
    BY DEF Ask, Serves
<1>2. g.state \in Employed
    BY <1>1 DEF Employed
<1>3. Local(th[t], link[t], g) /\ g.steers = <<>> /\ Up(th[t], g) /\ g \in Worker
    BY <1>1, <1>2, OwnWorker
<1>4. w.state = "up" /\ w.run = g.run /\ w.steers = <<>> /\ "turn" \in w.asking
    BY <1>1, <1>3 DEF Worker, WorkerRecord
<1>5. Spoken(e, t, w, "nothing", "ask")
    BY <1>1, <1>2, Words, SaysSpoken
<1>6. Exchanges(link'[t], link[t], "nothing", "ask") /\ Plain(link'[t])
    BY <1>5 DEF Spoken
<1> HIDE DEF w
<1>7. Local(th[t], link'[t], w)
    BY <1>1, <1>3, <1>4, <1>6, LocalAsks DEF Runs
<1> QED BY <1>1, <1>4, <1>5, <1>7, StepSound

LEMMA TurnEndsSound ==
    ASSUME Calm, Sound, NEW e \in Slot, TurnEnds(e)
    PROVE  Sound'
<1> DEFINE g == engine[e]
           t == g.owner
           w == [g EXCEPT !.run = NoRun, !.steers = <<>>]
<1>1. /\ g.state = "up" /\ ran' = ran /\ g.run # NoRun /\ "turn" \notin g.asking
      /\ Says(e, w, (IF g.steers = <<>> THEN <<>> ELSE <<Unused(g.steers)>>)
                        \o <<Signal("idle")>>)
    BY DEF TurnEnds, Serves
<1>2. g.state \in Employed
    BY <1>1 DEF Employed
<1>3. Local(th[t], link[t], g) /\ g.steers = <<>> /\ Up(th[t], g) /\ g \in Worker
    BY <1>1, <1>2, OwnWorker
<1>4. <<>> \o <<Signal("idle")>> = <<Signal("idle")>>
    BY ConcatEmptySeq, EmptySeq
<1>5. Says(e, w, <<Signal("idle")>>)
    BY <1>1, <1>3, <1>4
<1>6. w.state = "up" /\ w.run = NoRun /\ w.steers = <<>>
    BY <1>1, <1>3 DEF Worker, WorkerRecord
<1>7. Spoken(e, t, w, "nothing", "idle")
    BY <1>2, <1>5, Words, SaysSpoken
<1>8. Exchanges(link'[t], link[t], "nothing", "idle") /\ Plain(link'[t])
    BY <1>7 DEF Spoken
<1> HIDE DEF w
<1>9. Local(th[t], link'[t], w)
    BY <1>1, <1>3, <1>6, <1>8, LocalEnds DEF Runs
<1> QED BY <1>1, <1>6, <1>7, <1>9, StepSound

LEMMA EngineSound ==
    ASSUME Calm, Sound, NEW e \in Slot, EngineStep(e)
    PROVE  Sound'
<1>1. ASSUME NEW k \in {"steer", "command"}, NEW w, NEW out, Takes(e, k, w, out)
      PROVE  FALSE
    <2> DEFINE t == engine[e].owner
    <2>1. /\ engine[e].state = "up" /\ link[t].down # <<>> /\ Head(link[t].down).kind = k
        BY <1>1 DEF Takes, Serves, Port
    <2>2. Plain(link[t])
        BY <2>1, OwnWorker DEF Employed, Local
    <2>3. Head(link[t].down) \in PlainIn
        BY <2>1, <2>2, PortAdds
    <2> QED BY <2>1, <2>3 DEF PlainIn
<1>2. ~TakeSteer(e) /\ ~TakeCommand(e)
    BY <1>1 DEF TakeSteer, TakeCommand
<1>3. ~TurnTakesSteering(e)
    BY DEF TurnTakesSteering, Calm, TurnsAgree, Settled
<1>4. ~ContinuesAlone(e)
    BY DEF ContinuesAlone, Calm, Orderly
<1> QED BY <1>2, <1>3, <1>4, BootSound, TakeInputSound, TakeAsideSound, TakeReplySound,
           AskSound, TurnEndsSound DEF EngineStep

-----------------------------------------------------------------------------
(* The invariant, step by step.                                             *)

LEMMA SoundAtFirst == Init => Sound
<1> SUFFICES ASSUME Init PROVE Sound
    OBVIOUS
<1>1. /\ \A t \in Thread : /\ th[t] = InitialThread(t) /\ link[t] = Closed
                           /\ store[t].disk = Copy(InitialThread(t))
                           /\ store[t].last = Copy(InitialThread(t))
      /\ \A e \in Slot : engine[e] = FreeWorker
      /\ accepted = {}
    BY DEF Init
<1>2. ASSUME NEW t \in Thread
      PROVE  /\ Local(th[t], link[t], At(engine, th[t].eng))
             /\ ~Busy(th[t], link[t], engine)
             /\ th[t].sent = {}
             /\ ~Resumes => ~store[t].disk.session /\ ~store[t].last.session
    <2> DEFINE r == InitialThread(t)
    <2>1. /\ r.eng = NoSlot /\ r.draining = NoSlot /\ r.ready = FALSE /\ r.armed = FALSE
          /\ r.sent = {} /\ r.cards = {} /\ r.status \in {"stopped", "idle"}
          /\ ~r.resume /\ ~r.hold /\ r.session = (t \in Resumable)
        BY DEF InitialThread, Adopted
    <2>2. Copy(r).session = r.session
        BY DEF Copy
    <2>3. th[t] = r /\ link[t] = Closed
        BY <1>1
    <2>4. store[t].disk.session = r.session /\ store[t].last.session = r.session
        BY <1>1, <2>2
    <2> HIDE DEF r
    <2>5. ~Resumes => ~r.session
        BY <2>1 DEF Resumes
    <2>6. ~Up(r, At(engine, r.eng)) /\ At(engine, r.draining).run = NoRun
        BY <2>1, FreeAndBooting DEF Up, At
    <2>7. Local(r, Closed, At(engine, r.eng))
        BY <2>1, <2>5, <2>6, LocalClosed
    <2>8. ~Busy(r, Closed, engine)
        BY <2>6, ClosedSays DEF Busy, Runs
    <2> QED BY <2>1, <2>3, <2>4, <2>5, <2>7, <2>8
<1>3. Settled(engine)
    BY <1>1, FreeAndBooting DEF Settled
<1>4. TurnsAgree
    BY <1>2, <1>3 DEF TurnsAgree, Agree, Fresh
<1>5. Exclusive /\ SentGoes /\ Safe
    BY <1>1, <1>2 DEF Exclusive, SentGoes, Safe
<1> QED BY <1>4, <1>5 DEF Sound

(* What a handler hands to Finish, or a step of another kind.               *)
LEMMA StepIs ==
    ASSUME Calm, Next
    PROVE  \/ HandsOver
           \/ \E t \in Thread : SubmitRefused(t) \/ \E k \in {"command", "pick"} : PassThrough(t, k)
           \/ DiskTurns \/ \E t \in Thread : Flush(t)
           \/ AppCrash
           \/ \E e \in Slot : EngineStep(e)
<1>1. ASSUME NEW t \in Thread, ManagerStep(t)
      PROVE  \/ HandsOver \/ SubmitRefused(t) \/ Flush(t)
             \/ \E k \in {"command", "pick"} : PassThrough(t, k)
    <2>1. \A m : ~Steer(t, m)
        BY DEF Steer, Calm, Orderly
    <2>2. CASE \E m \in Msg : Submit(t, m) \/ Steer(t, m)
        BY <2>1, <2>2, SubmitHands
    <2>3. CASE \/ Interrupt(t) \/ CancelQueued(t)
               \/ Stop(t) \/ Reap(t) \/ Restart(t) \/ Start(t)
        BY <2>3, InterruptHands, CancelHands, StopHands, RestartHands, StartHands
    <2>4. CASE \/ \E c \in EngineCard : Reply(t, c)
               \/ \E fresh \in BOOLEAN : ResumeChoice(t, fresh)
        BY <2>4, ReplyHands, ChoiceHands
    <2>5. CASE \/ Receive(t) \/ Heartbeat(t) \/ ResumeDeadline(t)
               \/ EngineRestarts(t) \/ EngineStopping(t) \/ EngineGone(t)
        BY <2>5, ReceiveHands, BeatHands, DeadlineHands, RestartsHands, GoneHands
    <2> QED BY <1>1, <2>2, <2>3, <2>4, <2>5 DEF ManagerStep
<1>2. ASSUME NEW e \in Slot, Drained(e) PROVE HandsOver
    BY <1>2, DrainedHands
<1> QED BY <1>1, <1>2 DEF Next

LEMMA SoundStep ==
    ASSUME Orderly
    PROVE  TypeOK /\ EnginesOwned /\ Sound /\ [Next]_vars => Sound'
<1> SUFFICES ASSUME TypeOK, EnginesOwned, Sound, [Next]_vars PROVE Sound'
    OBVIOUS
<1>1. Calm
    BY DEF Calm, Sound
<1>2. CASE UNCHANGED vars
    BY <1>2 DEF vars, Sound, TurnsAgree, Exclusive, Safe, SentGoes, OnDisk
<1>3. CASE Next
    BY <1>1, <1>3, StepIs, HandsOverSound, AsideSound, DiskSound, AppCrashSound, EngineSound
<1> QED BY <1>2, <1>3

(* History only grows.                                                      *)
Grows == /\ accepted \subseteq accepted' /\ told \subseteq told'
         /\ \A m \in Msg : ran[m] > 0 => ran'[m] > 0

LEMMA HistoryGrows ==
    ASSUME Calm, [Next]_vars
    PROVE  Grows
<1>1. CASE HandsOver
    <2>1. PICK m, l, now, later : \E who \in SUBSET Thread, d \in SUBSET Msg :
              Finish(m, l, who, now, later, d) /\ Accepts(m, now) /\ ran' = ran
        BY <1>1 DEF HandsOver
    <2> QED BY <2>1 DEF Finish, Accepts, Grows
<1>2. CASE \/ UNCHANGED vars
           \/ \E t \in Thread : SubmitRefused(t) \/ \E k \in {"command", "pick"} : PassThrough(t, k)
           \/ DiskTurns \/ \E t \in Thread : Flush(t)
           \/ AppCrash
    BY <1>2 DEF vars, SubmitRefused, PassThrough, DiskTurns, Flush, AppCrash, Silent, Grows
<1>3. ASSUME NEW e \in Slot, EngineStep(e) PROVE Grows
    <2>1. accepted' = accepted /\ told' = told /\ (ran' = ran \/ \E s : Acts(s))
        BY <1>3 DEF EngineStep, Boot, TakeInput, TakeSteer, TakeInterrupt, TakeReply, TakeResume,
              TakePick, TakeCommand, TurnTakesSteering, Ask, TurnEnds, ContinuesAlone,
              Takes, Says, Rest
    <2>2. ran \in [Msg -> Nat]
        BY DEF Calm, TypeOK
    <2>3. ASSUME NEW s, Acts(s) PROVE \A m \in Msg : ran[m] > 0 => ran'[m] > 0
        BY <2>2, <2>3 DEF Acts
    <2> QED BY <2>1, <2>3 DEF Grows
<1> QED BY <1>1, <1>2, <1>3, StepIs

-----------------------------------------------------------------------------
(* What follows of each property.                                           *)

LEMMA OwnTurnIs ==
    ASSUME Calm, NEW t \in Thread, Turn(th[t], link[t], At(engine, th[t].eng))
    PROVE  th[t].eng # NoSlot /\ TurnOnItsWay(t)
<1>1. Local(th[t], link[t], At(engine, th[t].eng))
    BY CalmThread
<1>2. th[t].eng # NoSlot
    BY <1>1, CalmThread DEF Local, Shown, Delivers
<1>3. At(engine, th[t].eng) = engine[th[t].eng]
    BY <1>2 DEF At
<1> QED BY <1>2, <1>3 DEF Turn, Runs, Has, TurnOnItsWay

LEMMA StatusIsReal ==
    ASSUME Calm
    PROVE  WorkingIsReal /\ SentImpliesTurn /\ (~Resumes => NeedsYouIsReal)
<1>1. \A t \in Thread : Local(th[t], link[t], At(engine, th[t].eng))
    BY CalmThread
<1>2. WorkingIsReal
    BY <1>1, OwnTurnIs DEF WorkingIsReal, Local, Shown
<1>3. SentImpliesTurn
    BY <1>1, OwnTurnIs DEF SentImpliesTurn, Local, Shown
<1>4. ~Resumes => NeedsYouIsReal
    BY <1>1 DEF NeedsYouIsReal, Local, NoResume
<1> QED BY <1>2, <1>3, <1>4

LEMMA RunsAlone ==
    ASSUME Calm, Sound, "engineStop" \notin Allowed
    PROVE  OneTurnPerFolder
<1> SUFFICES ASSUME NEW e \in Slot, NEW f \in Slot, e # f,
                    engine[e].run # NoRun, engine[f].run # NoRun,
                    Together(engine[e].owner, engine[f].owner)
             PROVE  FALSE
    BY DEF OneTurnPerFolder
<1>1. ASSUME NEW g \in Slot, engine[g].run # NoRun
      PROVE  LET t == engine[g].owner
             IN  /\ t \in Thread /\ Busy(th[t], link[t], engine)
                 /\ \/ th[t].eng = g /\ th[t].draining = NoSlot
                    \/ th[t].draining = g
    <2> DEFINE t == engine[g].owner
    <2>1. engine[g] \in Worker /\ NoSlot \notin Slot
        BY ConstantsAssumption DEF Calm, TypeOK
    <2>2. engine[g].state \in {"up", "exiting"}
        <3>1. engine[g].state \in {"free", "boot", "up", "stopping", "exiting"}
            BY <2>1 DEF Worker, WorkerRecord
        <3> QED BY <1>1, <3>1 DEF Calm, TurnsAgree, Settled
    <2>3. CASE engine[g].state = "up"
        <3>1. t \in Thread /\ th[t].eng = g /\ Local(th[t], link[t], engine[g])
              /\ Runs(th[t], engine[g])
            BY <1>1, <2>3, OwnWorker DEF Employed, Runs
        <3>2. Busy(th[t], link[t], engine)
            BY <2>3, <3>1, OwnWorker DEF Employed
        <3>3. th[t].draining = NoSlot
            BY <3>1 DEF Local, Shown, Turn
        <3> QED BY <3>1, <3>2, <3>3
    <2>4. CASE engine[g].state = "exiting"
        <3>1. t \in Thread /\ th[t].draining = g
            BY <2>4 DEF Calm, EnginesOwned, WorkersKnown
        <3> QED BY <1>1, <2>1, <3>1 DEF Busy, At
    <2> QED BY <2>2, <2>3, <2>4
<1>2. CASE Overlap(engine[e].owner, engine[f].owner)
    BY <1>1, <1>2 DEF Sound, Exclusive
<1>3. CASE engine[e].owner = engine[f].owner
    BY <1>1, <1>3, ConstantsAssumption
<1> QED BY <1>2, <1>3 DEF Together

LEMMA KeptOnDisk ==
    ASSUME Safe
    PROVE  NoSilentLoss /\ Durable
BY DEF Safe, NoSilentLoss, Kept, Durable, OnDisk, Held

LEMMA FateIs ==
    ASSUME TypeOK, AtMostOnce, NoSilentLoss, NEW m \in Msg
    PROVE  /\ Fate(m) \in Promise!Fates
           /\ Fate(m) = "acted" <=> ran[m] > 0
           /\ Fate(m) = "accounted" <=> ~(ran[m] > 0) /\ m \in told
           /\ Fate(m) = "unsaved" => ~(ran[m] > 0) /\ m \notin told /\ m \notin accepted
<1>1. ran[m] \in Nat /\ ran[m] <= 1
    BY DEF TypeOK, AtMostOnce
<1>2. ran[m] > 0 => ran[m] = 1
    BY <1>1
<1>3. m \in accepted => ran[m] > 0 \/ m \in told \/ Kept(m)
    BY DEF NoSilentLoss
<1> QED BY <1>2, <1>3 DEF Fate, Promise!Fates

LEMMA PromiseStep ==
    ASSUME Orderly
    PROVE  /\ TypeOK /\ EnginesOwned /\ Sound /\ AtMostOnce
           /\ TypeOK' /\ Sound' /\ AtMostOnce' /\ [Next]_vars
           => [Promise!Next]_([m \in Msg |-> Fate(m)])
<1> SUFFICES ASSUME TypeOK, EnginesOwned, Sound, AtMostOnce,
                    TypeOK', Sound', AtMostOnce', [Next]_vars
             PROVE  Promise!Next
    OBVIOUS
<1> DEFINE f == [m \in Msg |-> Fate(m)]
           g == [m \in Msg |-> Fate(m)']
<1>1. NoSilentLoss /\ NoSilentLoss'
    <2>1. Safe => NoSilentLoss
        BY KeptOnDisk
    <2>2. Safe' => NoSilentLoss'
        BY DEF Safe, NoSilentLoss, Kept
    <2> QED BY <2>1, <2>2 DEF Sound
<1>2. Grows
    BY HistoryGrows DEF Calm, Sound
<1>3. ASSUME NEW m \in Msg
      PROVE  /\ Fate(m)' \in Promise!Fates
             /\ Fate(m)' = "acted" <=> ran'[m] > 0
             /\ Fate(m)' = "accounted" <=> ~(ran'[m] > 0) /\ m \in told'
             /\ Fate(m)' = "unsaved" => ~(ran'[m] > 0) /\ m \notin told' /\ m \notin accepted'
    <2>1. ran'[m] \in Nat /\ ran'[m] <= 1
        BY DEF TypeOK, AtMostOnce
    <2>2. ran'[m] > 0 => ran'[m] = 1
        BY <2>1
    <2>3. m \in accepted' => ran'[m] > 0 \/ m \in told' \/ Kept(m)'
        BY <1>1 DEF NoSilentLoss
    <2> QED BY <2>2, <2>3 DEF Fate, Promise!Fates
<1>4. ASSUME NEW m \in Msg PROVE Fate(m)' \in Promise!Successors(Fate(m))
    <2>1. /\ Fate(m) \in Promise!Fates
          /\ Fate(m) = "acted" <=> ran[m] > 0
          /\ Fate(m) = "accounted" <=> ~(ran[m] > 0) /\ m \in told
          /\ Fate(m) = "unsaved" => ~(ran[m] > 0) /\ m \notin told /\ m \notin accepted
        BY <1>1, FateIs
    <2>2. Fate(m) = "kept" => m \in accepted
        BY DEF Fate
    <2>3. /\ ran[m] > 0 => ran'[m] > 0
          /\ m \in told => m \in told' /\ (m \in accepted => m \in accepted')
        BY <1>2 DEF Grows
    <2>4. m \in accepted => m \in accepted'
        BY <1>2 DEF Grows
    <2>5. CASE Fate(m) = "unsaved"
        BY <1>3, <2>5 DEF Promise!Successors
    <2>6. CASE Fate(m) = "kept"
        BY <1>3, <2>2, <2>4, <2>6 DEF Promise!Successors, Promise!Fates
    <2>7. CASE Fate(m) = "accounted"
        BY <1>3, <2>1, <2>3, <2>7 DEF Promise!Successors, Promise!Fates
    <2>8. CASE Fate(m) = "acted"
        BY <1>3, <2>1, <2>3, <2>8 DEF Promise!Successors, Promise!Fates
    <2> QED BY <2>1, <2>5, <2>6, <2>7, <2>8 DEF Promise!Fates
<1>5. g \in [Msg -> Promise!Fates] /\ \A m \in Msg : g[m] \in Promise!Successors(f[m])
    BY <1>3, <1>4
<1>6. ([m \in Msg |-> Fate(m)])' = g
    OBVIOUS
<1> HIDE DEF g
<1> QED BY <1>5, <1>6 DEF Promise!Next

-----------------------------------------------------------------------------
(* The theorems                                                             *)

(* While the environment keeps to Orderly the manager and each engine agree *)
(* about the turn: what thread.manager.ts shows of a thread is what its     *)
(* engine does or is about to be told.                                      *)
THEOREM TurnsAreAgreed ==
    ASSUME Orderly
    PROVE  Spec => []Sound
<1>1. "restop" \notin Allowed
    BY DEF Orderly
<1>2. Spec => []EnginesOwned
    BY <1>1, EnginesAccountedFor
<1>3. TypeOK /\ EnginesOwned /\ Sound /\ [Next]_vars => Sound'
    BY SoundStep
<1> QED BY <1>2, <1>3, SoundAtFirst, TypeCorrect, PTL DEF Spec

(* The same with what it rests on.                                          *)
LEMMA AlwaysCalm ==
    ASSUME Orderly
    PROVE  Spec => [](Calm /\ Sound)
<1>1. "restop" \notin Allowed
    BY DEF Orderly
<1>2. Spec => []EnginesOwned
    BY <1>1, EnginesAccountedFor
<1>3. Spec => []Sound
    BY TurnsAreAgreed
<1>4. TypeOK /\ EnginesOwned /\ Sound => Calm /\ Sound
    BY DEF Calm, Sound
<1> QED BY <1>2, <1>3, <1>4, TypeCorrect, PTL

(* A thread shown as working, which takes its folder from the others, has a *)
(* turn, a message on its way to one or an idle on the way back: no handler *)
(* leaves the status behind (thread.manager.ts:900, :656 settleIfIdle).     *)
THEOREM WorkingStays ==
    ASSUME Orderly
    PROVE  Spec => []WorkingIsReal
<1>1. Calm /\ Sound => WorkingIsReal
    BY StatusIsReal
<1> QED BY <1>1, AlwaysCalm, PTL

(* A message recorded as sent belongs to a turn the thread shows, so that   *)
(* the idle of that turn settles it (thread.manager.ts:667).                *)
THEOREM SentStays ==
    ASSUME Orderly
    PROVE  Spec => []SentImpliesTurn
<1>1. Calm /\ Sound => SentImpliesTurn
    BY StatusIsReal
<1> QED BY <1>1, AlwaysCalm, PTL

(* A thread waits for a decision only while its turn does; where no         *)
(* conversation is resumed, for then an ended hold leaves the status.       *)
THEOREM NeedsYouStays ==
    ASSUME Orderly, ~Resumes
    PROVE  Spec => []NeedsYouIsReal
<1>1. Calm /\ Sound => NeedsYouIsReal
    BY StatusIsReal
<1> QED BY <1>1, AlwaysCalm, PTL

(* No two workers, current or still exiting, run a turn in one folder or in *)
(* one inside the other (thread.manager.ts:900 folderTaken, :1049 drain);   *)
(* where no worker that was told to stop is replaced while it still runs.   *)
THEOREM TurnsAreAlone ==
    ASSUME Orderly, "engineStop" \notin Allowed
    PROVE  Spec => []OneTurnPerFolder
<1>1. Calm /\ Sound => OneTurnPerFolder
    BY RunsAlone
<1> QED BY <1>1, AlwaysCalm, PTL

(* What submit() accepted is acted on, accounted for, or still in the       *)
(* inputs of its thread, through crashes, failing disks and restarts.       *)
THEOREM NothingIsLost ==
    ASSUME Orderly
    PROVE  Spec => []NoSilentLoss
<1>1. Calm /\ Sound => NoSilentLoss
    BY KeptOnDisk DEF Sound
<1> QED BY <1>1, AlwaysCalm, PTL

(* And it is on disk: an app that opens again finds it there                *)
(* (thread.manager.ts:431, "Saved before this returns").                    *)
THEOREM NothingIsForgotten ==
    ASSUME Orderly
    PROVE  Spec => []Durable
<1>1. Calm /\ Sound => Durable
    BY KeptOnDisk DEF Sound
<1> QED BY <1>1, AlwaysCalm, PTL

(* Manager, engines and storage together keep what MessageFate promises of  *)
(* every message.                                                           *)
THEOREM KeepsThePromise ==
    ASSUME Orderly
    PROVE  Spec => KeepsPromise
<1>1. Init => Promise!Init
    BY DEF Init, Promise!Init, Fate
<1>2. /\ TypeOK /\ EnginesOwned /\ Sound /\ AtMostOnce
      /\ TypeOK' /\ Sound' /\ AtMostOnce' /\ [Next]_vars
      => [Promise!Next]_([m \in Msg |-> Fate(m)])
    BY PromiseStep
<1>3. Calm /\ Sound => TypeOK /\ EnginesOwned /\ Sound
    BY DEF Calm
<1> QED BY <1>1, <1>2, <1>3, AlwaysCalm, ActedOnce, PTL DEF Spec, KeepsPromise, Promise!Spec
=============================================================================
