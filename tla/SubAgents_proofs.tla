--------------------------- MODULE SubAgents_proofs ---------------------------
(***************************************************************************)
(* Theorems about sub-agents and their slots, for any number of engines    *)
(* and sub-agents, any limit and every fault.                              *)
(***************************************************************************)
EXTENDS SubAgents, TLAPS, FiniteSetTheorems, SequenceTheorems

Words == {"ready", "success", "error"}
OpRecord == [do : {"none", "acquire", "boot", "leave", "release"},
             on : Task \cup {None}, at : {"", "open", "steal", "write"}, seen : SUBSET Task]
AgentRecord == [at : {"none", "asked", "booting", "working", "leaving", "exited"},
                ending : BOOLEAN, says : Seq(Words),
                code : {"", "0", "1"}, active : BOOLEAN, beat : BOOLEAN, owed : BOOLEAN,
                board : {"none", "running", "done", "failed"},
                promise : {"none", "open", "resolved", "empty", "rejected"}]

(* The worker has ended, or nobody waits until it has: its slot may be      *)
(* given back.                                                              *)
Gone(t) == agent[t].at = "exited" \/ Abandoned(t)

(* What a thread does on the ledger, and on whose behalf.                   *)
Asked(t) == agent[t] = [Unspawned EXCEPT !.at = "asked"]
Does(a) ==
    \/ op[a] = NoOp
    \/ /\ op[a].at \in {"open", "steal", "write"} /\ op[a].on \in Task
       /\ \/ op[a].do = "acquire" /\ a = Parent[op[a].on] /\ Asked(op[a].on)
          \/ op[a].do = "release" /\ a \in Engine /\ Gone(op[a].on)
          \/ op[a].do = "boot" /\ a = op[a].on /\ agent[a].at = "booting"
          \/ op[a].do = "leave" /\ a = op[a].on /\ agent[a].at = "leaving"
Shaped == \A a \in Thread : Does(a)
(* It does nothing for t on the ledger but give back its slot.              *)
Spares(b, t) == op[b] = NoOp \/ op[b].on # t \/ op[b].do = "release"

(* A worker has ended when it has posted how.                               *)
Said == \A t \in Task : \A i \in DOMAIN agent[t].says :
    agent[t].says[i] # "ready" => agent[t].at = "exited"
(* A promise is open from the worker's birth.                               *)
Opened == \A t \in Task : agent[t].promise = "open" => agent[t].at \notin {"none", "asked"}

-----------------------------------------------------------------------------
LEMMA RecordsTyped ==
    /\ NoOp \in OpRecord /\ Unspawned \in AgentRecord
    /\ [Unspawned EXCEPT !.at = "asked"] \in AgentRecord
<1>1. <<>> \in Seq(Words)
    BY EmptySeq
<1> QED BY <1>1 DEF NoOp, OpRecord, Unspawned, AgentRecord

LEMMA StateTyped ==
    TypeOK <=> /\ lock \in {"free", "held", "old"}
               /\ ledger \subseteq Task /\ expired \subseteq Task /\ up \subseteq Engine
               /\ op \in [Thread -> OpRecord] /\ agent \in [Task -> AgentRecord]
               /\ faults \in 0..MaxFaults /\ flaws \subseteq {"sleep", "steal"}
BY DEF TypeOK, OpRecord, AgentRecord, Words

LEMMA StateTypedNext ==
    TypeOK' <=> /\ lock' \in {"free", "held", "old"}
                /\ ledger' \subseteq Task /\ expired' \subseteq Task /\ up' \subseteq Engine
                /\ op' \in [Thread -> OpRecord] /\ agent' \in [Task -> AgentRecord]
                /\ faults' \in 0..MaxFaults /\ flaws' \subseteq {"sleep", "steal"}
BY DEF TypeOK, OpRecord, AgentRecord, Words

LEMMA Begun ==
    ASSUME TypeOK, NEW a \in Thread, NEW t \in Task,
           NEW do \in {"acquire", "boot", "leave", "release"},
           Begins(a, do, t)
    PROVE  /\ lock' \in {"free", "held", "old"} /\ op' \in [Thread -> OpRecord]
           /\ op'[a].do = do /\ op'[a].on = t /\ op'[a].at \in {"open", "write"}
           /\ \A b \in Thread \ {a} : op'[b] = op[b]
           /\ lock # "free" => lock' = lock /\ op'[a].at = "open"
           /\ lock = "free" => lock' = "held" /\ op'[a].at = "write" /\ op'[a].seen = Live
<1>1. op \in [Thread -> OpRecord] /\ Live \subseteq Task /\ lock \in {"free", "held", "old"}
    BY StateTyped DEF Live
<1>2. \A at \in {"open", "write"} : \A seen \in SUBSET Task :
          [do |-> do, on |-> t, at |-> at, seen |-> seen] \in OpRecord
    BY DEF OpRecord
<1> QED BY <1>1, <1>2 DEF Begins, Waits

LEMMA Ended ==
    ASSUME TypeOK, NEW a \in Thread, Ends(a)
    PROVE  /\ op' \in [Thread -> OpRecord] /\ op'[a] = NoOp
           /\ \A b \in Thread \ {a} : op'[b] = op[b]
BY RecordsTyped, StateTyped DEF Ends

LEMMA Was ==
    ASSUME TypeOK, NEW t \in Task, NEW r \in AgentRecord, Set(t, r)
    PROVE  /\ agent' \in [Task -> AgentRecord] /\ agent'[t] = r
           /\ \A u \in Task \ {t} : agent'[u] = agent[u]
BY StateTyped DEF Set

-----------------------------------------------------------------------------
(* Types, what each thread does, and what has been posted.                  *)

Basic == TypeOK /\ Shaped /\ Said /\ Opened

LEMMA Threads == Engine \subseteq Thread /\ Task \subseteq Thread
                 /\ \A t \in Task : Parent[t] \in Engine /\ t \notin Engine
BY CapacityAssumption DEF Thread

(* What the handlers make of a record: the fields they leave and set.       *)
LEMMA ExitedIs ==
    ASSUME NEW t \in Task, agent[t] \in AgentRecord, NEW code \in {"0", "1"}
    PROVE  /\ Exited(t, code) \in AgentRecord /\ Exited(t, code).at = "exited"
           /\ Exited(t, code).says = agent[t].says /\ Exited(t, code).board = agent[t].board
           /\ Exited(t, code).promise = agent[t].promise
           /\ ~Exited(t, code).ending
BY DEF AgentRecord, Exited

LEMMA SaysIs ==
    ASSUME NEW r \in AgentRecord, NEW words \in Seq(Words)
    PROVE  /\ [r EXCEPT !.says = words] \in AgentRecord
           /\ [r EXCEPT !.says = words].at = r.at
           /\ [r EXCEPT !.says = words].says = words
           /\ [r EXCEPT !.says = words].board = r.board
           /\ [r EXCEPT !.says = words].promise = r.promise
BY DEF AgentRecord

LEMMA OpenedIs ==
    ASSUME op \in [Thread -> OpRecord], NEW a \in Thread,
           NEW at \in {"open", "steal", "write"}, NEW l \in SUBSET Task,
           \/ op' = [op EXCEPT ![a].at = at, ![a].seen = l]
           \/ op' = [op EXCEPT ![a].at = at]
    PROVE  /\ op' \in [Thread -> OpRecord] /\ \A b \in Thread \ {a} : op'[b] = op[b]
           /\ op'[a].at = at /\ op'[a].on = op[a].on /\ op'[a].do = op[a].do
           /\ op'[a].seen \in {l, op[a].seen}
<1>1. op[a] \in OpRecord
    OBVIOUS
<1>2. CASE op' = [op EXCEPT ![a].at = at, ![a].seen = l]
    BY <1>1, <1>2 DEF OpRecord
<1>3. CASE op' = [op EXCEPT ![a].at = at]
    BY <1>1, <1>3 DEF OpRecord
<1> QED BY <1>2, <1>3

LEMMA OpensTyped ==
    ASSUME Basic, NEW a \in Thread,
           OpensLock(a) \/ FindsOldLock(a) \/ StealsLock(a)
    PROVE  Basic'
<1>1. /\ op \in [Thread -> OpRecord] /\ Live \in SUBSET Task
      /\ op[a].at # "" /\ agent' = agent
    BY StateTyped DEF Live, Basic, OpensLock, FindsOldLock, StealsLock
<1>2. PICK at \in {"open", "steal", "write"} :
          \/ op' = [op EXCEPT ![a].at = at, ![a].seen = Live]
          \/ op' = [op EXCEPT ![a].at = at]
    BY DEF OpensLock, FindsOldLock, StealsLock
<1>3. /\ op' \in [Thread -> OpRecord] /\ \A b \in Thread \ {a} : op'[b] = op[b]
      /\ op'[a].at = at /\ op'[a].on = op[a].on /\ op'[a].do = op[a].do
    BY <1>1, <1>2, OpenedIs
<1>4. TypeOK'
    BY <1>3, StateTyped, StateTypedNext DEF Basic, OpensLock, FindsOldLock, StealsLock, Unlock
<1>5. Shaped'
    <2>1. \A b \in Thread : op'[b] # op[b] =>
              /\ b = a /\ op[a] # NoOp /\ op'[a].at \in {"open", "steal", "write"}
              /\ op'[a].on = op[a].on /\ op'[a].do = op[a].do
        <3>1. op[a].at \in {"open", "steal", "write"} /\ op[a] # NoOp
            <4>1. op[a] \in OpRecord
                BY <1>1
            <4>2. op[a].at \in {"", "open", "steal", "write"}
                BY <4>1 DEF OpRecord
            <4>3. NoOp.at = ""
                BY DEF NoOp
            <4> QED BY <1>1, <4>2, <4>3
        <3> QED BY <1>1, <1>2, <1>3, <3>1
    <2>2. ASSUME NEW b \in Thread PROVE Does(b)'
        <3>1. Does(b) /\ agent' = agent
            BY <1>1 DEF Basic, Shaped
        <3>2. CASE op'[b] = op[b]
            BY <3>1, <3>2 DEF Does, Asked, Gone, Abandoned
        <3>3. CASE op'[b] # op[b]
            BY <2>1, <3>1, <3>3 DEF Does, Asked, Gone, Abandoned
        <3> QED BY <3>2, <3>3
    <2> QED BY <2>2 DEF Shaped
<1>6. Said' /\ Opened'
    BY <1>1 DEF Basic, Said, Opened
<1> QED BY <1>4, <1>5, <1>6 DEF Basic

(* A thread that says how it went, and ends.                                *)
LEMMA PostsTyped ==
    ASSUME Basic, NEW t \in Task, NEW words \in SUBSET Words, Posts(t, words)
    PROVE  /\ agent' \in [Task -> AgentRecord] /\ agent'[t].at = "exited"
           /\ \A u \in Task \ {t} : agent'[u] = agent[u]
           /\ agent'[t].board = agent[t].board /\ agent'[t].promise = agent[t].promise
<1>1. PICK w \in words : Set(t, [Exited(t, "0") EXCEPT !.says = Append(@, w)])
    BY DEF Posts
<1>2. agent[t] \in AgentRecord /\ agent[t].says \in Seq(Words)
    <2>1. agent[t] \in AgentRecord
        BY StateTyped DEF Basic
    <2> QED BY <2>1 DEF AgentRecord
<1>3. Append(agent[t].says, w) \in Seq(Words)
    BY <1>2, AppendProperties
<1> DEFINE q == Exited(t, "0")
           r == [q EXCEPT !.says = Append(agent[t].says, w)]
<1>4. /\ q \in AgentRecord /\ q.at = "exited" /\ q.says = agent[t].says
      /\ q.board = agent[t].board /\ q.promise = agent[t].promise
    BY <1>2, ExitedIs
<1>5. Set(t, r)
    BY <1>1, <1>4
<1> HIDE DEF q
<1>6. r \in AgentRecord /\ r.at = "exited" /\ r.board = agent[t].board /\ r.promise = agent[t].promise
    BY <1>3, <1>4, SaysIs
<1> QED BY <1>5, <1>6, Was DEF Basic

LEMMA Working ==
    ASSUME Basic, NEW a \in Thread, op[a].at # ""
    PROVE  op[a] # NoOp /\ Does(a) /\ op[a].on \in Task
<1>1. NoOp.at = ""
    BY DEF NoOp
<1>2. Does(a) /\ op[a] # NoOp
    BY <1>1 DEF Basic, Shaped
<1> QED BY <1>2 DEF Does

LEMMA NoOpIs == NoOp.at = "" /\ NoOp.do = "none"
BY DEF NoOp

LEMMA NoOpDoes ==
    ASSUME NEW a \in Thread, op'[a] = NoOp
    PROVE  Does(a)'
BY DEF Does

-----------------------------------------------------------------------------
(* What a step makes of an agent                                            *)

SameWord(t) == agent'[t].board = agent[t].board /\ agent'[t].promise = agent[t].promise
NoNewWord(t) == \A i \in DOMAIN agent'[t].says : \E j \in DOMAIN agent[t].says :
                   agent'[t].says[i] = agent[t].says[j]

(* Its spawn is asked for, and denied, made or failed.                      *)
Born(t) ==
    \/ agent[t] = Unspawned /\ Asked(t)'
    \/ Asked(t) /\ agent'[t] = Unspawned
    \/ /\ Asked(t) /\ agent'[t].says = <<>>
       /\ \/ agent'[t].at = "booting" /\ agent'[t].board = "running" /\ agent'[t].promise = "open"
          \/ agent'[t].at = "exited" /\ agent'[t].board = "failed" /\ agent'[t].promise = "rejected"

(* The worker goes on, or ends.                                             *)
Works(t) ==
    /\ Alive(t) /\ SameWord(t)
    /\ \/ agent'[t].at = "exited"
       \/ /\ \/ agent[t].at = "booting" /\ agent'[t].at = "working"
             \/ agent'[t].at = "leaving"
          /\ agent'[t].ending = agent[t].ending
          /\ \A i \in DOMAIN agent'[t].says :
                 agent'[t].says[i] = "ready"
                 \/ \E j \in DOMAIN agent[t].says : agent'[t].says[i] = agent[t].says[j]

(* The manager hears, settles or stops it.                                  *)
Managed(t) ==
    /\ agent'[t].at = agent[t].at /\ ~Asked(t) /\ (Gone(t) => Gone(t)')
    /\ NoNewWord(t)
    /\ \/ SameWord(t)
       \/ /\ agent[t].promise = "open"
          /\ \/ agent'[t].board = "done" /\ agent'[t].promise = "resolved"
             \/ agent'[t].board = "failed" /\ agent'[t].promise = "rejected"
             \/ agent'[t].board = agent[t].board /\ agent'[t].promise = "empty"
       \/ /\ agent[t].board = "running" /\ agent'[t].board = "failed"
          /\ agent'[t].promise = agent[t].promise

AgentStep(t) == agent'[t] = agent[t] \/ Born(t) \/ Works(t) \/ Managed(t)

LEMMA NewBorn ==
    /\ Unspawned.at = "none" /\ Unspawned.says = <<>> /\ Unspawned.board = "none"
    /\ Unspawned.promise = "none" /\ Unspawned.active = FALSE /\ Unspawned.ending = FALSE
    /\ \A t : Asked(t) => /\ agent[t].at = "asked" /\ agent[t].says = <<>>
                          /\ agent[t].board = "none" /\ agent[t].promise = "none"
                          /\ agent[t].owed = FALSE /\ agent[t].ending = FALSE
    /\ \A t : Asked(t)' => agent'[t].at = "asked" /\ agent'[t].says = <<>>
                           /\ agent'[t].board = "none" /\ agent'[t].promise = "none"
BY DEF Asked, Unspawned

LEMMA StepsSay ==
    ASSUME Said, Opened, \A t \in Task : AgentStep(t)
    PROVE  Said' /\ Opened'
<1>5. Opened'
    BY NewBorn DEF Opened, AgentStep, Born, Works, Managed, SameWord
<1> SUFFICES Said'
    BY <1>5
<1> SUFFICES ASSUME NEW t \in Task, NEW i \in DOMAIN agent'[t].says, agent'[t].says[i] # "ready"
             PROVE  agent'[t].at = "exited"
    BY DEF Said
<1>1. CASE agent'[t] = agent[t]
    BY <1>1 DEF Said
<1>2. CASE Born(t)
    <2>1. agent'[t].says = <<>>
        BY <1>2, NewBorn DEF Born
    <2> QED BY <2>1
<1>3. CASE Works(t)
    <2>1. \A j \in DOMAIN agent[t].says : agent[t].says[j] = "ready"
        BY <1>3 DEF Works, Alive, Said
    <2> QED BY <1>3, <2>1 DEF Works
<1>4. CASE Managed(t)
    BY <1>4 DEF Managed, NoNewWord, Said
<1> QED BY <1>1, <1>2, <1>3, <1>4 DEF AgentStep

(* A worker that has gone stays away.                                       *)
LEMMA GoneStays ==
    ASSUME NEW t \in Task, AgentStep(t)
    PROVE  Gone(t) => Gone(t)'
<1>1. CASE agent'[t] = agent[t]
    BY <1>1 DEF Gone, Abandoned
<1>2. CASE Born(t)
    <2>1. ~Gone(t)
        BY <1>2, NewBorn DEF Born, Gone, Abandoned
    <2> QED BY <2>1
<1>3. CASE Works(t)
    BY <1>3 DEF Works, SameWord, Alive, Gone, Abandoned
<1>4. CASE Managed(t)
    BY <1>4 DEF Managed
<1> QED BY <1>1, <1>2, <1>3, <1>4 DEF AgentStep

(* The other threads do what they did, when one agent changes that they do  *)
(* nothing for but give back its slot.                                      *)
LEMMA Others ==
    ASSUME Basic, NEW t \in Task, NEW b \in Thread, op'[b] = op[b],
           agent' \in [Task -> AgentRecord],
           \A u \in Task \ {t} : agent'[u] = agent[u], AgentStep(t),
           \/ agent'[t].at = agent[t].at /\ ~Asked(t)
           \/ Spares(b, t)
    PROVE  Does(b)'
<1>1. Does(b) /\ (Gone(t) => Gone(t)')
    BY GoneStays DEF Basic, Shaped
<1>2. \A u \in Task \ {t} : (Gone(u) => Gone(u)') /\ (Asked(u) => Asked(u)')
    BY DEF Gone, Abandoned, Asked
<1>3. CASE op[b] = NoOp
    BY <1>3 DEF Does
<1>4. CASE op[b] # NoOp /\ op[b].on # t
    <2>1. op[b].do \in {"boot", "leave"} /\ b = op[b].on => agent'[b] = agent[b]
        BY <1>1, <1>4 DEF Does
    <2> QED BY <1>1, <1>2, <1>4, <2>1 DEF Does
<1>5. CASE op[b] # NoOp /\ op[b].on = t /\ op[b].do = "release"
    BY <1>1, <1>5 DEF Does
<1>6. CASE op[b] # NoOp /\ op[b].on = t /\ agent'[t].at = agent[t].at /\ ~Asked(t)
    BY <1>1, <1>6 DEF Does
<1> QED BY <1>3, <1>4, <1>5, <1>6 DEF Spares

(* A thread that starts an operation, or ends one.                          *)
LEMMA Turns ==
    ASSUME Basic, NEW a \in Thread, NEW t \in Task,
           agent' \in [Task -> AgentRecord],
           \A u \in Task \ {t} : agent'[u] = agent[u], AgentStep(t),
           \/ (agent'[t].at = agent[t].at /\ ~Asked(t))
           \/ \A b \in Thread \ {a} : Spares(b, t),
           \A b \in Thread \ {a} : op'[b] = op[b],
           Does(a)'
    PROVE  Shaped'
<1>1. ASSUME NEW b \in Thread \ {a} PROVE Does(b)'
    <2>1. /\ b \in Thread /\ op'[b] = op[b]
          /\ \/ agent'[t].at = agent[t].at /\ ~Asked(t)
             \/ Spares(b, t)
        OBVIOUS
    <2> QED BY <2>1, Others
<1> QED BY <1>1 DEF Shaped

(* At most its own thread and its spawner work for an agent on the ledger,  *)
(* but for one that gives back its slot.                                    *)
LEMMA WorksFor ==
    ASSUME Basic, NEW b \in Thread, NEW t \in Task, op[b] # NoOp, op[b].on = t
    PROVE  /\ Asked(t) => b = Parent[t] /\ op[b].do = "acquire"
           /\ agent[t] # Unspawned
           /\ ~Asked(t) => b = t \/ op[b].do = "release"
<1>1. Does(b)
    BY DEF Basic, Shaped
<1> QED BY <1>1, NewBorn DEF Does, Gone, Abandoned

Kept == Basic' /\ \A t \in Task : AgentStep(t)

(* An agent changes, and nobody else's work with it.                        *)
LEMMA OneAgent ==
    ASSUME NEW t \in Task, \A u \in Task \ {t} : agent'[u] = agent[u], AgentStep(t)
    PROVE  \A u \in Task : AgentStep(u)
BY DEF AgentStep

LEMMA NoAgent ==
    ASSUME agent' = agent
    PROVE  \A u \in Task : AgentStep(u)
BY DEF AgentStep

LEMMA OpensKept ==
    ASSUME Basic, NEW a \in Thread,
           OpensLock(a) \/ FindsOldLock(a) \/ StealsLock(a)
    PROVE  Kept
BY OpensTyped, NoAgent DEF Kept, OpensLock, FindsOldLock, StealsLock

LEMMA GivesUpKept ==
    ASSUME Basic, NEW a \in Thread, GivesUp(a)
    PROVE  Kept
<1> DEFINE t == op[a].on
<1>1. /\ op' \in [Thread -> OpRecord] /\ op'[a] = NoOp
      /\ \A b \in Thread \ {a} : op'[b] = op[b]
    BY Ended DEF Basic, GivesUp
<1>2. Does(a)' /\ op[a] # NoOp /\ Does(a) /\ t \in Task
    BY <1>1, NoOpDoes, Working DEF GivesUp
<1>3. \/ op[a].do = "acquire" /\ Set(t, Unspawned)
      \/ op[a].do = "boot" /\ Posts(a, {"error"})
      \/ op[a].do = "leave" /\ Posts(a, {"success", "error"})
      \/ op[a].do = "release" /\ agent' = agent
    BY <1>2 DEF GivesUp, Does
<1>4. /\ agent' \in [Task -> AgentRecord] /\ \A u \in Task \ {t} : agent'[u] = agent[u]
      /\ AgentStep(t)
      /\ (agent'[t].at = agent[t].at /\ ~Asked(t))
         \/ \A b \in Thread \ {a} : Spares(b, t)
    <2>1. CASE op[a].do = "acquire"
        <3>1. Asked(t) /\ Set(t, Unspawned)
            BY <1>2, <1>3, <2>1 DEF Does
        <3>2. \A b \in Thread \ {a} : Spares(b, t)
            BY <1>2, <3>1, WorksFor, NewBorn DEF Spares
        <3> QED BY <1>2, <3>1, <3>2, Was, RecordsTyped DEF AgentStep, Born, Basic
    <2>2. CASE op[a].do \in {"boot", "leave"}
        <3>1. a = t /\ agent[t].at \in {"booting", "leaving"} /\ Posts(t, {"success", "error"})
            BY <1>2, <1>3, <2>2 DEF Does, Posts
        <3>2. \A b \in Thread \ {a} : Spares(b, t)
            BY <1>2, <3>1, WorksFor, NewBorn DEF Spares
        <3> QED BY <1>2, <3>1, <3>2, PostsTyped DEF AgentStep, Works, Alive, SameWord, Words
    <2>3. CASE op[a].do = "release"
        BY <1>2, <1>3, <2>3, NewBorn, StateTyped DEF Does, Gone, Abandoned, Basic, AgentStep
    <2> QED BY <1>2, <2>1, <2>2, <2>3 DEF Does
<1>5. Shaped'
    BY <1>1, <1>2, <1>4, Turns
<1>6. TypeOK'
    BY <1>1, <1>4, StateTyped, StateTypedNext DEF Basic, GivesUp
<1>7. \A u \in Task : AgentStep(u)
    BY <1>2, <1>4, OneAgent
<1> QED BY <1>5, <1>6, <1>7, StepsSay DEF Kept, Basic

LEMMA BornIs ==
    ASSUME NEW t \in Task, Asked(t)
    PROVE  LET made == [agent[t] EXCEPT !.at = "booting", !.active = TRUE, !.beat = TRUE,
                                        !.board = "running", !.promise = "open"]
               lost == [agent[t] EXCEPT !.at = "exited",
                                        !.board = "failed", !.promise = "rejected"]
           IN  /\ made \in AgentRecord /\ made.at = "booting" /\ made.says = <<>>
               /\ made.board = "running" /\ made.promise = "open"
               /\ lost \in AgentRecord /\ lost.at = "exited" /\ lost.says = <<>>
               /\ lost.board = "failed" /\ lost.promise = "rejected"
<1>1. <<>> \in Seq(Words)
    BY EmptySeq
<1> QED BY <1>1 DEF Asked, Unspawned, AgentRecord

LEMMA Waited ==
    ASSUME TypeOK, NEW a \in Thread, NEW t \in Task,
           NEW do \in {"acquire", "boot", "leave", "release"}, Waits(a, do, t)
    PROVE  /\ op' \in [Thread -> OpRecord]
           /\ op'[a].do = do /\ op'[a].on = t /\ op'[a].at = "open"
           /\ \A b \in Thread \ {a} : op'[b] = op[b]
BY StateTyped DEF Waits, OpRecord

(* What is on the ledger when a spawn has been decided.                     *)
LEMMA AcquiresIs ==
    ASSUME Basic, NEW e \in Thread, NEW t \in Task, op[e].at = "write", op[e].on = t,
           op[e].do = "acquire", Acquires(e, t)
    PROVE  /\ op' \in [Thread -> OpRecord] /\ \A b \in Thread \ {e} : op'[b] = op[b]
           /\ op'[e].at # "write" /\ Does(e)'
           /\ agent' \in [Task -> AgentRecord] /\ \A u \in Task \ {t} : agent'[u] = agent[u]
           /\ Born(t)
           /\ \/ ledger' = ledger /\ agent'[t].at = "none"
              \/ /\ Room(op[e].seen) /\ ledger' = op[e].seen \cup {t}
                 /\ agent'[t].at \in {"booting", "exited"}
<1>1. Asked(t) /\ e = Parent[t] /\ e \in Engine
    <2>1. Does(e) /\ op[e] # NoOp
        BY Working
    <2>2. Asked(t) /\ e = Parent[t]
        BY <2>1 DEF Does
    <2> QED BY <2>1, <2>2, Threads
<1>2. CASE ~Room(op[e].seen)
    <2>1. Set(t, Unspawned) /\ Ends(e) /\ ledger' = ledger
        BY <1>2 DEF Acquires
    <2>2. /\ op' \in [Thread -> OpRecord] /\ op'[e] = NoOp
          /\ \A b \in Thread \ {e} : op'[b] = op[b]
        BY <2>1, Ended DEF Basic
    <2>3. op'[e].at # "write" /\ Does(e)'
        BY <2>2, NoOpDoes, NoOpIs
    <2>4. /\ agent' \in [Task -> AgentRecord] /\ agent'[t] = Unspawned
          /\ \A u \in Task \ {t} : agent'[u] = agent[u]
        BY <2>1, Was, RecordsTyped DEF Basic
    <2> QED BY <1>1, <2>1, <2>2, <2>3, <2>4, NewBorn DEF Born
<1>3. CASE Room(op[e].seen)
    <2> DEFINE made == [agent[t] EXCEPT !.at = "booting", !.active = TRUE, !.beat = TRUE,
                                        !.board = "running", !.promise = "open"]
               lost == [agent[t] EXCEPT !.at = "exited",
                                        !.board = "failed", !.promise = "rejected"]
    <2>1. /\ ledger' = op[e].seen \cup {t}
          /\ \/ Ends(e) /\ Set(t, made)
             \/ Waits(e, "release", t) /\ Set(t, lost)
        BY <1>3 DEF Acquires
    <2>2. /\ made \in AgentRecord /\ made.at = "booting" /\ made.says = <<>>
          /\ made.board = "running" /\ made.promise = "open"
          /\ lost \in AgentRecord /\ lost.at = "exited" /\ lost.says = <<>>
          /\ lost.board = "failed" /\ lost.promise = "rejected"
        BY <1>1, BornIs
    <2> HIDE DEF made, lost
    <2>3. CASE Ends(e) /\ Set(t, made)
        <3>1. /\ op' \in [Thread -> OpRecord] /\ op'[e] = NoOp
              /\ \A b \in Thread \ {e} : op'[b] = op[b]
            BY <2>3, Ended DEF Basic
        <3>2. op'[e].at # "write" /\ Does(e)'
            BY <3>1, NoOpDoes, NoOpIs
        <3>3. /\ agent' \in [Task -> AgentRecord] /\ agent'[t] = made
              /\ \A u \in Task \ {t} : agent'[u] = agent[u]
            BY <2>2, <2>3, Was DEF Basic
        <3> QED BY <1>1, <1>3, <2>1, <2>2, <3>1, <3>2, <3>3 DEF Born
    <2>4. CASE Waits(e, "release", t) /\ Set(t, lost)
        <3>1. /\ op' \in [Thread -> OpRecord]
              /\ op'[e].do = "release" /\ op'[e].on = t /\ op'[e].at = "open"
              /\ \A b \in Thread \ {e} : op'[b] = op[b]
            BY <2>4, Waited DEF Basic
        <3>2. /\ agent' \in [Task -> AgentRecord] /\ agent'[t] = lost
              /\ \A u \in Task \ {t} : agent'[u] = agent[u]
            BY <2>2, <2>4, Was DEF Basic
        <3>3. Does(e)'
            BY <1>1, <2>2, <3>1, <3>2 DEF Does, Gone
        <3> QED BY <1>1, <1>3, <2>1, <2>2, <3>1, <3>2, <3>3 DEF Born
    <2> QED BY <2>1, <2>3, <2>4
<1> QED BY <1>2, <1>3

(* A step of one thread about one agent.                                    *)
LEMMA StepKept ==
    ASSUME Basic, NEW a \in Thread, NEW t \in Task,
           op' \in [Thread -> OpRecord], \A b \in Thread \ {a} : op'[b] = op[b], Does(a)',
           agent' \in [Task -> AgentRecord], \A u \in Task \ {t} : agent'[u] = agent[u],
           AgentStep(t),
           \/ (agent'[t].at = agent[t].at /\ ~Asked(t))
           \/ \A b \in Thread \ {a} : Spares(b, t),
           lock' \in {"free", "held", "old"}, ledger' \subseteq Task, expired' \subseteq Task,
           up' \subseteq Engine, faults' \in 0..MaxFaults, flaws' \subseteq {"sleep", "steal"}
    PROVE  Kept
<1>1. TypeOK'
    BY StateTypedNext
<1>2. Shaped'
    BY Turns
<1>3. \A u \in Task : AgentStep(u)
    BY OneAgent
<1> QED BY <1>1, <1>2, <1>3, StepsSay DEF Kept, Basic

(* A step that only the ledger, the lock and the leases see.                *)
LEMMA UnmovedKept ==
    ASSUME Basic, op' = op, agent' = agent, lock' \in {"free", "held", "old"},
           ledger' \subseteq Task, expired' \subseteq Task, up' \subseteq Engine,
           faults' \in 0..MaxFaults, flaws' \subseteq {"sleep", "steal"}
    PROVE  Kept
<1>1. TypeOK'
    BY StateTyped, StateTypedNext DEF Basic
<1>2. Shaped' /\ Said' /\ Opened'
    BY DEF Basic, Shaped, Does, Asked, Gone, Abandoned, Said, Opened
<1> QED BY <1>1, <1>2, NoAgent DEF Kept, Basic

LEMMA BootedIs ==
    ASSUME NEW r \in AgentRecord
    PROVE  LET q == [r EXCEPT !.at = "working", !.says = Append(@, "ready")]
           IN  /\ q \in AgentRecord /\ q.at = "working" /\ q.ending = r.ending
               /\ q.board = r.board /\ q.promise = r.promise
               /\ \A i \in DOMAIN q.says :
                      q.says[i] = "ready" \/ \E j \in DOMAIN r.says : q.says[i] = r.says[j]
<1>1. r.says \in Seq(Words) /\ "ready" \in Words
    BY DEF AgentRecord, Words
<1>2. /\ Append(r.says, "ready") \in Seq(Words)
      /\ \A i \in DOMAIN Append(r.says, "ready") :
             \/ Append(r.says, "ready")[i] = "ready"
             \/ \E j \in DOMAIN r.says : Append(r.says, "ready")[i] = r.says[j]
    BY <1>1, AppendProperties
<1> QED BY <1>2 DEF AgentRecord

LEMMA GoneIs ==
    ASSUME NEW r \in AgentRecord,
           NEW at \in {"asked", "booting", "working", "leaving", "exited"}
    PROVE  LET q == [r EXCEPT !.at = at]
           IN  /\ q \in AgentRecord /\ q.at = at /\ q.ending = r.ending
               /\ q.board = r.board /\ q.promise = r.promise /\ q.says = r.says
               /\ (r.at = at => q = r)
BY DEF AgentRecord

LEMMA UnlockedIs ==
    ASSUME TypeOK, NEW a \in Thread, Unlock(a)
    PROVE  lock' \in {"free", "held", "old"} /\ flaws' \subseteq {"sleep", "steal"}
BY StateTyped DEF Unlock

LEMMA WritesKept ==
    ASSUME Basic, NEW a \in Thread, WritesLedger(a)
    PROVE  Kept
<1>1. /\ op[a] # NoOp /\ Does(a) /\ op[a].on \in Task /\ op[a].seen \subseteq Task
      /\ op[a].at = "write"
    <2>1. op[a] \in OpRecord /\ op[a].at = "write"
        BY StateTyped DEF Basic, WritesLedger
    <2>2. op[a].seen \subseteq Task
        BY <2>1 DEF OpRecord
    <2> QED BY <2>1, <2>2, Working
<1>2. /\ lock' \in {"free", "held", "old"} /\ flaws' \subseteq {"sleep", "steal"}
      /\ expired' \subseteq Task /\ up' \subseteq Engine /\ faults' \in 0..MaxFaults
    BY StateTyped, UnlockedIs DEF Basic, WritesLedger
<1>3. CASE op[a].do = "acquire"
    <2>1. PICK t \in Task : t = op[a].on
        BY <1>1
    <2>2. Acquires(a, t) /\ Asked(t)
        BY <1>1, <1>3, <2>1 DEF WritesLedger, Does
    <2>3. \A b \in Thread \ {a} : Spares(b, t)
        BY <1>1, <2>1, <2>2, WorksFor DEF Spares
    <2>4. /\ op' \in [Thread -> OpRecord] /\ \A b \in Thread \ {a} : op'[b] = op[b]
          /\ Does(a)'
          /\ agent' \in [Task -> AgentRecord] /\ \A u \in Task \ {t} : agent'[u] = agent[u]
          /\ Born(t)
          /\ \/ ledger' = ledger
             \/ ledger' = op[a].seen \cup {t}
        BY <1>1, <1>3, <2>1, <2>2, AcquiresIs
    <2>5. ledger' \subseteq Task
        BY <1>1, <2>4, StateTyped DEF Basic
    <2>6. AgentStep(t)
        BY <2>4 DEF AgentStep
    <2> QED BY <1>2, <2>3, <2>4, <2>5, <2>6, StepKept
<1>4. CASE op[a].do # "acquire"
    <2>1. Ends(a)
        BY <1>1, <1>4 DEF WritesLedger, Does
    <2>2. /\ op' \in [Thread -> OpRecord] /\ \A b \in Thread \ {a} : op'[b] = op[b]
          /\ Does(a)'
        BY <2>1, Ended, NoOpDoes DEF Basic
    <2>3. CASE op[a].do = "release"
        <3>1. ledger' \subseteq Task /\ agent' = agent /\ agent \in [Task -> AgentRecord]
            BY <1>1, <2>3, StateTyped DEF WritesLedger, Basic
        <3>2. ~Asked(op[a].on)
            BY <1>1, <2>3, NewBorn DEF Does, Gone, Abandoned
        <3>3. AgentStep(op[a].on)
            BY <3>1 DEF AgentStep
        <3> QED BY <1>1, <1>2, <2>2, <3>1, <3>2, <3>3, StepKept
    <2>4. CASE op[a].do = "boot"
        <3>1. /\ a \in Task /\ op[a].on = a /\ agent[a].at = "booting"
              /\ agent[a] \in AgentRecord
            BY <1>1, <2>4, StateTyped DEF Does, Basic
        <3> DEFINE q == [agent[a] EXCEPT !.at = "working", !.says = Append(@, "ready")]
        <3>2. Set(a, q) /\ ledger' \subseteq Task
            BY <1>1, <2>4 DEF WritesLedger
        <3>3. /\ q \in AgentRecord /\ q.at = "working" /\ q.ending = agent[a].ending
              /\ q.board = agent[a].board /\ q.promise = agent[a].promise
              /\ \A i \in DOMAIN q.says : \/ q.says[i] = "ready"
                                          \/ \E j \in DOMAIN agent[a].says : q.says[i] = agent[a].says[j]
            BY <3>1, BootedIs
        <3> HIDE DEF q
        <3>4. /\ agent' \in [Task -> AgentRecord] /\ agent'[a] = q
              /\ \A u \in Task \ {a} : agent'[u] = agent[u]
            BY <3>1, <3>2, <3>3, Was DEF Basic
        <3>5. AgentStep(a)
            BY <3>1, <3>3, <3>4 DEF AgentStep, Works, Alive, SameWord
        <3>6. \A b \in Thread \ {a} : Spares(b, a)
            BY <3>1, WorksFor, NewBorn DEF Spares
        <3> QED BY <1>2, <2>2, <3>1, <3>2, <3>4, <3>5, <3>6, StepKept
    <2>5. CASE op[a].do = "leave"
        <3>1. a \in Task /\ op[a].on = a /\ agent[a].at = "leaving"
            BY <1>1, <2>5 DEF Does
        <3>2. Posts(a, {"success", "error"}) /\ ledger' \subseteq Task
            BY <1>1, <2>5 DEF WritesLedger
        <3>3. /\ agent' \in [Task -> AgentRecord] /\ agent'[a].at = "exited"
              /\ \A u \in Task \ {a} : agent'[u] = agent[u]
              /\ SameWord(a)
            BY <3>1, <3>2, PostsTyped DEF SameWord, Words
        <3>4. AgentStep(a)
            BY <3>1, <3>3 DEF AgentStep, Works, Alive
        <3>5. \A b \in Thread \ {a} : Spares(b, a)
            BY <3>1, WorksFor, NewBorn DEF Spares
        <3> QED BY <1>2, <2>2, <3>1, <3>2, <3>3, <3>4, <3>5, StepKept
    <2> QED BY <1>1, <1>4, <2>3, <2>4, <2>5 DEF Does
<1> QED BY <1>3, <1>4

LEMMA RenewsKept ==
    ASSUME Basic, NEW a \in Thread, Renews(a)
    PROVE  Kept
<1>1. Live \subseteq Task
    BY StateTyped DEF Basic, Live
<1> QED BY <1>1, UnmovedKept, StateTyped DEF Basic, Renews

(* The worker starts to boot, or to leave.                                  *)
LEMMA WorkerKept ==
    ASSUME Basic, NEW t \in Task, Boots(t) \/ Finishes(t)
    PROVE  Kept
<1>1. agent[t] \in AgentRecord /\ t \in Thread
    BY StateTyped, Threads DEF Basic
<1>2. PICK do \in {"boot", "leave"}, at \in {"booting", "leaving"} :
          /\ WorkerStep(t, do, at)
          /\ \/ do = "boot" /\ at = "booting" /\ agent[t].at = "booting"
             \/ do = "leave" /\ at = "leaving" /\ agent[t].at = "working"
    BY DEF Boots, Finishes
<1> DEFINE q == [agent[t] EXCEPT !.at = at]
<1>3. Set(t, q) /\ Begins(t, do, t)
    BY <1>2 DEF WorkerStep
<1>4. /\ q \in AgentRecord /\ q.at = at /\ q.ending = agent[t].ending
      /\ q.board = agent[t].board /\ q.promise = agent[t].promise /\ q.says = agent[t].says
      /\ (agent[t].at = at => q = agent[t])
    <2>1. at \in {"asked", "booting", "working", "leaving", "exited"}
        OBVIOUS
    <2> QED BY <1>1, <2>1, GoneIs
<1> HIDE DEF q
<1>5. /\ agent' \in [Task -> AgentRecord] /\ agent'[t] = q
      /\ \A u \in Task \ {t} : agent'[u] = agent[u]
    BY <1>3, <1>4, Was DEF Basic
<1>6. /\ lock' \in {"free", "held", "old"} /\ op' \in [Thread -> OpRecord]
      /\ op'[t].do = do /\ op'[t].on = t /\ op'[t].at \in {"open", "write"}
      /\ \A b \in Thread \ {t} : op'[b] = op[b]
    BY <1>1, <1>3, Begun DEF Basic
<1>7. Does(t)'
    BY <1>2, <1>4, <1>5, <1>6 DEF Does
<1>8. AgentStep(t)
    BY <1>2, <1>4, <1>5 DEF AgentStep, Works, Alive, SameWord
<1>9. \A b \in Thread \ {t} : Spares(b, t)
    BY <1>2, WorksFor, NewBorn DEF Spares
<1>10. /\ ledger' \subseteq Task /\ expired' \subseteq Task
       /\ up' \subseteq Engine /\ faults' \in 0..MaxFaults /\ flaws' \subseteq {"sleep", "steal"}
    BY <1>2, StateTyped DEF Basic, WorkerStep
<1> QED BY <1>1, <1>5, <1>6, <1>7, <1>8, <1>9, <1>10, StepKept

(* Its thread ends, wherever it is.                                         *)
LEMMA ExitsKept ==
    ASSUME Basic, NEW t \in Task, Terminates(t) \/ Dies(t) \/ Vanishes(t)
    PROVE  Kept
<1>1. agent[t] \in AgentRecord /\ t \in Thread
    BY StateTyped, Threads DEF Basic
<1>2. PICK code \in {"0", "1"} : Exits(t, code)
    BY DEF Terminates, Dies, Vanishes
<1>3. /\ agent' \in [Task -> AgentRecord] /\ agent'[t] = Exited(t, code)
      /\ \A u \in Task \ {t} : agent'[u] = agent[u]
    BY <1>1, <1>2, ExitedIs, Was DEF Basic, Exits
<1>4. /\ op' \in [Thread -> OpRecord] /\ \A b \in Thread \ {t} : op'[b] = op[b]
      /\ Does(t)'
    BY <1>1, <1>2, Ended, NoOpDoes DEF Basic, Exits
<1>5. AgentStep(t)
    BY <1>1, <1>2, <1>3, ExitedIs DEF AgentStep, Works, Alive, SameWord, Exits
<1>6. \A b \in Thread \ {t} : Spares(b, t)
    BY <1>2, WorksFor, NewBorn DEF Exits, Spares
<1>7. faults' \in 0..MaxFaults
    BY StateTyped, CapacityAssumption DEF Basic, Terminates, Dies, Vanishes, Fault
<1>8. /\ lock' \in {"free", "held", "old"} /\ ledger' \subseteq Task /\ expired' \subseteq Task
      /\ up' \subseteq Engine /\ flaws' \subseteq {"sleep", "steal"}
    BY <1>2, StateTyped DEF Basic, Exits
<1> QED BY <1>1, <1>3, <1>4, <1>5, <1>6, <1>7, <1>8, StepKept

LEMMA SpawnsKept ==
    ASSUME Basic, NEW e \in Engine, NEW t \in Task, Spawns(e, t)
    PROVE  Kept
<1>1. /\ e \in Thread /\ e = Parent[t] /\ agent[t] = Unspawned /\ Begins(e, "acquire", t)
      /\ Set(t, [Unspawned EXCEPT !.at = "asked"])
    BY Threads DEF Spawns, Handles
<1>2. /\ agent' \in [Task -> AgentRecord] /\ agent'[t] = [Unspawned EXCEPT !.at = "asked"]
      /\ \A u \in Task \ {t} : agent'[u] = agent[u]
    BY <1>1, RecordsTyped, Was DEF Basic
<1>3. /\ lock' \in {"free", "held", "old"} /\ op' \in [Thread -> OpRecord]
      /\ op'[e].do = "acquire" /\ op'[e].on = t /\ op'[e].at \in {"open", "write"}
      /\ \A b \in Thread \ {e} : op'[b] = op[b]
    BY <1>1, Begun DEF Basic
<1>4. Asked(t)' /\ Does(e)'
    BY <1>1, <1>2, <1>3 DEF Does, Asked
<1>5. AgentStep(t)
    BY <1>1, <1>4 DEF AgentStep, Born
<1>6. \A b \in Thread \ {e} : Spares(b, t)
    BY <1>1, NewBorn, WorksFor DEF Spares
<1>7. /\ ledger' \subseteq Task /\ expired' \subseteq Task
      /\ up' \subseteq Engine /\ faults' \in 0..MaxFaults /\ flaws' \subseteq {"sleep", "steal"}
    BY StateTyped DEF Basic, Spawns
<1> QED BY <1>1, <1>2, <1>3, <1>4, <1>5, <1>6, <1>7, StepKept

(* What the manager makes of a record: never another place of its worker.   *)
SameButFor(q, r) ==
    q \in AgentRecord /\ q.at = r.at /\ q.says = r.says /\ q.ending = r.ending

LEMMA SettledIs ==
    ASSUME NEW r \in AgentRecord,
           NEW board \in {"none", "running", "done", "failed"},
           NEW promise \in {"none", "open", "resolved", "empty", "rejected"}
    PROVE  LET q == [r EXCEPT !.board = board, !.promise = promise]
           IN  SameButFor(q, r) /\ q.board = board /\ q.promise = promise
BY DEF AgentRecord, SameButFor

LEMMA EmptyIs ==
    ASSUME NEW r \in AgentRecord
    PROVE  LET q == [r EXCEPT !.promise = "empty"]
           IN  SameButFor(q, r) /\ q.board = r.board /\ q.promise = "empty"
BY DEF AgentRecord, SameButFor

LEMMA QuietIs ==
    ASSUME NEW r \in AgentRecord
    PROVE  /\ LET q == [r EXCEPT !.beat = FALSE]
              IN  SameButFor(q, r) /\ q.board = r.board /\ q.promise = r.promise
           /\ LET q == [r EXCEPT !.owed = FALSE]
              IN  SameButFor(q, r) /\ q.board = r.board /\ q.promise = r.promise
BY DEF AgentRecord, SameButFor

LEMMA FinalizedIs ==
    ASSUME NEW r \in AgentRecord
    PROVE  LET q == Finalized(r)
           IN  SameButFor(q, r) /\ q.board = r.board /\ q.promise = r.promise
BY DEF AgentRecord, SameButFor, Finalized

LEMMA StoppedIs ==
    ASSUME NEW r \in AgentRecord, NEW ending \in BOOLEAN
    PROVE  LET q == [r EXCEPT !.board = "failed", !.active = FALSE, !.ending = ending]
           IN  /\ q \in AgentRecord /\ q.at = r.at /\ q.says = r.says /\ q.ending = ending
               /\ q.board = "failed" /\ q.promise = r.promise
BY DEF AgentRecord

(* The manager hears of a sub-agent, and may start to give its slot back.   *)
LEMMA ManagerKept ==
    ASSUME Basic, NEW e \in Engine, NEW t \in Task, NEW r \in AgentRecord, Set(t, r),
           ~Asked(t), Managed(t),
           UNCHANGED <<ledger, expired, up, faults, flaws>>,
           \/ UNCHANGED <<lock, op>>
           \/ Begins(e, "release", t) /\ Gone(t)'
    PROVE  Kept
<1>1. e \in Thread
    BY Threads
<1>2. /\ agent' \in [Task -> AgentRecord] /\ agent'[t] = r
      /\ \A u \in Task \ {t} : agent'[u] = agent[u]
      /\ agent'[t].at = agent[t].at /\ AgentStep(t)
    BY Was DEF Basic, Managed, AgentStep
<1>3. /\ ledger' \subseteq Task /\ expired' \subseteq Task
      /\ up' \subseteq Engine /\ faults' \in 0..MaxFaults /\ flaws' \subseteq {"sleep", "steal"}
    BY StateTyped DEF Basic
<1>4. CASE UNCHANGED <<lock, op>>
    <2>1. /\ op' \in [Thread -> OpRecord] /\ lock' \in {"free", "held", "old"}
          /\ \A b \in Thread : op'[b] = op[b]
        BY <1>4, StateTyped DEF Basic
    <2>2. Does(e)'
        BY <1>1, <1>2, <2>1, Others
    <2> QED BY <1>1, <1>2, <1>3, <2>1, <2>2, StepKept
<1>5. CASE Begins(e, "release", t) /\ Gone(t)'
    <2>1. /\ lock' \in {"free", "held", "old"} /\ op' \in [Thread -> OpRecord]
          /\ op'[e].do = "release" /\ op'[e].on = t /\ op'[e].at \in {"open", "write"}
          /\ \A b \in Thread \ {e} : op'[b] = op[b]
        BY <1>1, <1>5, Begun DEF Basic
    <2>2. Does(e)'
        BY <1>2, <1>5, <2>1 DEF Does
    <2> QED BY <1>1, <1>2, <1>3, <2>1, <2>2, StepKept
<1> QED BY <1>4, <1>5

LEMMA HeardIs ==
    ASSUME NEW r \in AgentRecord, r.says # <<>>
    PROVE  LET q == [r EXCEPT !.says = Tail(@)]
           IN  /\ q \in AgentRecord /\ q.at = r.at /\ q.ending = r.ending
               /\ q.board = r.board /\ q.promise = r.promise
               /\ \A i \in DOMAIN q.says : \E j \in DOMAIN r.says : q.says[i] = r.says[j]
               /\ Head(r.says) \in Words /\ Head(r.says) = r.says[1] /\ 1 \in DOMAIN r.says
<1>1. r.says \in Seq(Words)
    BY DEF AgentRecord
<1>2. /\ Tail(r.says) \in Seq(Words) /\ Len(r.says) \in Nat \ {0}
      /\ Len(Tail(r.says)) = Len(r.says) - 1
      /\ \A i \in 1 .. Len(Tail(r.says)) : Tail(r.says)[i] = r.says[i + 1]
      /\ Head(r.says) \in Words /\ Head(r.says) = r.says[1]
    BY <1>1, HeadTailProperties, EmptySeq
<1>3. \A i \in DOMAIN Tail(r.says) : \E j \in DOMAIN r.says : Tail(r.says)[i] = r.says[j]
    BY <1>1, <1>2
<1>4. 1 \in DOMAIN r.says
    BY <1>1, <1>2
<1> QED BY <1>2, <1>3, <1>4 DEF AgentRecord

LEMMA OnMessageKept ==
    ASSUME Basic, NEW e \in Engine, NEW t \in Task, OnMessage(e, t)
    PROVE  Kept
<1>1. agent[t] \in AgentRecord /\ agent[t].says # <<>> /\ ~Asked(t)
    BY StateTyped, NewBorn DEF Basic, OnMessage
<1> DEFINE r == [agent[t] EXCEPT !.says = Tail(@)]
           m == Head(agent[t].says)
<1>2. /\ r \in AgentRecord /\ r.at = agent[t].at /\ r.ending = agent[t].ending
      /\ r.board = agent[t].board /\ r.promise = agent[t].promise
      /\ \A i \in DOMAIN r.says : \E j \in DOMAIN agent[t].says : r.says[i] = agent[t].says[j]
      /\ m \in Words /\ m = agent[t].says[1] /\ 1 \in DOMAIN agent[t].says
    BY <1>1, HeardIs
<1>3. m \in {"success", "error"} => agent[t].at = "exited"
    BY <1>2 DEF Basic, Said
<1>4. UNCHANGED <<ledger, expired, up, faults, flaws>>
    BY DEF OnMessage
<1>5. /\ ~Open(r) => Set(t, r) /\ UNCHANGED <<lock, op>>
      /\ Open(r) /\ m = "ready" => Set(t, [r EXCEPT !.beat = FALSE]) /\ UNCHANGED <<lock, op>>
      /\ Open(r) /\ m = "success" =>
             Settles(e, t, [r EXCEPT !.board = "done", !.promise = "resolved"])
      /\ Open(r) /\ m = "error" =>
             Settles(e, t, [r EXCEPT !.board = "failed", !.promise = "rejected"])
    BY DEF OnMessage
<1> HIDE DEF r, m
<1>6. CASE ~Open(r)
    <2>1. agent'[t] = r
        BY <1>2, <1>5, <1>6, Was DEF Basic
    <2>2. Managed(t)
        BY <1>1, <1>2, <2>1 DEF Managed, NoNewWord, SameWord, Gone, Abandoned
    <2> QED BY <1>1, <1>2, <1>4, <1>5, <1>6, <2>2, ManagerKept
<1>7. CASE Open(r) /\ m = "ready"
    <2> DEFINE q == [r EXCEPT !.beat = FALSE]
    <2>1. SameButFor(q, r) /\ q.board = r.board /\ q.promise = r.promise
        BY <1>2, QuietIs
    <2>2. Set(t, q) /\ UNCHANGED <<lock, op>>
        BY <1>5, <1>7
    <2> HIDE DEF q
    <2>3. agent'[t] = q
        BY <2>1, <2>2, Was DEF Basic, SameButFor
    <2>4. Managed(t)
        BY <1>1, <1>2, <2>1, <2>3 DEF Managed, NoNewWord, SameWord, Gone, Abandoned, SameButFor
    <2> QED BY <1>1, <1>4, <2>1, <2>2, <2>4, ManagerKept DEF SameButFor
<1>8. CASE Open(r) /\ m \in {"success", "error"}
    <2>1. PICK board \in {"done", "failed"}, promise \in {"resolved", "rejected"} :
              /\ Settles(e, t, [r EXCEPT !.board = board, !.promise = promise])
              /\ \/ board = "done" /\ promise = "resolved"
                 \/ board = "failed" /\ promise = "rejected"
        BY <1>5, <1>8
    <2> DEFINE s == [r EXCEPT !.board = board, !.promise = promise]
               q == Finalized(s)
    <2>2. Set(t, q) /\ Begins(e, "release", t)
        BY <2>1 DEF Settles
    <2>3. SameButFor(s, r) /\ s.board = board /\ s.promise = promise
        <3>1. /\ board \in {"none", "running", "done", "failed"}
              /\ promise \in {"none", "open", "resolved", "empty", "rejected"}
            OBVIOUS
        <3>2. r \in AgentRecord
            BY <1>2
        <3> QED BY <3>1, <3>2 DEF AgentRecord, SameButFor
    <2> HIDE DEF s
    <2>4. SameButFor(q, s) /\ q.board = board /\ q.promise = promise
        BY <2>3, FinalizedIs DEF SameButFor
    <2> HIDE DEF q
    <2>5. agent'[t] = q /\ agent[t].promise = "open"
        BY <1>2, <1>8, <2>2, <2>4, Was DEF Basic, SameButFor, Open
    <2>6. Managed(t)
        BY <1>1, <1>2, <2>1, <2>3, <2>4, <2>5 DEF Managed, NoNewWord, Gone, Abandoned, SameButFor
    <2>7. Gone(t)'
        BY <1>3, <1>8, <2>6 DEF Managed, Gone
    <2> QED BY <1>1, <1>4, <2>2, <2>4, <2>6, <2>7, ManagerKept DEF SameButFor
<1> QED BY <1>2, <1>6, <1>7, <1>8 DEF Words

LEMMA OnExitKept ==
    ASSUME Basic, NEW e \in Engine, NEW t \in Task, OnExit(e, t)
    PROVE  Kept
<1>1. /\ agent[t] \in AgentRecord /\ agent[t].at = "exited" /\ agent[t].promise = "open"
      /\ ~Asked(t) /\ UNCHANGED <<ledger, expired, up, faults, flaws>>
    BY StateTyped, NewBorn DEF Basic, OnExit, Open
<1>2. PICK s \in {Died(agent[t]), [agent[t] EXCEPT !.promise = "empty"]} : Settles(e, t, s)
    BY DEF OnExit
<1>3. /\ SameButFor(s, agent[t])
      /\ \/ s.board = "failed" /\ s.promise = "rejected"
         \/ s.board = agent[t].board /\ s.promise = "empty"
    <2>1. LET d == Died(agent[t])
          IN  SameButFor(d, agent[t]) /\ d.board = "failed" /\ d.promise = "rejected"
        BY <1>1, SettledIs DEF Died
    <2>2. CASE s = Died(agent[t])
        BY <2>1, <2>2
    <2>3. CASE s = [agent[t] EXCEPT !.promise = "empty"]
        BY <1>1, <2>3, EmptyIs
    <2> QED BY <1>2, <2>2, <2>3
<1> DEFINE q == Finalized(s)
<1>4. Set(t, q) /\ Begins(e, "release", t)
    BY <1>2 DEF Settles
<1>5. SameButFor(q, s) /\ q.board = s.board /\ q.promise = s.promise
    BY <1>3, FinalizedIs DEF SameButFor
<1> HIDE DEF q
<1>6. agent'[t] = q
    BY <1>4, <1>5, Was DEF Basic, SameButFor
<1>7. Managed(t)
    BY <1>1, <1>3, <1>5, <1>6 DEF Managed, NoNewWord, Gone, Abandoned, SameButFor
<1>8. Gone(t)'
    BY <1>1, <1>7 DEF Managed, Gone
<1> QED BY <1>1, <1>4, <1>5, <1>7, <1>8, ManagerKept DEF SameButFor

LEMMA TimesOutKept ==
    ASSUME Basic, NEW e \in Engine, NEW t \in Task, TimesOut(e, t)
    PROVE  Kept
<1>1. /\ agent[t] \in AgentRecord /\ agent[t].promise = "open" /\ ~Asked(t)
      /\ UNCHANGED <<ledger, expired, up, faults, flaws>>
      /\ Alive(t) \in BOOLEAN /\ (e \in Waiting) \in BOOLEAN /\ e = Parent[t]
    BY StateTyped, NewBorn DEF Basic, TimesOut, TimedOut, Handles, Open, Alive
<1> DEFINE d == Died(agent[t])
           r == [d EXCEPT !.active = FALSE, !.ending = Alive(t), !.owed = e \in Waiting]
           q == Finalized(r)
<1>2. \/ e \in Waiting /\ Set(t, r) /\ UNCHANGED <<lock, op>>
      \/ e \notin Waiting /\ Set(t, q) /\ Begins(e, "release", t)
    BY DEF TimesOut, TimedOut, Settles
<1>3. /\ r \in AgentRecord /\ r.at = agent[t].at /\ r.says = agent[t].says
      /\ r.ending = Alive(t) /\ r.board = "failed" /\ r.promise = "rejected"
    <2>1. SameButFor(d, agent[t]) /\ d.board = "failed" /\ d.promise = "rejected"
        BY <1>1, SettledIs DEF Died
    <2> HIDE DEF d
    <2>2. \A x, y \in BOOLEAN :
              LET b == [d EXCEPT !.active = FALSE, !.ending = x, !.owed = y]
              IN  /\ b \in AgentRecord /\ b.at = d.at /\ b.says = d.says
                  /\ b.ending = x /\ b.board = d.board /\ b.promise = d.promise
        BY <2>1 DEF SameButFor, AgentRecord
    <2>3. /\ r \in AgentRecord /\ r.at = d.at /\ r.says = d.says
          /\ r.ending = Alive(t) /\ r.board = d.board /\ r.promise = d.promise
        BY <1>1, <2>2
    <2> QED BY <2>1, <2>3 DEF SameButFor
<1> HIDE DEF r
<1>4. SameButFor(q, r) /\ q.board = r.board /\ q.promise = r.promise
    BY <1>3, FinalizedIs
<1> HIDE DEF q
<1>5. ASSUME NEW p \in {q, r}, Set(t, p)
      PROVE  p \in AgentRecord /\ Managed(t) /\ (e \notin Waiting => Gone(t)')
    <2>1. /\ p \in AgentRecord /\ p.at = agent[t].at /\ p.says = agent[t].says
          /\ p.ending = Alive(t) /\ p.board = "failed" /\ p.promise = "rejected"
        BY <1>3, <1>4, <1>5 DEF SameButFor
    <2>2. agent'[t] = p
        BY <1>5, <2>1, Was DEF Basic
    <2>3. Managed(t)
        BY <1>1, <2>1, <2>2 DEF Managed, NoNewWord, Gone, Abandoned
    <2>4. ASSUME e \notin Waiting PROVE Gone(t)'
        <3>1. CASE Alive(t)
            BY <1>1, <2>1, <2>2, <2>4, <3>1 DEF Gone, Abandoned
        <3>2. CASE ~Alive(t)
            BY <1>1, <2>1, <2>2, <3>2 DEF Basic, Opened, AgentRecord, Gone, Alive
        <3> QED BY <3>1, <3>2
    <2> QED BY <2>1, <2>3, <2>4
<1> QED BY <1>1, <1>2, <1>5, ManagerKept

LEMMA RepaysKept ==
    ASSUME Basic, NEW e \in Engine, NEW t \in Task, Repays(e, t)
    PROVE  Kept
<1>1. /\ agent[t] \in AgentRecord /\ agent[t].at = "exited"
      /\ ~Asked(t) /\ UNCHANGED <<ledger, expired, up, faults, flaws>>
    BY StateTyped, NewBorn DEF Basic, Repays
<1> DEFINE s == [agent[t] EXCEPT !.owed = FALSE]
           q == Finalized(s)
<1>2. Set(t, q) /\ Begins(e, "release", t)
    BY DEF Repays, Settles
<1>3. SameButFor(s, agent[t]) /\ s.board = agent[t].board /\ s.promise = agent[t].promise
    BY <1>1, QuietIs
<1> HIDE DEF s
<1>4. SameButFor(q, s) /\ q.board = s.board /\ q.promise = s.promise
    BY <1>3, FinalizedIs DEF SameButFor
<1> HIDE DEF q
<1>5. agent'[t] = q
    BY <1>2, <1>4, Was DEF Basic, SameButFor
<1>6. Managed(t)
    BY <1>1, <1>3, <1>4, <1>5 DEF Managed, NoNewWord, SameWord, Gone, Abandoned, SameButFor
<1>7. Gone(t)'
    BY <1>1, <1>6 DEF Managed, Gone
<1> QED BY <1>1, <1>2, <1>4, <1>6, <1>7, ManagerKept DEF SameButFor

LEMMA StopsKept ==
    ASSUME Basic, NEW e \in Engine, NEW t \in Task, Stops(e, t)
    PROVE  Kept
<1> DEFINE ending == agent[t].ending \/ (agent[t].active /\ Alive(t))
           q == [agent[t] EXCEPT !.board = "failed", !.active = FALSE, !.ending = ending]
<1>1. /\ agent[t] \in AgentRecord /\ agent[t].board = "running"
      /\ ~Asked(t) /\ UNCHANGED <<lock, op, ledger, expired, up, faults, flaws>>
      /\ ending \in BOOLEAN
    BY StateTyped, NewBorn DEF Basic, Stops
<1>2. Set(t, q)
    BY DEF Stops
<1>3. /\ q \in AgentRecord /\ q.at = agent[t].at /\ q.says = agent[t].says
      /\ q.ending = ending /\ q.board = "failed" /\ q.promise = agent[t].promise
    <2>1. agent[t] \in AgentRecord /\ ending \in BOOLEAN
        BY <1>1
    <2> HIDE DEF ending
    <2> QED BY <2>1, StoppedIs
<1> HIDE DEF q
<1>4. agent'[t] = q
    BY <1>2, <1>3, Was DEF Basic
<1>5. Managed(t)
    BY <1>1, <1>3, <1>4 DEF Managed, NoNewWord, Gone, Abandoned
<1> QED BY <1>1, <1>2, <1>3, <1>5, ManagerKept

(* An engine ends, and its sub-agents with it.                              *)
LEMMA EngineDiesKept ==
    ASSUME Basic, NEW e \in Engine, EngineDies(e)
    PROVE  Kept
<1> DEFINE mine == {t \in Task : Parent[t] = e}
<1>1. /\ op \in [Thread -> OpRecord] /\ agent \in [Task -> AgentRecord]
      /\ \A t \in Task : agent[t] \in AgentRecord
    BY StateTyped DEF Basic
<1>2. /\ op' = [a \in Thread |-> IF a = e \/ a \in mine THEN NoOp ELSE op[a]]
      /\ agent' = [t \in Task |->
             IF t \notin mine THEN agent[t]
             ELSE [agent[t] EXCEPT !.at = IF Alive(t) THEN "exited" ELSE @]]
      /\ UNCHANGED <<lock, ledger, expired, flaws>> /\ up' = up \ {e} /\ faults' \in 0..MaxFaults
    BY StateTyped, CapacityAssumption DEF EngineDies, Fault, Basic
<1>3. ASSUME NEW t \in Task
      PROVE  /\ agent'[t] \in AgentRecord
             /\ \/ agent'[t] = agent[t]
                \/ /\ t \in mine /\ Alive(t) /\ agent'[t].at = "exited" /\ SameWord(t)
    <2>1. CASE t \in mine /\ Alive(t)
        <3>1. agent'[t] = [agent[t] EXCEPT !.at = "exited"]
            BY <1>2, <2>1
        <3> DEFINE q == [agent[t] EXCEPT !.at = "exited"]
        <3>2. /\ q \in AgentRecord /\ q.at = "exited"
              /\ q.board = agent[t].board /\ q.promise = agent[t].promise
            <4>1. agent[t] \in AgentRecord
                BY <1>1
            <4> QED BY <4>1, GoneIs
        <3> HIDE DEF q
        <3> QED BY <2>1, <3>1, <3>2 DEF SameWord, q
    <2>2. CASE ~(t \in mine /\ Alive(t))
        <3>1. agent'[t] = agent[t]
            BY <1>1, <1>2, <2>2 DEF AgentRecord
        <3> QED BY <1>1, <3>1
    <2> QED BY <2>1, <2>2
<1>4. agent' \in [Task -> AgentRecord] /\ \A t \in Task : AgentStep(t)
    <2>1. DOMAIN agent' = Task /\ agent' = [t \in Task |-> agent'[t]]
        BY <1>2
    <2>2. agent' \in [Task -> AgentRecord]
        BY <1>3, <2>1
    <2>3. \A t \in Task : AgentStep(t)
        BY <1>3 DEF AgentStep, Works
    <2> QED BY <2>2, <2>3
<1>5. op' \in [Thread -> OpRecord]
    BY <1>1, <1>2, RecordsTyped
<1>6. Shaped'
    <2> SUFFICES ASSUME NEW a \in Thread PROVE Does(a)'
        BY DEF Shaped
    <2>1. CASE op'[a] = NoOp
        BY <2>1 DEF Does
    <2>2. CASE op'[a] # NoOp
        <3>1. a # e /\ a \notin mine /\ op'[a] = op[a] /\ op[a] # NoOp
            BY <1>2, <2>2
        <3>2. Does(a) /\ op[a].on \in Task
            BY <3>1 DEF Basic, Shaped, Does
        <3>3. \/ agent'[op[a].on] = agent[op[a].on]
              \/ op[a].on \in mine /\ Alive(op[a].on)
            BY <1>3, <3>2
        <3>4. CASE op[a].do = "release"
            BY <1>4, <3>1, <3>2, <3>4, GoneStays DEF Does
        <3>5. CASE op[a].do # "release"
            <4>1. op[a].on \in mine => ~Alive(op[a].on)
                BY <3>1, <3>2, <3>5, NewBorn DEF Does, Alive
            <4>2. op[a].do \in {"boot", "leave"} => op[a].on = a
                BY <3>1, <3>2 DEF Does
            <4> QED BY <3>1, <3>2, <3>3, <3>5, <4>1, <4>2 DEF Does, Asked
        <3> QED BY <3>4, <3>5
    <2> QED BY <2>1, <2>2
<1>7. TypeOK'
    BY <1>2, <1>4, <1>5, StateTyped, StateTypedNext DEF Basic
<1> QED BY <1>4, <1>6, <1>7, StepsSay DEF Kept, Basic

LEMMA WorldKept ==
    ASSUME Basic, \/ Sleeps \/ LockAges \/ \E t \in Task : Expires(t)
    PROVE  Kept
<1>1. CASE Sleeps
    BY <1>1, UnmovedKept, StateTyped, CapacityAssumption DEF Basic, Sleeps, Fault
<1>2. CASE LockAges
    BY <1>2, UnmovedKept, StateTyped DEF Basic, LockAges
<1>3. CASE \E t \in Task : Expires(t)
    BY <1>3, UnmovedKept, StateTyped DEF Basic, Expires
<1> QED BY <1>1, <1>2, <1>3

(* Every step keeps the shape of the state, and is one of few for an agent. *)
LEMMA NextKept ==
    ASSUME Basic, [Next]_vars
    PROVE  Kept
<1>1. CASE \E a \in Thread : Ledger(a)
    BY <1>1, OpensKept, GivesUpKept, WritesKept DEF Ledger
<1>2. CASE \E t \in Task :
               Worker(t) \/ Beats(t) \/ Finishes(t) \/ Dies(t) \/ Vanishes(t) \/ Expires(t)
    <2>1. \A t \in Task : Beats(t) => Renews(t) /\ t \in Thread
        BY Threads DEF Beats
    <2> QED BY <1>2, <2>1, WorkerKept, ExitsKept, RenewsKept, WorldKept DEF Worker
<1>3. CASE \E e \in Engine, t \in Task :
               Spawns(e, t) \/ ParentBeats(e, t) \/ Manager(e, t) \/ Stops(e, t)
    <2>1. \A e \in Engine, t \in Task : ParentBeats(e, t) => Renews(e) /\ e \in Thread
        BY Threads DEF ParentBeats
    <2> QED BY <1>3, <2>1, SpawnsKept, RenewsKept, OnMessageKept, OnExitKept, TimesOutKept,
               RepaysKept, StopsKept DEF Manager
<1>4. CASE \E e \in Engine : EngineDies(e)
    BY <1>4, EngineDiesKept
<1>5. CASE Sleeps \/ LockAges
    BY <1>5, WorldKept
<1>6. CASE UNCHANGED vars
    BY <1>6, UnmovedKept, StateTyped DEF Basic, vars
<1> QED BY <1>1, <1>2, <1>3, <1>4, <1>5, <1>6 DEF Next

LEMMA InitBasic == Init => Basic /\ BoardTrue
<1> SUFFICES ASSUME Init PROVE Basic /\ BoardTrue
    OBVIOUS
<1>1. TypeOK
    BY RecordsTyped, StateTyped, CapacityAssumption DEF Init
<1>2. Shaped
    BY DEF Init, Shaped, Does
<1>3. Said /\ Opened /\ BoardTrue
    BY NewBorn DEF Init, Said, Opened, BoardTrue
<1> QED BY <1>1, <1>2, <1>3 DEF Basic

(* Every variable has its type, and agent, worker and board agree, in every *)
(* reachable state.                                                         *)
THEOREM Types == Spec => []Basic
<1>1. Basic /\ [Next]_vars => Basic'
    BY NextKept DEF Kept
<1> QED BY <1>1, InitBasic, PTL DEF Spec

LEMMA StepsTell ==
    ASSUME BoardTrue, \A t \in Task : AgentStep(t)
    PROVE  BoardTrue'
<1> SUFFICES ASSUME NEW t \in Task
             PROVE  /\ agent'[t].board = "done" => agent'[t].promise = "resolved"
                    /\ agent'[t].promise = "rejected" => agent'[t].board = "failed"
                    /\ agent'[t].board = "running" => agent'[t].promise \in {"open", "empty"}
    BY DEF BoardTrue
<1>1. /\ agent[t].board = "done" => agent[t].promise = "resolved"
      /\ agent[t].promise = "rejected" => agent[t].board = "failed"
      /\ agent[t].board = "running" => agent[t].promise \in {"open", "empty"}
    BY DEF BoardTrue
<1>2. CASE agent'[t] = agent[t] \/ SameWord(t)
    BY <1>1, <1>2 DEF SameWord
<1>3. CASE Born(t)
    BY <1>3, NewBorn DEF Born
<1>4. CASE Managed(t)
    BY <1>1, <1>2, <1>4 DEF Managed
<1> QED BY <1>2, <1>3, <1>4 DEF AgentStep, Works

(* The board tells what the spawner was told, in every state.               *)
THEOREM BoardTells == Spec => []BoardTrue
<1>1. Basic /\ BoardTrue /\ [Next]_vars => BoardTrue'
    BY NextKept, StepsTell DEF Kept
<1> QED BY <1>1, InitBasic, Types, PTL DEF Spec

(* What arrives after a sub-agent was settled changes nothing of it.        *)
THEOREM Settled == Spec => StaysSettled
<1> DEFINE Stays(t) ==
        agent[t].promise \notin {"none", "open"} /\ agent[t].board # "running"
            => agent'[t].promise = agent[t].promise /\ agent'[t].board = agent[t].board
<1>1. ASSUME NEW t \in Task, AgentStep(t) PROVE Stays(t)
    BY <1>1, NewBorn DEF AgentStep, Born, Works, Managed, SameWord
<1>2. Basic /\ [Next]_vars => [\A t \in Task : Stays(t)]_vars
    BY <1>1, NextKept DEF Kept
<1>3. Spec => [][\A t \in Task : Stays(t)]_vars
    BY <1>2, Types, PTL DEF Spec
<1> QED BY <1>3 DEF StaysSettled

-----------------------------------------------------------------------------
(* The limit.  Until a sleep or a stolen lock, whoever replaces the ledger  *)
(* is alone to do it, and every sub-agent at work has a lease on it.        *)

Exclusive == \A a \in Thread :
    InSection(a) => lock = "held" /\ \A b \in Thread : InSection(b) => b = a
Leased == \A t \in Task : Executing(t) => t \in ledger \ expired
Counted ==
    /\ IsFiniteSet(ledger) /\ Cardinality(ledger) <= Limit /\ Leased
    /\ \A t \in ledger \cup expired : agent[t].at \notin {"none", "asked"}
    /\ \A a \in Thread : InSection(a) =>
           op[a].seen \subseteq ledger /\ \A t \in Task : Executing(t) => t \in op[a].seen
Sound == flaws = {} => Exclusive /\ Counted

(* Nobody goes in, or one does that finds the lock free.                    *)
Stands == \A b \in Thread : InSection(b)' => op'[b] = op[b] /\ lock' = lock
Enters(a) ==
    /\ lock = "free" /\ lock' = "held" /\ op'[a].seen = Live
    /\ \A b \in Thread \ {a} : op'[b] = op[b]
Orderly == Stands \/ \E a \in Thread : Enters(a)
NobodyInside == \A a \in Thread : ~InSection(a)

(* No worker is created.                                                    *)
Unborn == \A t \in Task : Asked(t) => agent'[t].at # "booting"

LEMMA StaysBorn ==
    ASSUME NEW t \in Task, AgentStep(t)
    PROVE  /\ agent[t].at \notin {"none", "asked"} => agent'[t].at \notin {"none", "asked"}
           /\ Unborn => (Executing(t)' => Executing(t))
<1>1. CASE agent'[t] = agent[t]
    BY <1>1 DEF Executing, Abandoned
<1>2. CASE Born(t)
    BY <1>2, NewBorn DEF Born, Executing, Unborn
<1>3. CASE Works(t)
    BY <1>3 DEF Works, SameWord, Alive, Executing, Abandoned
<1>4. CASE Managed(t)
    BY <1>4 DEF Managed, Executing, Gone
<1> QED BY <1>1, <1>2, <1>3, <1>4 DEF AgentStep

(* What has to be shown of every step but the one that grants a lease.      *)
LEMMA ShrinksSound ==
    ASSUME Basic, Exclusive, Counted, \A t \in Task : AgentStep(t), Unborn,
           ledger' \subseteq ledger, expired' \subseteq expired \cup ledger,
           Leased', (Orderly /\ ledger' = ledger) \/ NobodyInside'
    PROVE  Exclusive' /\ Counted'
<1>1. Exclusive'
    <2>1. CASE Stands
        BY <2>1 DEF Stands, Exclusive, InSection
    <2>2. ASSUME NEW a \in Thread, Enters(a) PROVE Exclusive'
        BY <2>2 DEF Enters, Exclusive, InSection
    <2>3. CASE NobodyInside'
        BY <2>3 DEF NobodyInside, Exclusive
    <2> QED BY <2>1, <2>2, <2>3 DEF Orderly
<1>2. IsFiniteSet(ledger') /\ Cardinality(ledger') <= Limit
    <2>1. /\ IsFiniteSet(ledger') /\ Cardinality(ledger') <= Cardinality(ledger)
          /\ Cardinality(ledger') \in Nat /\ Cardinality(ledger) \in Nat
        BY FS_Subset, FS_CardinalityType DEF Counted
    <2> QED BY <2>1, CapacityAssumption DEF Counted
<1>3. \A t \in ledger' \cup expired' : agent'[t].at \notin {"none", "asked"}
    <2>1. \A t \in ledger' \cup expired' : t \in Task /\ t \in ledger \cup expired
        BY StateTyped DEF Basic
    <2> QED BY <2>1, StaysBorn DEF Counted
<1>4. ASSUME NEW a \in Thread, InSection(a)'
      PROVE  op'[a].seen \subseteq ledger' /\ \A t \in Task : Executing(t)' => t \in op'[a].seen
    <2>0. Orderly /\ ledger' = ledger
        BY <1>4 DEF NobodyInside
    <2>1. CASE Stands
        <3>1. InSection(a) /\ op'[a] = op[a]
            BY <1>4, <2>1 DEF Stands, InSection
        <3> QED BY <2>0, <3>1, StaysBorn DEF Counted
    <2>2. ASSUME NEW b \in Thread, Enters(b) PROVE a = b
        BY <1>4, <2>2 DEF Enters, Exclusive, InSection
    <2>3. CASE \E b \in Thread : Enters(b)
        <3>1. Enters(a)
            BY <2>2, <2>3
        <3>2. op'[a].seen = ledger \ expired
            BY <3>1 DEF Enters, Live
        <3>3. \A t \in Task : Executing(t)' => t \in ledger \ expired
            BY StaysBorn DEF Counted, Leased
        <3> QED BY <2>0, <3>2, <3>3
    <2> QED BY <2>0, <2>1, <2>3 DEF Orderly
<1> QED BY <1>1, <1>2, <1>3, <1>4 DEF Counted

(* A step that leaves the ledger and the leases alone.                      *)
LEMMA CalmSound ==
    ASSUME Basic, Sound, Kept, Unborn, ledger' = ledger, expired' = expired,
           flaws' = {} => flaws = {} /\ Orderly
    PROVE  Sound'
<1> SUFFICES ASSUME flaws' = {} PROVE Exclusive' /\ Counted'
    BY DEF Sound
<1>1. Exclusive /\ Counted /\ Orderly /\ \A t \in Task : AgentStep(t)
    BY DEF Sound, Kept
<1>2. Leased'
    BY <1>1, StaysBorn DEF Leased, Counted
<1> QED BY <1>1, <1>2, ShrinksSound

LEMMA BeginsOrderly ==
    ASSUME TypeOK, NEW a \in Thread, NEW t \in Task,
           NEW do \in {"acquire", "boot", "leave", "release"}, Begins(a, do, t)
    PROVE  Orderly
<1>1. CASE lock = "free"
    BY <1>1, Begun DEF Orderly, Enters
<1>2. CASE lock # "free"
    <2>1. /\ lock' = lock /\ op'[a].at = "open" /\ \A b \in Thread \ {a} : op'[b] = op[b]
        BY <1>2, Begun
    <2> QED BY <2>1 DEF Orderly, Stands, InSection
<1> QED BY <1>1, <1>2

LEMMA EndsOrderly ==
    ASSUME TypeOK, NEW a \in Thread, Ends(a), lock' = lock
    PROVE  Orderly
<1>1. op'[a].at # "write" /\ \A b \in Thread \ {a} : op'[b] = op[b]
    BY Ended, NoOpIs
<1> QED BY <1>1 DEF Orderly, Stands, InSection

(* A sub-agent that is not asked for is not the one that is born.           *)
LEMMA SetUnborn ==
    ASSUME Basic, NEW t \in Task, \A u \in Task \ {t} : agent'[u] = agent[u],
           ~Asked(t) \/ agent'[t].at # "booting"
    PROVE  Unborn
BY NewBorn DEF Unborn

LEMMA SetOthers ==
    ASSUME Basic, NEW t \in Task, NEW r, Set(t, r)
    PROVE  \A u \in Task \ {t} : agent'[u] = agent[u]
BY StateTyped DEF Basic, Set

LEMMA SameUnborn ==
    ASSUME agent' = agent
    PROVE  Unborn
BY NewBorn DEF Unborn

LEMMA OpensSound ==
    ASSUME Basic, Sound, NEW a \in Thread, OpensLock(a) \/ FindsOldLock(a) \/ StealsLock(a)
    PROVE  Sound'
<1>1. Kept /\ Unborn /\ ledger' = ledger /\ expired' = expired
    BY OpensKept, SameUnborn DEF OpensLock, FindsOldLock, StealsLock
<1>2. op \in [Thread -> OpRecord]
    BY StateTyped DEF Basic
<1>3. CASE OpensLock(a)
    <2>1. /\ \A b \in Thread \ {a} : op'[b] = op[b]
          /\ op'[a].seen = Live
        <3>1. op' = [op EXCEPT ![a] = [op[a] EXCEPT !.at = "write", !.seen = Live]]
            BY <1>3 DEF OpensLock
        <3>2. op[a] \in OpRecord
            BY <1>2
        <3> QED BY <1>2, <3>1, <3>2 DEF OpRecord
    <2> QED BY <1>1, <1>3, <2>1, CalmSound DEF OpensLock, Orderly, Enters
<1>4. CASE FindsOldLock(a) \/ StealsLock(a)
    <2>1. PICK at \in {"open", "steal"} : op' = [op EXCEPT ![a].at = at]
        BY <1>4 DEF FindsOldLock, StealsLock
    <2>2. op'[a].at # "write" /\ \A b \in Thread \ {a} : op'[b] = op[b]
        <3>1. /\ op'[a].at = at /\ \A b \in Thread \ {a} : op'[b] = op[b]
            BY <1>2, <2>1, OpenedIs
        <3> QED BY <3>1
    <2>3. flaws' = {} => flaws = {} /\ Orderly
        <3>1. CASE FindsOldLock(a)
            BY <2>2, <3>1 DEF FindsOldLock, Orderly, Stands, InSection
        <3>2. CASE StealsLock(a)
            BY <2>2, <3>2 DEF StealsLock, Unlock, Orderly, Stands, InSection
        <3> QED BY <1>4, <3>1, <3>2
    <2> QED BY <1>1, <2>3, CalmSound
<1> QED BY <1>3, <1>4

LEMMA GivesUpSound ==
    ASSUME Basic, Sound, NEW a \in Thread, GivesUp(a)
    PROVE  Sound'
<1>1. /\ Kept /\ Orderly
      /\ ledger' = ledger /\ expired' = expired /\ flaws' = flaws
    BY GivesUpKept, EndsOrderly DEF GivesUp, Basic
<1>2. op[a] # NoOp /\ Does(a) /\ op[a].on \in Task
    BY Working DEF GivesUp
<1>3. Unborn
    <2>1. CASE op[a].do = "acquire"
        <3>1. Set(op[a].on, Unspawned)
            BY <2>1 DEF GivesUp
        <3>2. agent'[op[a].on].at = "none" /\ \A u \in Task \ {op[a].on} : agent'[u] = agent[u]
            BY <1>2, <3>1, RecordsTyped, NewBorn, Was DEF Basic
        <3> QED BY <1>2, <3>2, SetUnborn
    <2>2. CASE op[a].do \in {"boot", "leave"}
        <3>1. a \in Task /\ Posts(a, {"success", "error"})
            BY <1>2, <2>2 DEF Does, GivesUp, Posts
        <3>2. agent'[a].at = "exited" /\ \A u \in Task \ {a} : agent'[u] = agent[u]
            BY <3>1, PostsTyped DEF Words
        <3> QED BY <3>1, <3>2, SetUnborn
    <2>3. CASE op[a].do = "release"
        BY <2>3, SameUnborn DEF GivesUp
    <2> QED BY <1>2, <2>1, <2>2, <2>3 DEF Does
<1> QED BY <1>1, <1>3, CalmSound

(* The lease is granted: there was room in what has been read, and that is  *)
(* all there is.                                                            *)
LEMMA GrantsSound ==
    ASSUME Basic, Exclusive, Counted, NEW a \in Thread, NEW t \in Task, InSection(a),
           Asked(t), Kept, NobodyInside',
           \A u \in Task \ {t} : agent'[u] = agent[u],
           agent'[t].at \in {"booting", "exited"},
           Room(op[a].seen), ledger' = op[a].seen \cup {t}, expired' = expired
    PROVE  Exclusive' /\ Counted'
<1>1. Exclusive'
    BY DEF Exclusive, NobodyInside
<1>2. op[a].seen \subseteq ledger /\ \A u \in Task : Executing(u) => u \in op[a].seen
    BY DEF Counted
<1>3. IsFiniteSet(ledger') /\ Cardinality(ledger') <= Limit
    <2>1. IsFiniteSet(op[a].seen) /\ Cardinality(op[a].seen) \in Nat
        BY <1>2, FS_Subset, FS_CardinalityType DEF Counted
    <2>2. /\ IsFiniteSet(op[a].seen \cup {t})
          /\ Cardinality(op[a].seen \cup {t}) <= Cardinality(op[a].seen) + 1
        <3> DEFINE S == op[a].seen
        <3> HIDE DEF S
        <3>1. IsFiniteSet(S) /\ Cardinality(S) \in Nat
            BY <2>1 DEF S
        <3>2. /\ IsFiniteSet(S \cup {t})
              /\ Cardinality(S \cup {t}) = IF t \in S THEN Cardinality(S) ELSE Cardinality(S) + 1
            BY <3>1, FS_AddElement
        <3>3. Cardinality(S \cup {t}) <= Cardinality(S) + 1
            BY <3>1, <3>2
        <3> QED BY <3>2, <3>3 DEF S
    <2>3. Cardinality(op[a].seen \cup {t}) \in Nat
        BY <2>2, FS_CardinalityType
    <2> QED BY <2>1, <2>2, <2>3, CapacityAssumption DEF Room
<1>4. t \notin ledger \cup expired
    BY NewBorn DEF Counted
<1>5. Leased'
    <2> SUFFICES ASSUME NEW u \in Task, Executing(u)', u # t PROVE u \in ledger' \ expired'
        BY <1>4 DEF Leased
    <2>1. Executing(u)
        BY DEF Executing, Abandoned
    <2> QED BY <1>2, <2>1 DEF Counted, Leased
<1>6. \A u \in ledger' \cup expired' : agent'[u].at \notin {"none", "asked"}
    <2> SUFFICES ASSUME NEW u \in ledger' \cup expired', u # t
                 PROVE  agent'[u].at \notin {"none", "asked"}
        OBVIOUS
    <2>1. u \in Task /\ u \in ledger \cup expired
        BY <1>2, StateTyped DEF Basic
    <2> QED BY <2>1 DEF Counted
<1> QED BY <1>1, <1>3, <1>5, <1>6 DEF Counted, NobodyInside

LEMMA WritesSound ==
    ASSUME Basic, Sound, NEW a \in Thread, WritesLedger(a)
    PROVE  Sound'
<1> SUFFICES ASSUME flaws' = {} PROVE Exclusive' /\ Counted'
    BY DEF Sound
<1>1. /\ op[a] # NoOp /\ Does(a) /\ op[a].on \in Task /\ InSection(a)
      /\ Kept /\ \A t \in Task : AgentStep(t)
    BY Working, WritesKept DEF WritesLedger, InSection, Kept
<1>2. /\ flaws = {} /\ \A b \in Thread \ {a} : ~InSection(b)
      /\ expired' = expired
    BY DEF WritesLedger, Unlock
<1>3. Exclusive /\ Counted
    BY <1>2 DEF Sound
<1>4. op[a].seen \subseteq ledger /\ \A u \in Task : Executing(u) => u \in op[a].seen \ expired
    BY <1>1, <1>3 DEF Counted, Leased
<1>5. CASE op[a].do = "acquire"
    <2>1. PICK t \in Task : t = op[a].on
        BY <1>1
    <2>2. Acquires(a, t) /\ Asked(t) /\ op[a].at = "write"
        BY <1>1, <1>5, <2>1 DEF WritesLedger, Does
    <2>3. /\ \A b \in Thread \ {a} : op'[b] = op[b]
          /\ op'[a].at # "write" /\ \A u \in Task \ {t} : agent'[u] = agent[u]
          /\ \/ ledger' = ledger /\ agent'[t].at = "none"
             \/ /\ Room(op[a].seen) /\ ledger' = op[a].seen \cup {t}
                /\ agent'[t].at \in {"booting", "exited"}
        BY <1>5, <2>1, <2>2, AcquiresIs
    <2>4. NobodyInside'
        BY <1>2, <2>3 DEF NobodyInside, InSection
    <2>5. CASE ledger' = ledger /\ agent'[t].at = "none"
        <3>1. Unborn
            BY <2>3, <2>5, SetUnborn
        <3>2. Leased'
            BY <1>1, <1>2, <1>3, <2>5, <3>1, StaysBorn DEF Leased, Counted
        <3> QED BY <1>1, <1>2, <1>3, <2>4, <2>5, <3>1, <3>2, ShrinksSound
    <2> QED BY <1>1, <1>2, <1>3, <2>2, <2>3, <2>4, <2>5, GrantsSound
<1>6. CASE op[a].do # "acquire"
    <2>1. Ends(a)
        BY <1>1, <1>6 DEF WritesLedger, Does
    <2>2. NobodyInside'
        BY <1>2, <2>1, Ended, NoOpIs DEF NobodyInside, InSection, Basic
    <2>3. /\ ledger' \subseteq ledger /\ Unborn
          /\ \A u \in Task : Executing(u)' => u \in ledger'
        <3>1. CASE op[a].do = "release"
            <4>1. agent' = agent /\ ledger' = op[a].seen \ {op[a].on}
                BY <3>1 DEF WritesLedger
            <4>2. ~Executing(op[a].on)
                BY <1>1, <3>1, NewBorn DEF Does, Gone, Executing
            <4>3. \A u \in Task : Executing(u)' => Executing(u)
                BY <4>1 DEF Executing, Abandoned
            <4> QED BY <1>4, <4>1, <4>2, <4>3, SameUnborn
        <3>2. CASE op[a].do = "boot"
            <4>1. a \in Task /\ agent[a].at = "booting" /\ ~Asked(a)
                BY <1>1, <3>2, NewBorn DEF Does
            <4>2. /\ ledger' = op[a].seen
                  /\ Set(a, [agent[a] EXCEPT !.at = "working", !.says = Append(@, "ready")])
                BY <3>2 DEF WritesLedger
            <4>3. Unborn
                BY <4>1, <4>2, SetOthers, SetUnborn
            <4> QED BY <1>1, <1>4, <4>2, <4>3, StaysBorn
        <3>3. CASE op[a].do = "leave"
            <4>1. /\ a \in Task /\ ledger' = op[a].seen \ {a} /\ Posts(a, {"success", "error"})
                BY <1>1, <3>3 DEF Does, WritesLedger
            <4>2. agent'[a].at = "exited" /\ \A u \in Task \ {a} : agent'[u] = agent[u]
                BY <4>1, PostsTyped DEF Words
            <4>3. Unborn /\ ~Executing(a)'
                BY <4>1, <4>2, SetUnborn DEF Executing
            <4> QED BY <1>1, <1>4, <4>1, <4>3, StaysBorn
        <3> QED BY <1>1, <1>6, <3>1, <3>2, <3>3 DEF Does
    <2>4. Leased'
        BY <1>1, <1>2, <1>4, <2>3, StaysBorn DEF Leased
    <2> QED BY <1>1, <1>2, <1>3, <2>2, <2>3, <2>4, ShrinksSound
<1> QED BY <1>5, <1>6

LEMMA RenewsSound ==
    ASSUME Basic, Sound, NEW a \in Thread, Renews(a)
    PROVE  Sound'
<1> SUFFICES ASSUME flaws' = {} PROVE Exclusive' /\ Counted'
    BY DEF Sound
<1>1. /\ Exclusive /\ Counted /\ lock = "free" /\ op' = op /\ agent' = agent
      /\ ledger' = ledger \ expired /\ expired' = expired
      /\ Unborn /\ \A t \in Task : AgentStep(t)
    BY RenewsKept, SameUnborn DEF Sound, Renews, Live, Kept
<1>2. NobodyInside'
    BY <1>1 DEF NobodyInside, InSection, Exclusive
<1>3. Leased'
    BY <1>1 DEF Leased, Counted, Executing, Abandoned
<1> QED BY <1>1, <1>2, <1>3, ShrinksSound

LEMMA WorkerSound ==
    ASSUME Basic, Sound, NEW t \in Task, Boots(t) \/ Finishes(t)
    PROVE  Sound'
<1>1. PICK do \in {"acquire", "boot", "leave", "release"}, at \in {"booting", "leaving"} :
          WorkerStep(t, do, at)
    BY DEF Boots, Finishes
<1>2. Kept /\ Orderly /\ flaws' = flaws /\ ledger' = ledger /\ expired' = expired
    BY <1>1, WorkerKept, BeginsOrderly, Threads DEF WorkerStep, Basic
<1>3. Unborn
    <2>1. ~Asked(t)
        BY NewBorn DEF Boots, Finishes
    <2>2. Set(t, [agent[t] EXCEPT !.at = at])
        BY <1>1 DEF WorkerStep
    <2> QED BY <2>1, <2>2, SetOthers, SetUnborn
<1> QED BY <1>2, <1>3, CalmSound

LEMMA ExitsSound ==
    ASSUME Basic, Sound, NEW t \in Task, Terminates(t) \/ Dies(t) \/ Vanishes(t)
    PROVE  Sound'
<1>1. PICK code \in {"0", "1"} : Exits(t, code)
    BY DEF Terminates, Dies, Vanishes
<1>2. Kept /\ Orderly /\ flaws' = flaws /\ ledger' = ledger /\ expired' = expired
    BY <1>1, ExitsKept, EndsOrderly, Threads DEF Exits, Basic
<1>3. Unborn
    <2>1. ~Asked(t) /\ Set(t, Exited(t, code))
        BY <1>1, NewBorn DEF Exits
    <2> QED BY <2>1, SetOthers, SetUnborn
<1> QED BY <1>2, <1>3, CalmSound

LEMMA SpawnsSound ==
    ASSUME Basic, Sound, NEW e \in Engine, NEW t \in Task, Spawns(e, t)
    PROVE  Sound'
<1>1. Kept /\ Orderly /\ flaws' = flaws /\ ledger' = ledger /\ expired' = expired
    BY SpawnsKept, BeginsOrderly, Threads DEF Spawns, Basic
<1>2. Unborn
    <2>1. ~Asked(t) /\ Set(t, [agent[t] EXCEPT !.at = "asked"])
        BY NewBorn DEF Spawns
    <2> QED BY <2>1, SetOthers, SetUnborn
<1> QED BY <1>1, <1>2, CalmSound

(* What the manager hears, decides or stops ends no work but its own.       *)
LEMMA ManagerSound ==
    ASSUME Basic, Sound, NEW e \in Engine, NEW t \in Task, Manager(e, t) \/ Stops(e, t)
    PROVE  Sound'
<1>1. /\ Kept /\ flaws' = flaws /\ ledger' = ledger /\ expired' = expired
    BY OnMessageKept, OnExitKept, TimesOutKept, RepaysKept, StopsKept
       DEF Manager, OnMessage, OnExit, TimesOut, TimedOut, Repays, Stops
<1>2. UNCHANGED <<lock, op>> \/ Begins(e, "release", t)
    <2>1. CASE OnMessage(e, t)
        <3>1. agent[t].says # <<>> /\ agent[t] \in AgentRecord
            BY <2>1, StateTyped DEF OnMessage, Basic
        <3>2. Head(agent[t].says) \in Words
            BY <3>1, HeardIs
        <3> QED BY <2>1, <3>2 DEF OnMessage, Settles, Words
    <2>2. CASE OnExit(e, t) \/ TimesOut(e, t) \/ Repays(e, t) \/ Stops(e, t)
        BY <2>2 DEF OnExit, TimesOut, TimedOut, Repays, Stops, Settles
    <2> QED BY <2>1, <2>2 DEF Manager
<1>3. Orderly
    <2>1. CASE UNCHANGED <<lock, op>>
        BY <2>1 DEF Orderly, Stands
    <2>2. CASE Begins(e, "release", t)
        BY <2>2, BeginsOrderly, Threads DEF Basic
    <2> QED BY <1>2, <2>1, <2>2
<1>4. Unborn
    <2>1. ~Asked(t)
        BY NewBorn DEF Manager, OnMessage, OnExit, TimesOut, Repays, Stops, Open
    <2>2. \E r : Set(t, r)
        <3>1. \A r : Settles(e, t, r) => \E q : Set(t, q)
            BY DEF Settles
        <3>2. CASE OnMessage(e, t)
            <4>1. agent[t].says # <<>> /\ agent[t] \in AgentRecord
                BY <3>2, StateTyped DEF OnMessage, Basic
            <4>2. Head(agent[t].says) \in Words
                BY <4>1, HeardIs
            <4>3. \E r : Set(t, r) \/ Settles(e, t, r)
                BY <3>2, <4>2 DEF OnMessage, Words
            <4> QED BY <3>1, <4>3
        <3>3. CASE OnExit(e, t) \/ Repays(e, t)
            <4>1. \E r : Settles(e, t, r)
                BY <3>3 DEF OnExit, Repays
            <4> QED BY <3>1, <4>1
        <3>4. CASE TimesOut(e, t)
            BY <3>1, <3>4 DEF TimesOut, TimedOut
        <3>5. CASE Stops(e, t)
            BY <3>5 DEF Stops
        <3> QED BY <3>2, <3>3, <3>4, <3>5 DEF Manager
    <2> QED BY <2>1, <2>2, SetOthers, SetUnborn
<1> QED BY <1>1, <1>3, <1>4, CalmSound

LEMMA EngineDiesSound ==
    ASSUME Basic, Sound, NEW e \in Engine, EngineDies(e)
    PROVE  Sound'
<1>1. /\ Kept /\ flaws' = flaws /\ ledger' = ledger /\ expired' = expired /\ lock' = lock
      /\ \A b \in Thread : op'[b] \in {op[b], NoOp}
    BY EngineDiesKept DEF EngineDies
<1>2. Orderly
    BY <1>1, NoOpIs DEF Orderly, Stands, InSection
<1>3. Unborn
    <2> SUFFICES ASSUME NEW t \in Task, Asked(t) PROVE agent'[t].at # "booting"
        BY DEF Unborn
    <2>1. agent[t].at = "asked" /\ ~Alive(t) /\ agent[t] \in AgentRecord
        BY NewBorn, StateTyped DEF Alive, Basic
    <2>2. agent'[t] \in {agent[t], [agent[t] EXCEPT !.at = agent[t].at]}
        BY <2>1 DEF EngineDies
    <2> QED BY <2>1, <2>2 DEF AgentRecord
<1> QED BY <1>1, <1>2, <1>3, CalmSound

LEMMA WorldSound ==
    ASSUME Basic, Sound, \/ Sleeps \/ LockAges \/ \E t \in Task : Expires(t)
    PROVE  Sound'
<1>1. Kept /\ Unborn /\ agent' = agent /\ op' = op /\ ledger' = ledger
    BY WorldKept, SameUnborn DEF Sleeps, LockAges, Expires
<1>2. CASE LockAges
    <2>1. Orderly
        BY <1>1, <1>2 DEF LockAges, Orderly, Stands, InSection
    <2> QED BY <1>1, <1>2, <2>1, CalmSound DEF LockAges
<1>3. CASE Sleeps \/ \E t \in Task : Expires(t)
    <2> SUFFICES ASSUME flaws' = {} PROVE Exclusive' /\ Counted'
        BY DEF Sound
    <2>1. /\ flaws = {} /\ expired' \subseteq expired \cup ledger /\ lock' = lock
          /\ \A u \in Task : u \in expired' \ expired => ~Executing(u)
        BY <1>3 DEF Sleeps, Expires, Executing, Alive
    <2>2. Exclusive /\ Counted /\ Orderly /\ \A u \in Task : AgentStep(u)
        BY <1>1, <2>1 DEF Sound, Orderly, Stands, Kept
    <2>3. Leased'
        BY <1>1, <2>1, <2>2 DEF Leased, Counted, Executing, Abandoned
    <2> QED BY <1>1, <2>1, <2>2, <2>3, ShrinksSound
<1> QED BY <1>2, <1>3

LEMMA NextSound ==
    ASSUME Basic, Sound, [Next]_vars
    PROVE  Sound'
<1>1. CASE \E a \in Thread : Ledger(a)
    BY <1>1, OpensSound, GivesUpSound, WritesSound DEF Ledger
<1>2. CASE \E t \in Task :
               Worker(t) \/ Beats(t) \/ Finishes(t) \/ Dies(t) \/ Vanishes(t) \/ Expires(t)
    <2>1. \A t \in Task : Beats(t) => Renews(t) /\ t \in Thread
        BY Threads DEF Beats
    <2> QED BY <1>2, <2>1, WorkerSound, ExitsSound, RenewsSound, WorldSound DEF Worker
<1>3. CASE \E e \in Engine, t \in Task :
               Spawns(e, t) \/ ParentBeats(e, t) \/ Manager(e, t) \/ Stops(e, t)
    <2>1. \A e \in Engine, t \in Task : ParentBeats(e, t) => Renews(e) /\ e \in Thread
        BY Threads DEF ParentBeats
    <2> QED BY <1>3, <2>1, SpawnsSound, RenewsSound, ManagerSound
<1>4. CASE \E e \in Engine : EngineDies(e)
    BY <1>4, EngineDiesSound
<1>5. CASE Sleeps \/ LockAges
    BY <1>5, WorldSound
<1>6. CASE UNCHANGED vars
    BY <1>6 DEF vars, Sound, Exclusive, Counted, Leased, InSection, Executing, Abandoned
<1> QED BY <1>1, <1>2, <1>3, <1>4, <1>5, <1>6 DEF Next

LEMMA InitSound == Init => Sound
<1> SUFFICES ASSUME Init PROVE Exclusive /\ Counted
    BY DEF Sound
<1>1. \A a \in Thread : ~InSection(a)
    BY NoOpIs DEF Init, InSection
<1>2. \A t \in Task : ~Executing(t)
    BY NewBorn DEF Init, Executing
<1>3. IsFiniteSet(ledger) /\ Cardinality(ledger) <= Limit
    BY FS_EmptySet, CapacityAssumption DEF Init
<1> QED BY <1>1, <1>2, <1>3 DEF Exclusive, Counted, Leased, Init

(* Until the machine sleeps past a lease or a held lock is stolen, there    *)
(* are never more sub-agents at work than the limit, over all engines,      *)
(* those being ended included but for the ones nobody waits for.            *)
THEOREM LimitHolds == Spec => []HardCap
<1>1. Basic /\ Sound => HardCap
    <2> SUFFICES ASSUME Basic, Sound, flaws = {}
                 PROVE  Cardinality({t \in Task : Executing(t)}) <= Limit
        BY DEF HardCap, Basic
    <2>1. IsFiniteSet(ledger) /\ Cardinality(ledger) <= Limit
          /\ {t \in Task : Executing(t)} \subseteq ledger
        BY DEF Sound, Counted, Leased
    <2>2. /\ Cardinality({t \in Task : Executing(t)}) <= Cardinality(ledger)
          /\ Cardinality({t \in Task : Executing(t)}) \in Nat /\ Cardinality(ledger) \in Nat
        BY <2>1, FS_Subset, FS_CardinalityType
    <2> QED BY <2>1, <2>2, CapacityAssumption
<1>2. Basic /\ Sound /\ [Next]_vars => Sound'
    BY NextSound
<1> QED BY <1>1, <1>2, InitSound, Types, PTL DEF Spec

=============================================================================
