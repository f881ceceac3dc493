------------------------ MODULE ThreadMessages_proofs ------------------------
(***************************************************************************)
(* No message is acted on twice.  The invariant: a message is in one place *)
(* at a time, and an engine that begins to act on it takes it from there.  *)
(***************************************************************************)
EXTENDS ThreadSystem_proofs

-----------------------------------------------------------------------------
(* Where messages are, and where each is once.                              *)

Once(s) == \A i, j \in DOMAIN s : s[i] = s[j] => i = j

(* The messages that words on a port carry.                                 *)
Load(x) == IF x.kind \in {"input", "steer"} THEN {x.msg}
           ELSE IF x.kind = "unused" THEN Elements(x.msgs) ELSE {}
Loads(s) == UNION {Load(s[i]) : i \in DOMAIN s}
OnceEach(x) == x.kind = "unused" => Once(x.msgs)
Tidy(s) == \A i, j \in DOMAIN s :
    OnceEach(s[i]) /\ (i # j => Load(s[i]) \cap Load(s[j]) = {})

LEMMA OnceEmpty ==
    /\ Once(<<>>) /\ Elements(<<>>) = {} /\ Tidy(<<>>) /\ Loads(<<>>) = {}
<1>1. DOMAIN <<>> = {}
    OBVIOUS
<1> QED BY <1>1 DEF Once, Elements, Tidy, Loads

LEMMA OneMore ==
    ASSUME NEW S, NEW s \in Seq(S), NEW x \in S
    PROVE  /\ DOMAIN Append(s, x) = DOMAIN s \cup {Len(s) + 1}
           /\ Len(s) + 1 \notin DOMAIN s
           /\ Append(s, x)[Len(s) + 1] = x
           /\ \A i \in DOMAIN s : Append(s, x)[i] = s[i]
<1>1. Len(s) \in Nat /\ DOMAIN s = 1..Len(s)
    BY LenProperties
<1>2. DOMAIN Append(s, x) = 1..(Len(s) + 1) /\ Append(s, x)[Len(s) + 1] = x
      /\ \A i \in 1..Len(s) : Append(s, x)[i] = s[i]
    BY AppendProperties, LenProperties
<1> QED BY <1>1, <1>2

LEMMA OnceAppended ==
    ASSUME NEW S, NEW s \in Seq(S), NEW x \in S
    PROVE  /\ Elements(Append(s, x)) = Elements(s) \cup {x}
           /\ Once(s) /\ x \notin Elements(s) => Once(Append(s, x))
BY OneMore DEF Elements, Once

LEMMA TidyAppended ==
    ASSUME NEW S, NEW s \in Seq(S), NEW x \in S
    PROVE  /\ Loads(Append(s, x)) = Loads(s) \cup Load(x)
           /\ Tidy(s) /\ OnceEach(x) /\ Load(x) \cap Loads(s) = {} => Tidy(Append(s, x))
<1> DEFINE n == Len(s) + 1
           a == Append(s, x)
<1>1. /\ DOMAIN a = DOMAIN s \cup {n} /\ n \notin DOMAIN s /\ a[n] = x
      /\ \A i \in DOMAIN s : a[i] = s[i]
    BY OneMore
<1> HIDE DEF n, a
<1>2. Loads(a) = Loads(s) \cup Load(x)
    BY <1>1 DEF Loads
<1>3. ASSUME Tidy(s), OnceEach(x), Load(x) \cap Loads(s) = {}
      PROVE  Tidy(a)
    <2>1. \A i \in DOMAIN s : Load(s[i]) \cap Load(x) = {}
        BY <1>3 DEF Loads
    <2> QED BY <1>1, <1>3, <2>1 DEF Tidy
<1> QED BY <1>2, <1>3 DEF a

(* Taking the first.                                                        *)
LEMMA OneLess ==
    ASSUME NEW S, NEW s \in Seq(S), s # <<>>
    PROVE  /\ 1 \in DOMAIN s /\ Head(s) = s[1]
           /\ DOMAIN Tail(s) \subseteq Nat
           /\ \A i \in DOMAIN Tail(s) : i + 1 \in DOMAIN s /\ i + 1 # 1 /\ Tail(s)[i] = s[i + 1]
           /\ \A j \in DOMAIN s : j = 1 \/ \E i \in DOMAIN Tail(s) : j = i + 1
<1>1. Len(s) \in Nat \ {0} /\ DOMAIN s = 1..Len(s)
    BY LenProperties, EmptySeq
<1>2. /\ Tail(s) \in Seq(S) /\ Len(Tail(s)) = Len(s) - 1
      /\ \A i \in 1 .. Len(Tail(s)) : Tail(s)[i] = s[i + 1]
    BY HeadTailProperties
<1>3. DOMAIN Tail(s) = 1..(Len(s) - 1)
    BY <1>2, LenProperties
<1>4. \A j \in 1..Len(s) : j = 1 \/ (j - 1 \in 1..(Len(s) - 1) /\ j = (j - 1) + 1)
    BY <1>1
<1>5. 1 \in DOMAIN s /\ Head(s) = s[1]
    BY <1>1
<1>6. DOMAIN Tail(s) \subseteq Nat
    BY <1>3
<1>7. \A i \in DOMAIN Tail(s) : i + 1 \in DOMAIN s /\ i + 1 # 1 /\ Tail(s)[i] = s[i + 1]
    BY <1>1, <1>2, <1>3
<1>8. \A j \in DOMAIN s : j = 1 \/ \E i \in DOMAIN Tail(s) : j = i + 1
    BY <1>1, <1>3, <1>4
<1> QED BY <1>5, <1>6, <1>7, <1>8

LEMMA OnceTaken ==
    ASSUME NEW S, NEW s \in Seq(S), s # <<>>
    PROVE  /\ Elements(s) = {Head(s)} \cup Elements(Tail(s))
           /\ Once(s) => Once(Tail(s)) /\ Head(s) \notin Elements(Tail(s))
<1>1. Elements(s) = {Head(s)} \cup Elements(Tail(s))
    BY OneLess DEF Elements
<1>2. ASSUME Once(s) PROVE Once(Tail(s)) /\ Head(s) \notin Elements(Tail(s))
    BY <1>2, OneLess DEF Elements, Once
<1> QED BY <1>1, <1>2

LEMMA TidyTaken ==
    ASSUME NEW S, NEW s \in Seq(S), s # <<>>
    PROVE  /\ Loads(s) = Load(Head(s)) \cup Loads(Tail(s))
           /\ Tidy(s) => /\ Tidy(Tail(s)) /\ OnceEach(Head(s))
                         /\ Load(Head(s)) \cap Loads(Tail(s)) = {}
<1> DEFINE r == Tail(s)
           h == Head(s)
<1>1. /\ 1 \in DOMAIN s /\ h = s[1] /\ DOMAIN r \subseteq Nat
      /\ \A i \in DOMAIN r : i + 1 \in DOMAIN s /\ i + 1 # 1 /\ r[i] = s[i + 1]
      /\ \A j \in DOMAIN s : j = 1 \/ \E i \in DOMAIN r : j = i + 1
    BY OneLess
<1> HIDE DEF r, h
<1>2. Loads(s) = Load(h) \cup Loads(r)
    BY <1>1 DEF Loads
<1>3. ASSUME Tidy(s) PROVE Tidy(r) /\ OnceEach(h) /\ Load(h) \cap Loads(r) = {}
    <2>1. \A i, j \in DOMAIN r : i # j => i + 1 # j + 1
        BY <1>1
    <2>2. Tidy(r)
        BY <1>1, <1>3, <2>1 DEF Tidy
    <2>3. \A i \in DOMAIN r : Load(h) \cap Load(r[i]) = {}
        BY <1>1, <1>3 DEF Tidy
    <2>4. OnceEach(h)
        BY <1>1, <1>3 DEF Tidy
    <2> QED BY <2>2, <2>3, <2>4 DEF Loads
<1> QED BY <1>2, <1>3 DEF r, h

LEMMA OnceJoined ==
    ASSUME NEW S, NEW p \in Seq(S), NEW q \in Seq(S)
    PROVE  /\ Elements(p \o q) = Elements(p) \cup Elements(q)
           /\ Once(p) /\ Once(q) /\ Elements(p) \cap Elements(q) = {} => Once(p \o q)
<1> DEFINE c == p \o q
           n == Len(p)
           k == Len(q)
<1>1. /\ n \in Nat /\ k \in Nat /\ DOMAIN p = 1..n /\ DOMAIN q = 1..k /\ DOMAIN c = 1..(n + k)
      /\ \A i \in 1..(n + k) : c[i] = IF i <= n THEN p[i] ELSE q[i - n]
    BY ConcatProperties, LenProperties
<1> HIDE DEF c, n, k
<1>2. /\ \A i \in 1..n : i \in 1..(n + k) /\ c[i] = p[i]
      /\ \A i \in 1..k : i + n \in 1..(n + k) /\ c[i + n] = q[i]
      /\ \A i \in 1..(n + k) : i \in 1..n \/ (i - n \in 1..k /\ ~(i <= n))
    BY <1>1
<1>3. Elements(c) = Elements(p) \cup Elements(q)
    <2>1. Elements(c) \subseteq Elements(p) \cup Elements(q)
        BY <1>1, <1>2 DEF Elements
    <2>2. Elements(p) \subseteq Elements(c)
        BY <1>1, <1>2 DEF Elements
    <2>3. Elements(q) \subseteq Elements(c)
        BY <1>1, <1>2 DEF Elements
    <2> QED BY <2>1, <2>2, <2>3
<1>4. ASSUME Once(p), Once(q), Elements(p) \cap Elements(q) = {}
      PROVE  Once(c)
    <2>1. SUFFICES ASSUME NEW i \in 1..(n + k), NEW j \in 1..(n + k), c[i] = c[j] PROVE i = j
        BY <1>1 DEF Once
    <2>2. CASE i <= n /\ j <= n
        BY <1>1, <1>4, <2>1, <2>2 DEF Once
    <2>3. CASE ~(i <= n) /\ ~(j <= n)
        <3>1. i - n \in 1..k /\ j - n \in 1..k /\ q[i - n] = q[j - n]
            BY <1>1, <2>1, <2>3
        <3>2. i - n = j - n
            BY <1>1, <1>4, <3>1 DEF Once
        <3> QED BY <1>1, <3>2
    <2>4. \A a \in 1..n, b \in 1..k : p[a] # q[b]
        BY <1>1, <1>4 DEF Elements
    <2>5. CASE i <= n /\ ~(j <= n)
        <3>1. i \in 1..n /\ j - n \in 1..k /\ p[i] = q[j - n]
            BY <1>1, <2>1, <2>5
        <3> QED BY <2>4, <3>1
    <2>6. CASE ~(i <= n) /\ j <= n
        <3>1. j \in 1..n /\ i - n \in 1..k /\ p[j] = q[i - n]
            BY <1>1, <2>1, <2>6
        <3> QED BY <2>4, <3>1
    <2> QED BY <2>2, <2>3, <2>5, <2>6
<1> QED BY <1>3, <1>4 DEF c

(* Leaving out refused messages repeats none.                               *)
LEMMA OnceSkipped ==
    ASSUME NEW q \in Seq(Msg)
    PROVE  Elements(Skip(q)) \subseteq Elements(q) /\ (Once(q) => Once(Skip(q)))
<1>1. CASE Sendable(q) = {}
    BY <1>1, OnceEmpty DEF Skip
<1>2. CASE Sendable(q) # {}
    <2> DEFINE f == FirstOf(Sendable(q))
               n == Len(q)
               k == SubSeq(q, f, n)
    <2>1. Sendable(q) \subseteq 1..n /\ n \in Nat /\ DOMAIN q = 1..n
        BY LenProperties DEF Sendable
    <2>2. f \in 1..n
        BY <1>2, <2>1, FirstOfIsIn
    <2>3. \A i \in 1..n : q[i] \in Msg
        BY ElementOfSeq
    <2>4. /\ k \in Seq(Msg) /\ Len(k) = n - f + 1
          /\ \A i \in 1 .. n - f + 1 : k[i] = q[f + i - 1]
        BY <2>1, <2>2, <2>3, SubSeqProperties
    <2>5. DOMAIN k = 1..(n - f + 1)
        BY <2>4, LenProperties
    <2>6. Skip(q) = k
        BY <1>2 DEF Skip
    <2> HIDE DEF f, n, k
    <2>7. \A i \in DOMAIN k : f + i - 1 \in DOMAIN q /\ k[i] = q[f + i - 1]
        BY <2>1, <2>2, <2>4, <2>5
    <2>8. \A i, j \in DOMAIN k : f + i - 1 = f + j - 1 => i = j
        BY <2>1, <2>2, <2>5
    <2> QED BY <2>6, <2>7, <2>8 DEF Elements, Once
<1> QED BY <1>1, <1>2

(* Words taken, words without a message put, or none.                       *)
Lightened(s, r, S) ==
    \/ r = s \/ r = <<>> \/ (s # <<>> /\ r = Tail(s))
    \/ \E x \in S : Load(x) = {} /\ r = Append(s, x)
    \/ s # <<>> /\ \E x \in S : Load(x) = {} /\ r = Append(Tail(s), x)

LEMMA LighterLoads ==
    ASSUME NEW S, NEW s \in Seq(S), NEW r, Lightened(s, r, S), Tidy(s),
           \A x \in S : Load(x) = {} => OnceEach(x)
    PROVE  Tidy(r) /\ Loads(r) \subseteq Loads(s)
<1>1. s # <<>> => Tail(s) \in Seq(S) /\ Tidy(Tail(s)) /\ Loads(Tail(s)) \subseteq Loads(s)
    BY TidyTaken, HeadTailProperties
<1>2. \A k \in Seq(S), x \in S : Load(x) = {} /\ Tidy(k) =>
          Tidy(Append(k, x)) /\ Loads(Append(k, x)) = Loads(k)
    <2> SUFFICES ASSUME NEW k \in Seq(S), NEW x \in S, Load(x) = {}, Tidy(k)
                 PROVE  Tidy(Append(k, x)) /\ Loads(Append(k, x)) = Loads(k)
        OBVIOUS
    <2>1. OnceEach(x) /\ Load(x) \cap Loads(k) = {}
        OBVIOUS
    <2> QED BY <2>1, TidyAppended
<1> QED BY <1>1, <1>2, OnceEmpty DEF Lightened

(* Words without a message.                                                 *)
LEMMA NoLoad ==
    /\ \A x \in Inbound \cup Outbound : Load(x) = {} => OnceEach(x)
    /\ \A k \in {"interrupt", "resume", "pick", "command"} :
           Signal(k) \in Inbound /\ Load(Signal(k)) = {}
    /\ \A k \in {"ready", "idle", "restored", "picked", "restoreFailed"} :
           Signal(k) \in Outbound /\ Load(Signal(k)) = {}
    /\ \A c \in EngineCard : /\ Answer(c) \in Inbound /\ Load(Answer(c)) = {}
                             /\ Question(c) \in Outbound /\ Load(Question(c)) = {}
<1>1. ASSUME NEW x \in Inbound \cup Outbound, Load(x) = {} PROVE OnceEach(x)
    <2>1. CASE x.kind = "unused"
        <3>1. Elements(x.msgs) = {}
            BY <1>1, <2>1 DEF Load
        <3>2. DOMAIN x.msgs = {}
            BY <3>1 DEF Elements
        <3> QED BY <3>2 DEF OnceEach, Once
    <2>2. CASE x.kind # "unused"
        BY <2>2 DEF OnceEach
    <2> QED BY <2>1, <2>2
<1>2. \A k \in {"interrupt", "resume", "pick", "command"} :
           Signal(k) \in Inbound /\ Load(Signal(k)) = {}
    BY DEF Signal, Inbound, Load
<1>3. \A k \in {"ready", "idle", "restored", "picked", "restoreFailed"} :
           Signal(k) \in Outbound /\ Load(Signal(k)) = {}
    BY DEF Signal, Outbound, Load
<1>4. \A c \in EngineCard : /\ Answer(c) \in Inbound /\ Load(Answer(c)) = {}
                             /\ Question(c) \in Outbound /\ Load(Question(c)) = {}
    BY DEF Answer, Question, Inbound, Outbound, Load
<1> QED BY <1>1, <1>2, <1>3, <1>4

-----------------------------------------------------------------------------
(* Each message in one place.  It lies with a thread (queued, on its way    *)
(* back from the engine, or in a copy of the queue on disk), is on its way  *)
(* out to the engine, or in the inbox of a worker; acted on, it is nowhere. *)

Dormant(h, l, s) == [t \in Thread |->
    Elements(h[t].queue) \cup Loads(l[t].up)
        \cup Elements(s[t].disk.queue) \cup Elements(s[t].last.queue)]
Going(l) == [t \in Thread |-> Loads(l[t].down)]
Inbox(w) == [e \in Slot |-> Elements(w[e].steers)]

Spread(d, o, i, r, u) ==
    /\ \A t, v \in Thread : t # v => d[t] \cap d[v] = {} /\ o[t] \cap o[v] = {}
    /\ \A t, v \in Thread : d[t] \cap o[v] = {}
    /\ \A t \in Thread, e \in Slot : d[t] \cap i[e] = {} /\ o[t] \cap i[e] = {}
    /\ \A e, f \in Slot : e # f => i[e] \cap i[f] = {}
    /\ \A t \in Thread : d[t] \subseteq u /\ o[t] \subseteq u
    /\ \A e \in Slot : i[e] \subseteq u
    /\ \A m \in Msg : r[m] = 0 \/
           /\ r[m] = 1 /\ m \in u
           /\ \A t \in Thread : m \notin d[t] /\ m \notin o[t]
           /\ \A e \in Slot : m \notin i[e]

Neat(q, p, c) ==
    /\ Once(q) /\ Tidy(p.down) /\ Tidy(p.up)
    /\ Once(c.disk.queue) /\ Once(c.last.queue)
    /\ Elements(q) \cap Loads(p.up) = {}

Tokens(h, l, s, w, r, u) ==
    /\ \A t \in Thread : Neat(h[t].queue, l[t], s[t])
    /\ \A e \in Slot : Once(w[e].steers)
    /\ Spread(Dormant(h, l, s), Going(l), Inbox(w), r, u)


(* Messages are dropped, or go out.                                         *)
LEMMA SpreadLess ==
    ASSUME NEW d, NEW o, NEW i, NEW r, NEW u, Spread(d, o, i, r, u),
           NEW d2, NEW o2, NEW i2, NEW v, u \subseteq v,
           \A t \in Thread : /\ d2[t] \subseteq d[t] /\ o2[t] \subseteq o[t] \cup d[t]
                             /\ o2[t] \cap d2[t] = {},
           \A e \in Slot : i2[e] \subseteq i[e]
    PROVE  Spread(d2, o2, i2, r, v)
<1>1. \A t, x \in Thread : t # x => d2[t] \cap d2[x] = {} /\ o2[t] \cap o2[x] = {}
    BY DEF Spread
<1>2. \A t, x \in Thread : d2[t] \cap o2[x] = {}
    <2> TAKE t, x \in Thread
    <2>1. CASE t = x
        BY <2>1
    <2>2. CASE t # x
        BY <2>2 DEF Spread
    <2> QED BY <2>1, <2>2
<1>3. \A t \in Thread, e \in Slot : d2[t] \cap i2[e] = {} /\ o2[t] \cap i2[e] = {}
    BY DEF Spread
<1>4. \A e, f \in Slot : e # f => i2[e] \cap i2[f] = {}
    BY DEF Spread
<1>5. /\ \A t \in Thread : d2[t] \subseteq v /\ o2[t] \subseteq v
      /\ \A e \in Slot : i2[e] \subseteq v
    BY DEF Spread
<1>6. \A m \in Msg : r[m] = 0 \/
           /\ r[m] = 1 /\ m \in v
           /\ \A t \in Thread : m \notin d2[t] /\ m \notin o2[t]
           /\ \A e \in Slot : m \notin i2[e]
    BY DEF Spread
<1> QED BY <1>1, <1>2, <1>3, <1>4, <1>5, <1>6 DEF Spread

(* A message of the person, queued or steered.                              *)
LEMMA SpreadNew ==
    ASSUME NEW d, NEW o, NEW i, NEW r, NEW u, Spread(d, o, i, r, u),
           NEW d2, NEW o2, NEW x, x \notin u, NEW k \in Thread,
           \A t \in Thread : t # k => d2[t] \subseteq d[t] /\ o2[t] \subseteq o[t],
           \/ d2[k] \subseteq d[k] \cup {x} /\ o2[k] \subseteq o[k]
           \/ d2[k] \subseteq d[k] /\ o2[k] \subseteq o[k] \cup {x}
    PROVE  Spread(d2, o2, i, r, u \cup {x})
<1>1. /\ \A t \in Thread : x \notin d[t] /\ x \notin o[t]
      /\ \A e \in Slot : x \notin i[e]
      /\ x \in Msg => r[x] = 0
    BY DEF Spread
<1>2. \A t \in Thread : d2[t] \subseteq d[t] \cup {x} /\ o2[t] \subseteq o[t] \cup {x}
    OBVIOUS
<1>3. \A t, v \in Thread : t # v => d2[t] \cap d2[v] = {} /\ o2[t] \cap o2[v] = {}
    BY <1>1 DEF Spread
<1>4. \A t, v \in Thread : d2[t] \cap o2[v] = {}
    <2> TAKE t, v \in Thread
    <2>1. d[t] \cap o[v] = {} /\ x \notin d[t] /\ x \notin o[v]
        BY <1>1 DEF Spread
    <2>2. ~(x \in d2[t] /\ x \in o2[v])
        BY <1>1
    <2> QED BY <1>2, <2>1, <2>2
<1>5. \A t \in Thread, e \in Slot : d2[t] \cap i[e] = {} /\ o2[t] \cap i[e] = {}
    BY <1>1, <1>2 DEF Spread
<1>6. \A t \in Thread : d2[t] \subseteq u \cup {x} /\ o2[t] \subseteq u \cup {x}
    BY <1>2 DEF Spread
<1>7. \A m \in Msg : r[m] = 0 \/
           /\ r[m] = 1 /\ m \in u \cup {x}
           /\ \A t \in Thread : m \notin d2[t] /\ m \notin o2[t]
           /\ \A e \in Slot : m \notin i[e]
    BY <1>1, <1>2 DEF Spread
<1> QED BY <1>3, <1>4, <1>5, <1>6, <1>7 DEF Spread

(* An engine begins to act on messages that were on their way out, or in an *)
(* inbox: A is what it takes.                                               *)
ActedOn(A, o, o2, i, i2, r, r2) ==
    /\ (\E t \in Thread : A \subseteq o[t]) \/ (\E e \in Slot : A \subseteq i[e])
    /\ \A t \in Thread : o2[t] \subseteq o[t] \ A
    /\ \A e \in Slot : i2[e] \subseteq i[e] \ A
    /\ \A m \in Msg : r2[m] = IF m \in A THEN r[m] + 1 ELSE r[m]

LEMMA SpreadActed ==
    ASSUME NEW d, NEW o, NEW i, NEW r, NEW u, Spread(d, o, i, r, u),
           NEW o2, NEW i2, NEW A, NEW r2, ActedOn(A, o, o2, i, i2, r, r2)
    PROVE  Spread(d, o2, i2, r2, u)
<1>1. /\ (\E t \in Thread : A \subseteq o[t]) \/ (\E e \in Slot : A \subseteq i[e])
      /\ \A t \in Thread : o2[t] \subseteq o[t] \ A
      /\ \A e \in Slot : i2[e] \subseteq i[e] \ A
      /\ \A m \in Msg : r2[m] = IF m \in A THEN r[m] + 1 ELSE r[m]
    BY DEF ActedOn
<1>2. \A m \in A : /\ m \in u
                   /\ \A t \in Thread : m \notin d[t] /\ m \notin o2[t]
                   /\ \A e \in Slot : m \notin i2[e]
                   /\ m \in Msg => r[m] = 0
    BY <1>1 DEF Spread
<1>3. \A m \in Msg : r2[m] = 0 \/
           /\ r2[m] = 1 /\ m \in u
           /\ \A t \in Thread : m \notin d[t] /\ m \notin o2[t]
           /\ \A e \in Slot : m \notin i2[e]
    <2> TAKE m \in Msg
    <2>1. CASE m \in A
        BY <1>2, <1>1, <2>1
    <2>2. CASE m \notin A
        BY <1>1, <2>2 DEF Spread
    <2> QED BY <2>1, <2>2
<1> QED BY <1>3, <1>1 DEF Spread

(* A message on its way out is taken into an inbox.                         *)
TakenIn(x, k, g, o, o2, i, i2) ==
    /\ x \in o[k]
    /\ \A t \in Thread : o2[t] \subseteq o[t] \ {x}
    /\ \A e \in Slot : e # g => i2[e] \subseteq i[e]
    /\ i2[g] \subseteq i[g] \cup {x}

LEMMA SpreadTaken ==
    ASSUME NEW d, NEW o, NEW i, NEW r, NEW u, Spread(d, o, i, r, u),
           NEW o2, NEW i2, NEW x, NEW k \in Thread, NEW g \in Slot,
           TakenIn(x, k, g, o, o2, i, i2)
    PROVE  Spread(d, o2, i2, r, u)
<1> USE DEF TakenIn
<1>1. /\ \A t \in Thread : x \notin d[t] /\ x \notin o2[t]
      /\ \A e \in Slot : x \notin i[e]
      /\ x \in u /\ (x \in Msg => r[x] = 0)
    BY DEF Spread
<1>2. \A t \in Thread, e \in Slot : d[t] \cap i2[e] = {} /\ o2[t] \cap i2[e] = {}
    <2> TAKE t \in Thread, e \in Slot
    <2>1. i2[e] \subseteq i[e] \cup {x}
        OBVIOUS
    <2> QED BY <1>1, <2>1 DEF Spread
<1>3. \A e, f \in Slot : e # f => i2[e] \cap i2[f] = {}
    BY <1>1 DEF Spread
<1>4. \A e \in Slot : i2[e] \subseteq u
    BY <1>1 DEF Spread
<1>5. \A m \in Msg : r[m] = 0 \/
           /\ r[m] = 1 /\ m \in u
           /\ \A t \in Thread : m \notin d[t] /\ m \notin o2[t]
           /\ \A e \in Slot : m \notin i2[e]
    BY <1>1 DEF Spread
<1> QED BY <1>2, <1>3, <1>4, <1>5 DEF Spread

(* What an inbox held goes back to a thread.                                *)
HandedBack(k, g, d, d2, i, i2) ==
    /\ \A t \in Thread : t # k => d2[t] \subseteq d[t]
    /\ d2[k] \subseteq d[k] \cup i[g]
    /\ \A e \in Slot : e # g => i2[e] \subseteq i[e]
    /\ i2[g] = {}

LEMMA SpreadBack ==
    ASSUME NEW d, NEW o, NEW i, NEW r, NEW u, Spread(d, o, i, r, u),
           NEW d2, NEW i2, NEW k \in Thread, NEW g \in Slot,
           HandedBack(k, g, d, d2, i, i2)
    PROVE  Spread(d2, o, i2, r, u)
<1> USE DEF HandedBack
<1>1. /\ \A t \in Thread : t # k => d2[t] \cap i[g] = {}
      /\ \A t \in Thread : o[t] \cap i[g] = {}
      /\ \A e \in Slot : i2[e] \cap i[g] = {}
      /\ \A t \in Thread : d2[t] \subseteq d[t] \cup i[g]
    BY DEF Spread
<1>2. \A t, v \in Thread : t # v => d2[t] \cap d2[v] = {} /\ o[t] \cap o[v] = {}
    BY <1>1 DEF Spread
<1>3. \A t, v \in Thread : d2[t] \cap o[v] = {}
    BY <1>1 DEF Spread
<1>4. \A t \in Thread, e \in Slot : d2[t] \cap i2[e] = {} /\ o[t] \cap i2[e] = {}
    <2> TAKE t \in Thread, e \in Slot
    <2>1. i2[e] \subseteq i[e]
        OBVIOUS
    <2> QED BY <1>1, <2>1 DEF Spread
<1>5. \A e, f \in Slot : e # f => i2[e] \cap i2[f] = {}
    BY DEF Spread
<1>6. /\ \A t \in Thread : d2[t] \subseteq u /\ o[t] \subseteq u
      /\ \A e \in Slot : i2[e] \subseteq u
    BY <1>1 DEF Spread
<1>7. \A m \in Msg : r[m] = 0 \/
           /\ r[m] = 1 /\ m \in u
           /\ \A t \in Thread : m \notin d2[t] /\ m \notin o[t]
           /\ \A e \in Slot : m \notin i2[e]
    BY <1>1 DEF Spread
<1> QED BY <1>2, <1>3, <1>4, <1>5, <1>6, <1>7 DEF Spread

-----------------------------------------------------------------------------
(* The end of a handler moves messages from a queue to a port.              *)

Part(q, p) == q \in Seq(Msg) /\ Elements(q) \subseteq Elements(p) /\ (Once(p) => Once(q))

LEMMA SkipPart ==
    ASSUME NEW q \in Seq(Msg)
    PROVE  /\ Part(Skip(q), q) /\ Part(q, q) /\ Part(<<>>, q)
           /\ Skip(q) # <<>> =>
                 /\ Head(Skip(q)) \in Msg /\ Head(Skip(q)) \in Elements(q)
                 /\ Part(Tail(Skip(q)), q)
                 /\ Once(q) => Head(Skip(q)) \notin Elements(Tail(Skip(q)))
<1> DEFINE k == Skip(q)
<1>1. k \in Seq(Msg) /\ Elements(k) \subseteq Elements(q) /\ (Once(q) => Once(k))
    BY SkipTyped, OnceSkipped
<1> HIDE DEF k
<1>2. k # <<>> =>
        /\ Head(k) \in Msg /\ Tail(k) \in Seq(Msg)
        /\ Elements(k) = {Head(k)} \cup Elements(Tail(k))
        /\ Once(k) => Once(Tail(k)) /\ Head(k) \notin Elements(Tail(k))
    BY <1>1, HeadTailProperties, OnceTaken
<1>3. <<>> \in Seq(Msg)
    BY EmptySeq
<1> QED BY <1>1, <1>2, <1>3, OnceEmpty DEF Part, k

(* What a save leaves in storage of the queue.                              *)
Rewritten(new, old, q) ==
    /\ new.disk.queue = old.disk.queue \/ new.disk.queue = q
    /\ new.last.queue = old.last.queue \/ new.last.queue = q

StaysPut(q2, q, p2, p, c2, c) == p2 = p /\ Part(q2, q) /\ Rewritten(c2, c, q2)
GoesOut(q2, q, p2, p, c2) ==
    \E x \in Msg :
        /\ x \in Elements(q) /\ Part(q2, q) /\ (Once(q) => x \notin Elements(q2))
        /\ p2.up = p.up
        /\ p2.down = p.down \/ p2.down = Append(p.down, Carry("input", x))
        /\ c2.disk.queue = q2 /\ c2.last.queue = q2

Moves(q2, q, p2, p, c2, c) == StaysPut(q2, q, p2, p, c2, c) \/ GoesOut(q2, q, p2, p, c2)
With(d, q, p, c) ==
    d = Elements(q) \cup Loads(p.up) \cup Elements(c.disk.queue) \cup Elements(c.last.queue)

LEMMA FinishMoves ==
    ASSUME TypeOK,
           NEW m \in [Thread -> LiveThread], NEW l \in [Thread -> Ports],
           NEW who \in SUBSET Thread, NEW now, NEW later, NEW dropped,
           Finish(m, l, who, now, later, dropped),
           NEW t \in Thread
    PROVE  Moves(th'[t].queue, m[t].queue, link'[t], l[t], store'[t], store[t])
<1>1. PICK tried \in SUBSET who :
        /\ th' = [u \in Thread |-> IF u \in tried THEN PumpedThread(m[u]) ELSE m[u]]
        /\ link' = [u \in Thread |->
               IF u \in Goes(m, tried) /\ Delivers(u)
               THEN [l[u] EXCEPT !.down = Append(@, Carry("input", Head(Skip(m[u].queue))))]
               ELSE l[u]]
        /\ Save(now \cup tried, later)
    BY DEF Finish
<1> DEFINE r == m[t]
           q == Skip(r.queue)
<1>2. r \in LiveThread /\ r.queue \in Seq(Msg) /\ l[t] \in Ports
    BY DEF LiveThread
<1>3. /\ th'[t] = IF t \in tried THEN PumpedThread(r) ELSE r
      /\ link'[t] = IF t \in Goes(m, tried) /\ Delivers(t)
                    THEN [l[t] EXCEPT !.down = Append(@, Carry("input", Head(q)))]
                    ELSE l[t]
    BY <1>1
<1>4. store'[t] = IF t \in now \cup tried /\ diskOk
                  THEN [disk |-> Copy(th'[t]), last |-> Copy(th'[t])]
                  ELSE IF t \in now \cup tried \cup later
                       THEN [store[t] EXCEPT !.last = Copy(th'[t])]
                       ELSE store[t]
    BY <1>1 DEF Save
<1>5. store[t] \in Stored
    BY DEF TypeOK
<1>6. Rewritten(store'[t], store[t], th'[t].queue)
    BY <1>4, <1>5 DEF Rewritten, Copy, Stored
<1>7. /\ Part(q, r.queue) /\ Part(r.queue, r.queue) /\ Part(<<>>, r.queue)
      /\ q # <<>> => /\ Head(q) \in Msg /\ Head(q) \in Elements(r.queue)
                     /\ Part(Tail(q), r.queue)
                     /\ Once(r.queue) => Head(q) \notin Elements(Tail(q))
    BY <1>2, SkipPart
<1>8. t \in Goes(m, tried) <=> diskOk /\ t \in tried /\ q # <<>>
    BY DEF Goes
<1> HIDE DEF q
<1>9. PumpedThread(r) = IF q = <<>> THEN [r EXCEPT !.queue = q]
        ELSE IF diskOk
             THEN [r EXCEPT !.queue = Tail(q), !.sent = @ \cup {Head(q)}, !.status = "working"]
             ELSE [r EXCEPT !.queue = q, !.status = "idle", !.blocked = TRUE]
    BY DEF PumpedThread, q
<1> HIDE DEF r
<1>10. PumpedThread(r).queue = IF q = <<>> \/ ~diskOk THEN q ELSE Tail(q)
    BY <1>2, <1>9 DEF LiveThread
<1>11. CASE t \in Goes(m, tried)
    <2>1. th'[t].queue = Tail(q) /\ diskOk /\ q # <<>> /\ t \in tried
        BY <1>3, <1>8, <1>10, <1>11
    <2>2. store'[t].disk.queue = Tail(q) /\ store'[t].last.queue = Tail(q)
        BY <1>4, <2>1 DEF Copy
    <2>3. /\ link'[t].up = l[t].up
          /\ link'[t].down = l[t].down \/ link'[t].down = Append(l[t].down, Carry("input", Head(q)))
        BY <1>2, <1>3, <1>11 DEF Ports
    <2>4. GoesOut(th'[t].queue, r.queue, link'[t], l[t], store'[t])
        BY <1>7, <2>1, <2>2, <2>3 DEF GoesOut
    <2> QED BY <2>4 DEF Moves, r
<1>12. CASE t \notin Goes(m, tried)
    <2>1. link'[t] = l[t]
        BY <1>3, <1>12
    <2>2. Part(th'[t].queue, r.queue)
        <3>1. CASE t \notin tried
            BY <1>3, <1>7, <3>1
        <3>2. CASE t \in tried
            BY <1>3, <1>7, <1>8, <1>10, <1>12, <3>2
        <3> QED BY <3>1, <3>2
    <2> QED BY <1>6, <2>1, <2>2 DEF Moves, StaysPut, r
<1> QED BY <1>11, <1>12

LEMMA PutIn ==
    ASSUME NEW s \in Seq(Inbound), NEW x \in Msg, NEW k \in {"input", "steer"}
    PROVE  /\ Load(Carry(k, x)) = {x} /\ Carry(k, x) \in Inbound
           /\ Loads(Append(s, Carry(k, x))) = Loads(s) \cup {x}
           /\ Tidy(s) /\ x \notin Loads(s) => Tidy(Append(s, Carry(k, x)))
<1>1. Load(Carry(k, x)) = {x} /\ OnceEach(Carry(k, x)) /\ Carry(k, x) \in Inbound
    BY DEF Load, OnceEach, Carry, Inbound
<1>2. /\ Loads(Append(s, Carry(k, x))) = Loads(s) \cup Load(Carry(k, x))
      /\ Tidy(s) /\ OnceEach(Carry(k, x)) /\ Load(Carry(k, x)) \cap Loads(s) = {}
             => Tidy(Append(s, Carry(k, x)))
    BY <1>1, TidyAppended
<1>3. x \notin Loads(s) => {x} \cap Loads(s) = {}
    OBVIOUS
<1> QED BY <1>1, <1>2, <1>3

(* Where what was with a thread is after the end of a handler.              *)
LEMMA FinishNeat ==
    ASSUME NEW q \in Seq(Msg), NEW p \in Ports, NEW c,
           NEW q2, NEW p2, NEW c2,
           Moves(q2, q, p2, p, c2, c), Neat(q, p, c),
           NEW d, With(d, q, p, c), NEW d2, With(d2, q2, p2, c2),
           NEW o, o = Loads(p.down), NEW o2, o2 = Loads(p2.down),
           d \cap o = {}
    PROVE  /\ Neat(q2, p2, c2)
           /\ d2 \subseteq d
           /\ o2 \subseteq o \cup d /\ o2 \cap d2 = {}
<1>1. CASE StaysPut(q2, q, p2, p, c2, c)
    BY <1>1 DEF StaysPut, Part, Rewritten, Neat, With
<1>2. CASE GoesOut(q2, q, p2, p, c2)
    <2>1. PICK x \in Msg :
            /\ x \in Elements(q) /\ Part(q2, q) /\ (Once(q) => x \notin Elements(q2))
            /\ p2.up = p.up
            /\ p2.down = p.down \/ p2.down = Append(p.down, Carry("input", x))
            /\ c2.disk.queue = q2 /\ c2.last.queue = q2
        BY <1>2 DEF GoesOut
    <2>2. x \notin Loads(p.down) /\ x \notin Loads(p.up) /\ x \notin Elements(q2)
          /\ Once(q2) /\ Elements(q2) \subseteq Elements(q)
        BY <2>1 DEF Neat, Part, With
    <2>3. p.down \in Seq(Inbound)
        BY DEF Ports
    <2>4. /\ Loads(p2.down) = Loads(p.down) \/ Loads(p2.down) = Loads(p.down) \cup {x}
          /\ Tidy(p2.down)
        BY <2>1, <2>2, <2>3, PutIn DEF Neat
    <2>5. Neat(q2, p2, c2)
        BY <2>1, <2>2, <2>4 DEF Neat
    <2> QED BY <2>1, <2>2, <2>4, <2>5 DEF With
<1> QED BY <1>1, <1>2 DEF Moves

LEMMA FinishTokens ==
    ASSUME TypeOK,
           NEW m \in [Thread -> LiveThread], NEW l \in [Thread -> Ports],
           NEW who \in SUBSET Thread, NEW now, NEW later, NEW dropped,
           Finish(m, l, who, now, later, dropped),
           NEW w, NEW r, NEW u, Tokens(m, l, store, w, r, u)
    PROVE  Tokens(th', link', store', w, r, u)
<1> DEFINE d == Dormant(m, l, store)
           o == Going(l)
           d2 == Dormant(th', link', store')
           o2 == Going(link')
<1>1. ASSUME NEW t \in Thread
      PROVE  /\ Neat(th'[t].queue, link'[t], store'[t])
             /\ d2[t] \subseteq d[t] /\ o2[t] \subseteq o[t] \cup d[t]
             /\ o2[t] \cap d2[t] = {}
    <2>1. m[t].queue \in Seq(Msg) /\ l[t] \in Ports
        BY DEF LiveThread
    <2>2. Moves(th'[t].queue, m[t].queue, link'[t], l[t], store'[t], store[t])
        BY FinishMoves
    <2>3. Neat(m[t].queue, l[t], store[t])
        BY DEF Tokens
    <2>4. /\ With(d[t], m[t].queue, l[t], store[t]) /\ o[t] = Loads(l[t].down)
          /\ With(d2[t], th'[t].queue, link'[t], store'[t]) /\ o2[t] = Loads(link'[t].down)
        BY DEF Dormant, Going, With
    <2>5. d[t] \cap o[t] = {}
        BY DEF Tokens, Spread
    <2> HIDE DEF d, o, d2, o2
    <2> QED BY <2>1, <2>2, <2>3, <2>4, <2>5, FinishNeat
<1>2. Spread(d, o, Inbox(w), r, u)
    BY DEF Tokens
<1>3. \A t \in Thread : /\ d2[t] \subseteq d[t] /\ o2[t] \subseteq o[t] \cup d[t]
                        /\ o2[t] \cap d2[t] = {}
    BY <1>1
<1>4. \A e \in Slot : Inbox(w)[e] \subseteq Inbox(w)[e]
    OBVIOUS
<1> HIDE DEF d, o, d2, o2
<1>5. Spread(d2, o2, Inbox(w), r, u)
    BY <1>2, <1>3, <1>4, SpreadLess
<1> QED BY <1>1, <1>5 DEF Tokens, d2, o2

(* A handler or an engine that puts no message anywhere.                    *)
Lighter(p2, p) == Lightened(p.down, p2.down, Inbound) /\ Lightened(p.up, p2.up, Outbound)

LEMMA LighterPorts ==
    ASSUME NEW p \in Ports, NEW p2, Lighter(p2, p), Tidy(p.down), Tidy(p.up)
    PROVE  /\ Tidy(p2.down) /\ Tidy(p2.up)
           /\ Loads(p2.down) \subseteq Loads(p.down) /\ Loads(p2.up) \subseteq Loads(p.up)
<1>1. p.down \in Seq(Inbound) /\ p.up \in Seq(Outbound)
    BY DEF Ports
<1>2. /\ \A x \in Inbound : Load(x) = {} => OnceEach(x)
      /\ \A x \in Outbound : Load(x) = {} => OnceEach(x)
    BY NoLoad
<1>3. Lightened(p.down, p2.down, Inbound) /\ Lightened(p.up, p2.up, Outbound)
    BY DEF Lighter
<1> QED BY <1>1, <1>2, <1>3, LighterLoads

LEMMA MidLess ==
    ASSUME NEW h \in [Thread -> LiveThread], NEW l \in [Thread -> Ports], NEW s,
           NEW w, NEW r, NEW u, Tokens(h, l, s, w, r, u),
           NEW h2, NEW l2, NEW w2, NEW v, u \subseteq v,
           \A t \in Thread : h2[t].queue = h[t].queue \/ h2[t].queue = <<>>,
           \A t \in Thread : l2[t] = l[t] \/ Lighter(l2[t], l[t]),
           \A e \in Slot : w2[e].steers = w[e].steers \/ w2[e].steers = <<>>
    PROVE  Tokens(h2, l2, s, w2, r, v)
<1> DEFINE d == Dormant(h, l, s)
           o == Going(l)
           i == Inbox(w)
           d2 == Dormant(h2, l2, s)
           o2 == Going(l2)
           i2 == Inbox(w2)
<1>1. ASSUME NEW t \in Thread
      PROVE  /\ Neat(h2[t].queue, l2[t], s[t])
             /\ d2[t] \subseteq d[t] /\ o2[t] \subseteq o[t]
    <2>1. Neat(h[t].queue, l[t], s[t]) /\ l[t] \in Ports
        BY DEF Tokens
    <2>2. /\ Tidy(l2[t].down) /\ Tidy(l2[t].up)
          /\ Loads(l2[t].down) \subseteq Loads(l[t].down) /\ Loads(l2[t].up) \subseteq Loads(l[t].up)
        BY <2>1, LighterPorts DEF Neat
    <2>3. Once(h2[t].queue) /\ Elements(h2[t].queue) \subseteq Elements(h[t].queue)
        BY <2>1, OnceEmpty DEF Neat
    <2>4. Neat(h2[t].queue, l2[t], s[t])
        BY <2>1, <2>2, <2>3 DEF Neat
    <2>5. d2[t] \subseteq d[t] /\ o2[t] \subseteq o[t]
        BY <2>2, <2>3 DEF Dormant, Going
    <2> QED BY <2>4, <2>5
<1>2. \A e \in Slot : Once(w2[e].steers) /\ i2[e] \subseteq i[e]
    BY OnceEmpty DEF Tokens, Inbox
<1>3. Spread(d, o, i, r, u)
    BY DEF Tokens
<1>4. \A t \in Thread : d[t] \cap o[t] = {}
    BY <1>3 DEF Spread
<1>5. \A t \in Thread : /\ d2[t] \subseteq d[t] /\ o2[t] \subseteq o[t] \cup d[t]
                        /\ o2[t] \cap d2[t] = {}
    BY <1>1, <1>4
<1>6. \A e \in Slot : i2[e] \subseteq i[e]
    BY <1>2
<1> HIDE DEF d, o, i, d2, o2, i2
<1>7. Spread(d2, o2, i2, r, v)
    BY <1>3, <1>5, <1>6, SpreadLess
<1> QED BY <1>1, <1>2, <1>7 DEF Tokens, d2, o2, i2

Tokened == Tokens(th, link, store, engine, ran, used)

(* What a handler hands to Finish, when it puts no message anywhere.        *)
LEMMA LessTokened ==
    ASSUME TypeOK, Tokened,
           NEW m \in [Thread -> LiveThread], NEW l \in [Thread -> Ports],
           NEW who \in SUBSET Thread, NEW now, NEW later, NEW dropped,
           Finish(m, l, who, now, later, dropped),
           \A t \in Thread : m[t].queue = th[t].queue \/ m[t].queue = <<>>,
           \A t \in Thread : l[t] = link[t] \/ Lighter(l[t], link[t]),
           \A e \in Slot : engine'[e].steers = engine[e].steers \/ engine'[e].steers = <<>>,
           ran' = ran, used \subseteq used'
    PROVE  Tokened'
<1>1. th \in [Thread -> LiveThread] /\ link \in [Thread -> Ports]
    BY DEF TypeOK
<1>2. Tokens(th, link, store, engine, ran, used)
    BY DEF Tokened
<1>3. Tokens(m, l, store, engine', ran, used')
    BY <1>1, <1>2, MidLess
<1>4. Tokens(th', link', store', engine', ran, used')
    BY <1>3, FinishTokens
<1> QED BY <1>4 DEF Tokened

-----------------------------------------------------------------------------
(* What the handler of one thread hands to Finish: that thread as r, its    *)
(* ports as p.                                                              *)

Leaves(t, r, p, who, now, later, dropped) ==
    /\ r \in LiveThread /\ p \in Ports /\ who \in SUBSET Thread /\ dropped \in SUBSET Msg
    /\ Finish([th EXCEPT ![t] = r], [link EXCEPT ![t] = p], who, now, later, dropped)

Heeded(t, x) == IF Delivers(t) THEN [link[t] EXCEPT !.down = Append(@, x)] ELSE link[t]

LEMMA SameThreads ==
    ASSUME TypeOK, NEW t \in Thread
    PROVE  /\ [th EXCEPT ![t] = th[t]] = th /\ [link EXCEPT ![t] = link[t]] = link
           /\ th[t] \in LiveThread /\ link[t] \in Ports /\ Closed \in Ports
           /\ \A x \in Inbound : /\ Heeded(t, x) \in Ports
                                 /\ [link EXCEPT ![t] = Heeded(t, x)] =
                                        IF Delivers(t)
                                        THEN [link EXCEPT ![t].down = Append(@, x)] ELSE link
<1>1. th \in [Thread -> LiveThread] /\ link \in [Thread -> Ports]
    BY DEF TypeOK
<1>2. [th EXCEPT ![t] = th[t]] = th /\ [link EXCEPT ![t] = link[t]] = link
    BY <1>1
<1>3. Closed \in Ports
    BY EmptySeq DEF Closed, Ports
<1>4. ASSUME NEW x \in Inbound
      PROVE  /\ Heeded(t, x) \in Ports
             /\ [link EXCEPT ![t] = Heeded(t, x)] =
                    IF Delivers(t) THEN [link EXCEPT ![t].down = Append(@, x)] ELSE link
    <2>1. link[t] \in Ports /\ Append(link[t].down, x) \in Seq(Inbound)
        BY <1>1, AppendProperties DEF Ports
    <2>2. [link[t] EXCEPT !.down = Append(@, x)] \in Ports
        BY <2>1 DEF Ports
    <2>3. [link EXCEPT ![t] = [link[t] EXCEPT !.down = Append(@, x)]] =
              [link EXCEPT ![t].down = Append(@, x)]
        BY <1>1
    <2> QED BY <1>2, <2>1, <2>2, <2>3 DEF Heeded
<1> QED BY <1>1, <1>2, <1>3, <1>4

LEMMA InterruptLeaves ==
    ASSUME TypeOK, NEW t \in Thread, Interrupt(t)
    PROVE  Leaves(t, [th[t] EXCEPT !.queue = <<>>, !.sent = {}, !.cards = {}],
                  Heeded(t, Signal("interrupt")), {}, {}, {t}, Pending(th[t]))
<1> DEFINE r == [th[t] EXCEPT !.queue = <<>>, !.sent = {}, !.cards = {}]
           h == [th EXCEPT ![t].queue = <<>>, ![t].sent = {}, ![t].cards = {}]
           l == IF Delivers(t) THEN [link EXCEPT ![t].down = Append(@, Signal("interrupt"))]
                ELSE link
           p == Heeded(t, Signal("interrupt"))
<1>1. Finish(h, l, {}, {}, {t}, Pending(th[t]))
    BY DEF Interrupt
<1>2. th \in [Thread -> LiveThread] /\ th[t] \in LiveThread
    BY DEF TypeOK
<1>3. r \in LiveThread
    BY ZenonT(60), <1>2, EmptySeq DEF LiveThread
<1>4. h = [th EXCEPT ![t] = r]
    BY <1>2
<1>5. l = [link EXCEPT ![t] = p] /\ p \in Ports
    BY NoLoad, SameThreads
<1>6. Pending(th[t]) \in SUBSET Msg
    BY <1>2, PendingTyped
<1> HIDE DEF r, h, l, p
<1>7. Leaves(t, r, p, {}, {}, {t}, Pending(th[t]))
    BY <1>1, <1>3, <1>4, <1>5, <1>6 DEF Leaves
<1> QED BY <1>7 DEF r, p

LEMMA CancelLeaves ==
    ASSUME TypeOK, NEW t \in Thread, CancelQueued(t)
    PROVE  Leaves(t, [th[t] EXCEPT !.queue = <<>>], link[t], {}, {t}, {}, Elements(th[t].queue))
<1> DEFINE r == [th[t] EXCEPT !.queue = <<>>]
<1>1. Finish([th EXCEPT ![t].queue = <<>>], link, {}, {t}, {}, Elements(th[t].queue))
    BY DEF CancelQueued
<1>2. th \in [Thread -> LiveThread] /\ th[t] \in LiveThread
    BY DEF TypeOK
<1>3. r \in LiveThread
    BY ZenonT(60), <1>2, EmptySeq DEF LiveThread
<1>4. [th EXCEPT ![t].queue = <<>>] = [th EXCEPT ![t] = r]
    BY <1>2
<1>5. Elements(th[t].queue) \in SUBSET Msg
    BY <1>2, ElementsTyped DEF LiveThread
<1> HIDE DEF r
<1>6. Leaves(t, r, link[t], {}, {t}, {}, Elements(th[t].queue))
    BY <1>1, <1>3, <1>4, <1>5, SameThreads DEF Leaves
<1> QED BY <1>6 DEF r

LEMMA StopLeaves ==
    ASSUME TypeOK, NEW t \in Thread
    PROVE  /\ Stop(t) => Leaves(t, Stopped(th[t], FALSE), Closed, Thread, {}, {t}, Pending(th[t]))
           /\ Reap(t) => Leaves(t, Stopped(th[t], TRUE), Closed, Thread, {}, {t}, th[t].sent)
           /\ Restart(t) => \E e \in FreeSlots :
                 /\ Leaves(t, Started(Stopped(th[t], TRUE), e), Closed, Thread, {}, {t}, th[t].sent)
                 /\ engine' = [Dispose(th[t].eng) EXCEPT ![e] = BootingFor(t)]
<1>1. th \in [Thread -> LiveThread] /\ th[t] \in LiveThread
      /\ Pending(th[t]) \in SUBSET Msg /\ th[t].sent \in SUBSET Msg
    BY PendingTyped DEF TypeOK, LiveThread
<1>2. Stopped(th[t], FALSE) \in LiveThread /\ Stopped(th[t], TRUE) \in LiveThread
    BY <1>1, StoppedTyped
<1>3. ASSUME Stop(t)
      PROVE  Leaves(t, Stopped(th[t], FALSE), Closed, Thread, {}, {t}, Pending(th[t]))
    <2>1. [th EXCEPT ![t] = Stopped(@, FALSE)] = [th EXCEPT ![t] = Stopped(th[t], FALSE)]
        BY <1>1
    <2> QED BY <1>1, <1>2, <1>3, <2>1, SameThreads DEF Stop, Leaves
<1>4. [th EXCEPT ![t] = Stopped(@, TRUE)] = [th EXCEPT ![t] = Stopped(th[t], TRUE)]
    BY <1>1
<1>5. ASSUME Reap(t)
      PROVE  Leaves(t, Stopped(th[t], TRUE), Closed, Thread, {}, {t}, th[t].sent)
    BY <1>1, <1>2, <1>4, <1>5, SameThreads DEF Reap, Leaves
<1>6. ASSUME Restart(t)
      PROVE  \E e \in FreeSlots :
                 /\ Leaves(t, Started(Stopped(th[t], TRUE), e), Closed, Thread, {}, {t}, th[t].sent)
                 /\ engine' = [Dispose(th[t].eng) EXCEPT ![e] = BootingFor(t)]
    <2>1. PICK e \in FreeSlots :
            /\ Finish([th EXCEPT ![t] = Started(Stopped(@, TRUE), e)],
                      [link EXCEPT ![t] = Closed], Thread, {}, {t}, th[t].sent)
            /\ engine' = [Dispose(th[t].eng) EXCEPT ![e] = BootingFor(t)]
        BY <1>6 DEF Restart
    <2>2. Started(Stopped(th[t], TRUE), e) \in LiveThread
        BY <1>2, StartedTyped DEF FreeSlots
    <2>3. [th EXCEPT ![t] = Started(Stopped(@, TRUE), e)] =
              [th EXCEPT ![t] = Started(Stopped(th[t], TRUE), e)]
        BY <1>1
    <2>4. Leaves(t, Started(Stopped(th[t], TRUE), e), Closed, Thread, {}, {t}, th[t].sent)
        BY <1>1, <2>1, <2>2, <2>3, SameThreads DEF Leaves
    <2> QED BY <2>1, <2>4
<1> QED BY <1>3, <1>5, <1>6

LEMMA AnswerLeaves ==
    ASSUME TypeOK, NEW t \in Thread
    PROVE  /\ \A c \in EngineCard : Reply(t, c) =>
                 Leaves(t, [th[t] EXCEPT !.cards = @ \ {c}, !.status = "working"],
                        Heeded(t, Answer(c)), {}, {}, {t}, {})
           /\ \A fresh \in BOOLEAN : ResumeChoice(t, fresh) =>
                 Leaves(t, [th[t] EXCEPT !.cards = @ \ {"choice"}, !.status = "idle",
                                         !.hold = @ /\ ~fresh],
                        link[t], IF fresh THEN {t} ELSE {}, {}, {t}, {})
<1>1. th \in [Thread -> LiveThread] /\ th[t] \in LiveThread
    BY DEF TypeOK
<1>2. ASSUME NEW c \in EngineCard, Reply(t, c)
      PROVE  Leaves(t, [th[t] EXCEPT !.cards = @ \ {c}, !.status = "working"],
                    Heeded(t, Answer(c)), {}, {}, {t}, {})
    <2> DEFINE r == [th[t] EXCEPT !.cards = @ \ {c}, !.status = "working"]
               h == [th EXCEPT ![t].cards = @ \ {c}, ![t].status = "working"]
               l == IF Delivers(t) THEN [link EXCEPT ![t].down = Append(@, Answer(c))] ELSE link
               p == Heeded(t, Answer(c))
    <2>1. Finish(h, l, {}, {}, {t}, {})
        BY <1>2 DEF Reply
    <2>2. r \in LiveThread
        BY ZenonT(60), <1>1 DEF LiveThread, Status
    <2>3. h = [th EXCEPT ![t] = r]
        BY <1>1
    <2>4. l = [link EXCEPT ![t] = p] /\ p \in Ports
        BY NoLoad, SameThreads
    <2> HIDE DEF r, h, l, p
    <2>5. Leaves(t, r, p, {}, {}, {t}, {})
        BY <2>1, <2>2, <2>3, <2>4 DEF Leaves
    <2> QED BY <2>5 DEF r, p
<1>3. ASSUME NEW fresh \in BOOLEAN, ResumeChoice(t, fresh)
      PROVE  Leaves(t, [th[t] EXCEPT !.cards = @ \ {"choice"}, !.status = "idle",
                                     !.hold = @ /\ ~fresh],
                    link[t], IF fresh THEN {t} ELSE {}, {}, {t}, {})
    <2> DEFINE r == [th[t] EXCEPT !.cards = @ \ {"choice"}, !.status = "idle",
                                  !.hold = @ /\ ~fresh]
               h == [th EXCEPT ![t].cards = @ \ {"choice"}, ![t].status = "idle",
                               ![t].hold = @ /\ ~fresh]
               who == IF fresh THEN {t} ELSE {}
    <2>1. Finish(h, link, who, {}, {t}, {}) /\ who \in SUBSET Thread
        BY <1>3 DEF ResumeChoice
    <2>2. (th[t].hold /\ ~fresh) \in BOOLEAN
        OBVIOUS
    <2>3. r \in LiveThread
        BY ZenonT(60), <1>1, <2>2 DEF LiveThread, Status
    <2>4. h = [th EXCEPT ![t] = r]
        BY <1>1
    <2> HIDE DEF r, h, who
    <2>5. Leaves(t, r, link[t], who, {}, {t}, {})
        BY <2>1, <2>3, <2>4, SameThreads DEF Leaves
    <2> QED BY <2>5 DEF r, who
<1> QED BY <1>2, <1>3

(* What comes up the port of a thread, and what is left of it.              *)
Taken(t) == [link[t] EXCEPT !.up = Tail(@)]
Greeted(t, msg) ==
    IF msg.kind = "ready" /\ th[t].resume /\ Delivers(t)
    THEN [Taken(t) EXCEPT !.down = Append(@, Signal("resume"))] ELSE Taken(t)

LEMMA ReceiveLeaves ==
    ASSUME TypeOK, NEW t \in Thread, Receive(t)
    PROVE  LET msg == Head(link[t].up) IN
           /\ link[t].up # <<>> /\ msg \in Outbound
           /\ Leaves(t, Heard(th[t], msg), Greeted(t, msg),
                     PumpedAfter(Heard(th[t], msg)), {}, {t}, {})
<1> DEFINE msg == Head(link[t].up)
           r == Heard(th[t], msg)
           k == [link EXCEPT ![t].up = Tail(@)]
           l == IF msg.kind = "ready" /\ th[t].resume /\ Delivers(t)
                THEN [k EXCEPT ![t].down = Append(@, Signal("resume"))] ELSE k
           p == Greeted(t, msg)
<1>1. Finish([th EXCEPT ![t] = r], l, PumpedAfter(r), {}, {t}, {}) /\ link[t].up # <<>>
    BY DEF Receive
<1>2. th \in [Thread -> LiveThread] /\ link \in [Thread -> Ports] /\ link[t] \in Ports
    BY DEF TypeOK
<1>3. link[t].up \in Seq(Outbound) /\ link[t].up # <<>>
    BY <1>1, <1>2 DEF Ports
<1>4. msg \in Outbound /\ Tail(link[t].up) \in Seq(Outbound)
    BY <1>3, HeadTailProperties
<1>5. r \in LiveThread
    BY <1>2, <1>4, HeardTyped
<1>6. Taken(t) \in Ports /\ k = [link EXCEPT ![t] = Taken(t)]
    BY <1>2, <1>4 DEF Ports, Taken
<1>7. p \in Ports
    <2>1. Append(Taken(t).down, Signal("resume")) \in Seq(Inbound)
        BY <1>6, NoLoad, AppendProperties DEF Ports
    <2>2. [Taken(t) EXCEPT !.down = Append(@, Signal("resume"))] \in Ports
        BY <1>6, <2>1 DEF Ports
    <2> QED BY <1>6, <2>2 DEF Greeted
<1>8. l = [link EXCEPT ![t] = p]
    <2> HIDE DEF k
    <2>1. [k EXCEPT ![t].down = Append(@, Signal("resume"))] =
              [link EXCEPT ![t] = [Taken(t) EXCEPT !.down = Append(@, Signal("resume"))]]
        BY <1>2, <1>6
    <2> QED BY <1>6, <2>1 DEF Greeted
<1>9. PumpedAfter(r) \in SUBSET Thread
    BY DEF PumpedAfter
<1> HIDE DEF r, l, p, k, msg
<1>10. Leaves(t, r, p, PumpedAfter(r), {}, {t}, {})
    BY <1>1, <1>5, <1>7, <1>8, <1>9 DEF Leaves
<1> QED BY <1>1, <1>4, <1>10 DEF r, p, msg

LEMMA BeatLeaves ==
    ASSUME TypeOK, NEW t \in Thread, Heartbeat(t)
    PROVE  LET r == [th[t] EXCEPT !.session = @ \/ ("resume" \in Allowed /\ ~th[t].resume)]
           IN Leaves(t, r, link[t], PumpedAfter(r), {}, {t}, {})
<1> DEFINE r == [th[t] EXCEPT !.session = @ \/ ("resume" \in Allowed /\ ~th[t].resume)]
<1>1. Finish([th EXCEPT ![t] = r], link, PumpedAfter(r), {}, {t}, {})
    BY DEF Heartbeat
<1>2. th[t] \in LiveThread
    BY DEF TypeOK
<1>3. (th[t].session \/ ("resume" \in Allowed /\ ~th[t].resume)) \in BOOLEAN
    OBVIOUS
<1>4. r \in LiveThread
    BY ZenonT(60), <1>2, <1>3 DEF LiveThread
<1>5. PumpedAfter(r) \in SUBSET Thread
    BY DEF PumpedAfter
<1> HIDE DEF r
<1>6. Leaves(t, r, link[t], PumpedAfter(r), {}, {t}, {})
    BY <1>1, <1>4, <1>5, SameThreads DEF Leaves
<1> QED BY <1>6 DEF r

LEMMA DeadlineLeaves ==
    ASSUME TypeOK, NEW t \in Thread, ResumeDeadline(t)
    PROVE  LET q == [th[t] EXCEPT !.armed = FALSE]
               r == IF q.eng # NoSlot /\ q.resume THEN ResumeFailed(q) ELSE q
           IN q \in LiveThread /\ Leaves(t, r, link[t], {}, {}, {t}, {})
<1> DEFINE q == [th[t] EXCEPT !.armed = FALSE]
           r == IF q.eng # NoSlot /\ q.resume THEN ResumeFailed(q) ELSE q
<1>1. Finish([th EXCEPT ![t] = r], link, {}, {}, {t}, {})
    BY DEF ResumeDeadline
<1>2. th[t] \in LiveThread
    BY DEF TypeOK
<1>3. q \in LiveThread
    BY ZenonT(60), <1>2 DEF LiveThread
<1>4. r \in LiveThread
    <2> HIDE DEF q
    <2> QED BY <1>3, ResumeFailedTyped
<1> HIDE DEF q, r
<1>5. Leaves(t, r, link[t], {}, {}, {t}, {})
    BY <1>1, <1>4, SameThreads DEF Leaves
<1> QED BY <1>3, <1>5 DEF q, r

LEMMA LostLeaves ==
    ASSUME TypeOK, NEW t \in Thread
    PROVE  /\ EngineRestarts(t) =>
                 Leaves(t, CutOff(th[t], "starting"), Closed, {}, {}, {t}, th[t].sent)
           /\ EngineStopping(t) =>
                 Leaves(t, CutOff(th[t], "stopped"), Closed, {}, {}, {t}, th[t].sent)
           /\ EngineGone(t) =>
                 Leaves(t, [CutOff(th[t], "stopped") EXCEPT
                               !.eng = NoSlot, !.armed = FALSE, !.draining = NoSlot],
                        Closed, Thread, {}, {t}, th[t].sent)
<1>1. th \in [Thread -> LiveThread] /\ th[t] \in LiveThread /\ th[t].sent \in SUBSET Msg
    BY DEF TypeOK, LiveThread
<1>2. CutOff(th[t], "starting") \in LiveThread /\ CutOff(th[t], "stopped") \in LiveThread
    BY <1>1, CutOffTyped DEF Status
<1>3. /\ [th EXCEPT ![t] = CutOff(@, "starting")] = [th EXCEPT ![t] = CutOff(th[t], "starting")]
      /\ [th EXCEPT ![t] = CutOff(@, "stopped")] = [th EXCEPT ![t] = CutOff(th[t], "stopped")]
    BY <1>1
<1>4. ASSUME EngineRestarts(t)
      PROVE  Leaves(t, CutOff(th[t], "starting"), Closed, {}, {}, {t}, th[t].sent)
    BY <1>1, <1>2, <1>3, <1>4, SameThreads DEF EngineRestarts, Leaves
<1>5. ASSUME EngineStopping(t)
      PROVE  Leaves(t, CutOff(th[t], "stopped"), Closed, {}, {}, {t}, th[t].sent)
    BY <1>1, <1>2, <1>3, <1>5, SameThreads DEF EngineStopping, Leaves
<1>6. ASSUME EngineGone(t)
      PROVE  Leaves(t, [CutOff(th[t], "stopped") EXCEPT
                            !.eng = NoSlot, !.armed = FALSE, !.draining = NoSlot],
                    Closed, Thread, {}, {t}, th[t].sent)
    <2> DEFINE r == [CutOff(th[t], "stopped") EXCEPT
                        !.eng = NoSlot, !.armed = FALSE, !.draining = NoSlot]
               h == [th EXCEPT ![t] = [CutOff(@, "stopped") EXCEPT
                        !.eng = NoSlot, !.armed = FALSE, !.draining = NoSlot]]
    <2>1. r \in LiveThread
        BY <1>2 DEF LiveThread
    <2>2. h = [th EXCEPT ![t] = r]
        BY <1>1
    <2>3. Finish(h, [link EXCEPT ![t] = Closed], Thread, {}, {t}, th[t].sent)
        BY <1>6 DEF EngineGone
    <2> HIDE DEF r, h
    <2>4. Leaves(t, r, Closed, Thread, {}, {t}, th[t].sent)
        BY <1>1, <2>1, <2>2, <2>3, SameThreads DEF Leaves
    <2> QED BY <2>4 DEF r
<1> QED BY <1>4, <1>5, <1>6

LEMMA SteerLeaves ==
    ASSUME TypeOK, NEW t \in Thread, NEW m \in Msg, Steer(t, m)
    PROVE  Leaves(t, Steered(th[t], m),
                  IF diskOk THEN Heeded(t, Carry("steer", m)) ELSE link[t], {}, {t}, {}, {})
<1> DEFINE r == Steered(th[t], m)
           h == [th EXCEPT ![t] = Steered(@, m)]
           p == IF diskOk THEN Heeded(t, Carry("steer", m)) ELSE link[t]
           l == IF diskOk /\ Delivers(t)
                THEN [link EXCEPT ![t].down = Append(@, Carry("steer", m))] ELSE link
<1>1. Finish(h, l, {}, {t}, {}, {})
    BY DEF Steer
<1>2. th \in [Thread -> LiveThread] /\ th[t] \in LiveThread
    BY DEF TypeOK
<1>3. r \in LiveThread
    <2>1. Append(th[t].queue, m) \in Seq(Msg) /\ th[t].sent \cup {m} \in SUBSET Msg
        BY <1>2, AppendProperties DEF LiveThread
    <2> QED BY <1>2, <2>1 DEF Steered, LiveThread
<1>4. h = [th EXCEPT ![t] = r]
    BY <1>2
<1>5. Carry("steer", m) \in Inbound
    BY DEF Carry, Inbound
<1>6. l = [link EXCEPT ![t] = p] /\ p \in Ports
    BY <1>5, SameThreads
<1> HIDE DEF r, h, l, p
<1>7. Leaves(t, r, p, {}, {t}, {}, {})
    BY <1>1, <1>3, <1>4, <1>6 DEF Leaves
<1> QED BY <1>7 DEF r, p

(* An exit ends the wait of one thread at most.                             *)
LEMMA DrainedLeaves ==
    ASSUME TypeOK, NEW e \in Slot, Drained(e)
    PROVE  \E h \in [Thread -> LiveThread] :
             /\ Finish(h, link, Thread, {}, {}, {})
             /\ \A t \in Thread : h[t] = th[t] \/
                    (t = engine[e].owner /\ th[t].draining = e
                        /\ h[t] = [th[t] EXCEPT !.draining = NoSlot])
<1> DEFINE o == engine[e].owner
           h == [th EXCEPT ![o].draining = IF @ = e THEN NoSlot ELSE @]
<1>1. Finish(h, link, Thread, {}, {}, {})
    BY DEF Drained
<1>2. th \in [Thread -> LiveThread]
    BY DEF TypeOK
<1>3. \A u \in Thread : [th[u] EXCEPT !.draining = IF @ = e THEN NoSlot ELSE @] \in LiveThread
    BY ZenonT(60), <1>2 DEF LiveThread
<1>4. h \in [Thread -> LiveThread]
    BY <1>2, <1>3
<1>5. \A t \in Thread : h[t] = th[t] \/
          (t = o /\ th[t].draining = e /\ h[t] = [th[t] EXCEPT !.draining = NoSlot])
    <2> TAKE t \in Thread
    <2>1. th[t] = [th[t] EXCEPT !.draining = th[t].draining]
        BY <1>2 DEF LiveThread
    <2>2. h[t] = IF t = o THEN [th[t] EXCEPT !.draining = IF th[t].draining = e THEN NoSlot
                                                          ELSE th[t].draining]
                 ELSE th[t]
        BY <1>2
    <2> HIDE DEF h, o
    <2> QED BY <2>1, <2>2
<1> HIDE DEF h, o
<1>6. \A t \in Thread : h[t] = th[t] \/
                    (t = engine[e].owner /\ th[t].draining = e
                        /\ h[t] = [th[t] EXCEPT !.draining = NoSlot])
    BY <1>5 DEF o
<1> QED BY <1>1, <1>4, <1>6

-----------------------------------------------------------------------------
(* Handlers that put no message anywhere.                                   *)

InboxesLess(w) == \A e \in Slot : w[e].steers = engine[e].steers \/ w[e].steers = <<>>

LEMMA LeavesTokened ==
    ASSUME TypeOK, Tokened, NEW t \in Thread, NEW r, NEW p, NEW who, NEW now, NEW later,
           NEW dropped, Leaves(t, r, p, who, now, later, dropped),
           r.queue = th[t].queue \/ r.queue = <<>>, p = link[t] \/ Lighter(p, link[t]),
           InboxesLess(engine'), ran' = ran, used \subseteq used'
    PROVE  Tokened'
<1> DEFINE m == [th EXCEPT ![t] = r]
           l == [link EXCEPT ![t] = p]
<1>1. r \in LiveThread /\ p \in Ports /\ who \in SUBSET Thread
      /\ Finish(m, l, who, now, later, dropped)
    BY DEF Leaves
<1>2. th \in [Thread -> LiveThread] /\ link \in [Thread -> Ports]
    BY DEF TypeOK
<1>3. m \in [Thread -> LiveThread] /\ l \in [Thread -> Ports]
    BY <1>1, <1>2
<1>4. \A u \in Thread : m[u].queue = th[u].queue \/ m[u].queue = <<>>
    BY <1>2
<1>5. \A u \in Thread : l[u] = link[u] \/ Lighter(l[u], link[u])
    BY <1>2
<1>6. \A e \in Slot : engine'[e].steers = engine[e].steers \/ engine'[e].steers = <<>>
    BY DEF InboxesLess
<1> HIDE DEF m, l
<1> QED BY <1>1, <1>3, <1>4, <1>5, <1>6, LessTokened

(* The ports that such a handler leaves.                                    *)
LEMMA LighterEnds ==
    ASSUME TypeOK, NEW t \in Thread
    PROVE  /\ Lighter(Closed, link[t])
           /\ \A x \in Inbound : Load(x) = {} =>
                  Heeded(t, x) = link[t] \/ Lighter(Heeded(t, x), link[t])
           /\ \A msg : link[t].up # <<>> => Lighter(Greeted(t, msg), link[t])
<1>1. link[t] \in Ports
    BY DEF TypeOK
<1>2. Lighter(Closed, link[t])
    BY DEF Lighter, Lightened, Closed
<1>3. ASSUME NEW x \in Inbound, Load(x) = {}
      PROVE  Heeded(t, x) = link[t] \/ Lighter(Heeded(t, x), link[t])
    <2> DEFINE p == [link[t] EXCEPT !.down = Append(@, x)]
    <2>1. p.down = Append(link[t].down, x) /\ p.up = link[t].up
        BY <1>1 DEF Ports
    <2>2. Heeded(t, x) = link[t] \/ Heeded(t, x) = p
        BY DEF Heeded
    <2> HIDE DEF p
    <2>3. Lightened(link[t].down, p.down, Inbound) /\ Lightened(link[t].up, p.up, Outbound)
        BY <1>3, <2>1 DEF Lightened
    <2> QED BY <2>2, <2>3 DEF Lighter
<1>4. ASSUME NEW msg, link[t].up # <<>>
      PROVE  Lighter(Greeted(t, msg), link[t])
    <2> DEFINE k == Taken(t)
               g == [k EXCEPT !.down = Append(@, Signal("resume"))]
    <2>1. k \in [{"down", "up"} -> {link[t].down, Tail(link[t].up)}]
          /\ k.down = link[t].down /\ k.up = Tail(link[t].up)
        BY <1>1 DEF Ports, Taken
    <2>2. g.down = Append(link[t].down, Signal("resume")) /\ g.up = Tail(link[t].up)
        <3> HIDE DEF k
        <3> QED BY <2>1
    <2>3. Greeted(t, msg) = k \/ Greeted(t, msg) = g
        BY DEF Greeted
    <2> HIDE DEF k, g
    <2>4. Signal("resume") \in Inbound /\ Load(Signal("resume")) = {}
        BY NoLoad
    <2>5. Lightened(link[t].up, Tail(link[t].up), Outbound)
        BY <1>4 DEF Lightened
    <2>6. /\ Lightened(link[t].down, link[t].down, Inbound)
          /\ Lightened(link[t].down, Append(link[t].down, Signal("resume")), Inbound)
        BY <2>4 DEF Lightened
    <2> QED BY <2>1, <2>2, <2>3, <2>5, <2>6 DEF Lighter
<1> QED BY <1>2, <1>3, <1>4

LEMMA QueueOf ==
    ASSUME NEW r \in LiveThread
    PROVE  /\ \A keep \in BOOLEAN : Stopped(r, keep).queue = IF keep THEN r.queue ELSE <<>>
           /\ \A e : Started(r, e).queue = r.queue
           /\ \A s : CutOff(r, s).queue = r.queue
           /\ ResumeFailed(r).queue = r.queue
<1>1. \A keep \in BOOLEAN : Stopped(r, keep).queue = IF keep THEN r.queue ELSE <<>>
    BY DEF Stopped, LiveThread
<1>2. \A e : Started(r, e).queue = r.queue
    BY DEF Started, LiveThread
<1>3. \A s : CutOff(r, s).queue = r.queue
    BY DEF CutOff, LiveThread
<1>4. ResumeFailed(r).queue = r.queue
    BY DEF ResumeFailed, LiveThread
<1> QED BY <1>1, <1>2, <1>3, <1>4

(* Of what an engine says, only unused steering adds to the queue.          *)
LEMMA HeardQueue ==
    ASSUME NEW r \in LiveThread, NEW msg \in Outbound, msg.kind # "unused"
    PROVE  Heard(r, msg).queue = r.queue
<1>1. Ready(r).queue = r.queue
    BY DEF Ready, LiveThread
<1>2. Idle(r).queue = r.queue
    BY DEF Idle, LiveThread
<1>3. ResumeTook(r).queue = r.queue
    BY DEF ResumeTook, LiveThread
<1>4. ResumeFailed(r).queue = r.queue
    BY QueueOf
<1>5. [r EXCEPT !.cards = @ \cup {msg.card}, !.status = "needs-you"].queue = r.queue
    BY DEF LiveThread
<1>6. [r EXCEPT !.session = @ \/ r.hold, !.hold = FALSE].queue = r.queue
    BY DEF LiveThread
<1> QED BY <1>1, <1>2, <1>3, <1>4, <1>5, <1>6 DEF Heard

LEMMA InboxesAfter ==
    ASSUME TypeOK
    PROVE  /\ InboxesLess(engine)
           /\ \A g \in Slot \cup {NoSlot} :
                 /\ InboxesLess(Dispose(g))
                 /\ \A e \in Slot, t \in Thread :
                        InboxesLess([Dispose(g) EXCEPT ![e] = BootingFor(t)])
           /\ \A e \in Slot :
                 /\ \A t \in Thread : InboxesLess([engine EXCEPT ![e] = BootingFor(t)])
                 /\ InboxesLess([engine EXCEPT ![e].state = "stopping"])
                 /\ InboxesLess([engine EXCEPT ![e] = FreeWorker])
<1>1. engine \in [Slot -> Worker] /\ FreeWorker.steers = <<>>
      /\ \A t \in Thread : BootingFor(t).steers = <<>>
    BY DEF TypeOK, FreeWorker, BootingFor
<1>2. \A e \in Slot : \A s : [engine[e] EXCEPT !.state = s].steers = engine[e].steers
    BY <1>1 DEF Worker, WorkerRecord
<1>3. \A g \in Slot \cup {NoSlot} :
        /\ \A e \in Slot : Dispose(g)[e].steers = engine[e].steers
        /\ DOMAIN Dispose(g) = Slot
    BY <1>1, <1>2 DEF Dispose
<1>4. \A g \in Slot \cup {NoSlot}, e \in Slot, t \in Thread :
          InboxesLess([Dispose(g) EXCEPT ![e] = BootingFor(t)])
    <2> TAKE g \in Slot \cup {NoSlot}, e \in Slot, t \in Thread
    <2> DEFINE k == Dispose(g)
    <2>1. DOMAIN k = Slot /\ \A f \in Slot : k[f].steers = engine[f].steers
        BY <1>3
    <2> HIDE DEF k
    <2> QED BY <1>1, <2>1 DEF InboxesLess, k
<1>5. \A e \in Slot :
         /\ \A t \in Thread : InboxesLess([engine EXCEPT ![e] = BootingFor(t)])
         /\ InboxesLess([engine EXCEPT ![e].state = "stopping"])
         /\ InboxesLess([engine EXCEPT ![e] = FreeWorker])
    BY <1>1, <1>2 DEF InboxesLess
<1>6. \A g \in Slot \cup {NoSlot} : InboxesLess(Dispose(g))
    BY <1>3 DEF InboxesLess
<1> QED BY <1>4, <1>5, <1>6 DEF InboxesLess

LEMMA QuietTokened ==
    ASSUME TypeOK, Tokened, NEW t \in Thread,
           \/ Interrupt(t) \/ CancelQueued(t) \/ Stop(t) \/ Reap(t) \/ Restart(t)
           \/ \E c \in EngineCard : Reply(t, c)
           \/ \E fresh \in BOOLEAN : ResumeChoice(t, fresh)
           \/ Heartbeat(t) \/ ResumeDeadline(t)
           \/ EngineRestarts(t) \/ EngineStopping(t) \/ EngineGone(t)
    PROVE  Tokened'
<1> DEFINE Quietly(r, p) ==
        /\ \E who, now, later, dropped : Leaves(t, r, p, who, now, later, dropped)
        /\ r.queue = th[t].queue \/ r.queue = <<>>
        /\ p = link[t] \/ Lighter(p, link[t])
        /\ InboxesLess(engine') /\ ran' = ran /\ used \subseteq used'
<1>1. ASSUME NEW r, NEW p, Quietly(r, p) PROVE Tokened'
    BY <1>1, LeavesTokened
<1>2. /\ th[t] \in LiveThread /\ link[t] \in Ports /\ th[t].eng \in Slot \cup {NoSlot}
    BY DEF TypeOK, LiveThread
<1>3. /\ InboxesLess(engine) /\ InboxesLess(Dispose(th[t].eng))
      /\ \A e \in Slot : /\ InboxesLess([Dispose(th[t].eng) EXCEPT ![e] = BootingFor(t)])
                         /\ InboxesLess([engine EXCEPT ![e] = BootingFor(t)])
                         /\ InboxesLess([engine EXCEPT ![e].state = "stopping"])
                         /\ InboxesLess([engine EXCEPT ![e] = FreeWorker])
    BY <1>2, InboxesAfter
<1>4. Silent => ran' = ran /\ used \subseteq used'
    BY DEF Silent
<1>5. CASE Interrupt(t)
    <2> DEFINE r == [th[t] EXCEPT !.queue = <<>>, !.sent = {}, !.cards = {}]
               p == Heeded(t, Signal("interrupt"))
    <2>1. \E who, now, later, dropped : Leaves(t, r, p, who, now, later, dropped)
        BY <1>5, InterruptLeaves
    <2>2. r.queue = <<>>
        BY <1>2 DEF LiveThread
    <2>3. p = link[t] \/ Lighter(p, link[t])
        BY NoLoad, LighterEnds
    <2>4. engine' = engine /\ Silent
        BY <1>5 DEF Interrupt
    <2> HIDE DEF r, p
    <2> QED BY <1>1, <1>3, <1>4, <2>1, <2>2, <2>3, <2>4
<1>6. CASE CancelQueued(t)
    <2> DEFINE r == [th[t] EXCEPT !.queue = <<>>]
    <2>1. \E who, now, later, dropped : Leaves(t, r, link[t], who, now, later, dropped)
        BY <1>6, CancelLeaves
    <2>2. r.queue = <<>>
        BY <1>2 DEF LiveThread
    <2>3. engine' = engine /\ Silent
        BY <1>6 DEF CancelQueued
    <2> HIDE DEF r
    <2> QED BY <1>1, <1>3, <1>4, <2>1, <2>2, <2>3
<1>7. CASE Stop(t)
    <2>1. Leaves(t, Stopped(th[t], FALSE), Closed, Thread, {}, {t}, Pending(th[t]))
        BY <1>7, StopLeaves
    <2>2. Stopped(th[t], FALSE).queue = <<>>
        BY <1>2, QueueOf
    <2>3. engine' = Dispose(th[t].eng) /\ Silent
        BY <1>7 DEF Stop
    <2> QED BY <1>1, <1>3, <1>4, <2>1, <2>2, <2>3, LighterEnds
<1>8. CASE Reap(t)
    <2>1. Leaves(t, Stopped(th[t], TRUE), Closed, Thread, {}, {t}, th[t].sent)
        BY <1>8, StopLeaves
    <2>2. Stopped(th[t], TRUE).queue = th[t].queue
        BY <1>2, QueueOf
    <2>3. engine' = Dispose(th[t].eng) /\ Silent
        BY <1>8 DEF Reap
    <2> QED BY <1>1, <1>3, <1>4, <2>1, <2>2, <2>3, LighterEnds
<1>9. CASE Restart(t)
    <2>1. PICK e \in FreeSlots :
            /\ Leaves(t, Started(Stopped(th[t], TRUE), e), Closed, Thread, {}, {t}, th[t].sent)
            /\ engine' = [Dispose(th[t].eng) EXCEPT ![e] = BootingFor(t)]
        BY <1>9, StopLeaves
    <2>2. Started(Stopped(th[t], TRUE), e).queue = th[t].queue
        <3>1. Stopped(th[t], TRUE) \in LiveThread
            BY <1>2, StoppedTyped
        <3>2. Stopped(th[t], TRUE).queue = th[t].queue
            BY <1>2, QueueOf
        <3> QED BY <3>1, <3>2, QueueOf
    <2>3. e \in Slot /\ Silent
        BY <1>9 DEF Restart, FreeSlots
    <2> QED BY <1>1, <1>3, <1>4, <2>1, <2>2, <2>3, LighterEnds
<1>10. ASSUME NEW c \in EngineCard, Reply(t, c) PROVE Tokened'
    <2> DEFINE r == [th[t] EXCEPT !.cards = @ \ {c}, !.status = "working"]
               p == Heeded(t, Answer(c))
    <2>1. \E who, now, later, dropped : Leaves(t, r, p, who, now, later, dropped)
        BY <1>10, AnswerLeaves
    <2>2. r.queue = th[t].queue
        BY <1>2 DEF LiveThread
    <2>3. p = link[t] \/ Lighter(p, link[t])
        BY NoLoad, LighterEnds
    <2>4. engine' = engine /\ Silent
        BY <1>10 DEF Reply
    <2> HIDE DEF r, p
    <2> QED BY <1>1, <1>3, <1>4, <2>1, <2>2, <2>3, <2>4
<1>11. ASSUME NEW fresh \in BOOLEAN, ResumeChoice(t, fresh) PROVE Tokened'
    <2> DEFINE r == [th[t] EXCEPT !.cards = @ \ {"choice"}, !.status = "idle",
                                  !.hold = @ /\ ~fresh]
    <2>1. \E who, now, later, dropped : Leaves(t, r, link[t], who, now, later, dropped)
        BY <1>11, AnswerLeaves
    <2>2. r.queue = th[t].queue
        BY <1>2 DEF LiveThread
    <2>3. engine' = engine /\ Silent
        BY <1>11 DEF ResumeChoice
    <2> HIDE DEF r
    <2> QED BY <1>1, <1>3, <1>4, <2>1, <2>2, <2>3
<1>12. CASE Heartbeat(t)
    <2> DEFINE r == [th[t] EXCEPT !.session = @ \/ ("resume" \in Allowed /\ ~th[t].resume)]
    <2>1. \E who, now, later, dropped : Leaves(t, r, link[t], who, now, later, dropped)
        BY <1>12, BeatLeaves
    <2>2. r.queue = th[t].queue
        BY <1>2 DEF LiveThread
    <2>3. engine' = engine /\ Silent
        BY <1>12 DEF Heartbeat
    <2> HIDE DEF r
    <2> QED BY <1>1, <1>3, <1>4, <2>1, <2>2, <2>3
<1>13. CASE ResumeDeadline(t)
    <2> DEFINE q == [th[t] EXCEPT !.armed = FALSE]
               r == IF q.eng # NoSlot /\ q.resume THEN ResumeFailed(q) ELSE q
    <2>1. q \in LiveThread
          /\ \E who, now, later, dropped : Leaves(t, r, link[t], who, now, later, dropped)
        BY <1>13, DeadlineLeaves
    <2>2. q.queue = th[t].queue
        BY <1>2 DEF LiveThread
    <2>3. engine' = engine /\ Silent
        BY <1>13 DEF ResumeDeadline
    <2>4. r.queue = th[t].queue
        <3> HIDE DEF q
        <3> QED BY <2>1, <2>2, QueueOf
    <2> HIDE DEF q, r
    <2> QED BY <1>1, <1>3, <1>4, <2>1, <2>3, <2>4
<1>14. CASE EngineRestarts(t)
    <2>1. Leaves(t, CutOff(th[t], "starting"), Closed, {}, {}, {t}, th[t].sent)
        BY <1>14, LostLeaves
    <2>2. th[t].eng \in Slot /\ engine' = [engine EXCEPT ![th[t].eng] = BootingFor(t)] /\ Silent
        BY <1>2, <1>14 DEF EngineRestarts
    <2> QED BY <1>1, <1>2, <1>3, <1>4, <2>1, <2>2, QueueOf, LighterEnds
<1>15. CASE EngineStopping(t)
    <2>1. Leaves(t, CutOff(th[t], "stopped"), Closed, {}, {}, {t}, th[t].sent)
        BY <1>15, LostLeaves
    <2>2. th[t].eng \in Slot /\ engine' = [engine EXCEPT ![th[t].eng].state = "stopping"] /\ Silent
        BY <1>2, <1>15 DEF EngineStopping
    <2> QED BY <1>1, <1>2, <1>3, <1>4, <2>1, <2>2, QueueOf, LighterEnds
<1>16. CASE EngineGone(t)
    <2> DEFINE k == CutOff(th[t], "stopped")
               r == [k EXCEPT !.eng = NoSlot, !.armed = FALSE, !.draining = NoSlot]
    <2>1. Leaves(t, r, Closed, Thread, {}, {t}, th[t].sent)
        BY <1>16, LostLeaves
    <2>2. k \in LiveThread /\ k.queue = th[t].queue
        BY <1>2, CutOffTyped, QueueOf DEF Status
    <2>3. r.queue = th[t].queue
        <3> HIDE DEF k
        <3> QED BY <2>2 DEF LiveThread
    <2>4. th[t].eng \in Slot /\ engine' = [engine EXCEPT ![th[t].eng] = FreeWorker] /\ Silent
        BY <1>2, <1>16 DEF EngineGone
    <2> HIDE DEF k, r
    <2> QED BY <1>1, <1>3, <1>4, <2>1, <2>3, <2>4, LighterEnds
<1> HIDE DEF Quietly
<1> QED BY <1>5, <1>6, <1>7, <1>8, <1>9, <1>10, <1>11, <1>12, <1>13, <1>14, <1>15, <1>16

-----------------------------------------------------------------------------
(* Handlers that take a new message of the person.                          *)

LEMMA NewQueued ==
    ASSUME NEW h \in [Thread -> LiveThread], NEW l, NEW s, NEW w, NEW r, NEW u,
           Tokens(h, l, s, w, r, u),
           NEW k \in Thread, NEW x \in Msg, x \notin u, NEW h2,
           \A t \in Thread : t # k => h2[t].queue = h[t].queue,
           h2[k].queue = Append(h[k].queue, x)
    PROVE  Tokens(h2, l, s, w, r, u \cup {x})
<1> DEFINE d == Dormant(h, l, s)
           o == Going(l)
           i == Inbox(w)
           d2 == Dormant(h2, l, s)
<1>1. Spread(d, o, i, r, u)
    BY DEF Tokens
<1>2. h[k].queue \in Seq(Msg)
    BY DEF LiveThread
<1>3. x \notin d[k]
    BY <1>1 DEF Spread
<1>4. /\ Elements(h2[k].queue) = Elements(h[k].queue) \cup {x}
      /\ Once(h[k].queue) /\ x \notin Elements(h[k].queue) => Once(h2[k].queue)
    BY <1>2, OnceAppended
<1>5. x \notin Elements(h[k].queue) /\ x \notin Loads(l[k].up)
    BY <1>3 DEF Dormant
<1>6. \A t \in Thread : Neat(h[t].queue, l[t], s[t])
    BY DEF Tokens
<1>7. Neat(h2[k].queue, l[k], s[k])
    BY <1>4, <1>5, <1>6 DEF Neat
<1>8. \A t \in Thread : Neat(h2[t].queue, l[t], s[t])
    BY <1>6, <1>7
<1>9. /\ \A t \in Thread : t # k => d2[t] \subseteq d[t] /\ o[t] \subseteq o[t]
      /\ d2[k] \subseteq d[k] \cup {x} /\ o[k] \subseteq o[k]
    BY <1>4 DEF Dormant
<1> HIDE DEF d, o, i, d2
<1>10. Spread(d2, o, i, r, u \cup {x})
    BY <1>1, <1>9, SpreadNew
<1> QED BY <1>8, <1>10 DEF Tokens, d2, o, i

LEMMA NewSent ==
    ASSUME NEW h, NEW l \in [Thread -> Ports], NEW s, NEW w, NEW r, NEW u,
           Tokens(h, l, s, w, r, u),
           NEW k \in Thread, NEW x \in Msg, x \notin u, NEW h2, NEW l2,
           \A t \in Thread : h2[t].queue = h[t].queue,
           \A t \in Thread : t # k => l2[t] = l[t],
           l2[k].down = Append(l[k].down, Carry("steer", x)), l2[k].up = l[k].up
    PROVE  Tokens(h2, l2, s, w, r, u \cup {x})
<1> DEFINE d == Dormant(h, l, s)
           o == Going(l)
           i == Inbox(w)
           d2 == Dormant(h2, l2, s)
           o2 == Going(l2)
<1>1. Spread(d, o, i, r, u)
    BY DEF Tokens
<1>2. l[k].down \in Seq(Inbound)
    BY DEF Ports
<1>3. x \notin Loads(l[k].down)
    <2>1. x \notin o[k]
        BY <1>1 DEF Spread
    <2> QED BY <2>1 DEF Going
<1>4. /\ Loads(l2[k].down) = Loads(l[k].down) \cup {x}
      /\ Tidy(l[k].down) => Tidy(l2[k].down)
    BY <1>2, <1>3, PutIn
<1>5. \A t \in Thread : Neat(h[t].queue, l[t], s[t])
    BY DEF Tokens
<1>6. Neat(h2[k].queue, l2[k], s[k])
    BY <1>4, <1>5 DEF Neat
<1>7. \A t \in Thread : Neat(h2[t].queue, l2[t], s[t])
    BY <1>5, <1>6
<1>8. /\ \A t \in Thread : t # k => d2[t] \subseteq d[t] /\ o2[t] \subseteq o[t]
      /\ d2[k] \subseteq d[k] /\ o2[k] \subseteq o[k] \cup {x}
    BY <1>4 DEF Dormant, Going
<1> HIDE DEF d, o, i, d2, o2
<1>9. Spread(d2, o2, i, r, u \cup {x})
    BY <1>1, <1>8, SpreadNew
<1> QED BY <1>7, <1>9 DEF Tokens, d2, o2, i

(* Starting an engine, or stopping another to make room, moves no message.  *)
LEMMA OpenedLess ==
    ASSUME TypeOK, NEW t \in Thread, NEW o \in Openings(t), OpenEngine(o, t)
    PROVE  /\ \A u \in Thread : Opened(o, t)[u].queue = th[u].queue
           /\ \A u \in Thread : PortsOpened(o, t)[u] = link[u]
                                \/ Lighter(PortsOpened(o, t)[u], link[u])
           /\ \A e \in Slot : engine'[e].steers = engine[e].steers \/ engine'[e].steers = <<>>
<1>1. th \in [Thread -> LiveThread] /\ engine \in [Slot -> Worker]
    BY DEF TypeOK
<1>2. \A u \in Thread : /\ Started(th[u], o.slot).queue = th[u].queue
                        /\ Stopped(th[u], TRUE).queue = th[u].queue
    BY <1>1, QueueOf
<1>3. \A u \in Thread : Opened(o, t)[u].queue = th[u].queue
    BY <1>2 DEF Opened
<1>4. \A u \in Thread : Lighter(Closed, link[u])
    BY LighterEnds
<1>5. \A u \in Thread : PortsOpened(o, t)[u] = link[u]
                        \/ Lighter(PortsOpened(o, t)[u], link[u])
    BY <1>4 DEF PortsOpened
<1>6. /\ BootingFor(t).steers = <<>>
      /\ \A e \in Slot : [engine[e] EXCEPT !.state = "exiting"].steers = engine[e].steers
    BY <1>1 DEF BootingFor, FreeWorker, Worker, WorkerRecord
<1>7. \A e \in Slot : engine'[e].steers = engine[e].steers \/ engine'[e].steers = <<>>
    BY <1>6 DEF OpenEngine
<1> QED BY <1>3, <1>5, <1>7

LEMMA StartTokened ==
    ASSUME TypeOK, Tokened, NEW t \in Thread, Start(t)
    PROVE  Tokened'
<1>1. PICK o \in Openings(t) :
        /\ OpenEngine(o, t)
        /\ Finish(Opened(o, t), PortsOpened(o, t), PumpedOnOpening(o),
                  {}, {t, o.victim} \cap Thread, ToldOnOpening(o))
    BY DEF Start
<1>2. ran' = ran /\ used \subseteq used'
    BY DEF Start, Silent
<1> QED BY <1>1, <1>2, OpeningTyped, OpenedLess, LessTokened

LEMMA SubmitTokened ==
    ASSUME TypeOK, Tokened, NEW t \in Thread, NEW m \in Msg, Submit(t, m)
    PROVE  Tokened'
<1>1. PICK o \in Openings(t) :
        /\ OpenEngine(o, t)
        /\ Finish([Opened(o, t) EXCEPT ![t] = Queued(@, m)], PortsOpened(o, t),
                  PumpedOnOpening(o) \cup (IF diskOk THEN {t} ELSE {}),
                  {t}, {o.victim} \cap Thread, ToldOnOpening(o))
    BY DEF Submit
<1> DEFINE h == Opened(o, t)
           l == PortsOpened(o, t)
           h2 == [h EXCEPT ![t] = Queued(@, m)]
           who == PumpedOnOpening(o) \cup (IF diskOk THEN {t} ELSE {})
<1>2. /\ h \in [Thread -> LiveThread] /\ l \in [Thread -> Ports] /\ who \in SUBSET Thread
    BY <1>1, OpeningTyped
<1>3. /\ \A u \in Thread : h[u].queue = th[u].queue \/ h[u].queue = <<>>
      /\ \A u \in Thread : l[u] = link[u] \/ Lighter(l[u], link[u])
      /\ \A e \in Slot : engine'[e].steers = engine[e].steers \/ engine'[e].steers = <<>>
    BY <1>1, OpenedLess
<1>4. /\ m \notin used /\ used' = used \cup {m} /\ ran' = ran
      /\ Finish(h2, l, who, {t}, {o.victim} \cap Thread, ToldOnOpening(o))
    BY <1>1 DEF Submit, History
<1> HIDE DEF h, l, who
<1>5. /\ th \in [Thread -> LiveThread] /\ link \in [Thread -> Ports]
      /\ Tokens(th, link, store, engine, ran, used) /\ used \subseteq used
    BY DEF TypeOK, Tokened
<1>6. Tokens(h, l, store, engine', ran, used)
    BY <1>2, <1>3, <1>5, MidLess
<1>7. /\ h2 \in [Thread -> LiveThread]
      /\ \A u \in Thread : u # t => h2[u].queue = h[u].queue
      /\ h2[t].queue = Append(h[t].queue, m)
    <2>1. h[t] \in LiveThread /\ Queued(h[t], m) \in LiveThread
        BY <1>2, QueuedTyped
    <2>2. Queued(h[t], m).queue = Append(h[t].queue, m)
        BY <2>1 DEF Queued, LiveThread
    <2> QED BY <1>2, <2>1, <2>2
<1> HIDE DEF h2
<1>8. Tokens(h2, l, store, engine', ran, used \cup {m})
    BY <1>2, <1>4, <1>6, <1>7, NewQueued
<1>9. Tokens(th', link', store', engine', ran, used \cup {m})
    BY <1>2, <1>4, <1>7, <1>8, FinishTokens
<1> QED BY <1>4, <1>9 DEF Tokened

LEMMA SteerTokened ==
    ASSUME TypeOK, Tokened, NEW t \in Thread, NEW m \in Msg, Steer(t, m)
    PROVE  Tokened'
<1> DEFINE r == Steered(th[t], m)
           p == IF diskOk THEN Heeded(t, Carry("steer", m)) ELSE link[t]
           h == [th EXCEPT ![t] = r]
           l == [link EXCEPT ![t] = p]
<1>1. /\ r \in LiveThread /\ p \in Ports /\ Finish(h, l, {}, {t}, {}, {})
    BY SteerLeaves DEF Leaves
<1>2. /\ m \notin used /\ used' = used \cup {m} /\ ran' = ran /\ engine' = engine
    BY DEF Steer, History
<1>3. /\ th \in [Thread -> LiveThread] /\ link \in [Thread -> Ports]
      /\ Tokens(th, link, store, engine, ran, used) /\ used \subseteq used \cup {m}
    BY DEF TypeOK, Tokened
<1>4. h \in [Thread -> LiveThread] /\ l \in [Thread -> Ports]
      /\ {} \in SUBSET Thread
    BY <1>1, <1>3
<1>5. r.queue = IF diskOk THEN th[t].queue ELSE Append(th[t].queue, m)
    BY <1>3 DEF Steered, LiveThread
<1>6. /\ h[t] = r /\ l[t] = p
      /\ \A u \in Thread : u # t => h[u].queue = th[u].queue /\ l[u] = link[u]
    BY <1>3
<1>7. Tokens(h, l, store, engine, ran, used \cup {m})
    <2>1. CASE ~diskOk
        <3>1. l = link
            BY <1>3, <2>1
        <3>2. h[t].queue = Append(th[t].queue, m)
            BY <1>5, <1>6, <2>1
        <3> HIDE DEF h, l
        <3> QED BY <1>2, <1>3, <1>6, <3>1, <3>2, NewQueued
    <2>2. CASE diskOk /\ Delivers(t)
        <3>1. l[t].down = Append(link[t].down, Carry("steer", m)) /\ l[t].up = link[t].up
            BY <1>3, <1>6, <2>2 DEF Heeded, Ports
        <3>2. \A u \in Thread : h[u].queue = th[u].queue
            BY <1>5, <1>6, <2>2
        <3> HIDE DEF h, l
        <3> QED BY <1>2, <1>3, <1>6, <3>1, <3>2, NewSent
    <2>3. CASE diskOk /\ ~Delivers(t)
        <3>1. l = link
            BY <1>3, <2>3 DEF Heeded
        <3>2. \A u \in Thread : h[u].queue = th[u].queue
            BY <1>5, <1>6, <2>3
        <3> HIDE DEF h, l
        <3> QED BY <1>3, <3>1, <3>2, MidLess
    <2> QED BY <2>1, <2>2, <2>3
<1> HIDE DEF h, l
<1>8. Tokens(th', link', store', engine, ran, used \cup {m})
    BY <1>1, <1>4, <1>7, FinishTokens
<1> QED BY <1>2, <1>8 DEF Tokened

-----------------------------------------------------------------------------
(* Steering that a turn never took goes to the front of the queue.          *)
LEMMA JoinedNeat ==
    ASSUME NEW q \in Seq(Msg), NEW p \in Ports, NEW c, Neat(q, p, c),
           p.up # <<>>, Head(p.up).kind = "unused", Head(p.up).msgs \in Seq(Msg),
           NEW p2, p2.down = p.down, p2.up = Tail(p.up),
           NEW q2, q2 = Head(p.up).msgs \o q
    PROVE  /\ Neat(q2, p2, c)
           /\ Elements(q2) \cup Loads(p2.up) \subseteq Elements(q) \cup Loads(p.up)
<1> DEFINE x == Head(p.up)
<1>1. p.up \in Seq(Outbound)
    BY DEF Ports
<1>2. /\ Loads(p.up) = Load(x) \cup Loads(p2.up)
      /\ Tidy(p2.up) /\ OnceEach(x) /\ Load(x) \cap Loads(p2.up) = {}
    BY <1>1, TidyTaken DEF Neat
<1>3. Load(x) = Elements(x.msgs) /\ Once(x.msgs)
    BY <1>2 DEF Load, OnceEach
<1>4. Elements(x.msgs) \cap Elements(q) = {} /\ Elements(q) \cap Loads(p2.up) = {}
    BY <1>2, <1>3 DEF Neat
<1>5. Once(q) /\ x.msgs \in Seq(Msg)
    BY DEF Neat
<1> HIDE DEF x
<1>6. /\ Elements(x.msgs \o q) = Elements(x.msgs) \cup Elements(q)
      /\ Once(x.msgs \o q)
    BY <1>3, <1>4, <1>5, OnceJoined
<1>7. Elements(q2) = Elements(x.msgs) \cup Elements(q) /\ Once(q2)
    BY <1>6 DEF x
<1>8. Neat(q2, p2, c)
    BY <1>2, <1>3, <1>4, <1>7 DEF Neat
<1> QED BY <1>2, <1>3, <1>7, <1>8

LEMMA ReceiveTokened ==
    ASSUME TypeOK, Tokened, NEW t \in Thread, Receive(t)
    PROVE  Tokened'
<1> DEFINE msg == Head(link[t].up)
           r == Heard(th[t], msg)
           p == Greeted(t, msg)
<1>1. /\ link[t].up # <<>> /\ msg \in Outbound
      /\ Leaves(t, r, p, PumpedAfter(r), {}, {t}, {})
    BY ReceiveLeaves
<1>2. engine' = engine /\ ran' = ran /\ used' = used
    BY DEF Receive, Silent
<1>3. /\ th \in [Thread -> LiveThread] /\ link \in [Thread -> Ports]
      /\ Tokens(th, link, store, engine, ran, used)
      /\ th[t].queue \in Seq(Msg)
    BY DEF TypeOK, LiveThread, Tokened
<1>4. CASE msg.kind # "unused"
    <2>1. r.queue = th[t].queue
        BY <1>1, <1>3, <1>4, HeardQueue
    <2>2. Lighter(p, link[t])
        BY <1>1, LighterEnds
    <2> HIDE DEF msg, r, p
    <2> QED BY <1>1, <1>2, <2>1, <2>2, LeavesTokened, InboxesAfter
<1>5. CASE msg.kind = "unused"
    <2> DEFINE h == [th EXCEPT ![t] = r]
               l == [link EXCEPT ![t] = p]
               d == Dormant(th, link, store)
               o == Going(link)
               i == Inbox(engine)
               d2 == Dormant(h, l, store)
               o2 == Going(l)
    <2>1. r.queue = msg.msgs \o th[t].queue /\ msg.msgs \in Seq(Msg)
        <3>1. r = [th[t] EXCEPT !.queue = msg.msgs \o @]
            BY <1>5 DEF Heard
        <3>2. msg.msgs \in Seq(Msg)
            <4> HIDE DEF msg
            <4> QED BY <1>1, <1>5 DEF Outbound
        <3> QED BY <1>3, <3>1, <3>2 DEF LiveThread
    <2>2. p.down = link[t].down /\ p.up = Tail(link[t].up)
        BY <1>3, <1>5 DEF Greeted, Taken, Ports
    <2>3. Neat(th[t].queue, link[t], store[t])
        BY <1>3 DEF Tokens
    <2>4. link[t] \in Ports
        BY <1>3
    <2>5. /\ Neat(r.queue, p, store[t])
          /\ Elements(r.queue) \cup Loads(p.up) \subseteq Elements(th[t].queue) \cup Loads(link[t].up)
        <3> HIDE DEF r, p
        <3>1. /\ link[t].up # <<>> /\ Head(link[t].up).kind = "unused"
              /\ Head(link[t].up).msgs \in Seq(Msg)
              /\ r.queue = Head(link[t].up).msgs \o th[t].queue
            BY <1>1, <1>5, <2>1
        <3> HIDE DEF msg
        <3> QED BY <1>3, <2>2, <2>3, <2>4, <3>1, JoinedNeat
    <2>6. /\ h \in [Thread -> LiveThread] /\ l \in [Thread -> Ports]
          /\ h[t] = r /\ l[t] = p
          /\ \A u \in Thread : u # t => h[u] = th[u] /\ l[u] = link[u]
          /\ PumpedAfter(r) \in SUBSET Thread
          /\ Finish(h, l, PumpedAfter(r), {}, {t}, {})
        BY <1>1, <1>3 DEF Leaves
    <2> HIDE DEF msg, r, p, h, l
    <2>7. \A u \in Thread : Neat(h[u].queue, l[u], store[u])
        BY <1>3, <2>5, <2>6 DEF Tokens
    <2>8. \A u \in Thread : d2[u] \subseteq d[u] /\ o2[u] = o[u]
        BY <2>2, <2>5, <2>6 DEF Dormant, Going
    <2>9. Spread(d, o, i, ran, used)
        BY <1>3 DEF Tokens
    <2>10. \A u \in Thread : /\ d2[u] \subseteq d[u] /\ o2[u] \subseteq o[u] \cup d[u]
                             /\ o2[u] \cap d2[u] = {}
        BY <2>8, <2>9 DEF Spread
    <2>11. used \subseteq used /\ \A e \in Slot : i[e] \subseteq i[e]
        OBVIOUS
    <2> HIDE DEF d, o, i, d2, o2
    <2>12. Spread(d2, o2, i, ran, used)
        BY <2>9, <2>10, <2>11, SpreadLess
    <2>13. Tokens(h, l, store, engine, ran, used)
        BY <1>3, <2>7, <2>12 DEF Tokens, d2, o2, i
    <2>14. Tokens(th', link', store', engine, ran, used)
        BY <2>6, <2>13, FinishTokens
    <2> QED BY <1>2, <2>14 DEF Tokened
<1> QED BY <1>4, <1>5

(* A worker's exit moves no message.                                        *)
LEMMA DrainedTokened ==
    ASSUME TypeOK, Tokened, NEW e \in Slot, Drained(e)
    PROVE  Tokened'
<1>1. PICK h \in [Thread -> LiveThread] :
        /\ Finish(h, link, Thread, {}, {}, {})
        /\ \A t \in Thread : h[t] = th[t] \/ h[t] = [th[t] EXCEPT !.draining = NoSlot]
    BY DrainedLeaves
<1>2. /\ th \in [Thread -> LiveThread] /\ link \in [Thread -> Ports]
      /\ engine' = [engine EXCEPT ![e] = FreeWorker] /\ ran' = ran /\ used \subseteq used'
    BY DEF Drained, Silent, TypeOK
<1>3. \A t \in Thread : h[t].queue = th[t].queue
    BY <1>1, <1>2 DEF LiveThread
<1>4. \A f \in Slot : engine'[f].steers = engine[f].steers \/ engine'[f].steers = <<>>
    BY <1>2, InboxesAfter DEF InboxesLess
<1>5. Thread \in SUBSET Thread
    OBVIOUS
<1> QED BY <1>1, <1>2, <1>3, <1>4, <1>5, LessTokened

(* What goes past the handlers, the disk, and a crash of the app.           *)
LEMMA OtherTokened ==
    ASSUME TypeOK, Tokened,
           \/ \E t \in Thread : SubmitRefused(t) \/ \E k \in {"command", "pick"} : PassThrough(t, k)
           \/ \E t \in Thread : Flush(t)
           \/ DiskTurns \/ AppCrash
    PROVE  Tokened'
<1>1. /\ th \in [Thread -> LiveThread] /\ link \in [Thread -> Ports]
      /\ Tokens(th, link, store, engine, ran, used) /\ used \subseteq used
    BY DEF TypeOK, Tokened
<1>2. ASSUME NEW t \in Thread, SubmitRefused(t) PROVE Tokened'
    <2>1. /\ \A u \in Thread : th'[u].queue = th[u].queue
          /\ link' = link /\ store' = store /\ engine' = engine /\ ran' = ran /\ used' = used
        BY <1>1, <1>2 DEF SubmitRefused, Silent, LiveThread
    <2>2. Tokens(th', link, store, engine, ran, used)
        BY <1>1, <2>1, MidLess
    <2> QED BY <2>1, <2>2 DEF Tokened
<1>3. ASSUME NEW t \in Thread, NEW k \in {"command", "pick"}, PassThrough(t, k) PROVE Tokened'
    <2>1. /\ link' = [link EXCEPT ![t].down = Append(@, Signal(k))]
          /\ th' = th /\ store' = store /\ engine' = engine /\ ran' = ran /\ used' = used
        BY <1>3 DEF PassThrough, Silent
    <2>2. Signal(k) \in Inbound /\ Load(Signal(k)) = {}
        BY NoLoad
    <2>3. \A u \in Thread : u # t => link'[u] = link[u]
        BY <1>1, <2>1
    <2>4. link'[t].down = Append(link[t].down, Signal(k)) /\ link'[t].up = link[t].up
        BY <1>1, <2>1 DEF Ports
    <2>5. Lighter(link'[t], link[t])
        BY <2>2, <2>4 DEF Lighter, Lightened
    <2>6. \A u \in Thread : link'[u] = link[u] \/ Lighter(link'[u], link[u])
        BY <2>3, <2>5
    <2>7. Tokens(th, link', store, engine, ran, used)
        BY <1>1, <2>6, MidLess
    <2> QED BY <2>1, <2>7 DEF Tokened
<1>4. CASE DiskTurns
    BY <1>1, <1>4 DEF DiskTurns, Tokened
<1>5. ASSUME NEW d2, NEW o2, NEW i2,
             \A t \in Thread : d2[t] \subseteq Dormant(th, link, store)[t] /\ o2[t] \subseteq Going(link)[t],
             \A e \in Slot : i2[e] \subseteq Inbox(engine)[e]
      PROVE  Spread(d2, o2, i2, ran, used)
    <2> DEFINE d == Dormant(th, link, store)
               o == Going(link)
               i == Inbox(engine)
    <2>1. Spread(d, o, i, ran, used)
        BY <1>1 DEF Tokens
    <2>2. /\ \A t \in Thread : d2[t] \subseteq d[t] /\ o2[t] \subseteq o[t]
          /\ \A e \in Slot : i2[e] \subseteq i[e]
        BY <1>5
    <2> HIDE DEF d, o, i
    <2>3. \A t \in Thread : /\ d2[t] \subseteq d[t] /\ o2[t] \subseteq o[t] \cup d[t]
                            /\ o2[t] \cap d2[t] = {}
        BY <2>1, <2>2 DEF Spread
    <2> QED BY <1>1, <2>1, <2>2, <2>3, SpreadLess
<1>6. ASSUME NEW t \in Thread, Flush(t) PROVE Tokened'
    <2>1. /\ store' = [store EXCEPT ![t].disk = store[t].last] /\ store \in [Thread -> Stored]
          /\ th' = th /\ link' = link /\ engine' = engine /\ ran' = ran /\ used' = used
        BY <1>6 DEF Flush, Silent, TypeOK
    <2>2. \A u \in Thread : /\ store'[u].last = store[u].last
                            /\ store'[u].disk = store[u].disk \/ store'[u].disk = store[u].last
        BY <2>1 DEF Stored
    <2>3. \A u \in Thread : Neat(th[u].queue, link[u], store'[u])
        BY <1>1, <2>2 DEF Tokens, Neat
    <2>4. \A u \in Thread : Dormant(th, link, store')[u] \subseteq Dormant(th, link, store)[u]
        BY <2>2 DEF Dormant
    <2>5. Spread(Dormant(th, link, store'), Going(link), Inbox(engine), ran, used)
        BY <1>5, <2>4
    <2> QED BY <1>1, <2>1, <2>3, <2>5 DEF Tokened, Tokens
<1>7. CASE AppCrash
    <2>1. /\ \A u \in Thread : /\ th'[u].queue = store[u].disk.queue
                               /\ link'[u].down = <<>> /\ link'[u].up = <<>>
                               /\ store'[u].disk = store[u].disk /\ store'[u].last = store[u].disk
          /\ \A e \in Slot : engine'[e].steers = <<>>
          /\ ran' = ran /\ used' = used
        BY <1>7 DEF AppCrash, Silent, Adopted, Closed, FreeWorker
    <2>2. \A u \in Thread : Once(store[u].disk.queue)
        BY <1>1 DEF Tokens, Neat
    <2>3. \A u \in Thread : Neat(th'[u].queue, link'[u], store'[u])
        BY <2>1, <2>2, OnceEmpty DEF Neat
    <2>4. \A u \in Thread : /\ Dormant(th', link', store')[u] \subseteq Dormant(th, link, store)[u]
                            /\ Going(link')[u] \subseteq Going(link)[u]
        BY <2>1, OnceEmpty DEF Dormant, Going
    <2>5. \A e \in Slot : /\ Inbox(engine')[e] \subseteq Inbox(engine)[e]
                          /\ Once(engine'[e].steers)
        BY <2>1, OnceEmpty DEF Inbox
    <2>6. Spread(Dormant(th', link', store'), Going(link'), Inbox(engine'), ran, used)
        BY <1>5, <2>4, <2>5
    <2> QED BY <2>1, <2>3, <2>5, <2>6 DEF Tokened, Tokens
<1> QED BY <1>2, <1>3, <1>4, <1>6, <1>7

-----------------------------------------------------------------------------
(* The engine's steps.                                                      *)

LEMMA SayOne ==
    ASSUME NEW S, NEW s \in Seq(S)
    PROVE  s \o <<>> = s /\ \A x \in S : s \o <<x>> = Append(s, x)
BY ConcatEmptySeq, AppendIsConcat

Brief(out) == out = <<>> \/ \E x \in Outbound : Load(x) = {} /\ out = <<x>>

LEMMA BriefLess ==
    ASSUME NEW p \in Ports, NEW out, Brief(out), NEW d,
           d = p.down \/ (p.down # <<>> /\ d = Tail(p.down)),
           NEW p2, p2.down = d, p2.up = p.up \o out
    PROVE  Lighter(p2, p)
<1>1. p.up \in Seq(Outbound)
    BY DEF Ports
<1>2. p2.up = p.up \/ \E x \in Outbound : Load(x) = {} /\ p2.up = Append(p.up, x)
    BY <1>1, SayOne DEF Brief
<1>3. Lightened(p.up, p2.up, Outbound)
    BY <1>2 DEF Lightened
<1>4. Lightened(p.down, p2.down, Inbound)
    BY DEF Lightened
<1> QED BY <1>3, <1>4 DEF Lighter

(* A step of a worker that moves no message.                                *)
LEMMA StepLess ==
    ASSUME TypeOK, Tokened, Rest, ran' = ran, NEW e \in Slot, NEW w,
           engine' = [engine EXCEPT ![e] = w],
           w.steers = engine[e].steers \/ w.steers = <<>>,
           \A t \in Thread : link'[t] = link[t] \/ Lighter(link'[t], link[t])
    PROVE  Tokened'
<1>1. /\ th \in [Thread -> LiveThread] /\ link \in [Thread -> Ports] /\ engine \in [Slot -> Worker]
      /\ Tokens(th, link, store, engine, ran, used) /\ used \subseteq used
    BY DEF TypeOK, Tokened
<1>2. \A f \in Slot : engine'[f].steers = engine[f].steers \/ engine'[f].steers = <<>>
    BY <1>1
<1>3. Tokens(th, link', store, engine', ran, used)
    BY <1>1, <1>2, MidLess
<1> QED BY <1>3 DEF Tokened, Rest

LEMMA TakesLess ==
    ASSUME TypeOK, Tokened, NEW e \in Slot, NEW kind, NEW w, NEW out,
           Takes(e, kind, w, out), ran' = ran, Brief(out),
           w.steers = engine[e].steers \/ w.steers = <<>>
    PROVE  Tokened'
<1> DEFINE o == engine[e].owner
<1>1. /\ link \in [Thread -> Ports] /\ link[o].down # <<>>
      /\ link' = [link EXCEPT ![o] = [down |-> Tail(@.down), up |-> @.up \o out]]
      /\ engine' = [engine EXCEPT ![e] = w] /\ Rest
    BY DEF TypeOK, Takes, Port
<1>2. o \in Thread
    BY DEF Takes, Serves, TypeOK, Worker, Employed
<1> HIDE DEF o
<1>3. /\ link'[o].down = Tail(link[o].down) /\ link'[o].up = link[o].up \o out
      /\ \A t \in Thread : t # o => link'[t] = link[t]
    BY <1>1, <1>2
<1>4. Lighter(link'[o], link[o])
    BY <1>1, <1>2, <1>3, BriefLess
<1>5. \A t \in Thread : link'[t] = link[t] \/ Lighter(link'[t], link[t])
    BY <1>3, <1>4
<1> QED BY <1>1, <1>5, StepLess

LEMMA SaysLess ==
    ASSUME TypeOK, Tokened, NEW e \in Slot, NEW w, NEW out,
           Says(e, w, out), ran' = ran, Brief(out),
           w.steers = engine[e].steers \/ w.steers = <<>>
    PROVE  Tokened'
<1> DEFINE o == engine[e].owner
<1>1. /\ link \in [Thread -> Ports]
      /\ link' = [link EXCEPT ![o].up = @ \o out]
      /\ engine' = [engine EXCEPT ![e] = w] /\ Rest
    BY DEF TypeOK, Says
<1> HIDE DEF o
<1>2. \A t \in Thread : link'[t] = link[t]
                        \/ (link'[t].down = link[t].down /\ link'[t].up = link[t].up \o out)
    BY <1>1 DEF Ports
<1>3. \A t \in Thread : link'[t] = link[t] \/ Lighter(link'[t], link[t])
    BY <1>1, <1>2, BriefLess
<1> QED BY <1>1, <1>3, StepLess

LEMMA Briefly ==
    /\ Brief(<<>>)
    /\ \A k \in {"ready", "idle", "restored", "picked", "restoreFailed"} : Brief(<<Signal(k)>>)
    /\ \A c \in EngineCard : Brief(<<Question(c)>>)
BY NoLoad DEF Brief

LEMMA QuietStepTokened ==
    ASSUME TypeOK, Tokened, NEW e \in Slot,
           \/ Boot(e) \/ TakeInterrupt(e) \/ TakeReply(e) \/ TakeResume(e)
           \/ TakePick(e) \/ TakeCommand(e) \/ Ask(e) \/ ContinuesAlone(e)
           \/ TakeInput(e) /\ engine[e].run # NoRun
    PROVE  Tokened'
<1> DEFINE g == engine[e]
<1>1. g \in Worker
    BY DEF TypeOK
<1> HIDE DEF g
<1>2. /\ [g EXCEPT !.state = "up"].steers = g.steers
      /\ [g EXCEPT !.run = OwnTurn].steers = g.steers
      /\ \A a : [g EXCEPT !.asking = a].steers = g.steers
      /\ LET w == [g EXCEPT !.asking = {}, !.steers = IF g.run = NoRun THEN @ ELSE <<>>]
         IN w.steers = g.steers \/ w.steers = <<>>
    BY <1>1 DEF Worker, WorkerRecord
<1>3. CASE Boot(e)
    BY <1>2, <1>3, Briefly, SaysLess DEF Boot, g
<1>4. CASE TakeInterrupt(e)
    BY <1>2, <1>4, Briefly, TakesLess DEF TakeInterrupt, g
<1>5. CASE TakeReply(e)
    BY <1>2, <1>5, Briefly, TakesLess DEF TakeReply, g
<1>6. CASE TakeResume(e)
    <2>1. PICK answer \in {"restored", "restoreFailed", "nothing"} :
            Takes(e, "resume", engine[e],
                  IF answer = "nothing" THEN <<>> ELSE <<Signal(answer)>>)
        BY <1>6 DEF TakeResume
    <2> DEFINE out == IF answer = "nothing" THEN <<>> ELSE <<Signal(answer)>>
    <2>2. Brief(out)
        BY Briefly
    <2>3. Takes(e, "resume", engine[e], out) /\ ran' = ran
        BY <1>6, <2>1 DEF TakeResume
    <2> HIDE DEF out
    <2> QED BY <2>2, <2>3, TakesLess
<1>7. CASE TakePick(e)
    <2> DEFINE out == IF engine[e].run = NoRun THEN <<Signal("picked")>> ELSE <<>>
    <2>1. Brief(out)
        BY Briefly
    <2>2. Takes(e, "pick", engine[e], out) /\ ran' = ran
        BY <1>7 DEF TakePick
    <2> HIDE DEF out
    <2> QED BY <2>1, <2>2, TakesLess
<1>8. CASE TakeCommand(e)
    <2> DEFINE out == IF "command" \in engine[e].asking THEN <<>> ELSE <<Question("command")>>
               w == [g EXCEPT !.asking = @ \cup {"command"}]
    <2>1. Brief(out)
        BY Briefly DEF EngineCard
    <2>2. Takes(e, "command", w, out) /\ ran' = ran /\ w.steers = engine[e].steers
        BY <1>2, <1>8 DEF TakeCommand, g
    <2> HIDE DEF out, w
    <2> QED BY <2>1, <2>2, TakesLess
<1>9. CASE Ask(e)
    <2> DEFINE w == [g EXCEPT !.asking = @ \cup {"turn"}]
    <2>1. Brief(<<Question("turn")>>)
        BY Briefly DEF EngineCard
    <2>2. Says(e, w, <<Question("turn")>>) /\ ran' = ran /\ w.steers = engine[e].steers
        BY <1>2, <1>9 DEF Ask, g
    <2> HIDE DEF w
    <2> QED BY <2>1, <2>2, SaysLess
<1>10. CASE ContinuesAlone(e)
    BY <1>2, <1>10, Briefly, SaysLess DEF ContinuesAlone, g
<1>11. CASE TakeInput(e) /\ engine[e].run # NoRun
    BY <1>11, Briefly, TakesLess DEF TakeInput
<1> QED BY <1>3, <1>4, <1>5, <1>6, <1>7, <1>8, <1>9, <1>10, <1>11

(* A worker takes a message off its port, and acts on it or keeps it.       *)
LEMMA TokensTaken ==
    ASSUME TypeOK, Tokened, NEW e \in Slot, NEW kind \in {"input", "steer"}, NEW w,
           Takes(e, kind, w, <<>>)
    PROVE  LET x == Incoming(e).msg
               o == engine[e].owner
           IN /\ o \in Thread /\ x \in Going(link)[o] /\ x \in Msg
              /\ \A t \in Thread : /\ Neat(th'[t].queue, link'[t], store'[t])
                                   /\ Dormant(th', link', store')[t] = Dormant(th, link, store)[t]
                                   /\ Going(link')[t] \subseteq Going(link)[t] \ {x}
              /\ engine' = [engine EXCEPT ![e] = w] /\ Rest
<1> DEFINE x == Incoming(e).msg
           o == engine[e].owner
           s == link[o].down
<1>1. /\ link \in [Thread -> Ports] /\ s # <<>> /\ Head(s) = Incoming(e) /\ Head(s).kind = kind
      /\ link' = [link EXCEPT ![o] = [down |-> Tail(@.down), up |-> @.up \o <<>>]]
      /\ engine' = [engine EXCEPT ![e] = w] /\ Rest
    BY DEF TypeOK, Takes, Port, Incoming
<1>2. o \in Thread /\ Serves(e) /\ Port(e).down # <<>> /\ Head(Port(e).down).kind = kind
    BY DEF Takes, Serves, TypeOK, Worker, Employed
<1>3. x \in Msg
    <2>1. Incoming(e) \in Inbound /\ Incoming(e).kind = kind
        BY <1>2, TakesTyped, OutTyped
    <2> QED BY <2>1 DEF Inbound
<1>4. link[o] \in Ports /\ s \in Seq(Inbound) /\ link[o].up \in Seq(Outbound)
    BY <1>1, <1>2 DEF Ports
<1>5. Load(Head(s)) = {x}
    BY <1>1 DEF Load
<1> HIDE DEF o, x
<1>6. /\ link'[o].down = Tail(s) /\ link'[o].up = link[o].up
      /\ \A t \in Thread : t # o => link'[t] = link[t]
    BY <1>1, <1>2, <1>4, SayOne
<1>7. /\ \A t \in Thread : Neat(th[t].queue, link[t], store[t])
      /\ Spread(Dormant(th, link, store), Going(link), Inbox(engine), ran, used)
    BY DEF Tokened, Tokens
<1>8. Tidy(s)
    BY <1>2, <1>7 DEF Neat
<1> HIDE DEF s
<1>9. Tidy(Tail(s)) /\ Loads(s) = {x} \cup Loads(Tail(s)) /\ {x} \cap Loads(Tail(s)) = {}
    BY <1>1, <1>4, <1>5, <1>8, TidyTaken
<1>10. th' = th /\ store' = store
    BY <1>1 DEF Rest
<1>11. \A t \in Thread : Neat(th'[t].queue, link'[t], store'[t])
    BY <1>6, <1>7, <1>9, <1>10 DEF Neat
<1>12. \A t \in Thread : Dormant(th', link', store')[t] = Dormant(th, link, store)[t]
    BY <1>6, <1>10 DEF Dormant
<1>13. x \in Going(link)[o]
    BY <1>2, <1>9 DEF Going, s
<1>14. \A t \in Thread : Going(link')[t] \subseteq Going(link)[t] \ {x}
    <2> TAKE t \in Thread
    <2>1. CASE t = o
        BY <1>2, <1>6, <1>9, <2>1 DEF Going, s
    <2>2. CASE t # o
        <3>1. Going(link')[t] = Going(link)[t]
            BY <1>6, <2>2 DEF Going
        <3>2. x \notin Going(link)[t]
            BY <1>2, <1>7, <1>13, <2>2 DEF Spread
        <3> QED BY <3>1, <3>2
    <2> QED BY <2>1, <2>2
<1> QED BY <1>1, <1>2, <1>3, <1>11, <1>12, <1>13, <1>14 DEF o, x

LEMMA BeginsTokened ==
    ASSUME TypeOK, Tokened, NEW e \in Slot, NEW kind \in {"input", "steer"}, NEW w,
           Takes(e, kind, w, <<>>), w.steers = engine[e].steers,
           Acts(<<Incoming(e).msg>>)
    PROVE  Tokened'
<1> DEFINE x == Incoming(e).msg
           k == engine[e].owner
           d == Dormant(th, link, store)
           o == Going(link)
           i == Inbox(engine)
           d2 == Dormant(th', link', store')
           o2 == Going(link')
           i2 == Inbox(engine')
<1>1. /\ k \in Thread /\ x \in o[k]
      /\ \A t \in Thread : /\ Neat(th'[t].queue, link'[t], store'[t])
                           /\ d2[t] = d[t] /\ o2[t] \subseteq o[t] \ {x}
      /\ engine' = [engine EXCEPT ![e] = w] /\ Rest
    BY TokensTaken
<1>2. /\ Spread(d, o, i, ran, used) /\ \A f \in Slot : Once(engine[f].steers)
    BY DEF Tokened, Tokens
<1>3. \A f \in Slot : engine'[f].steers = engine[f].steers
    BY <1>1 DEF TypeOK
<1>4. i2 = i /\ \A f \in Slot : Once(engine'[f].steers)
    BY <1>2, <1>3 DEF Inbox
<1>5. d2 = d
    BY <1>1 DEF Dormant
<1>6. Elements(<<x>>) = {x}
    BY DEF Elements
<1>7. \A m \in Msg : ran'[m] = IF m \in {x} THEN ran[m] + 1 ELSE ran[m]
    BY <1>6 DEF Acts
<1> HIDE DEF x, k, d, o, i, d2, o2, i2
<1>8. /\ \E t \in Thread : {x} \subseteq o[t]
      /\ \A t \in Thread : o2[t] \subseteq o[t] \ {x}
      /\ \A f \in Slot : i2[f] \subseteq i[f] \ {x}
    <2>1. \A f \in Slot : x \notin i[f]
        BY <1>1, <1>2 DEF Spread
    <2> QED BY <1>1, <1>4, <2>1
<1>9. ActedOn({x}, o, o2, i, i2, ran, ran')
    BY <1>7, <1>8 DEF ActedOn
<1>10. Spread(d, o2, i2, ran', used)
    BY <1>2, <1>9, SpreadActed
<1>11. Tokens(th', link', store', engine', ran', used)
    BY <1>1, <1>4, <1>5, <1>10 DEF Tokens, d2, o2, i2
<1> QED BY <1>1, <1>11 DEF Tokened, Rest

LEMMA InboxTokened ==
    ASSUME TypeOK, Tokened, NEW e \in Slot, NEW w,
           Takes(e, "steer", w, <<>>), w.steers = Append(engine[e].steers, Incoming(e).msg),
           ran' = ran
    PROVE  Tokened'
<1> DEFINE x == Incoming(e).msg
           k == engine[e].owner
           d == Dormant(th, link, store)
           o == Going(link)
           i == Inbox(engine)
           d2 == Dormant(th', link', store')
           o2 == Going(link')
           i2 == Inbox(engine')
<1>1. /\ k \in Thread /\ x \in o[k] /\ x \in Msg
      /\ \A t \in Thread : /\ Neat(th'[t].queue, link'[t], store'[t])
                           /\ d2[t] = d[t] /\ o2[t] \subseteq o[t] \ {x}
      /\ engine' = [engine EXCEPT ![e] = w] /\ Rest
    BY TokensTaken
<1>2. /\ Spread(d, o, i, ran, used) /\ \A f \in Slot : Once(engine[f].steers)
    BY DEF Tokened, Tokens
<1>3. engine \in [Slot -> Worker] /\ engine[e].steers \in Seq(Msg)
    BY DEF TypeOK, Worker, WorkerRecord
<1>4. /\ engine'[e].steers = Append(engine[e].steers, x)
      /\ \A f \in Slot : f # e => engine'[f].steers = engine[f].steers
    BY <1>1, <1>3
<1>5. x \notin Elements(engine[e].steers)
    <2>1. x \notin i[e]
        BY <1>1, <1>2 DEF Spread
    <2> QED BY <2>1 DEF Inbox
<1>6. /\ Elements(engine'[e].steers) = Elements(engine[e].steers) \cup {x}
      /\ Once(engine'[e].steers)
    <2> DEFINE s == engine[e].steers
    <2>1. s \in Seq(Msg) /\ x \in Msg /\ Once(s) /\ x \notin Elements(s)
        BY <1>1, <1>2, <1>3, <1>5
    <2> HIDE DEF s, x
    <2>2. Elements(Append(s, x)) = Elements(s) \cup {x} /\ Once(Append(s, x))
        BY <2>1, OnceAppended
    <2> QED BY <1>4, <2>2 DEF s
<1>7. /\ \A f \in Slot : f # e => i2[f] \subseteq i[f]
      /\ i2[e] \subseteq i[e] \cup {x}
      /\ \A f \in Slot : Once(engine'[f].steers)
    BY <1>2, <1>4, <1>6 DEF Inbox
<1>8. d2 = d
    BY <1>1 DEF Dormant
<1> HIDE DEF x, k, d, o, i, d2, o2, i2
<1>9. \A t \in Thread : o2[t] \subseteq o[t] \ {x}
    BY <1>1
<1>10. TakenIn(x, k, e, o, o2, i, i2)
    BY <1>1, <1>7, <1>9 DEF TakenIn
<1>11. Spread(d, o2, i2, ran, used)
    BY <1>1, <1>2, <1>10, SpreadTaken
<1>12. Tokens(th', link', store', engine', ran, used)
    BY <1>1, <1>7, <1>8, <1>11 DEF Tokens, d2, o2, i2
<1> QED BY <1>1, <1>12 DEF Tokened, Rest

LEMMA TurnTakesTokened ==
    ASSUME TypeOK, Tokened, NEW e \in Slot, TurnTakesSteering(e)
    PROVE  Tokened'
<1> DEFINE A == Elements(engine[e].steers)
           d == Dormant(th, link, store)
           o == Going(link)
           i == Inbox(engine)
           i2 == Inbox(engine')
<1>1. /\ link' = [link EXCEPT ![engine[e].owner].up = @ \o <<>>]
      /\ engine' = [engine EXCEPT ![e] = [engine[e] EXCEPT !.steers = <<>>]]
      /\ Acts(engine[e].steers) /\ Rest
    BY DEF TurnTakesSteering, Says
<1>2. /\ link \in [Thread -> Ports] /\ engine \in [Slot -> Worker] /\ engine[e] \in Worker
    BY DEF TypeOK
<1>3. link' = link
    <2>1. \A t \in Thread : link[t] = [link[t] EXCEPT !.up = @ \o <<>>]
        <3> TAKE t \in Thread
        <3>1. link[t] \in Ports /\ link[t].up \o <<>> = link[t].up
            BY <1>2, SayOne DEF Ports
        <3> QED BY <3>1 DEF Ports
    <2> QED BY <1>1, <1>2, <2>1
<1>4. /\ engine'[e].steers = <<>>
      /\ \A f \in Slot : f # e => engine'[f].steers = engine[f].steers
    BY <1>1, <1>2 DEF Worker, WorkerRecord
<1>5. /\ Spread(d, o, i, ran, used) /\ \A f \in Slot : Once(engine[f].steers)
      /\ \A t \in Thread : Neat(th[t].queue, link[t], store[t])
    BY DEF Tokened, Tokens
<1>6. /\ i2[e] = {} /\ A = i[e]
      /\ \A f \in Slot : f # e => i2[f] = i[f]
      /\ \A f \in Slot : Once(engine'[f].steers)
    BY <1>4, <1>5, OnceEmpty DEF Inbox
<1>7. \A m \in Msg : ran'[m] = IF m \in A THEN ran[m] + 1 ELSE ran[m]
    BY <1>1 DEF Acts
<1>8. th' = th /\ store' = store /\ used' = used
    BY <1>1 DEF Rest
<1> HIDE DEF A, d, o, i, i2
<1>9. /\ \E f \in Slot : A \subseteq i[f]
      /\ \A t \in Thread : o[t] \subseteq o[t] \ A
      /\ \A f \in Slot : i2[f] \subseteq i[f] \ A
    BY <1>5, <1>6 DEF Spread
<1>10. ActedOn(A, o, o, i, i2, ran, ran')
    BY <1>7, <1>9 DEF ActedOn
<1>11. Spread(d, o, i2, ran', used)
    BY <1>5, <1>10, SpreadActed
<1>12. Tokens(th, link, store, engine', ran', used)
    BY <1>5, <1>6, <1>11 DEF Tokens, d, o, i2
<1> QED BY <1>3, <1>8, <1>12 DEF Tokened

LEMMA TurnEndsTokened ==
    ASSUME TypeOK, Tokened, NEW e \in Slot, TurnEnds(e)
    PROVE  Tokened'
<1> DEFINE s == engine[e].steers
           w == [engine[e] EXCEPT !.run = NoRun, !.steers = <<>>]
           back == IF s = <<>> THEN <<>> ELSE <<Unused(s)>>
           k == engine[e].owner
<1>1. Serves(e) /\ Says(e, w, back \o <<Signal("idle")>>) /\ ran' = ran
    BY DEF TurnEnds
<1>2. /\ link \in [Thread -> Ports] /\ engine \in [Slot -> Worker] /\ engine[e] \in Worker
      /\ s \in Seq(Msg) /\ k \in Thread /\ th \in [Thread -> LiveThread]
    BY <1>1 DEF TypeOK, Serves, Worker, WorkerRecord, Employed
<1>3. w.steers = <<>>
    BY <1>2 DEF Worker, WorkerRecord
<1> HIDE DEF s, w, k
<1>4. CASE s = <<>>
    <2>1. back \o <<Signal("idle")>> = <<Signal("idle")>>
        BY <1>4
    <2> HIDE DEF back
    <2> QED BY <1>1, <1>3, <2>1, Briefly, SaysLess
<1>5. CASE s # <<>>
    <2> DEFINE a == Unused(s)
               z == Signal("idle")
               d == Dormant(th, link, store)
               o == Going(link)
               i == Inbox(engine)
               d2 == Dormant(th', link', store')
               i2 == Inbox(engine')
               up == link[k].up
    <2>1. /\ a \in Outbound /\ z \in Outbound /\ Load(z) = {} /\ Load(a) = Elements(s)
          /\ a.kind = "unused" /\ a.msgs = s
        <3>1. a \in Outbound /\ a.kind = "unused" /\ a.msgs = s
            BY <1>2 DEF Unused, Outbound
        <3> QED BY <3>1, NoLoad DEF Load
    <2>2. /\ Spread(d, o, i, ran, used) /\ \A f \in Slot : Once(engine[f].steers)
          /\ \A t \in Thread : Neat(th[t].queue, link[t], store[t])
        BY DEF Tokened, Tokens
    <2>3. OnceEach(a) /\ OnceEach(z)
        BY <2>1, <2>2, NoLoad DEF OnceEach, s
    <2>4. link[k] \in Ports /\ up \in Seq(Outbound)
        BY <1>2 DEF Ports
    <2>5. /\ Elements(s) \cap Loads(up) = {} /\ Elements(s) \cap Elements(th[k].queue) = {}
        <3>1. d[k] \cap i[e] = {}
            BY <1>2, <2>2 DEF Spread
        <3>2. i[e] = Elements(s) /\ Loads(up) \subseteq d[k] /\ Elements(th[k].queue) \subseteq d[k]
            BY <1>2 DEF Inbox, Dormant, s
        <3> QED BY <3>1, <3>2
    <2> HIDE DEF a, z, d, o, i, d2, i2, up
    <2>6. /\ Append(up, a) \in Seq(Outbound)
          /\ Loads(Append(up, a)) = Loads(up) \cup Elements(s)
          /\ Tidy(up) => Tidy(Append(up, a))
        BY <2>1, <2>3, <2>4, <2>5, TidyAppended, AppendProperties
    <2>7. /\ Loads(Append(Append(up, a), z)) = Loads(up) \cup Elements(s)
          /\ Tidy(up) => Tidy(Append(Append(up, a), z))
        <3> DEFINE b == Append(up, a)
        <3>1. b \in Seq(Outbound) /\ Load(z) \cap Loads(b) = {}
            BY <2>1, <2>6
        <3> HIDE DEF b
        <3>2. /\ Loads(Append(b, z)) = Loads(b) \cup Load(z)
              /\ Tidy(b) => Tidy(Append(b, z))
            BY <2>1, <2>3, <3>1, TidyAppended
        <3> QED BY <2>1, <2>6, <3>2 DEF b
    <2>8. up \o (back \o <<z>>) = Append(Append(up, a), z)
        <3>1. back = <<a>> /\ <<a>> \in Seq(Outbound) /\ <<z>> \in Seq(Outbound)
            BY <1>5, <2>1 DEF a
        <3>2. up \o (<<a>> \o <<z>>) = (up \o <<a>>) \o <<z>>
            BY <2>4, <3>1, ConcatAssociative
        <3>3. up \o <<a>> = Append(up, a)
            BY <2>1, <2>4, SayOne
        <3>4. Append(up, a) \o <<z>> = Append(Append(up, a), z)
            BY <2>1, <2>6, SayOne
        <3> QED BY <3>1, <3>2, <3>3, <3>4
    <2> HIDE DEF back
    <2>9. /\ link' = [link EXCEPT ![k].up = @ \o (back \o <<z>>)]
          /\ engine' = [engine EXCEPT ![e] = w] /\ Rest
        BY <1>1 DEF Says, k, z
    <2>10. /\ link'[k].up = Append(Append(up, a), z) /\ link'[k].down = link[k].down
           /\ \A t \in Thread : t # k => link'[t] = link[t]
        BY <1>2, <2>4, <2>8, <2>9 DEF Ports, up
    <2>11. th' = th /\ store' = store /\ used' = used
        BY <2>9 DEF Rest
    <2>12. Neat(th'[k].queue, link'[k], store'[k])
        BY <1>2, <2>2, <2>5, <2>7, <2>10, <2>11 DEF Neat, up
    <2>13. \A t \in Thread : Neat(th'[t].queue, link'[t], store'[t])
        BY <2>2, <2>10, <2>11, <2>12
    <2>14. Going(link') = o
        BY <1>2, <2>10 DEF Going, o
    <2>15. /\ engine'[e].steers = <<>>
           /\ \A f \in Slot : f # e => engine'[f].steers = engine[f].steers
        BY <1>2, <1>3, <2>9
    <2>16. \A f \in Slot : Once(engine'[f].steers)
        BY <2>2, <2>15, OnceEmpty
    <2>17. HandedBack(k, e, d, d2, i, i2)
        <3>1. /\ i2[e] = {} /\ i[e] = Elements(s)
              /\ \A f \in Slot : f # e => i2[f] \subseteq i[f]
            BY <2>15, OnceEmpty DEF Inbox, i, i2, s
        <3>2. \A t \in Thread : t # k => d2[t] \subseteq d[t]
            BY <2>10, <2>11 DEF Dormant, d, d2
        <3>3. d2[k] \subseteq d[k] \cup Elements(s)
            BY <1>2, <2>7, <2>10, <2>11 DEF Dormant, d, d2, up
        <3> QED BY <3>1, <3>2, <3>3 DEF HandedBack
    <2>18. Spread(d2, o, i2, ran, used)
        BY <1>2, <2>2, <2>17, SpreadBack
    <2>19. Tokens(th', link', store', engine', ran, used)
        BY <2>13, <2>14, <2>16, <2>18 DEF Tokens, d2, i2
    <2> QED BY <1>1, <2>11, <2>19 DEF Tokened
<1> QED BY <1>4, <1>5

LEMMA EngineStepTokened ==
    ASSUME TypeOK, Tokened, NEW e \in Slot, EngineStep(e)
    PROVE  Tokened'
<1> DEFINE g == engine[e]
           x == Incoming(e).msg
<1>1. g \in Worker
    BY DEF TypeOK
<1>2. CASE TakeInput(e) /\ g.run = NoRun
    <2> DEFINE w == [g EXCEPT !.run = x]
    <2>1. w.steers = g.steers
        BY <1>1 DEF Worker, WorkerRecord
    <2>2. Takes(e, "input", w, <<>>) /\ Acts(<<x>>)
        BY <1>2 DEF TakeInput
    <2> HIDE DEF w
    <2> QED BY <2>1, <2>2, BeginsTokened
<1>3. CASE TakeSteer(e) /\ g.run = NoRun
    <2> DEFINE w == [g EXCEPT !.run = x]
    <2>1. w.steers = g.steers
        BY <1>1 DEF Worker, WorkerRecord
    <2>2. Takes(e, "steer", w, <<>>) /\ Acts(<<x>>)
        BY <1>3 DEF TakeSteer
    <2> HIDE DEF w
    <2> QED BY <2>1, <2>2, BeginsTokened
<1>4. CASE TakeSteer(e) /\ g.run # NoRun
    <2> DEFINE w == [g EXCEPT !.steers = Append(@, x)]
    <2>1. w.steers = Append(g.steers, x)
        BY <1>1 DEF Worker, WorkerRecord
    <2>2. Takes(e, "steer", w, <<>>) /\ ran' = ran
        BY <1>4 DEF TakeSteer
    <2> HIDE DEF w
    <2> QED BY <2>1, <2>2, InboxTokened
<1> QED BY <1>2, <1>3, <1>4, QuietStepTokened, TurnTakesTokened, TurnEndsTokened DEF EngineStep

LEMMA TokenedInit ==
    ASSUME Init
    PROVE  Tokened
<1>1. /\ \A t \in Thread : /\ th[t].queue = <<>> /\ link[t].down = <<>> /\ link[t].up = <<>>
                           /\ store[t].disk.queue = <<>> /\ store[t].last.queue = <<>>
      /\ \A e \in Slot : engine[e].steers = <<>>
      /\ ran = [m \in Msg |-> 0]
    BY DEF Init, InitialThread, Adopted, Copy, Closed, FreeWorker
<1>2. /\ \A t \in Thread : Neat(th[t].queue, link[t], store[t])
      /\ \A e \in Slot : Once(engine[e].steers)
    BY <1>1, OnceEmpty DEF Neat
<1>3. /\ \A t \in Thread : Dormant(th, link, store)[t] = {} /\ Going(link)[t] = {}
      /\ \A e \in Slot : Inbox(engine)[e] = {}
    BY <1>1, OnceEmpty DEF Dormant, Going, Inbox
<1>4. Spread(Dormant(th, link, store), Going(link), Inbox(engine), ran, used)
    BY <1>1, <1>3 DEF Spread
<1> QED BY <1>2, <1>4 DEF Tokened, Tokens

LEMMA TokenedStep ==
    ASSUME TypeOK, Tokened, [Next]_vars
    PROVE  Tokened'
<1>1. CASE UNCHANGED vars
    BY <1>1 DEF vars, Tokened
<1>2. ASSUME NEW t \in Thread, ManagerStep(t)
      PROVE  Tokened'
    BY <1>2, SubmitTokened, SteerTokened, StartTokened, QuietTokened, ReceiveTokened,
       OtherTokened DEF ManagerStep
<1>3. ASSUME NEW e \in Slot, EngineStep(e) \/ Drained(e)
      PROVE  Tokened'
    BY <1>3, EngineStepTokened, DrainedTokened
<1> QED BY <1>1, <1>2, <1>3, OtherTokened DEF Next

(* No message is acted on twice, whatever fails: it is in one place at a    *)
(* time, queued or saved with a thread, on its way to the engine, in a      *)
(* steering inbox, or on its way back, and begins its turn from there only  *)
(* once (thread.manager.ts:583 the steering that goes back to the queue,    *)
(* :854 recoverInputs).                                                     *)
THEOREM ActedOnce == Spec => []AtMostOnce
<1>1. Tokened => AtMostOnce
    BY DEF Tokened, Tokens, Spread, AtMostOnce
<1>2. Init => Tokened
    BY TokenedInit
<1>3. TypeOK /\ Tokened /\ [Next]_vars => Tokened'
    BY TokenedStep
<1> QED BY <1>1, <1>2, <1>3, TypeCorrect, PTL DEF Spec
=============================================================================
