-------------------------- MODULE WireQueue_proofs --------------------------
(* The window of the wire queue is counted exactly, nothing waits in the    *)
(* queue for a drain that will not come, and the queue with its window and  *)
(* the app that acknowledges implements the ordered channel of              *)
(* DisplayChannel, for every size of the queue, of its marks, of the window *)
(* and of the lines.                                                        *)
EXTENDS WireQueue, SequenceTheorems, NaturalsInduction, WellFoundedInduction, TLAPS

-----------------------------------------------------------------------------
(* Least and largest elements, and induction over an interval.              *)

Less == {p \in Nat \X Nat : p[1] < p[2]}

LEMMA LeastOf ==
    ASSUME NEW S, S \subseteq Nat, S # {}
    PROVE  \E m \in S : \A x \in S : m <= x
<1>1. IsWellFoundedOn(Less, Nat)
    BY NatLessThanWellFounded DEF OpToRel, Less
<1>2. PICK m \in S : \A x \in S : <<x, m>> \notin Less
    BY <1>1, WFMin
<1>3. ASSUME NEW x \in S PROVE m <= x
    <2>1. x \in Nat /\ m \in Nat /\ ~(x < m)
        BY <1>2 DEF Less
    <2> QED BY <2>1
<1> QED BY <1>3

LEMMA MinIs ==
    ASSUME NEW S, S \subseteq Nat, S # {}
    PROVE  Min(S) \in S /\ \A x \in S : Min(S) <= x
<1>1. \E m \in S : \A x \in S : m <= x
    BY LeastOf
<1> QED BY <1>1 DEF Min

LEMMA MaxIs ==
    ASSUME NEW n \in Nat, NEW S, S \subseteq 1..n, S # {}
    PROVE  Max(S) \in S /\ \A x \in S : x <= Max(S)
<1> DEFINE T == {n - x : x \in S}
<1>1. T \subseteq Nat /\ T # {}
    OBVIOUS
<1>2. PICK m \in T : \A x \in T : m <= x
    <2> HIDE DEF T
    <2> QED BY <1>1, LeastOf
<1>3. PICK x \in S : m = n - x
    OBVIOUS
<1>4. \A y \in S : y <= x
    <2> TAKE y \in S
    <2>1. n - y \in T
        OBVIOUS
    <2>2. n - x <= n - y
        BY <2>1, <1>2, <1>3
    <2> QED BY <2>2
<1>5. \E z \in S : \A y \in S : z >= y
    BY <1>4
<1> QED BY <1>5 DEF Max

LEMMA Inductive ==
    ASSUME NEW n \in Nat, NEW S, 0 \in S, \A k \in 1..n : k - 1 \in S => k \in S
    PROVE  \A k \in 0..n : k \in S
<1> SUFFICES ASSUME NEW j \in 0..n, j \notin S PROVE FALSE
    OBVIOUS
<1> DEFINE T == {k \in 0..n : k \notin S}
<1>1. T \subseteq Nat /\ T # {}
    OBVIOUS
<1>2. PICK m \in T : \A x \in T : m <= x
    <2> HIDE DEF T
    <2> QED BY <1>1, LeastOf
<1>3. m \in 1..n /\ m - 1 \in 0..n
    BY <1>2
<1>4. m - 1 \in S
    BY <1>2, <1>3
<1> QED BY <1>2, <1>3, <1>4

-----------------------------------------------------------------------------
(* Folds.                                                                   *)

(* step[<<k, v>>] is what the element at k makes of v.                      *)
Folded(m, base, step, f) ==
    \A t \in SUBSET (1..m) :
        f[t] = IF t = {} THEN base ELSE step[<<Max(t), f[t \ {Max(t)}]>>]
Foldable(m, V, base, step) == \E f \in [SUBSET (1..m) -> V] : Folded(m, base, step, f)

LEMMA FoldExists ==
    ASSUME NEW n \in Nat, NEW V, NEW base \in V, NEW step \in [(1..n) \X V -> V]
    PROVE  Foldable(n, V, base, step)
<1> DEFINE S == {m \in 0..n : Foldable(m, V, base, step)}
<1>1. 0 \in S
    <2> DEFINE f == [t \in SUBSET (1..0) |-> base]
    <2>1. f \in [SUBSET (1..0) -> V]
        OBVIOUS
    <2>2. \A t \in SUBSET (1..0) : t = {} /\ f[t] = base
        OBVIOUS
    <2>3. Folded(0, base, step, f)
        BY <2>2 DEF Folded
    <2> HIDE DEF f
    <2>4. Foldable(0, V, base, step)
        BY <2>1, <2>3, Zenon DEF Foldable
    <2>5. 0 \in 0..n
        OBVIOUS
    <2> QED BY <2>4, <2>5, Zenon
<1>2. ASSUME NEW m \in 1..n, m - 1 \in S PROVE m \in S
    <2>1. PICK f \in [SUBSET (1..(m - 1)) -> V] : Folded(m - 1, base, step, f)
        BY <1>2 DEF Foldable
    <2> DEFINE g == [t \in SUBSET (1..m) |->
                       IF m \in t THEN step[<<m, f[t \ {m}]>>] ELSE f[t]]
    <2>2. ASSUME NEW t \in SUBSET (1..m), m \in t
          PROVE  /\ t \ {m} \in SUBSET (1..(m - 1)) /\ Max(t) = m
                 /\ g[t] = step[<<m, f[t \ {m}]>>] /\ g[t] \in V
                 /\ g[t \ {m}] = f[t \ {m}]
        <3>1. t \ {m} \in SUBSET (1..(m - 1)) /\ t \ {m} \in SUBSET (1..m)
            OBVIOUS
        <3>2. Max(t) = m
            <4>1. t \subseteq 1..m /\ t # {} /\ m \in Nat
                BY <2>2
            <4>2. Max(t) \in t /\ \A x \in t : x <= Max(t)
                BY <4>1, MaxIs
            <4>3. Max(t) \in 1..m /\ m <= Max(t)
                BY <4>1, <4>2, <2>2
            <4> QED BY <4>3
        <3>3. f[t \ {m}] \in V /\ m \in 1..n
            BY <3>1
        <3> QED BY <3>1, <3>2, <3>3, <2>2
    <2>3. ASSUME NEW t \in SUBSET (1..m), m \notin t
          PROVE  /\ t \in SUBSET (1..(m - 1)) /\ g[t] = f[t] /\ g[t] \in V
                 /\ t # {} => Max(t) \in t /\ g[t \ {Max(t)}] = f[t \ {Max(t)}]
        <3>1. t \in SUBSET (1..(m - 1))
            BY <2>3
        <3>2. t # {} => Max(t) \in t
            <4>1. t \subseteq 1..m /\ m \in Nat
                OBVIOUS
            <4> QED BY <4>1, MaxIs
        <3>3. t # {} => t \ {Max(t)} \in SUBSET (1..m) /\ m \notin t \ {Max(t)}
            BY <2>3
        <3> QED BY <3>1, <3>2, <3>3, <2>3
    <2>4. g \in [SUBSET (1..m) -> V]
        BY <2>2, <2>3
    <2>5. ASSUME NEW t \in SUBSET (1..m)
          PROVE  g[t] = IF t = {} THEN base ELSE step[<<Max(t), g[t \ {Max(t)}]>>]
        <3>1. CASE m \in t
            BY <3>1, <2>2
        <3>2. CASE m \notin t
            <4>1. t \in SUBSET (1..(m - 1)) /\ g[t] = f[t]
                BY <3>2, <2>3
            <4>2. f[t] = IF t = {} THEN base ELSE step[<<Max(t), f[t \ {Max(t)}]>>]
                BY <4>1, <2>1 DEF Folded
            <4> QED BY <4>1, <4>2, <3>2, <2>3
        <3> QED BY <3>1, <3>2
    <2>6. Folded(m, base, step, g)
        BY <2>5 DEF Folded
    <2> HIDE DEF g
    <2>7. Foldable(m, V, base, step)
        BY <2>4, <2>6, Zenon DEF Foldable
    <2> QED BY <2>7
<1>3. n \in S
    <2> HIDE DEF S
    <2> QED BY <1>1, <1>2, Inductive
<1> QED BY <1>3

LEMMA Initials ==
    ASSUME NEW n \in Nat, NEW k \in 1..n
    PROVE  /\ 1..k \in SUBSET (1..n) /\ 1..k # {} /\ Max(1..k) = k
           /\ (1..k) \ {Max(1..k)} = 1..(k - 1)
<1>1. 1..k \subseteq 1..n /\ 1..k # {} /\ (1..k) \ {k} = 1..(k - 1)
    OBVIOUS
<1>2. Max(1..k) \in 1..k /\ \A x \in 1..k : x <= Max(1..k)
    BY <1>1, MaxIs
<1> QED BY <1>1, <1>2

-----------------------------------------------------------------------------
(* The lengths and the lines that are added up and filtered.                *)

LEMMA LineSize == \A x \in Line : x.size \in Nat \ {0}
<1>1. \A n \in BulkSize : n \in Nat \ {0}
    BY WatermarkAssumption
<1> QED BY <1>1 DEF Line

LEMMA BytesRun ==
    ASSUME NEW s \in Seq(Line)
    PROVE  \E p \in [0..Len(s) -> Nat] :
             /\ p[0] = 0 /\ p[Len(s)] = Bytes(s)
             /\ \A k \in 1..Len(s) : p[k] = p[k - 1] + s[k].size
<1> DEFINE n == Len(s)
           step == [a \in (1..n) \X Nat |-> a[2] + s[a[1]].size]
           Step(f) == [t \in SUBSET (DOMAIN s) |->
                         IF t = {} THEN 0 ELSE f[t \ {Max(t)}] + s[Max(t)].size]
           it == CHOOSE f : f = Step(f)
           p == [k \in 0..n |-> it[1..k]]
<1>1. n \in Nat /\ DOMAIN s = 1..n /\ \A k \in 1..n : s[k].size \in Nat
    BY LineSize
<1>2. step \in [(1..n) \X Nat -> Nat]
    BY <1>1
<1>3. PICK g \in [SUBSET (1..n) -> Nat] : Folded(n, 0, step, g)
    <2>1. n \in Nat /\ 0 \in Nat
        BY <1>1
    <2> HIDE DEF n, step
    <2>2. Foldable(n, Nat, 0, step)
        BY <2>1, <1>2, FoldExists
    <2> QED BY <2>2 DEF Foldable
<1>4. \E f : f = Step(f)
    <2>1. ASSUME NEW t \in SUBSET (1..n), t # {}
          PROVE  step[<<Max(t), g[t \ {Max(t)}]>>] = g[t \ {Max(t)}] + s[Max(t)].size
        <3>1. Max(t) \in 1..n
            <4>1. t \subseteq 1..n /\ n \in Nat
                BY <1>1
            <4> HIDE DEF n
            <4> QED BY <4>1, <2>1, MaxIs
        <3>2. <<Max(t), g[t \ {Max(t)}]>> \in (1..n) \X Nat
            BY <3>1
        <3> QED BY <3>2
    <2> HIDE DEF step, n
    <2>2. g = [t \in SUBSET (1..n) |-> IF t = {} THEN 0 ELSE g[t \ {Max(t)}] + s[Max(t)].size]
        <3>1. \A t \in SUBSET (1..n) :
                  g[t] = IF t = {} THEN 0 ELSE g[t \ {Max(t)}] + s[Max(t)].size
            BY <2>1, <1>3 DEF Folded
        <3> QED BY <3>1
    <2>3. g = Step(g)
        BY <2>2, <1>1
    <2> QED BY <2>3
<1>5. it = Step(it)
    BY <1>4
<1>6. Bytes(s) = it[1..n]
    BY <1>1 DEF Bytes, FoldLeft, MapThenFoldSet
<1>7. \A t \in SUBSET (1..n) : it[t] = IF t = {} THEN 0 ELSE it[t \ {Max(t)}] + s[Max(t)].size
    BY <1>1, <1>5
<1> HIDE DEF it, step
<1>8. p[0] = 0
    <2>1. 1..0 = {} /\ {} \in SUBSET (1..n) /\ 0 \in 0..n
        BY <1>1
    <2> QED BY <2>1, <1>7
<1>9. ASSUME NEW k \in 1..n PROVE p[k] = p[k - 1] + s[k].size
    <2>1. k \in 0..n /\ k - 1 \in 0..n
        BY <1>1
    <2>2. it[1..k] = it[1..(k - 1)] + s[k].size
        <3> HIDE DEF n
        <3> QED BY <1>1, <1>7, Initials
    <2> QED BY <2>1, <2>2
<1>10. \A k \in 0..n : p[k] \in Nat
    <2> DEFINE S == {k \in 0..n : p[k] \in Nat}
    <2> HIDE DEF p, n
    <2>1. 0 \in S
        BY <1>8, <1>1
    <2>2. \A k \in 1..n : k - 1 \in S => k \in S
        BY <1>9, <1>1
    <2>3. \A k \in 0..n : k \in S
        <3> HIDE DEF S
        <3> QED BY <1>1, <2>1, <2>2, Inductive
    <2> QED BY <2>3
<1>11. p \in [0..n -> Nat] /\ p[n] = Bytes(s)
    <2>1. \A k \in 0..n : it[1..k] \in Nat
        BY <1>10
    <2>2. n \in 0..n
        BY <1>1
    <2> QED BY <2>1, <2>2, <1>6
<1> HIDE DEF p
<1> QED BY <1>8, <1>9, <1>11

-----------------------------------------------------------------------------
(* What the other folds add up and keep.                                    *)

Owed(ns) == FoldLeft(LAMBDA n, x : n + x, 0, ns)
Chosen(kept, x) == IF outboundClass(x) = "critical" THEN Append(kept, x) ELSE kept
Unshown(kept, x) == IF x \in {Event(n) : n \in BulkSize} THEN kept ELSE Append(kept, x)

LEMMA KeptTyped ==
    ASSUME NEW kept \in Seq(Line), NEW x \in Line
    PROVE  Chosen(kept, x) \in Seq(Line) /\ Unshown(kept, x) \in Seq(Line)
BY DEF Chosen, Unshown

LEMMA OwedRun ==
    ASSUME NEW s \in Seq(Nat)
    PROVE  \E p \in [0..Len(s) -> Nat] :
             /\ p[0] = 0 /\ p[Len(s)] = Owed(s)
             /\ \A k \in 1..Len(s) : p[k] = p[k - 1] + s[k]
<1> DEFINE n == Len(s)
           step == [a \in (1..n) \X Nat |-> a[2] + s[a[1]]]
           Step(f) == [t \in SUBSET (DOMAIN s) |->
                         IF t = {} THEN 0
                         ELSE f[t \ {Max(t)}] + s[Max(t)]]
           it == CHOOSE f : f = Step(f)
           p == [k \in 0..n |-> it[1..k]]
<1>1. n \in Nat /\ DOMAIN s = 1..n /\ \A k \in 1..n : s[k] \in Nat
    OBVIOUS
<1>2. step \in [(1..n) \X Nat -> Nat]
    BY <1>1
<1>3. PICK g \in [SUBSET (1..n) -> Nat] : Folded(n, 0, step, g)
    <2>1. n \in Nat /\ 0 \in Nat
        BY <1>1
    <2> HIDE DEF n, step
    <2>2. Foldable(n, Nat, 0, step)
        BY <2>1, <1>2, FoldExists
    <2> QED BY <2>2 DEF Foldable
<1>4. \E f : f = Step(f)
    <2>1. ASSUME NEW t \in SUBSET (1..n), t # {}
          PROVE  step[<<Max(t), g[t \ {Max(t)}]>>]
                   = g[t \ {Max(t)}] + s[Max(t)]
        <3>1. Max(t) \in 1..n
            <4>1. t \subseteq 1..n /\ n \in Nat
                BY <1>1
            <4> HIDE DEF n
            <4> QED BY <4>1, <2>1, MaxIs
        <3>2. <<Max(t), g[t \ {Max(t)}]>> \in (1..n) \X Nat
            BY <3>1
        <3> QED BY <3>2
    <2> HIDE DEF step, n
    <2>2. g = [t \in SUBSET (1..n) |->
                 IF t = {} THEN 0
                 ELSE g[t \ {Max(t)}] + s[Max(t)]]
        <3>1. \A t \in SUBSET (1..n) :
                  g[t] = IF t = {} THEN 0
                         ELSE g[t \ {Max(t)}] + s[Max(t)]
            BY <2>1, <1>3 DEF Folded
        <3> QED BY <3>1
    <2>3. g = Step(g)
        BY <2>2, <1>1
    <2> QED BY <2>3
<1>5. it = Step(it)
    BY <1>4
<1>6. Owed(s) = it[1..n]
    BY <1>1 DEF Owed, FoldLeft, MapThenFoldSet
<1>7. \A t \in SUBSET (1..n) :
          it[t] = IF t = {} THEN 0
                  ELSE it[t \ {Max(t)}] + s[Max(t)]
    BY <1>1, <1>5
<1> HIDE DEF it, step
<1>8. p[0] = 0
    <2>1. 1..0 = {} /\ {} \in SUBSET (1..n) /\ 0 \in 0..n
        BY <1>1
    <2> QED BY <2>1, <1>7
<1>9. ASSUME NEW k \in 1..n
      PROVE  p[k] = p[k - 1] + s[k]
    <2>1. k \in 0..n /\ k - 1 \in 0..n
        BY <1>1
    <2>2. it[1..k] = it[1..(k - 1)] + s[k]
        <3> HIDE DEF n
        <3> QED BY <1>1, <1>7, Initials
    <2> QED BY <2>1, <2>2
<1>10. \A k \in 0..n : p[k] \in Nat
    <2> DEFINE S == {k \in 0..n : p[k] \in Nat}
    <2> HIDE DEF p, n
    <2>1. 0 \in S
        BY <1>8, <1>1
    <2>2. \A k \in 1..n : k - 1 \in S => k \in S
        BY <1>9, <1>1
    <2>3. \A k \in 0..n : k \in S
        <3> HIDE DEF S
        <3> QED BY <1>1, <2>1, <2>2, Inductive
    <2> QED BY <2>3
<1>11. p \in [0..n -> Nat] /\ p[n] = Owed(s)
    <2>1. \A k \in 0..n : it[1..k] \in Nat
        BY <1>10
    <2>2. n \in 0..n
        BY <1>1
    <2> QED BY <2>1, <2>2, <1>6
<1> HIDE DEF p
<1> QED BY <1>8, <1>9, <1>11

LEMMA CriticalRun ==
    ASSUME NEW s \in Seq(Line)
    PROVE  \E p \in [0..Len(s) -> Seq(Line)] :
             /\ p[0] = <<>> /\ p[Len(s)] = Critical(s)
             /\ \A k \in 1..Len(s) : p[k] = Chosen(p[k - 1], s[k])
<1> DEFINE n == Len(s)
           step == [a \in (1..n) \X Seq(Line) |-> Chosen(a[2], s[a[1]])]
           Step(f) == [t \in SUBSET (DOMAIN s) |->
                         IF t = {} THEN <<>>
                         ELSE Chosen(f[t \ {Max(t)}], s[Max(t)])]
           it == CHOOSE f : f = Step(f)
           p == [k \in 0..n |-> it[1..k]]
<1>1. n \in Nat /\ DOMAIN s = 1..n /\ \A k \in 1..n : s[k] \in Line
    OBVIOUS
<1>2. step \in [(1..n) \X Seq(Line) -> Seq(Line)]
    BY <1>1, KeptTyped
<1>3. PICK g \in [SUBSET (1..n) -> Seq(Line)] : Folded(n, <<>>, step, g)
    <2>1. n \in Nat /\ <<>> \in Seq(Line)
        BY <1>1
    <2> HIDE DEF n, step
    <2>2. Foldable(n, Seq(Line), <<>>, step)
        BY <2>1, <1>2, FoldExists
    <2> QED BY <2>2 DEF Foldable
<1>4. \E f : f = Step(f)
    <2>1. ASSUME NEW t \in SUBSET (1..n), t # {}
          PROVE  step[<<Max(t), g[t \ {Max(t)}]>>]
                   = Chosen(g[t \ {Max(t)}], s[Max(t)])
        <3>1. Max(t) \in 1..n
            <4>1. t \subseteq 1..n /\ n \in Nat
                BY <1>1
            <4> HIDE DEF n
            <4> QED BY <4>1, <2>1, MaxIs
        <3>2. <<Max(t), g[t \ {Max(t)}]>> \in (1..n) \X Seq(Line)
            BY <3>1
        <3> QED BY <3>2
    <2> HIDE DEF step, n
    <2>2. g = [t \in SUBSET (1..n) |->
                 IF t = {} THEN <<>>
                 ELSE Chosen(g[t \ {Max(t)}], s[Max(t)])]
        <3>1. \A t \in SUBSET (1..n) :
                  g[t] = IF t = {} THEN <<>>
                         ELSE Chosen(g[t \ {Max(t)}], s[Max(t)])
            BY <2>1, <1>3 DEF Folded
        <3> QED BY <3>1
    <2>3. g = Step(g)
        BY <2>2, <1>1
    <2> QED BY <2>3
<1>5. it = Step(it)
    BY <1>4
<1>6. Critical(s) = it[1..n]
    BY <1>1 DEF Critical, FoldLeft, MapThenFoldSet, Chosen
<1>7. \A t \in SUBSET (1..n) :
          it[t] = IF t = {} THEN <<>>
                  ELSE Chosen(it[t \ {Max(t)}], s[Max(t)])
    BY <1>1, <1>5
<1> HIDE DEF it, step
<1>8. p[0] = <<>>
    <2>1. 1..0 = {} /\ {} \in SUBSET (1..n) /\ 0 \in 0..n
        BY <1>1
    <2> QED BY <2>1, <1>7
<1>9. ASSUME NEW k \in 1..n
      PROVE  p[k] = Chosen(p[k - 1], s[k])
    <2>1. k \in 0..n /\ k - 1 \in 0..n
        BY <1>1
    <2>2. it[1..k] = Chosen(it[1..(k - 1)], s[k])
        <3> HIDE DEF n
        <3> QED BY <1>1, <1>7, Initials
    <2> QED BY <2>1, <2>2
<1>10. \A k \in 0..n : p[k] \in Seq(Line)
    <2> DEFINE S == {k \in 0..n : p[k] \in Seq(Line)}
    <2> HIDE DEF p, n
    <2>1. 0 \in S
        <3>1. 0 \in 0..n /\ <<>> \in Seq(Line)
            BY <1>1
        <3> QED BY <3>1, <1>8
    <2>2. ASSUME NEW k \in 1..n, k - 1 \in S PROVE k \in S
        <3>1. k \in 0..n /\ p[k - 1] \in Seq(Line) /\ s[k] \in Line
            BY <1>1, <2>2
        <3>2. p[k] \in Seq(Line)
            BY <3>1, <1>9, KeptTyped
        <3> QED BY <3>1, <3>2
    <2>3. \A k \in 0..n : k \in S
        <3> HIDE DEF S
        <3> QED BY <1>1, <2>1, <2>2, Inductive
    <2> QED BY <2>3
<1>11. p \in [0..n -> Seq(Line)] /\ p[n] = Critical(s)
    <2>1. \A k \in 0..n : it[1..k] \in Seq(Line)
        BY <1>10
    <2>2. n \in 0..n
        BY <1>1
    <2> QED BY <2>1, <2>2, <1>6
<1> HIDE DEF p
<1> QED BY <1>8, <1>9, <1>11

LEMMA UndisplayedRun ==
    ASSUME NEW s \in Seq(Line)
    PROVE  \E p \in [0..Len(s) -> Seq(Line)] :
             /\ p[0] = <<>> /\ p[Len(s)] = Channel!Undisplayed(s)
             /\ \A k \in 1..Len(s) : p[k] = Unshown(p[k - 1], s[k])
<1> DEFINE n == Len(s)
           step == [a \in (1..n) \X Seq(Line) |-> Unshown(a[2], s[a[1]])]
           Step(f) == [t \in SUBSET (DOMAIN s) |->
                         IF t = {} THEN <<>>
                         ELSE Unshown(f[t \ {Max(t)}], s[Max(t)])]
           it == CHOOSE f : f = Step(f)
           p == [k \in 0..n |-> it[1..k]]
<1>1. n \in Nat /\ DOMAIN s = 1..n /\ \A k \in 1..n : s[k] \in Line
    OBVIOUS
<1>2. step \in [(1..n) \X Seq(Line) -> Seq(Line)]
    BY <1>1, KeptTyped
<1>3. PICK g \in [SUBSET (1..n) -> Seq(Line)] : Folded(n, <<>>, step, g)
    <2>1. n \in Nat /\ <<>> \in Seq(Line)
        BY <1>1
    <2> HIDE DEF n, step
    <2>2. Foldable(n, Seq(Line), <<>>, step)
        BY <2>1, <1>2, FoldExists
    <2> QED BY <2>2 DEF Foldable
<1>4. \E f : f = Step(f)
    <2>1. ASSUME NEW t \in SUBSET (1..n), t # {}
          PROVE  step[<<Max(t), g[t \ {Max(t)}]>>]
                   = Unshown(g[t \ {Max(t)}], s[Max(t)])
        <3>1. Max(t) \in 1..n
            <4>1. t \subseteq 1..n /\ n \in Nat
                BY <1>1
            <4> HIDE DEF n
            <4> QED BY <4>1, <2>1, MaxIs
        <3>2. <<Max(t), g[t \ {Max(t)}]>> \in (1..n) \X Seq(Line)
            BY <3>1
        <3> QED BY <3>2
    <2> HIDE DEF step, n
    <2>2. g = [t \in SUBSET (1..n) |->
                 IF t = {} THEN <<>>
                 ELSE Unshown(g[t \ {Max(t)}], s[Max(t)])]
        <3>1. \A t \in SUBSET (1..n) :
                  g[t] = IF t = {} THEN <<>>
                         ELSE Unshown(g[t \ {Max(t)}], s[Max(t)])
            BY <2>1, <1>3 DEF Folded
        <3> QED BY <3>1
    <2>3. g = Step(g)
        BY <2>2, <1>1
    <2> QED BY <2>3
<1>5. it = Step(it)
    BY <1>4
<1>6. Channel!Undisplayed(s) = it[1..n]
    BY <1>1 DEF Channel!Undisplayed, Channel!FoldLeft, Channel!MapThenFoldSet, Channel!Max, Max, Unshown
<1>7. \A t \in SUBSET (1..n) :
          it[t] = IF t = {} THEN <<>>
                  ELSE Unshown(it[t \ {Max(t)}], s[Max(t)])
    BY <1>1, <1>5
<1> HIDE DEF it, step
<1>8. p[0] = <<>>
    <2>1. 1..0 = {} /\ {} \in SUBSET (1..n) /\ 0 \in 0..n
        BY <1>1
    <2> QED BY <2>1, <1>7
<1>9. ASSUME NEW k \in 1..n
      PROVE  p[k] = Unshown(p[k - 1], s[k])
    <2>1. k \in 0..n /\ k - 1 \in 0..n
        BY <1>1
    <2>2. it[1..k] = Unshown(it[1..(k - 1)], s[k])
        <3> HIDE DEF n
        <3> QED BY <1>1, <1>7, Initials
    <2> QED BY <2>1, <2>2
<1>10. \A k \in 0..n : p[k] \in Seq(Line)
    <2> DEFINE S == {k \in 0..n : p[k] \in Seq(Line)}
    <2> HIDE DEF p, n
    <2>1. 0 \in S
        <3>1. 0 \in 0..n /\ <<>> \in Seq(Line)
            BY <1>1
        <3> QED BY <3>1, <1>8
    <2>2. ASSUME NEW k \in 1..n, k - 1 \in S PROVE k \in S
        <3>1. k \in 0..n /\ p[k - 1] \in Seq(Line) /\ s[k] \in Line
            BY <1>1, <2>2
        <3>2. p[k] \in Seq(Line)
            BY <3>1, <1>9, KeptTyped
        <3> QED BY <3>1, <3>2
    <2>3. \A k \in 0..n : k \in S
        <3> HIDE DEF S
        <3> QED BY <1>1, <2>1, <2>2, Inductive
    <2> QED BY <2>3
<1>11. p \in [0..n -> Seq(Line)] /\ p[n] = Channel!Undisplayed(s)
    <2>1. \A k \in 0..n : it[1..k] \in Seq(Line)
        BY <1>10
    <2>2. n \in 0..n
        BY <1>1
    <2> QED BY <2>1, <2>2, <1>6
<1> HIDE DEF p
<1> QED BY <1>8, <1>9, <1>11

-----------------------------------------------------------------------------
(* What they make of one more element, and of two parts.                    *)

Builds(u, s) ==
    /\ u[0] = <<>> /\ u[Len(s)] = s
    /\ \A k \in 1..Len(s) : u[k] = Append(u[k - 1], s[k])

LEMMA BuiltUp ==
    ASSUME NEW S, NEW s \in Seq(S)
    PROVE  \E u \in [0..Len(s) -> Seq(S)] : Builds(u, s)
<1> DEFINE n == Len(s)
           cut == [k \in 0..n |-> SubSeq(s, 1, k)]
<1>1. n \in Nat /\ SubSeq(s, 1, 0) = <<>> /\ SubSeq(s, 1, n) = s
    BY SubSeqFull, SubSeqEmpty
<1>2. ASSUME NEW k \in 0..n PROVE SubSeq(s, 1, k) \in Seq(S)
    OBVIOUS
<1>3. ASSUME NEW k \in 1..n
      PROVE  SubSeq(s, 1, k) = Append(SubSeq(s, 1, k - 1), s[k]) /\ s[k] \in S
    OBVIOUS
<1>4. cut \in [0..n -> Seq(S)] /\ cut[0] = <<>> /\ cut[n] = s
    BY <1>1, <1>2
<1>5. ASSUME NEW k \in 1..n PROVE cut[k] = Append(cut[k - 1], s[k]) /\ s[k] \in S
    <2>1. k \in 0..n /\ k - 1 \in 0..n
        BY <1>1
    <2> QED BY <2>1, <1>3
<1> HIDE DEF cut
<1>6. Builds(cut, s)
    BY <1>4, <1>5 DEF Builds
<1>7. cut \in [0..Len(s) -> Seq(S)]
    BY <1>4
<1> QED BY <1>6, <1>7

LEMMA ConcatOne ==
    ASSUME NEW S, NEW s \in Seq(S), NEW t \in Seq(S), NEW x \in S
    PROVE  s \o Append(t, x) = Append(s \o t, x)
OBVIOUS

LEMMA BytesTyped ==
    ASSUME NEW s \in Seq(Line)
    PROVE  Bytes(s) \in Nat /\ (s = <<>> => Bytes(s) = 0)
<1>1. PICK p \in [0..Len(s) -> Nat] : p[0] = 0 /\ p[Len(s)] = Bytes(s)
    BY BytesRun
<1> QED BY <1>1

LEMMA BytesEmpty == <<>> \in Seq(Line) /\ Bytes(<<>>) = 0
<1>1. <<>> \in Seq(Line)
    OBVIOUS
<1>2. \A s \in Seq(Line) : s = <<>> => Bytes(s) = 0
    BY BytesTyped
<1> QED BY <1>1, <1>2, Zenon

LEMMA BytesAppend ==
    ASSUME NEW s \in Seq(Line), NEW x \in Line
    PROVE  Bytes(Append(s, x)) = Bytes(s) + x.size
<1> DEFINE n == Len(s)
           t == Append(s, x)
<1>1. n \in Nat /\ t \in Seq(Line) /\ Len(t) = n + 1 /\ t[n + 1] = x
      /\ \A k \in 1..n : t[k] = s[k]
    OBVIOUS
<1>2. PICK p \in [0..n -> Nat] :
          /\ p[0] = 0 /\ p[n] = Bytes(s)
          /\ \A k \in 1..n : p[k] = p[k - 1] + s[k].size
    BY BytesRun
<1> HIDE DEF t, n
<1>3. PICK r \in [0..Len(t) -> Nat] :
          /\ r[0] = 0 /\ r[Len(t)] = Bytes(t)
          /\ \A k \in 1..Len(t) : r[k] = r[k - 1] + t[k].size
    BY <1>1, BytesRun
<1> DEFINE S == {k \in 0..n : r[k] = p[k]}
<1>4. 0 \in S
    BY <1>1, <1>2, <1>3
<1>5. ASSUME NEW k \in 1..n, k - 1 \in S PROVE k \in S
    <2>1. k \in 0..n /\ k \in 1..Len(t) /\ t[k] = s[k] /\ r[k - 1] = p[k - 1]
        BY <1>1, <1>5
    <2> QED BY <2>1, <1>2, <1>3
<1>6. \A k \in 0..n : k \in S
    <2> HIDE DEF S
    <2> QED BY <1>1, <1>4, <1>5, Inductive
<1>7. r[n] = p[n]
    BY <1>1, <1>6
<1>8. n + 1 \in 1..Len(t) /\ n + 1 - 1 = n
    BY <1>1
<1>9. r[n + 1] = r[n] + x.size
    BY <1>1, <1>3, <1>8
<1> QED BY <1>1, <1>2, <1>3, <1>7, <1>9 DEF t

LEMMA BytesConcat ==
    ASSUME NEW s \in Seq(Line), NEW t \in Seq(Line)
    PROVE  Bytes(s \o t) = Bytes(s) + Bytes(t)
<1> DEFINE n == Len(t)
<1>n. n \in Nat
    OBVIOUS
<1>p. PICK u \in [0..n -> Seq(Line)] : Builds(u, t)
    BY BuiltUp
<1>1. /\ u[0] = <<>> /\ u[n] = t
      /\ \A k \in 1..n : u[k] = Append(u[k - 1], t[k]) /\ t[k] \in Line
    BY <1>p DEF Builds
<1>2. Bytes(s) \in Nat /\ \A k \in 0..n : Bytes(u[k]) \in Nat
    BY <1>1, BytesTyped
<1> HIDE DEF n
<1> DEFINE S == {k \in 0..n : Bytes(s \o u[k]) = Bytes(s) + Bytes(u[k])}
<1>3. 0 \in S
    <2>1. s \o u[0] = s /\ Bytes(u[0]) = 0 /\ 0 \in 0..n
        BY <1>n, <1>1, BytesEmpty, ConcatEmptySeq
    <2>2. Bytes(s \o u[0]) = Bytes(s) + Bytes(u[0])
        BY <2>1, <1>2
    <2> QED BY <2>1, <2>2
<1>4. ASSUME NEW k \in 1..n, k - 1 \in S PROVE k \in S
    <2>0. k - 1 \in 0..n /\ k \in 0..n
        BY <1>n
    <2>1. u[k - 1] \in Seq(Line) /\ t[k] \in Line /\ u[k] = Append(u[k - 1], t[k])
        BY <1>1, <2>0
    <2>2. s \o u[k] = Append(s \o u[k - 1], t[k]) /\ s \o u[k - 1] \in Seq(Line)
        <3>1. s \o Append(u[k - 1], t[k]) = Append(s \o u[k - 1], t[k])
            <4>1. \A a \in Seq(Line), x \in Line : s \o Append(a, x) = Append(s \o a, x)
                BY ConcatOne
            <4> QED BY <2>1, <4>1
        <3>2. s \o u[k - 1] \in Seq(Line)
            BY <2>1, ConcatProperties
        <3> QED BY <2>1, <3>1, <3>2
    <2>3. /\ Bytes(s \o u[k]) = Bytes(s \o u[k - 1]) + t[k].size
          /\ Bytes(u[k]) = Bytes(u[k - 1]) + t[k].size
        BY <2>1, <2>2, BytesAppend
    <2>4. Bytes(s \o u[k - 1]) = Bytes(s) + Bytes(u[k - 1])
        BY <1>4
    <2>5. t[k].size \in Nat /\ Bytes(u[k - 1]) \in Nat
        BY <2>0, <2>1, <1>2, LineSize
    <2>6. Bytes(s \o u[k]) = Bytes(s) + Bytes(u[k])
        <3> DEFINE a == Bytes(s \o u[k - 1])
                   b == Bytes(u[k - 1])
                   c == Bytes(s)
                   d == t[k].size
                   x == Bytes(s \o u[k])
                   y == Bytes(u[k])
        <3>1. x = a + d /\ y = b + d /\ a = c + b /\ {b, c, d} \subseteq Nat
            BY <2>3, <2>4, <2>5, <1>2
        <3> HIDE DEF a, b, c, d, x, y
        <3>2. x = c + y
            BY <3>1
        <3> QED BY <3>2 DEF x, c, y
    <2> QED BY <2>0, <2>6
<1>5. \A k \in 0..n : k \in S
    <2> HIDE DEF S
    <2> QED BY <1>n, <1>3, <1>4, Inductive
<1>6. n \in S
    BY <1>n, <1>5
<1> QED BY <1>1, <1>6

LEMMA HeadFirst ==
    ASSUME NEW S, NEW s \in Seq(S), s # <<>>
    PROVE  /\ Head(s) \in S /\ Tail(s) \in Seq(S) /\ <<Head(s)>> \in Seq(S)
           /\ s = <<Head(s)>> \o Tail(s) /\ <<Head(s)>> = Append(<<>>, Head(s))
<1>1. Head(s) \in S /\ Tail(s) \in Seq(S)
    BY HeadTailProperties
<1>2. <<Head(s)>> \in Seq(S) /\ <<Head(s)>> = Append(<<>>, Head(s))
    BY <1>1
<1>3. s = <<Head(s)>> \o Tail(s)
    OBVIOUS
<1> QED BY <1>1, <1>2, <1>3

LEMMA BytesTail ==
    ASSUME NEW s \in Seq(Line), s # <<>>
    PROVE  Bytes(s) = Head(s).size + Bytes(Tail(s))
<1>1. /\ Head(s) \in Line /\ Tail(s) \in Seq(Line) /\ <<Head(s)>> \in Seq(Line)
      /\ s = <<Head(s)>> \o Tail(s) /\ <<Head(s)>> = Append(<<>>, Head(s))
    BY HeadFirst
<1>3. Bytes(<<Head(s)>>) = Bytes(<<>>) + Head(s).size
    BY <1>1, BytesEmpty, BytesAppend
<1>4. Head(s).size \in Nat /\ Bytes(Tail(s)) \in Nat
    BY <1>1, LineSize, BytesTyped
<1>5. Bytes(<<Head(s)>> \o Tail(s)) = Bytes(<<Head(s)>>) + Bytes(Tail(s))
    BY <1>1, BytesConcat
<1>6. Bytes(s) = Bytes(<<Head(s)>> \o Tail(s)) /\ Bytes(<<Head(s)>>) = 0 + Head(s).size
    BY <1>1, <1>3, BytesEmpty
<1> QED BY <1>4, <1>5, <1>6

LEMMA Grown ==
    ASSUME NEW E, NEW P, <<>> \in P,
           \A s \in Seq(E), x \in E : s \in P => Append(s, x) \in P
    PROVE  \A s \in Seq(E) : s \in P
<1> SUFFICES ASSUME NEW s \in Seq(E) PROVE s \in P
    OBVIOUS
<1> DEFINE n == Len(s)
<1>n. n \in Nat
    OBVIOUS
<1>1. PICK u \in [0..n -> Seq(E)] : Builds(u, s)
    BY BuiltUp
<1>2. /\ u[0] = <<>> /\ u[n] = s
      /\ \A k \in 1..n : u[k] = Append(u[k - 1], s[k]) /\ s[k] \in E
    BY <1>1 DEF Builds
<1> DEFINE S == {k \in 0..n : u[k] \in P}
<1> HIDE DEF n
<1>3. 0 \in S
    BY <1>n, <1>2
<1>4. ASSUME NEW k \in 1..n, k - 1 \in S PROVE k \in S
    <2>1. k - 1 \in 0..n /\ k \in 0..n
        BY <1>n
    <2>2. u[k - 1] \in Seq(E) /\ u[k - 1] \in P /\ s[k] \in E
        BY <1>2, <1>4, <2>1
    <2>3. Append(u[k - 1], s[k]) \in P
        BY <2>2
    <2> QED BY <1>2, <2>1, <2>3
<1>5. \A k \in 0..n : k \in S
    <2> HIDE DEF S
    <2> QED BY <1>n, <1>3, <1>4, Inductive
<1>6. n \in S
    BY <1>n, <1>5
<1> QED BY <1>2, <1>6

LEMMA OwedTyped ==
    ASSUME NEW s \in Seq(Nat)
    PROVE  Owed(s) \in Nat /\ (s = <<>> => Owed(s) = 0)
<1>1. PICK p \in [0..Len(s) -> Nat] : p[0] = 0 /\ p[Len(s)] = Owed(s)
    BY OwedRun
<1> QED BY <1>1

LEMMA OwedAppend ==
    ASSUME NEW s \in Seq(Nat), NEW x \in Nat
    PROVE  Owed(Append(s, x)) = Owed(s) + x
<1> DEFINE n == Len(s)
           t == Append(s, x)
<1>1. n \in Nat /\ t \in Seq(Nat) /\ Len(t) = n + 1 /\ t[n + 1] = x
      /\ \A k \in 1..n : t[k] = s[k]
    OBVIOUS
<1>2. PICK p \in [0..n -> Nat] :
          /\ p[0] = 0 /\ p[n] = Owed(s)
          /\ \A k \in 1..n : p[k] = p[k - 1] + s[k]
    BY OwedRun
<1> HIDE DEF t, n
<1>3. PICK r \in [0..Len(t) -> Nat] :
          /\ r[0] = 0 /\ r[Len(t)] = Owed(t)
          /\ \A k \in 1..Len(t) : r[k] = r[k - 1] + t[k]
    BY <1>1, OwedRun
<1> DEFINE S == {k \in 0..n : r[k] = p[k]}
<1>4. 0 \in S
    BY <1>1, <1>2, <1>3
<1>5. ASSUME NEW k \in 1..n, k - 1 \in S PROVE k \in S
    <2>1. k \in 0..n /\ k \in 1..Len(t)
        BY <1>1
    <2>2. t[k] = s[k] /\ r[k - 1] = p[k - 1]
        BY <1>1, <1>5
    <2>3. r[k] = p[k]
        BY <2>1, <2>2, <1>2, <1>3
    <2> QED BY <2>1, <2>3
<1>6. \A k \in 0..n : k \in S
    <2> HIDE DEF S
    <2> QED BY <1>1, <1>4, <1>5, Inductive
<1>7. r[n] = p[n]
    BY <1>1, <1>6
<1>8. PICK j \in 1..Len(t) : j = Len(t) /\ j - 1 = n /\ t[j] = x
    <2>1. n + 1 \in 1..Len(t) /\ n + 1 = Len(t) /\ (n + 1) - 1 = n /\ t[n + 1] = x
        BY <1>1
    <2> QED BY <2>1
<1>9. r[Len(t)] = r[n] + x
    BY <1>3, <1>8
<1> QED BY <1>1, <1>2, <1>3, <1>7, <1>9 DEF t

LEMMA CriticalTyped ==
    ASSUME NEW s \in Seq(Line)
    PROVE  Critical(s) \in Seq(Line) /\ (s = <<>> => Critical(s) = <<>>)
<1>1. PICK p \in [0..Len(s) -> Seq(Line)] : p[0] = <<>> /\ p[Len(s)] = Critical(s)
    BY CriticalRun
<1> QED BY <1>1

LEMMA CriticalAppend ==
    ASSUME NEW s \in Seq(Line), NEW x \in Line
    PROVE  Critical(Append(s, x)) = Chosen(Critical(s), x)
<1> DEFINE n == Len(s)
           t == Append(s, x)
<1>1. n \in Nat /\ t \in Seq(Line) /\ Len(t) = n + 1 /\ t[n + 1] = x
      /\ \A k \in 1..n : t[k] = s[k]
    OBVIOUS
<1>2. PICK p \in [0..n -> Seq(Line)] :
          /\ p[0] = <<>> /\ p[n] = Critical(s)
          /\ \A k \in 1..n : p[k] = Chosen(p[k - 1], s[k])
    BY CriticalRun
<1> HIDE DEF t, n
<1>3. PICK r \in [0..Len(t) -> Seq(Line)] :
          /\ r[0] = <<>> /\ r[Len(t)] = Critical(t)
          /\ \A k \in 1..Len(t) : r[k] = Chosen(r[k - 1], t[k])
    BY <1>1, CriticalRun
<1> DEFINE S == {k \in 0..n : r[k] = p[k]}
<1>4. 0 \in S
    BY <1>1, <1>2, <1>3
<1>5. ASSUME NEW k \in 1..n, k - 1 \in S PROVE k \in S
    <2>1. k \in 0..n /\ k \in 1..Len(t)
        BY <1>1
    <2>2. t[k] = s[k] /\ r[k - 1] = p[k - 1]
        BY <1>1, <1>5
    <2>3. r[k] = p[k]
        BY <2>1, <2>2, <1>2, <1>3
    <2> QED BY <2>1, <2>3
<1>6. \A k \in 0..n : k \in S
    <2> HIDE DEF S
    <2> QED BY <1>1, <1>4, <1>5, Inductive
<1>7. r[n] = p[n]
    BY <1>1, <1>6
<1>8. PICK j \in 1..Len(t) : j = Len(t) /\ j - 1 = n /\ t[j] = x
    <2>1. n + 1 \in 1..Len(t) /\ n + 1 = Len(t) /\ (n + 1) - 1 = n /\ t[n + 1] = x
        BY <1>1
    <2> QED BY <2>1
<1>9. r[Len(t)] = Chosen(r[n], x)
    BY <1>3, <1>8
<1> QED BY <1>1, <1>2, <1>3, <1>7, <1>9 DEF t

LEMMA UndisplayedTyped ==
    ASSUME NEW s \in Seq(Line)
    PROVE  Channel!Undisplayed(s) \in Seq(Line) /\ (s = <<>> => Channel!Undisplayed(s) = <<>>)
<1>1. PICK p \in [0..Len(s) -> Seq(Line)] : p[0] = <<>> /\ p[Len(s)] = Channel!Undisplayed(s)
    BY UndisplayedRun
<1> QED BY <1>1

LEMMA UndisplayedAppend ==
    ASSUME NEW s \in Seq(Line), NEW x \in Line
    PROVE  Channel!Undisplayed(Append(s, x)) = Unshown(Channel!Undisplayed(s), x)
<1> DEFINE n == Len(s)
           t == Append(s, x)
<1>1. n \in Nat /\ t \in Seq(Line) /\ Len(t) = n + 1 /\ t[n + 1] = x
      /\ \A k \in 1..n : t[k] = s[k]
    OBVIOUS
<1>2. PICK p \in [0..n -> Seq(Line)] :
          /\ p[0] = <<>> /\ p[n] = Channel!Undisplayed(s)
          /\ \A k \in 1..n : p[k] = Unshown(p[k - 1], s[k])
    BY UndisplayedRun
<1> HIDE DEF t, n
<1>3. PICK r \in [0..Len(t) -> Seq(Line)] :
          /\ r[0] = <<>> /\ r[Len(t)] = Channel!Undisplayed(t)
          /\ \A k \in 1..Len(t) : r[k] = Unshown(r[k - 1], t[k])
    BY <1>1, UndisplayedRun
<1> DEFINE S == {k \in 0..n : r[k] = p[k]}
<1>4. 0 \in S
    BY <1>1, <1>2, <1>3
<1>5. ASSUME NEW k \in 1..n, k - 1 \in S PROVE k \in S
    <2>1. k \in 0..n /\ k \in 1..Len(t)
        BY <1>1
    <2>2. t[k] = s[k] /\ r[k - 1] = p[k - 1]
        BY <1>1, <1>5
    <2>3. r[k] = p[k]
        BY <2>1, <2>2, <1>2, <1>3
    <2> QED BY <2>1, <2>3
<1>6. \A k \in 0..n : k \in S
    <2> HIDE DEF S
    <2> QED BY <1>1, <1>4, <1>5, Inductive
<1>7. r[n] = p[n]
    BY <1>1, <1>6
<1>8. PICK j \in 1..Len(t) : j = Len(t) /\ j - 1 = n /\ t[j] = x
    <2>1. n + 1 \in 1..Len(t) /\ n + 1 = Len(t) /\ (n + 1) - 1 = n /\ t[n + 1] = x
        BY <1>1
    <2> QED BY <2>1
<1>9. r[Len(t)] = Unshown(r[n], x)
    BY <1>3, <1>8
<1> QED BY <1>1, <1>2, <1>3, <1>7, <1>9 DEF t

LEMMA OwedTail ==
    ASSUME NEW s \in Seq(Nat), s # <<>>
    PROVE  Owed(s) = Head(s) + Owed(Tail(s))
<1> DEFINE h == Head(s)
           P == {t \in Seq(Nat) : Owed(<<h>> \o t) = h + Owed(t)}
<1>1. h \in Nat /\ Tail(s) \in Seq(Nat) /\ s = <<h>> \o Tail(s)
    BY HeadFirst
<1>2. /\ <<h>> \in Seq(Nat) /\ <<>> \in Seq(Nat) /\ <<h>> = Append(<<>>, h)
      /\ <<h>> \o <<>> = <<h>>
    BY <1>1
<1> HIDE DEF h
<1>3. Owed(<<>>) = 0
    <2>1. \A t \in Seq(Nat) : t = <<>> => Owed(t) = 0
        BY OwedTyped
    <2> QED BY <2>1, <1>2, Zenon
<1>4. Owed(<<h>>) = h
    <2>1. Owed(Append(<<>>, h)) = Owed(<<>>) + h
        BY <1>1, <1>2, OwedAppend
    <2> QED BY <2>1, <1>1, <1>2, <1>3
<1>5. <<>> \in P
    BY <1>1, <1>2, <1>3, <1>4
<1>6. ASSUME NEW t \in Seq(Nat), NEW x \in Nat, t \in P PROVE Append(t, x) \in P
    <2>1. <<h>> \o t \in Seq(Nat)
        BY <1>2, ConcatProperties
    <2>2. <<h>> \o Append(t, x) = Append(<<h>> \o t, x)
        <3>1. \A a, b \in Seq(Nat), y \in Nat : a \o Append(b, y) = Append(a \o b, y)
            BY ConcatOne
        <3>2. <<h>> \in Seq(Nat)
            BY <1>2
        <3> QED BY <3>1, <3>2
    <2>3. Owed(Append(<<h>> \o t, x)) = Owed(<<h>> \o t) + x
        BY <2>1, OwedAppend
    <2>4. Owed(Append(t, x)) = Owed(t) + x /\ Owed(t) \in Nat
        BY OwedAppend, OwedTyped
    <2>5. Owed(<<h>> \o t) = h + Owed(t)
        BY <1>6
    <2>6. Append(t, x) \in Seq(Nat)
        OBVIOUS
    <2>7. Owed(<<h>> \o Append(t, x)) = h + Owed(Append(t, x))
        <3> DEFINE a == Owed(t)
                   b == Owed(<<h>> \o t)
        <3>1. Owed(<<h>> \o Append(t, x)) = b + x /\ Owed(Append(t, x)) = a + x
              /\ a \in Nat /\ b = h + a
            BY <2>2, <2>3, <2>4, <2>5
        <3> HIDE DEF a, b
        <3> QED BY <3>1, <1>1
    <2> QED BY <2>6, <2>7
<1>7. Tail(s) \in P
    <2> HIDE DEF P
    <2>1. \A t \in Seq(Nat) : t \in P
        BY <1>5, <1>6, Grown
    <2> QED BY <2>1, <1>1
<1> QED BY <1>1, <1>7 DEF h

-----------------------------------------------------------------------------
(* Display lines and the others.                                            *)

HasBulk(s) == \E i \in DOMAIN s : outboundClass(s[i]) = "bulk"
DisplayLines == {Event(n) : n \in BulkSize}

LEMMA Classes ==
    ASSUME NEW x \in Line
    PROVE  /\ x \in DisplayLines <=> outboundClass(x) # "critical"
           /\ outboundClass(x) = "bulk" <=> outboundClass(x) # "critical"
<1>1. CASE x \in [kind : {"event"}, size : BulkSize]
    <2>1. x = Event(x.size) /\ x.size \in BulkSize /\ x.kind = "event"
        BY <1>1 DEF Event
    <2> QED BY <2>1 DEF DisplayLines, outboundClass
<1>2. CASE x \in [kind : {"boot", "ask", "beat", "paused", "resumed", "dropped"}, size : {1}]
    <2>1. x.kind # "event"
        BY <1>2
    <2>2. \A n \in BulkSize : Event(n).kind = "event"
        BY DEF Event
    <2>3. x \notin DisplayLines
        BY <2>1, <2>2 DEF DisplayLines
    <2> QED BY <2>1, <2>3 DEF outboundClass
<1> QED BY <1>1, <1>2 DEF Line

LEMMA NoticeLines ==
    /\ \A k \in {"boot", "ask", "beat", "paused", "resumed", "dropped"} :
         Notice(k) \in Line /\ outboundClass(Notice(k)) = "critical" /\ Notice(k).size = 1
    /\ \A n \in BulkSize : Event(n) \in Line /\ Event(n).size = n
BY DEF Notice, Event, Line, outboundClass

LEMMA FiltersAgree == \A s \in Seq(Line) : Channel!Undisplayed(s) = Critical(s)
<1> DEFINE P == {s \in Seq(Line) : Channel!Undisplayed(s) = Critical(s)}
<1>1. <<>> \in P
    <2>1. <<>> \in Seq(Line)
        OBVIOUS
    <2>2. \A s \in Seq(Line) : s = <<>> => Critical(s) = <<>> /\ Channel!Undisplayed(s) = <<>>
        BY CriticalTyped, UndisplayedTyped
    <2>3. Critical(<<>>) = <<>> /\ Channel!Undisplayed(<<>>) = <<>>
        BY <2>1, <2>2, Zenon
    <2> QED BY <2>1, <2>3
<1>2. ASSUME NEW s \in Seq(Line), NEW x \in Line, s \in P PROVE Append(s, x) \in P
    <2>1. /\ Critical(Append(s, x)) = Chosen(Critical(s), x)
          /\ Channel!Undisplayed(Append(s, x)) = Unshown(Channel!Undisplayed(s), x)
        BY CriticalAppend, UndisplayedAppend
    <2>2. Chosen(Critical(s), x) = Unshown(Critical(s), x)
        BY Classes DEF Chosen, Unshown, DisplayLines
    <2>3. Append(s, x) \in Seq(Line)
        OBVIOUS
    <2> QED BY <1>2, <2>1, <2>2, <2>3
<1>3. \A s \in Seq(Line) : s \in P
    <2> HIDE DEF P
    <2> QED BY <1>1, <1>2, Grown
<1> QED BY <1>3

LEMMA CriticalEmpty == Critical(<<>>) = <<>>
<1>1. <<>> \in Seq(Line)
    OBVIOUS
<1>2. \A s \in Seq(Line) : s = <<>> => Critical(s) = <<>>
    BY CriticalTyped
<1> QED BY <1>1, <1>2, Zenon

LEMMA CriticalOnly ==
    \A s \in Seq(Line) : ~HasBulk(Critical(s)) /\ (~HasBulk(s) => Critical(s) = s)
<1> DEFINE P == {s \in Seq(Line) : ~HasBulk(Critical(s)) /\ (~HasBulk(s) => Critical(s) = s)}
<1>1. <<>> \in P
    <2>1. <<>> \in Seq(Line) /\ ~HasBulk(<<>>)
        BY DEF HasBulk
    <2> QED BY <2>1, CriticalEmpty
<1>2. ASSUME NEW s \in Seq(Line), NEW x \in Line, s \in P PROVE Append(s, x) \in P
    <2> DEFINE c == Critical(s)
    <2>1. c \in Seq(Line) /\ Critical(Append(s, x)) = Chosen(c, x) /\ Append(s, x) \in Seq(Line)
        BY CriticalAppend, CriticalTyped
    <2>2. ~HasBulk(c) /\ (~HasBulk(s) => c = s)
        BY <1>2
    <2> HIDE DEF c
    <2>3. ASSUME NEW t \in Seq(Line)
          PROVE  HasBulk(Append(t, x)) <=> HasBulk(t) \/ outboundClass(x) = "bulk"
        <3>1. /\ DOMAIN t = 1..Len(t) /\ DOMAIN Append(t, x) = 1..(Len(t) + 1)
              /\ \A i \in DOMAIN t : Append(t, x)[i] = t[i]
              /\ Append(t, x)[Len(t) + 1] = x /\ Len(t) \in Nat
            OBVIOUS
        <3>2. \A i \in DOMAIN Append(t, x) : i \in DOMAIN t \/ i = Len(t) + 1
            BY <3>1
        <3>3. Len(t) + 1 \in DOMAIN Append(t, x) /\ DOMAIN t \subseteq DOMAIN Append(t, x)
            BY <3>1
        <3> HIDE DEF outboundClass
        <3> QED BY <3>1, <3>2, <3>3 DEF HasBulk
    <2>4. CASE outboundClass(x) = "critical"
        <3>1. Chosen(c, x) = Append(c, x) /\ outboundClass(x) # "bulk"
            BY <2>4 DEF Chosen
        <3> QED BY <2>1, <2>2, <2>3, <3>1
    <2>5. CASE outboundClass(x) # "critical"
        <3>1. Chosen(c, x) = c /\ outboundClass(x) = "bulk"
            BY <2>5, Classes DEF Chosen
        <3> QED BY <2>1, <2>2, <2>3, <3>1
    <2> QED BY <2>4, <2>5
<1>3. \A s \in Seq(Line) : s \in P
    <2> HIDE DEF P
    <2> QED BY <1>1, <1>2, Grown
<1> QED BY <1>3

-----------------------------------------------------------------------------
(* What a call makes of the queue and the window.                           *)

Queue == [queue : Seq(Line), paused : BOOLEAN, over : BOOLEAN, waiting : BOOLEAN,
          failed : BOOLEAN, air : Nat, out : Seq(Line)]

(* base is what was in flight when the call began.                          *)
Counted(w, base) == w \in Queue /\ w.air = base + Bytes(w.out)

(* What leaves the queue is on its way: the lines of both, in order.        *)
Lines(w) == w.out \o w.queue

(* Only a full window or a dead port makes the queue wait.                  *)
Sane(w) ==
    /\ w.failed => dead
    /\ w.waiting => w.failed \/ w.air >= Window

(* The queue is empty, or waits, or keeps the notice only.                  *)
Served(w) == w.queue # <<>> => w.waiting \/ w.queue = <<Notice("resumed")>>

(* Output that is withheld will be welcome again at a drain.                *)
Woken(w) == w.paused => w.waiting \/ w.over

Calm(w) == Sane(w) /\ Served(w) /\ Woken(w)

Resumed == Notice("resumed")

LEMMA Joined == \A a, b, c \in Seq(Line) : (a \o b) \o c = a \o (b \o c) /\ a \o b \in Seq(Line)
BY ConcatAssociative, ConcatProperties

LEMMA Cut ==
    ASSUME NEW s \in Seq(Line), NEW k \in 0..Len(s)
    PROVE  /\ SubSeq(s, 1, k) \in Seq(Line) /\ SubSeq(s, k + 1, Len(s)) \in Seq(Line)
           /\ SubSeq(s, 1, k) \o SubSeq(s, k + 1, Len(s)) = s
<1>1. SubSeq(s, 1, k) \in Seq(Line) /\ SubSeq(s, k + 1, Len(s)) \in Seq(Line)
    OBVIOUS
<1>2. SubSeq(s, 1, k) \o SubSeq(s, k + 1, Len(s)) = SubSeq(s, 1, Len(s))
    <2>1. 1 \in 1..Len(s) + 1 /\ k \in (1 - 1)..Len(s) /\ Len(s) \in k..Len(s)
        OBVIOUS
    <2> QED BY <2>1, ConcatAdjacentSubSeq
<1>3. SubSeq(s, 1, Len(s)) = s
    BY SubSeqFull
<1> QED BY <1>1, <1>2, <1>3

(* Either everything is written, or up to the line that fills the window.   *)
LEMMA WritableIs ==
    ASSUME NEW w \in Queue
    PROVE  LET k == Writable(w)
           IN /\ k \in 0..Len(w.queue)
              /\ k # Len(w.queue) => k > 0 /\ w.air + Bytes(SubSeq(w.queue, 1, k)) >= Window
<1> DEFINE n == Len(w.queue)
           fills == {k \in 1..n : w.air + Bytes(SubSeq(w.queue, 1, k)) >= Window}
<1>1. n \in Nat /\ fills \subseteq Nat
    BY DEF Queue
<1>2. Writable(w) = IF fills = {} THEN n ELSE Min(fills)
    BY DEF Writable
<1>3. CASE fills = {}
    BY <1>1, <1>2, <1>3
<1>4. CASE fills # {}
    <2>1. Min(fills) \in fills
        <3> HIDE DEF fills
        <3> QED BY <1>1, <1>4, MinIs
    <2> QED BY <1>1, <1>2, <1>4, <2>1
<1> QED BY <1>3, <1>4

LEMMA PostedIs ==
    ASSUME NEW base \in Nat, NEW w, Counted(w, base), Sane(w), ~w.waiting,
           NEW p, p = Posted(w)
    PROVE  /\ Counted(p, base) /\ Lines(p) = Lines(w) /\ Sane(p)
           /\ p.queue # <<>> => p.waiting
           /\ p.paused = w.paused /\ p.over = w.over
<1>1. w \in Queue
    BY DEF Counted
<1>2. CASE dead
    <2> DEFINE b == (w.queue # <<>>)
               f == (w.failed \/ w.queue # <<>>)
    <2>1. p = [w EXCEPT !.failed = f, !.waiting = b]
        BY <1>2 DEF Posted
    <2>2. b \in BOOLEAN /\ f \in BOOLEAN /\ (b => f) /\ (w.queue # <<>> => b)
        OBVIOUS
    <2> HIDE DEF b, f
    <2>3. /\ p \in Queue /\ p.queue = w.queue /\ p.air = w.air /\ p.out = w.out
          /\ p.paused = w.paused /\ p.over = w.over /\ p.failed = f /\ p.waiting = b
        BY <1>1, <2>1, <2>2 DEF Queue
    <2> QED BY <1>2, <2>2, <2>3 DEF Counted, Lines, Sane
<1>3. CASE ~dead
    <2> DEFINE k == Writable(w)
               said == SubSeq(w.queue, 1, k)
               rest == SubSeq(w.queue, k + 1, Len(w.queue))
               n == Bytes(said)
               b == (k > 0 /\ w.air + n >= Window)
    <2>1. p = [w EXCEPT !.queue = rest, !.air = w.air + n, !.out = w.out \o said, !.waiting = b]
        BY <1>3 DEF Posted
    <2>2. k \in 0..Len(w.queue) /\ (k # Len(w.queue) => k > 0 /\ w.air + n >= Window)
        BY <1>1, WritableIs
    <2>3. w.queue \in Seq(Line) /\ w.out \in Seq(Line) /\ w.air \in Nat
        BY <1>1 DEF Queue
    <2>4. said \in Seq(Line) /\ rest \in Seq(Line) /\ said \o rest = w.queue
        <3> HIDE DEF k
        <3> QED BY <2>2, <2>3, Cut
    <2>5. rest # <<>> => b
        <3>1. CASE k = Len(w.queue)
            <4>1. rest = <<>>
                BY <3>1, <2>3, SubSeqEmpty
            <4> QED BY <4>1
        <3>2. CASE k # Len(w.queue)
            BY <3>2, <2>2
        <3> QED BY <3>1, <3>2
    <2>6. b \in BOOLEAN /\ (b => w.air + n >= Window)
        OBVIOUS
    <2> HIDE DEF k, said, rest, b
    <2>7. n \in Nat /\ w.out \o said \in Seq(Line)
        BY <2>3, <2>4, BytesTyped, ConcatProperties
    <2>8. Bytes(w.out \o said) = Bytes(w.out) + n
        BY <2>3, <2>4, BytesConcat
    <2> HIDE DEF n
    <2> DEFINE out == w.out \o said
               air == w.air + n
    <2>9. air \in Nat /\ out \in Seq(Line)
        BY <2>3, <2>7
    <2>10. p = [w EXCEPT !.queue = rest, !.air = air, !.out = out, !.waiting = b]
        BY <2>1
    <2> HIDE DEF out, air
    <2>11. /\ p \in Queue /\ p.queue = rest /\ p.air = air /\ p.out = out
           /\ p.paused = w.paused /\ p.over = w.over /\ p.failed = w.failed /\ p.waiting = b
        <3> QED BY <1>1, <2>4, <2>6, <2>9, <2>10 DEF Queue
    <2>12. Counted(p, base)
        <3>1. w.air = base + Bytes(w.out) /\ Bytes(w.out) \in Nat
            BY <2>3, BytesTyped DEF Counted
        <3>2. air = base + Bytes(out)
            BY <3>1, <2>3, <2>7, <2>8 DEF air, out
        <3> QED BY <2>11, <3>2 DEF Counted
    <2>13. Lines(p) = Lines(w)
        <3>1. (w.out \o said) \o rest = w.out \o (said \o rest)
            BY <2>3, <2>4, Joined, Zenon
        <3> QED BY <3>1, <2>4, <2>11 DEF Lines, out
    <2>14. Sane(p)
        BY <1>3, <2>6, <2>11 DEF Sane, air
    <2> QED BY <2>5, <2>11, <2>12, <2>13, <2>14
<1> QED BY <1>2, <1>3

(* A line is refused for good, overflows, or goes behind the others.        *)
LEMMA PushedIs ==
    ASSUME NEW base \in Nat, NEW w, Counted(w, base), NEW x \in Line,
           NEW p, p = Pushed(w, x)
    PROVE  \/ w.over /\ p = w
           \/ /\ ~w.over /\ Bytes(w.queue) + x.size > MaxQueued
              /\ p = [w EXCEPT !.over = TRUE]
           \/ /\ ~w.over /\ Bytes(w.queue) + x.size <= MaxQueued
              /\ p = [w EXCEPT !.queue = Append(w.queue, x)]
<1>1. w.queue \in Seq(Line)
    BY DEF Counted, Queue
<1>2. Bytes(w.queue) \in Nat /\ x.size \in Nat /\ MaxQueued \in Nat
    BY <1>1, BytesTyped, LineSize, WatermarkAssumption
<1>3. ~(Bytes(w.queue) + x.size > MaxQueued) => Bytes(w.queue) + x.size <= MaxQueued
    BY <1>2
<1> QED BY <1>3 DEF Pushed

LEMMA Overflows ==
    ASSUME NEW base \in Nat, NEW w, Counted(w, base),
           NEW p, p = [w EXCEPT !.over = TRUE]
    PROVE  /\ Counted(p, base) /\ Lines(p) = Lines(w) /\ p.over /\ p.queue = w.queue
           /\ p.waiting = w.waiting /\ p.paused = w.paused /\ p.out = w.out
           /\ Sane(w) => Sane(p)
           /\ Served(w) => Served(p)
           /\ Woken(p)
<1>1. /\ p \in Queue /\ p.over /\ p.queue = w.queue /\ p.out = w.out /\ p.air = w.air
      /\ p.waiting = w.waiting /\ p.failed = w.failed /\ p.paused = w.paused
    BY DEF Counted, Queue
<1> QED BY <1>1 DEF Counted, Lines, Sane, Served, Woken

LEMMA Appends ==
    ASSUME NEW base \in Nat, NEW w, Counted(w, base), NEW x \in Line,
           NEW p, p = [w EXCEPT !.queue = Append(w.queue, x)]
    PROVE  /\ Counted(p, base) /\ Lines(p) = Append(Lines(w), x)
           /\ p.queue = Append(w.queue, x) /\ p.queue # w.queue
           /\ p.waiting = w.waiting /\ p.paused = w.paused /\ p.over = w.over
           /\ Sane(w) => Sane(p)
           /\ Woken(w) => Woken(p)
<1> DEFINE more == Append(w.queue, x)
<1>1. w.queue \in Seq(Line) /\ w.out \in Seq(Line) /\ w \in Queue
    BY DEF Counted, Queue
<1>2. more \in Seq(Line) /\ more # w.queue
    <2>1. Len(more) = Len(w.queue) + 1 /\ Len(w.queue) \in Nat
        BY <1>1
    <2> QED BY <1>1, <2>1
<1>3. w.out \o more = Append(w.out \o w.queue, x)
    <2>1. \A a, b \in Seq(Line) : a \o Append(b, x) = Append(a \o b, x)
        BY ConcatOne
    <2> QED BY <1>1, <2>1, Zenon
<1> HIDE DEF more
<1>4. p = [w EXCEPT !.queue = more]
    BY DEF more
<1>5. /\ p \in Queue /\ p.over = w.over /\ p.queue = more /\ p.out = w.out /\ p.air = w.air
      /\ p.waiting = w.waiting /\ p.failed = w.failed /\ p.paused = w.paused
    BY <1>1, <1>2, <1>4 DEF Queue
<1>6. Lines(p) = Append(Lines(w), x)
    BY <1>3, <1>5 DEF Lines
<1>7. Counted(p, base)
    BY <1>5 DEF Counted
<1>8. (Sane(w) => Sane(p)) /\ (Woken(w) => Woken(p))
    BY <1>5 DEF Sane, Woken
<1>9. p.queue = Append(w.queue, x) /\ p.queue # w.queue
    BY <1>2, <1>5 DEF more
<1> QED BY <1>5, <1>6, <1>7, <1>8, <1>9

(* A flush writes what it may, and perhaps says that output is welcome.     *)
LEMMA FlushedIs ==
    ASSUME NEW base \in Nat, NEW w, Counted(w, base), Sane(w),
           NEW v, v = Flushed(w), ~w.waiting
    PROVE  /\ Counted(v, base) /\ v.over = w.over /\ Calm(v)
           /\ \/ Lines(v) = Lines(w) /\ v.paused = w.paused
              \/ /\ w.paused /\ ~w.over /\ ~v.paused
                 /\ Lines(v) = Append(Lines(w), Resumed)
<1> DEFINE p == Posted(w)
<1>1. /\ Counted(p, base) /\ Lines(p) = Lines(w) /\ Sane(p)
      /\ p.queue # <<>> => p.waiting
      /\ p.paused = w.paused /\ p.over = w.over
    BY PostedIs
<1>2. v = IF MayResume(p) THEN Pushed([p EXCEPT !.paused = FALSE], Notice("resumed")) ELSE p
    BY DEF Flushed
<1> HIDE DEF p
<1>3. /\ p.queue \in Seq(Line) /\ p \in Queue /\ Bytes(p.queue) \in Nat
      /\ BulkLow \in Nat /\ MaxQueued \in Nat /\ BulkLow < MaxQueued
    BY <1>1, BytesTyped, WatermarkAssumption DEF Counted, Queue
<1>4. CASE ~MayResume(p)
    <2>1. Woken(p)
        <3> SUFFICES ASSUME p.paused, ~p.over PROVE p.waiting
            BY DEF Woken
        <3>1. ~(Bytes(p.queue) <= BulkLow)
            BY <1>4 DEF MayResume
        <3>2. p.queue # <<>>
            BY <3>1, <1>3, BytesEmpty
        <3> QED BY <3>2, <1>1
    <2>2. v = p
        BY <1>2, <1>4
    <2> QED BY <1>1, <2>1, <2>2 DEF Calm, Served
<1>5. CASE MayResume(p)
    <2>0. p.paused /\ ~p.over /\ Bytes(p.queue) <= BulkLow
        BY <1>5 DEF MayResume
    <2> DEFINE r == [p EXCEPT !.paused = FALSE]
    <2>1. /\ r \in Queue /\ r.queue = p.queue /\ r.air = p.air /\ r.out = p.out
          /\ r.waiting = p.waiting /\ r.failed = p.failed /\ ~r.paused /\ r.over = p.over
        BY <1>3 DEF Queue
    <2>2. v = Pushed(r, Resumed)
        BY <1>2, <1>5 DEF Resumed
    <2> HIDE DEF r
    <2>3. Counted(r, base) /\ Sane(r) /\ Woken(r) /\ Lines(r) = Lines(p)
        BY <1>1, <2>1 DEF Counted, Sane, Woken, Lines
    <2>4. Resumed \in Line /\ Resumed.size = 1
        BY NoticeLines DEF Resumed
    <2>5. v = [r EXCEPT !.queue = Append(r.queue, Resumed)]
        <3>1. ~(Bytes(r.queue) + Resumed.size > MaxQueued) /\ ~r.over
            BY <1>3, <2>0, <2>1, <2>4
        <3> QED BY <3>1, <2>2, <2>3, <2>4, PushedIs
    <2>6. /\ Counted(v, base) /\ Lines(v) = Append(Lines(r), Resumed)
          /\ v.queue = Append(r.queue, Resumed)
          /\ v.waiting = r.waiting /\ v.paused = r.paused /\ v.over = r.over
          /\ Sane(v) /\ Woken(v)
        BY <2>3, <2>4, <2>5, Appends
    <2>7. Served(v)
        <3>1. CASE p.queue = <<>>
            <4>1. v.queue = <<Resumed>>
                BY <3>1, <2>1, <2>6
            <4> QED BY <4>1 DEF Served, Resumed
        <3>2. CASE p.queue # <<>>
            BY <3>2, <1>1, <2>1, <2>6 DEF Served
        <3> QED BY <3>1, <3>2
    <2> QED BY <1>1, <2>0, <2>1, <2>3, <2>6, <2>7 DEF Calm
<1> QED BY <1>4, <1>5

LEMMA FlushWaits ==
    ASSUME NEW w, w.waiting
    PROVE  Flushed(w) = w
BY DEF Flushed

(* The two outcomes of a line that is said; a third when the queue is full. *)
Told(w, v, x) ==
    \/ ~v.over /\ v.paused = w.paused /\ Lines(v) = Append(Lines(w), x)
    \/ /\ ~v.over /\ w.paused /\ ~w.waiting /\ ~v.paused
       /\ Lines(v) = Append(Append(Lines(w), x), Resumed)
Full(w, v, x) ==
    /\ v.over /\ v.paused = w.paused /\ Lines(v) = Lines(w)
    /\ Bytes(w.queue) + x.size > MaxQueued

(* What enqueue() makes of a line that is accepted.                         *)
LEMMA AcceptedIs ==
    ASSUME NEW base \in Nat, NEW w, Counted(w, base), Sane(w), ~w.over, NEW x \in Line,
           NEW v, v = Flushed([w EXCEPT !.queue = Append(w.queue, x)])
    PROVE  Counted(v, base) /\ Calm(v) /\ Told(w, v, x)
<1> DEFINE p == [w EXCEPT !.queue = Append(w.queue, x)]
<1>1. /\ Counted(p, base) /\ Lines(p) = Append(Lines(w), x) /\ Sane(p)
      /\ p.waiting = w.waiting /\ p.paused = w.paused /\ p.over = w.over
    BY Appends
<1> HIDE DEF p
<1>2. v = Flushed(p)
    BY DEF p
<1>3. CASE p.waiting
    <2>1. v = p
        BY <1>2, <1>3, FlushWaits
    <2> QED BY <1>1, <1>3, <2>1 DEF Calm, Served, Woken, Told
<1>4. CASE ~p.waiting
    <2>1. /\ Counted(v, base) /\ v.over = p.over /\ Calm(v)
          /\ \/ Lines(v) = Lines(p) /\ v.paused = p.paused
             \/ /\ p.paused /\ ~p.over /\ ~v.paused
                /\ Lines(v) = Append(Lines(p), Resumed)
        BY <1>1, <1>2, <1>4, FlushedIs
    <2> QED BY <1>1, <1>4, <2>1 DEF Told
<1> QED BY <1>3, <1>4

LEMMA SaidIs ==
    ASSUME NEW base \in Nat, NEW w, Counted(w, base), Sane(w), Served(w), ~w.over,
           NEW x \in Line, NEW v, v = Said(w, x)
    PROVE  Counted(v, base) /\ Calm(v) /\ (Told(w, v, x) \/ Full(w, v, x))
<1> DEFINE p == Pushed(w, x)
<1>1. v = IF p.queue = w.queue THEN p ELSE Flushed(p)
    BY DEF Said
<1>2. \/ Bytes(w.queue) + x.size > MaxQueued /\ p = [w EXCEPT !.over = TRUE]
      \/ p = [w EXCEPT !.queue = Append(w.queue, x)]
    BY PushedIs
<1> HIDE DEF p
<1>3. CASE Bytes(w.queue) + x.size > MaxQueued /\ p = [w EXCEPT !.over = TRUE]
    <2>1. /\ Counted(p, base) /\ Lines(p) = Lines(w) /\ p.over /\ p.queue = w.queue
          /\ p.paused = w.paused /\ Sane(p) /\ Served(p) /\ Woken(p)
        BY <1>3, Overflows
    <2> QED BY <1>1, <1>3, <2>1 DEF Calm, Full
<1>4. CASE p = [w EXCEPT !.queue = Append(w.queue, x)]
    <2>1. p.queue # w.queue
        BY <1>4, Appends
    <2>2. v = Flushed([w EXCEPT !.queue = Append(w.queue, x)])
        BY <1>1, <1>4, <2>1
    <2> QED BY <2>2, AcceptedIs
<1> QED BY <1>2, <1>3, <1>4

LEMMA SaidOver ==
    ASSUME NEW w, w.over, NEW x
    PROVE  Said(w, x) = w
BY DEF Said, Pushed

(* enqueue() of a display line.                                             *)
LEMMA OfferedIs ==
    ASSUME NEW base \in Nat, NEW w, Counted(w, base), Calm(w), NEW x \in Line,
           NEW v, v = Offered(w, x)
    PROVE  /\ Counted(v, base) /\ Calm(v)
           /\ \/ v = w
              \/ /\ ~w.over /\ ~w.paused /\ ~v.over /\ ~v.paused
                 /\ Lines(v) = Append(Lines(w), x)
              \/ /\ ~w.over /\ ~w.paused /\ ~v.over /\ v.paused
                 /\ Lines(v) = Append(Lines(w), Notice("paused"))
              \/ /\ ~w.over /\ ~w.paused /\ ~v.over /\ ~v.paused
                 /\ Lines(v) = Append(Append(Lines(w), Notice("paused")), Resumed)
              \/ ~w.over /\ v.over /\ Lines(v) = Lines(w)
<1>1. CASE w.over \/ w.paused
    BY <1>1 DEF Offered
<1>2. CASE ~w.over /\ ~w.paused /\ Bytes(w.queue) + x.size > BulkHigh
    <2> DEFINE p == [w EXCEPT !.paused = TRUE]
    <2>1. /\ p \in Queue /\ p.over = w.over /\ p.queue = w.queue /\ p.out = w.out
          /\ p.air = w.air /\ p.waiting = w.waiting /\ p.failed = w.failed /\ p.paused
        BY DEF Counted, Queue
    <2>2. v = Said(p, Notice("paused"))
        BY <1>2 DEF Offered
    <2> HIDE DEF p
    <2>3. Counted(p, base) /\ Sane(p) /\ Served(p) /\ ~p.over /\ Lines(p) = Lines(w)
        BY <1>2, <2>1 DEF Counted, Calm, Sane, Served, Lines
    <2>4. Notice("paused") \in Line
        BY NoticeLines
    <2>5. Counted(v, base) /\ Calm(v)
          /\ (Told(p, v, Notice("paused")) \/ Full(p, v, Notice("paused")))
        BY <2>2, <2>3, <2>4, SaidIs
    <2> QED BY <1>2, <2>1, <2>3, <2>5 DEF Told, Full
<1>3. CASE ~w.over /\ ~w.paused /\ ~(Bytes(w.queue) + x.size > BulkHigh)
    <2>1. v = Flushed([w EXCEPT !.queue = Append(w.queue, x)])
        BY <1>3 DEF Offered
    <2>2. Counted(v, base) /\ Calm(v) /\ Told(w, v, x)
        BY <1>3, <2>1, AcceptedIs DEF Calm
    <2> QED BY <1>3, <2>2 DEF Told
<1> QED BY <1>1, <1>2, <1>3

(* What is left of the lines when the queue drops its display lines.        *)
Thinned(w) == w.out \o Critical(w.queue)

LEMMA ThinnedIs ==
    ASSUME NEW base \in Nat, NEW w, Counted(w, base), Calm(w),
           NEW p, p = [w EXCEPT !.queue = Critical(w.queue)]
    PROVE  /\ Counted(p, base) /\ Calm(p) /\ Lines(p) = Thinned(w)
           /\ p.paused = w.paused /\ p.over = w.over /\ p.waiting = w.waiting
           /\ p.queue = Critical(w.queue) /\ p.out = w.out
<1> DEFINE c == Critical(w.queue)
<1>1. w \in Queue /\ w.queue \in Seq(Line)
    BY DEF Counted, Queue
<1>2. c \in Seq(Line) /\ (w.queue = <<>> => c = <<>>)
      /\ (w.queue = <<Resumed>> => c = w.queue)
    <2>1. c \in Seq(Line) /\ (w.queue = <<>> => c = <<>>)
        BY <1>1, CriticalTyped
    <2>2. ASSUME w.queue = <<Resumed>> PROVE ~HasBulk(w.queue)
        <3>1. outboundClass(Resumed) = "critical"
            BY NoticeLines DEF Resumed
        <3>2. \A i \in DOMAIN w.queue : w.queue[i] = Resumed
            BY <2>2
        <3> QED BY <3>1, <3>2 DEF HasBulk
    <2> QED BY <1>1, <2>1, <2>2, CriticalOnly
<1>3. p = [w EXCEPT !.queue = c]
    OBVIOUS
<1> HIDE DEF c
<1>4. /\ p \in Queue /\ p.queue = c /\ p.out = w.out /\ p.air = w.air /\ p.over = w.over
      /\ p.waiting = w.waiting /\ p.failed = w.failed /\ p.paused = w.paused
    BY <1>1, <1>2, <1>3 DEF Queue
<1>5. Served(p)
    BY <1>2, <1>4 DEF Calm, Served, Resumed
<1>6. Counted(p, base) /\ Sane(p) /\ Woken(p)
    BY <1>4 DEF Counted, Calm, Sane, Woken
<1> QED BY <1>4, <1>5, <1>6 DEF Calm, Lines, Thinned, c

(* Room that was made by dropping says so at once.                          *)
LEMMA DroppedIs ==
    ASSUME NEW base \in Nat, NEW w, Counted(w, base), Calm(w),
           NEW v, v = DroppedBulk(w)
    PROVE  /\ Counted(v, base) /\ Calm(v)
           /\ \/ /\ v = [w EXCEPT !.queue = Critical(w.queue)]
                 /\ Lines(v) = Thinned(w) /\ v.paused = w.paused /\ v.over = w.over
              \/ /\ w.paused /\ ~w.over /\ ~v.paused /\ ~v.over
                 /\ Lines(v) = Append(Thinned(w), Resumed)
                 /\ Bytes(Critical(w.queue)) <= BulkLow
<1> DEFINE p == [w EXCEPT !.queue = Critical(w.queue)]
<1>1. /\ Counted(p, base) /\ Calm(p) /\ Lines(p) = Thinned(w)
      /\ p.paused = w.paused /\ p.over = w.over /\ p.waiting = w.waiting
      /\ p.queue = Critical(w.queue)
    BY ThinnedIs
<1>2. v = IF MayResume(p) THEN Said([p EXCEPT !.paused = FALSE], Notice("resumed")) ELSE p
    BY DEF DroppedBulk
<1>3. CASE ~MayResume(p)
    BY <1>1, <1>2, <1>3
<1>4. CASE MayResume(p)
    <2> HIDE DEF p
    <2>0. p.paused /\ ~p.over /\ Bytes(p.queue) <= BulkLow
        BY <1>4 DEF MayResume
    <2> DEFINE r == [p EXCEPT !.paused = FALSE]
    <2>1. /\ r \in Queue /\ r.queue = p.queue /\ r.air = p.air /\ r.out = p.out
          /\ r.waiting = p.waiting /\ r.failed = p.failed /\ ~r.paused /\ r.over = p.over
        BY <1>1 DEF Counted, Queue
    <2>2. v = Said(r, Resumed)
        BY <1>2, <1>4 DEF Resumed
    <2> HIDE DEF r
    <2>3. Counted(r, base) /\ Sane(r) /\ Served(r) /\ Lines(r) = Lines(p) /\ ~r.over
        BY <1>1, <2>0, <2>1 DEF Counted, Calm, Sane, Served, Lines
    <2>4. Resumed \in Line /\ Resumed.size = 1
        BY NoticeLines DEF Resumed
    <2>5. Counted(v, base) /\ Calm(v) /\ (Told(r, v, Resumed) \/ Full(r, v, Resumed))
        BY <2>2, <2>3, <2>4, SaidIs
    <2>6. ~Full(r, v, Resumed)
        <3>1. Bytes(p.queue) \in Nat /\ BulkLow \in Nat /\ MaxQueued \in Nat /\ BulkLow < MaxQueued
            BY <1>1, BytesTyped, WatermarkAssumption DEF Counted, Queue
        <3> QED BY <2>0, <2>1, <2>4, <3>1 DEF Full
    <2>7. ~v.over /\ v.paused = r.paused /\ Lines(v) = Append(Lines(r), Resumed)
        BY <2>1, <2>5, <2>6 DEF Told
    <2> QED BY <1>1, <2>0, <2>1, <2>3, <2>5, <2>7
<1> QED BY <1>3, <1>4

(* An interrupt.                                                            *)
LEMMA InterruptedIs ==
    ASSUME NEW base \in Nat, NEW w, Counted(w, base), Calm(w),
           NEW v, v = Interrupted(w)
    PROVE  /\ Counted(v, base) /\ Calm(v)
           /\ \/ Lines(v) = Lines(w) /\ v.paused = w.paused /\ v.over = w.over
              \/ HasBulk(w.queue) /\ w.over /\ v.over /\ Lines(v) = Thinned(w)
              \/ /\ HasBulk(w.queue) /\ ~w.over /\ v.over
                 /\ Lines(v) \in {Thinned(w), Append(Thinned(w), Resumed)}
              \/ /\ HasBulk(w.queue) /\ ~w.over /\ ~v.over /\ v.paused = w.paused
                 /\ Lines(v) = Append(Thinned(w), Notice("dropped"))
              \/ /\ HasBulk(w.queue) /\ ~w.over /\ ~v.over /\ w.paused /\ ~v.paused
                 /\ Lines(v) = Append(Append(Thinned(w), Resumed), Notice("dropped"))
<1> DEFINE d == DroppedBulk(w)
<1>0. w \in Queue /\ w.queue \in Seq(Line)
    BY DEF Counted, Queue
<1>1. CASE Bytes(w.queue) <= BulkLow
    BY <1>1 DEF Interrupted
<1>2. CASE ~(Bytes(w.queue) <= BulkLow) /\ ~HasBulk(w.queue)
    <2>1. v = d
        BY <1>2 DEF Interrupted, HasBulk
    <2>2. Critical(w.queue) = w.queue
        BY <1>0, <1>2, CriticalOnly
    <2>3. /\ Counted(v, base) /\ Calm(v)
          /\ Lines(v) = Thinned(w) /\ v.paused = w.paused /\ v.over = w.over
        BY <1>2, <2>1, <2>2, DroppedIs
    <2> QED BY <2>2, <2>3 DEF Thinned, Lines
<1>3. CASE ~(Bytes(w.queue) <= BulkLow) /\ HasBulk(w.queue)
    <2>1. v = Said(d, Notice("dropped"))
        BY <1>3 DEF Interrupted, HasBulk
    <2>2. /\ Counted(d, base) /\ Calm(d)
          /\ \/ Lines(d) = Thinned(w) /\ d.paused = w.paused /\ d.over = w.over
             \/ /\ w.paused /\ ~w.over /\ ~d.paused /\ ~d.over
                /\ Lines(d) = Append(Thinned(w), Resumed)
        BY DroppedIs
    <2> HIDE DEF d
    <2>3. CASE d.over
        BY <1>3, <2>1, <2>2, <2>3, SaidOver
    <2>4. CASE ~d.over
        <3>1. Notice("dropped") \in Line
            BY NoticeLines
        <3>2. /\ Counted(v, base) /\ Calm(v)
              /\ Told(d, v, Notice("dropped")) \/ Full(d, v, Notice("dropped"))
            BY <2>1, <2>2, <2>4, <3>1, SaidIs DEF Calm
        <3>3. ~d.over /\ ~w.over
            BY <2>2, <2>4
        <3>4. d.paused => d.waiting
            BY <2>2, <2>4 DEF Calm, Woken
        <3>5. CASE Full(d, v, Notice("dropped"))
            BY <1>3, <2>2, <3>2, <3>3, <3>5 DEF Full
        <3>6. CASE ~v.over /\ v.paused = d.paused /\ Lines(v) = Append(Lines(d), Notice("dropped"))
            BY <1>3, <2>2, <3>2, <3>3, <3>6
        <3> QED BY <3>2, <3>4, <3>5, <3>6 DEF Told
    <2> QED BY <2>3, <2>4
<1> QED BY <1>1, <1>2, <1>3

(* Room comes back.                                                         *)
LEMMA DrainedIs ==
    ASSUME NEW w \in Queue, w.out = <<>>, Calm(w), NEW n \in Nat,
           NEW v, v = Drained(w, n),
           NEW base, base = IF n >= w.air THEN 0 ELSE w.air - n
    PROVE  /\ Counted(v, base) /\ Calm(v) /\ v.over = w.over
           /\ \/ Lines(v) = Lines(w) /\ v.paused = w.paused
              \/ /\ w.paused /\ ~w.over /\ ~v.paused
                 /\ Lines(v) = Append(Lines(w), Resumed)
<1>1. base \in Nat
    BY DEF Queue
<1> DEFINE r == [w EXCEPT !.air = base]
<1>2. /\ r \in Queue /\ r.queue = w.queue /\ r.air = base /\ r.out = <<>>
      /\ r.waiting = w.waiting /\ r.failed = w.failed /\ r.paused = w.paused /\ r.over = w.over
    BY <1>1 DEF Queue
<1>3. v = IF r.air < Window /\ r.waiting /\ ~r.failed
          THEN Flushed([r EXCEPT !.waiting = FALSE]) ELSE r
    BY DEF Drained
<1> HIDE DEF r
<1>4. Counted(r, base) /\ Lines(r) = Lines(w)
    BY <1>1, <1>2, BytesEmpty DEF Counted, Lines
<1>5. CASE r.air < Window /\ r.waiting /\ ~r.failed
    <2> DEFINE z == [r EXCEPT !.waiting = FALSE]
    <2>1. /\ z \in Queue /\ z.queue = r.queue /\ z.air = r.air /\ z.out = r.out
          /\ ~z.waiting /\ z.failed = r.failed /\ z.paused = r.paused /\ z.over = r.over
        BY <1>2 DEF Queue
    <2>2. v = Flushed(z)
        BY <1>3, <1>5
    <2> HIDE DEF z
    <2>3. Counted(z, base) /\ Sane(z) /\ Lines(z) = Lines(r)
        BY <1>2, <1>4, <1>5, <2>1 DEF Counted, Sane, Lines
    <2>4. /\ Counted(v, base) /\ v.over = z.over /\ Calm(v)
          /\ \/ Lines(v) = Lines(z) /\ v.paused = z.paused
             \/ /\ z.paused /\ ~z.over /\ ~v.paused
                /\ Lines(v) = Append(Lines(z), Resumed)
        BY <1>1, <2>1, <2>2, <2>3, FlushedIs
    <2> QED BY <1>2, <1>4, <2>1, <2>3, <2>4
<1>6. CASE ~(r.air < Window /\ r.waiting /\ ~r.failed)
    <2>1. v = r
        BY <1>3, <1>6
    <2>2. Sane(r)
        <3>1. Window \in Nat /\ r.air \in Nat
            BY <1>1, <1>2, WatermarkAssumption
        <3> QED BY <1>2, <1>6, <3>1 DEF Calm, Sane
    <2>3. Served(r) /\ Woken(r)
        BY <1>2 DEF Calm, Served, Woken
    <2> QED BY <1>2, <1>4, <2>1, <2>2, <2>3 DEF Calm
<1> QED BY <1>5, <1>6

-----------------------------------------------------------------------------
(* Every step.                                                              *)

(* The inductive invariant of the queue: what the window counts is posted   *)
(* and not handled, handled and not acknowledged, or acknowledged and on    *)
(* its way; and what waits has a drain coming.                              *)
InFlight(air) == air = Bytes(port) + unacked + Owed(acks)
Kept == TypeOK /\ (gone \/ (InFlight(q.air) /\ Calm(q)))

LEMMA QueueTyped == TypeOK => q \in Queue /\ q.out = <<>> /\ Lines(q) = q.queue
<1> SUFFICES ASSUME TypeOK PROVE q \in Queue /\ q.out = <<>> /\ Lines(q) = q.queue
    OBVIOUS
<1>1. <<>> \in Seq(Line)
    OBVIOUS
<1>2. q.out = <<>> /\ q.queue \in Seq(Line)
    BY DEF TypeOK
<1>3. ASSUME NEW E, E = {<<>>}, E \subseteq Seq(Line) PROVE q \in Queue
    BY <1>3 DEF TypeOK, Queue
<1>4. q \in Queue
    BY <1>1, <1>3
<1> QED BY <1>2, <1>4, ConcatEmptySeq DEF Lines

LEMMA AcksAre == TypeOK => /\ acks \in Seq(Nat) /\ Owed(acks) \in Nat
                           /\ acks # <<>> =>
                                /\ Head(acks) \in Nat \ {0} /\ Tail(acks) \in Seq(Nat \ {0})
                                /\ Tail(acks) \in Seq(Nat) /\ Owed(Tail(acks)) \in Nat
                                /\ Owed(acks) = Head(acks) + Owed(Tail(acks))
<1> SUFFICES ASSUME TypeOK
             PROVE  /\ acks \in Seq(Nat) /\ Owed(acks) \in Nat
                    /\ acks # <<>> =>
                         /\ Head(acks) \in Nat \ {0} /\ Tail(acks) \in Seq(Nat \ {0})
                         /\ Tail(acks) \in Seq(Nat) /\ Owed(Tail(acks)) \in Nat
                         /\ Owed(acks) = Head(acks) + Owed(Tail(acks))
    OBVIOUS
<1>1. ASSUME NEW s \in Seq(Nat \ {0}) PROVE s \in Seq(Nat)
    <2> DEFINE T == Nat \ {0}
    <2>1. T \subseteq Nat /\ s \in Seq(T)
        OBVIOUS
    <2> HIDE DEF T
    <2> QED BY <2>1, SeqMonotonic
<1>2. acks \in Seq(Nat \ {0}) /\ acks \in Seq(Nat)
    BY <1>1 DEF TypeOK
<1>3. Owed(acks) \in Nat
    BY <1>2, OwedTyped
<1>4. ASSUME acks # <<>>
      PROVE  /\ Head(acks) \in Nat \ {0} /\ Tail(acks) \in Seq(Nat \ {0})
             /\ Tail(acks) \in Seq(Nat) /\ Owed(Tail(acks)) \in Nat
             /\ Owed(acks) = Head(acks) + Owed(Tail(acks))
    <2>1. Head(acks) \in Nat \ {0} /\ Tail(acks) \in Seq(Nat \ {0})
        BY <1>2, <1>4, HeadTailProperties
    <2>2. Tail(acks) \in Seq(Nat)
        BY <1>1, <2>1
    <2> QED BY <1>2, <1>4, <2>1, <2>2, OwedTyped, OwedTail
<1> QED BY <1>2, <1>3, <1>4

(* A call that ends leaves its queue, and its lines on the port.            *)
LEMMA BecomesIs ==
    ASSUME TypeOK, NEW base \in Nat, NEW w, Counted(w, base), Calm(w), Becomes(w),
           dead' = dead, gone' = gone, unacked' = unacked,
           acks' \in Seq(Nat \ {0}), Owed(acks') \in Nat,
           base = Bytes(port) + unacked + Owed(acks')
    PROVE  Kept'
<1>1. w \in Queue /\ w.out \in Seq(Line) /\ w.air = base + Bytes(w.out) /\ Bytes(w.out) \in Nat
    BY BytesTyped DEF Counted, Queue
<1>2. /\ q' \in [queue : Seq(Line), paused : BOOLEAN, over : BOOLEAN, waiting : BOOLEAN,
                 failed : BOOLEAN, air : Nat, out : {<<>>}]
      /\ q'.queue = w.queue /\ q'.air = w.air /\ q'.waiting = w.waiting
      /\ q'.failed = w.failed /\ q'.paused = w.paused /\ q'.over = w.over
    BY <1>1 DEF Becomes, Queue
<1>3. port \in Seq(Line) /\ port' = port \o w.out /\ port' \in Seq(Line)
    BY <1>1, ConcatProperties DEF Becomes, TypeOK
<1>4. TypeOK'
    BY <1>2, <1>3 DEF TypeOK
<1>5. Bytes(port') = Bytes(port) + Bytes(w.out)
    BY <1>1, <1>3, BytesConcat
<1>6. Bytes(port) \in Nat /\ unacked \in Nat
    BY <1>3, BytesTyped DEF TypeOK
<1>7. q'.air = Bytes(port') + unacked' + Owed(acks')
    <2> DEFINE b == Bytes(port)
               o == Bytes(w.out)
               c == Bytes(port')
               a == Owed(acks')
    <2>1. q'.air = base + o /\ base = b + unacked + a /\ c = b + o
          /\ {b, o, a, unacked} \subseteq Nat
        BY <1>1, <1>2, <1>5, <1>6
    <2> HIDE DEF a, b, c, o
    <2>2. q'.air = c + unacked + a
        BY <2>1
    <2> QED BY <2>2 DEF c, a
<1>8. Calm(q)'
    BY <1>2 DEF Calm, Sane, Served, Woken
<1> QED BY <1>4, <1>7, <1>8 DEF Kept, InFlight

LEMMA InitKept == Init => Kept
<1> SUFFICES ASSUME Init PROVE Kept
    OBVIOUS
<1>1. port \in Seq(Line)
    <2>1. <<>> \in Seq(Line) /\ <<Notice("boot")>> \in Seq(Line)
        BY NoticeLines
    <2> QED BY <2>1 DEF Init
<1>2. Bytes(port) \in Nat
    BY <1>1, BytesTyped
<1>3. TypeOK
    <2>1. <<>> \in Seq(Line) /\ <<>> \in Seq(Nat \ {0})
        OBVIOUS
    <2> QED BY <1>1, <1>2, <2>1 DEF Init, TypeOK, EmptyQueue
<1>4. Owed(acks) = 0
    <2>1. acks \in Seq(Nat) /\ acks = <<>>
        BY <1>3, AcksAre DEF Init
    <2> QED BY <2>1, OwedTyped
<1>5. InFlight(q.air)
    BY <1>2, <1>4 DEF Init, EmptyQueue, InFlight
<1>6. Calm(q)
    BY DEF Init, EmptyQueue, Calm, Sane, Served, Woken
<1> QED BY <1>3, <1>5, <1>6 DEF Kept

(* The base of a call that has not begun to write.                          *)
LEMMA Begins == Kept /\ ~gone =>
    /\ q.air \in Nat /\ Counted(q, q.air) /\ Calm(q)
    /\ q.air = Bytes(port) + unacked + Owed(acks)
    /\ acks \in Seq(Nat \ {0}) /\ Owed(acks) \in Nat
<1> SUFFICES ASSUME Kept, ~gone
             PROVE  /\ q.air \in Nat /\ Counted(q, q.air) /\ Calm(q)
                    /\ q.air = Bytes(port) + unacked + Owed(acks)
                    /\ acks \in Seq(Nat \ {0}) /\ Owed(acks) \in Nat
    OBVIOUS
<1>1. TypeOK /\ q \in Queue /\ q.out = <<>>
    BY QueueTyped DEF Kept
<1>2. q.air \in Nat
    BY <1>1 DEF Queue
<1>3. Counted(q, q.air)
    BY <1>1, <1>2, BytesEmpty DEF Counted
<1> QED BY <1>1, <1>2, <1>3, AcksAre DEF Kept, InFlight, TypeOK

LEMMA DisplayKept == ASSUME Kept, NEW n \in BulkSize, Display(n) PROVE Kept'
<1>1. ~gone
    BY DEF Display
<1>2. /\ q.air \in Nat /\ Counted(q, q.air) /\ Calm(q) /\ TypeOK
      /\ q.air = Bytes(port) + unacked + Owed(acks)
      /\ acks \in Seq(Nat \ {0}) /\ Owed(acks) \in Nat
    BY <1>1, Begins DEF Kept
<1> DEFINE w == Offered(q, Event(n))
<1>3. Event(n) \in Line
    BY NoticeLines
<1>4. Counted(w, q.air) /\ Calm(w)
    BY <1>2, <1>3, OfferedIs
<1> HIDE DEF w
<1>5. Becomes(w) /\ dead' = dead /\ gone' = gone /\ unacked' = unacked /\ acks' = acks
    BY DEF Display, w
<1> QED BY <1>2, <1>4, <1>5, BecomesIs

LEMMA SayKept ==
    ASSUME Kept, ~gone, NEW k \in {"boot", "ask", "beat", "paused", "resumed", "dropped"},
           Becomes(Said(q, Notice(k))), UNCHANGED <<unacked, acks, dead, gone>>
    PROVE  Kept'
<1>2. /\ q.air \in Nat /\ Counted(q, q.air) /\ Calm(q) /\ TypeOK
      /\ q.air = Bytes(port) + unacked + Owed(acks)
      /\ acks \in Seq(Nat \ {0}) /\ Owed(acks) \in Nat
    BY Begins DEF Kept
<1> DEFINE x == Notice(k)
           w == Said(q, x)
<1>3. x \in Line
    BY NoticeLines
<1> HIDE DEF x
<1>4. Counted(w, q.air) /\ Calm(w)
    <2>1. CASE q.over
        BY <1>2, <2>1, SaidOver
    <2>2. CASE ~q.over
        BY <1>2, <1>3, <2>2, SaidIs DEF Calm
    <2> QED BY <2>1, <2>2
<1> HIDE DEF w
<1>5. Becomes(w) /\ dead' = dead /\ gone' = gone /\ unacked' = unacked /\ acks' = acks
    BY DEF w, x
<1> QED BY <1>2, <1>4, <1>5, BecomesIs

LEMMA InterruptKept == ASSUME Kept, Interrupt PROVE Kept'
<1>1. ~gone
    BY DEF Interrupt
<1>2. /\ q.air \in Nat /\ Counted(q, q.air) /\ Calm(q) /\ TypeOK
      /\ q.air = Bytes(port) + unacked + Owed(acks)
      /\ acks \in Seq(Nat \ {0}) /\ Owed(acks) \in Nat
    BY <1>1, Begins DEF Kept
<1> DEFINE w == Interrupted(q)
<1>4. Counted(w, q.air) /\ Calm(w)
    BY <1>2, InterruptedIs
<1> HIDE DEF w
<1>5. Becomes(w) /\ dead' = dead /\ gone' = gone /\ unacked' = unacked /\ acks' = acks
    BY DEF Interrupt, w
<1> QED BY <1>2, <1>4, <1>5, BecomesIs

LEMMA AckKept == ASSUME Kept, AckArrives PROVE Kept'
<1>1. TypeOK /\ acks # <<>> /\ acks' = Tail(acks) /\ unacked' = unacked /\ dead' = dead /\ gone' = gone
    BY DEF Kept, AckArrives
<1>2. /\ Head(acks) \in Nat \ {0} /\ acks' \in Seq(Nat \ {0})
      /\ Owed(acks') \in Nat /\ Owed(acks) = Head(acks) + Owed(acks')
    BY <1>1, AcksAre
<1>3. CASE gone
    <2>1. q' = q /\ port' = port
        BY <1>3 DEF AckArrives
    <2> QED BY <1>1, <1>2, <1>3, <2>1 DEF Kept, TypeOK
<1>4. CASE ~gone
    <2> DEFINE n == Head(acks)
               w == Drained(q, n)
               base == IF n >= q.air THEN 0 ELSE q.air - n
    <2>1. /\ q.air \in Nat /\ Calm(q) /\ q \in Queue /\ q.out = <<>>
          /\ q.air = Bytes(port) + unacked + Owed(acks)
        BY <1>1, <1>4, Begins, QueueTyped
    <2>2. Becomes(w)
        BY <1>4 DEF AckArrives
    <2>3. n \in Nat
        BY <1>2
    <2> HIDE DEF n
    <2>4. Counted(w, base) /\ Calm(w)
        BY <2>1, <2>3, DrainedIs
    <2>5. base \in Nat /\ base = Bytes(port) + unacked + Owed(acks')
        <3> DEFINE b == Bytes(port)
                   o == Owed(acks)
                   a == Owed(acks')
        <3>1. /\ b \in Nat /\ unacked \in Nat /\ a \in Nat /\ o = n + a
              /\ q.air = b + unacked + o
            BY <1>1, <1>2, <2>1, BytesTyped DEF TypeOK, n
        <3> HIDE DEF b, a, o
        <3>2. base = b + unacked + a /\ base \in Nat
            BY <3>1, <2>3
        <3> QED BY <3>2 DEF b, a
    <2> HIDE DEF w, base
    <2> QED BY <1>1, <1>2, <2>2, <2>4, <2>5, BecomesIs
<1> QED BY <1>3, <1>4

LEMMA DisposeKept == ASSUME Kept, Dispose PROVE Kept'
<1>1. TypeOK /\ gone' = TRUE /\ q' = [q EXCEPT !.queue = <<>>] /\ UNCHANGED <<port, unacked, acks, dead>>
    BY DEF Kept, Dispose
<1>2. <<>> \in Seq(Line)
    OBVIOUS
<1> QED BY <1>1, <1>2 DEF Kept, TypeOK

LEMMA BreaksKept == ASSUME Kept, PortBreaks PROVE Kept'
<1>1. TypeOK /\ dead' = TRUE /\ UNCHANGED <<q, port, unacked, acks, gone>>
    BY DEF Kept, PortBreaks
<1> QED BY <1>1 DEF Kept, TypeOK, InFlight, Calm, Sane, Served, Woken

(* What the app hands back: n is no longer on the port or with the app.     *)
LEMMA Hands ==
    ASSUME Kept, NEW n \in Nat \ {0}, acks' = Append(acks, n), unacked' = 0,
           port' \in Seq(Line), Bytes(port') + n = Bytes(port) + unacked,
           UNCHANGED <<q, dead, gone>>
    PROVE  Kept'
<1>1. TypeOK /\ acks \in Seq(Nat) /\ Owed(acks) \in Nat
    BY AcksAre DEF Kept
<1>2. TypeOK'
    BY <1>1 DEF TypeOK
<1>3. Owed(acks') = Owed(acks) + n
    BY <1>1, OwedAppend
<1>4. Bytes(port) \in Nat /\ Bytes(port') \in Nat /\ unacked \in Nat
    BY <1>1, BytesTyped DEF TypeOK
<1>5. InFlight(q.air) => InFlight(q.air)'
    <2> DEFINE b == Bytes(port)
               c == Bytes(port')
               o == Owed(acks)
               a == Owed(acks')
    <2>1. /\ {b, c, o, unacked} \subseteq Nat /\ a = o + n /\ c + n = b + unacked
        BY <1>1, <1>3, <1>4
    <2> HIDE DEF a, b, c, o
    <2>2. b + unacked + o = c + 0 + a
        BY <2>1
    <2> QED BY <2>2 DEF InFlight, a, b, c, o
<1> QED BY <1>2, <1>5 DEF Kept, Calm, Sane, Served, Woken

LEMMA HandlesKept == ASSUME Kept, AppHandles PROVE Kept'
<1> DEFINE m == Head(port).size
           n == unacked + m
<1>1. TypeOK /\ port # <<>> /\ port' = Tail(port) /\ UNCHANGED <<q, dead, gone>>
    BY DEF Kept, AppHandles
<1>2. /\ port' \in Seq(Line) /\ m \in Nat \ {0} /\ unacked \in Nat
      /\ Bytes(port) = m + Bytes(port') /\ Bytes(port') \in Nat
    <2>1. port \in Seq(Line) /\ Head(port) \in Line /\ Tail(port) \in Seq(Line)
        BY <1>1, HeadTailProperties DEF TypeOK
    <2> QED BY <1>1, <2>1, LineSize, BytesTail, BytesTyped DEF TypeOK
<1>3. IF n >= AckEvery THEN acks' = Append(acks, n) /\ unacked' = 0
      ELSE unacked' = n /\ UNCHANGED acks
    BY DEF AppHandles
<1> HIDE DEF m
<1>4. CASE n >= AckEvery
    <2>1. n \in Nat \ {0} /\ Bytes(port') + n = Bytes(port) + unacked
        BY <1>2
    <2> HIDE DEF n
    <2> QED BY <1>1, <1>2, <1>3, <1>4, <2>1, Hands
<1>5. CASE ~(n >= AckEvery)
    <2>1. unacked' = n /\ acks' = acks /\ n \in Nat
        BY <1>2, <1>3, <1>5
    <2>2. TypeOK'
        BY <1>1, <1>2, <2>1 DEF TypeOK
    <2>3. Owed(acks) \in Nat
        BY <1>1, AcksAre
    <2>4. InFlight(q.air) => InFlight(q.air)'
        <3> DEFINE b == Bytes(port)
                   c == Bytes(port')
                   o == Owed(acks)
        <3>1. {b, c, o, unacked, m} \subseteq Nat /\ b = m + c
            BY <1>2, <2>3
        <3> HIDE DEF b, c, o
        <3>2. b + unacked + o = c + n + o
            BY <3>1
        <3>3. Owed(acks') = o /\ q' = q
            BY <1>1, <2>1 DEF o
        <3> HIDE DEF n
        <3> QED BY <3>2, <3>3, <2>1 DEF InFlight, b, c, o
    <2> QED BY <1>1, <2>2, <2>4 DEF Kept, Calm, Sane, Served, Woken
<1> QED BY <1>4, <1>5

LEMMA AcksKept == ASSUME Kept, AppAcks PROVE Kept'
<1>1. TypeOK /\ unacked > 0 /\ acks' = Append(acks, unacked) /\ unacked' = 0
      /\ UNCHANGED <<q, port, dead, gone>>
    BY DEF Kept, AppAcks
<1>2. unacked \in Nat \ {0} /\ port' \in Seq(Line)
    BY <1>1 DEF TypeOK
<1>3. Bytes(port') + unacked = Bytes(port) + unacked
    BY <1>1
<1> QED BY <1>1, <1>2, <1>3, Hands

LEMMA StepKept == Kept /\ [Next]_vars => Kept'
<1> SUFFICES ASSUME Kept, [Next]_vars PROVE Kept'
    OBVIOUS
<1>1. ASSUME NEW n \in BulkSize, Display(n) PROVE Kept'
    BY <1>1, DisplayKept
<1>2. CASE Ask
    BY <1>2, SayKept DEF Ask
<1>3. CASE Beat
    BY <1>3, SayKept DEF Beat
<1>4. CASE Interrupt
    BY <1>4, InterruptKept
<1>5. CASE Dispose
    BY <1>5, DisposeKept
<1>6. CASE PortBreaks
    BY <1>6, BreaksKept
<1>7. CASE AckArrives
    BY <1>7, AckKept
<1>8. CASE AppHandles
    BY <1>8, HandlesKept
<1>9. CASE AppAcks
    BY <1>9, AcksKept
<1>10. CASE UNCHANGED vars
    BY <1>10 DEF vars, Kept, TypeOK, InFlight, Calm, Sane, Served, Woken
<1> QED BY <1>1, <1>2, <1>3, <1>4, <1>5, <1>6, <1>7, <1>8, <1>9, <1>10 DEF Next

LEMMA AlwaysKept == Spec => []Kept
BY InitKept, StepKept, PTL DEF Spec

(* The window the engine counts (inFlight of port.host.ts, and the baseline *)
(* it starts with) is exactly what the app has still to handle or to        *)
(* acknowledge, so that a full window always has an acknowledgement coming. *)
(* Every variable has its type.                                             *)
THEOREM WindowCounted == Spec => []WindowExact
<1>1. Kept => WindowExact
    BY DEF Kept, WindowExact, InFlight, Owed
<1> QED BY <1>1, AlwaysKept, PTL

(* flush() leaves a line behind only for a full window or a dead port, from *)
(* which a drain comes or none can; the one exception is the notice that    *)
(* maybeResumeBulk() queues while the loop still runs.                      *)
THEOREM NothingWaits == Spec => []NothingStranded
<1>1. Kept => NothingStranded
    BY DEF Kept, Calm, Sane, Served, NothingStranded
<1> QED BY <1>1, AlwaysKept, PTL

-----------------------------------------------------------------------------
(* The queue implements the channel: its lines, posted or queued, are the   *)
(* lines on their way, and each of its steps is one of the channel's.       *)

Way == port \o q.queue
Broken == q.over \/ gone

(* The lines on their way before and after a call of the engine.            *)
LEMMA WayIs ==
    ASSUME TypeOK, ~gone, gone' = gone, NEW w, w \in Queue, Becomes(w)
    PROVE  /\ (Broken <=> q.over) /\ (Broken' <=> w.over)
           /\ {q.paused, q'.paused} \subseteq BOOLEAN
           /\ Way' = port \o Lines(w) /\ q'.paused = w.paused /\ q'.over = w.over
           /\ Way = port \o Lines(q) /\ port \in Seq(Line) /\ Lines(w) \in Seq(Line)
           /\ Lines(q) = q.queue /\ q.queue \in Seq(Line) /\ Way \in Seq(Line)
<1>1. port \in Seq(Line) /\ w.out \in Seq(Line) /\ w.queue \in Seq(Line)
    BY DEF TypeOK, Queue
<1>2. /\ port' = port \o w.out /\ q'.queue = w.queue
      /\ q'.paused = w.paused /\ q'.over = w.over
      /\ {q.paused, w.paused} \subseteq BOOLEAN
    BY DEF Becomes, Queue, TypeOK
<1>3. Way' = (port \o w.out) \o w.queue
    BY <1>2 DEF Way
<1>4. Way' = port \o Lines(w) /\ Lines(w) \in Seq(Line)
    BY <1>1, <1>3, Joined DEF Lines
<1>5. Lines(q) = q.queue /\ q.queue \in Seq(Line) /\ Way = port \o Lines(q)
    BY QueueTyped DEF TypeOK, Way
<1> QED BY <1>1, <1>2, <1>4, <1>5, Joined DEF Way, Broken

(* A line more at the end of the queue is a line more on the way.           *)
LEMMA Longer ==
    ASSUME NEW p \in Seq(Line), NEW s \in Seq(Line), NEW x \in Line
    PROVE  p \o Append(s, x) = Append(p \o s, x)
<1>1. \A a, b \in Seq(Line) : a \o Append(b, x) = Append(a \o b, x)
    BY ConcatOne
<1> QED BY <1>1, Zenon

LEMMA Twice ==
    ASSUME NEW s \in Seq(Line), NEW x \in Line, NEW y \in Line
    PROVE  Append(Append(s, x), y) = s \o <<x, y>>
<1>1. Len(Append(Append(s, x), y)) = Len(s \o <<x, y>>)
    OBVIOUS
<1>2. \A i \in 1..Len(s \o <<x, y>>) : Append(Append(s, x), y)[i] = (s \o <<x, y>>)[i]
    OBVIOUS
<1>3. Append(Append(s, x), y) \in Seq(Line) /\ s \o <<x, y>> \in Seq(Line)
    OBVIOUS
<1> QED BY <1>1, <1>2, <1>3, SeqEqual

LEMMA LongerTwice ==
    ASSUME NEW p \in Seq(Line), NEW s \in Seq(Line), NEW x \in Line, NEW y \in Line
    PROVE  p \o Append(Append(s, x), y) = (p \o s) \o <<x, y>>
<1>1. Append(s, x) \in Seq(Line) /\ p \o s \in Seq(Line)
    OBVIOUS
<1>2. p \o Append(s, x) = Append(p \o s, x)
    BY Longer
<1>3. p \o Append(Append(s, x), y) = Append(p \o Append(s, x), y)
    BY <1>1, Longer
<1>4. Append(Append(p \o s, x), y) = (p \o s) \o <<x, y>>
    BY <1>1, Twice
<1> QED BY <1>2, <1>3, <1>4

(* The steps of the channel, in the variables of the queue.                 *)
LEMMA IsAccept ==
    ASSUME ~Broken, ~Broken', q'.paused = q.paused,
           NEW x \in {Notice(k) : k \in {"boot", "ask", "beat"}}, Way' = Append(Way, x)
    PROVE  Channel!Next
BY DEF Channel!Next, Channel!Works, Channel!Accept, Way, Broken

LEMMA IsShow ==
    ASSUME ~Broken, ~Broken', ~q.paused, q'.paused = q.paused,
           NEW x \in DisplayLines, Way' = Append(Way, x)
    PROVE  Channel!Next
BY DEF Channel!Next, Channel!Works, Channel!Accept, Way, Broken, DisplayLines

LEMMA IsWithhold ==
    ASSUME ~Broken, ~Broken', ~q.paused,
           \/ Way' = Append(Way, Notice("paused")) /\ q'.paused
           \/ Way' = Way \o <<Notice("paused"), Resumed>> /\ ~q'.paused
    PROVE  Channel!Next
BY DEF Channel!Next, Channel!Works, Channel!Withhold, Way, Broken, Resumed

LEMMA IsGoOn ==
    ASSUME ~Broken, ~Broken', q.paused, ~q'.paused, Way' = Append(Way, Resumed)
    PROVE  Channel!Next
BY DEF Channel!Next, Channel!Works, Channel!GoOn, Way, Broken, Resumed

(* Discarding behind the port leaves the critical lines of the queue.       *)
LEMMA Discards ==
    ASSUME TypeOK
    PROVE  /\ Len(port) \in 0..Len(port \o q.queue)
           /\ Channel!Discarded(Len(port)) = port \o Critical(q.queue)
           /\ SubSeq(Way, 1, Len(port)) = port /\ SubSeq(Way, 1, Len(Way)) = Way
           /\ Len(Way) \in 0..Len(port \o q.queue)
<1> DEFINE s == q.queue
           c == port \o s
<1>1. port \in Seq(Line) /\ s \in Seq(Line)
    BY DEF TypeOK
<1> HIDE DEF s
<1>2. c \in Seq(Line) /\ Len(c) = Len(port) + Len(s) /\ Len(port) \in Nat /\ Len(s) \in Nat
    BY <1>1
<1>3. SubSeq(c, 1, Len(port)) = port
    <2>1. SubSeq(c, 1, Len(port)) \in Seq(Line) /\ Len(SubSeq(c, 1, Len(port))) = Len(port)
        BY <1>1, <1>2
    <2>2. \A i \in 1..Len(port) : SubSeq(c, 1, Len(port))[i] = port[i]
        BY <1>1, <1>2
    <2> QED BY <1>1, <2>1, <2>2, SeqEqual
<1>4. SubSeq(c, Len(port) + 1, Len(c)) = s
    <2>1. SubSeq(c, Len(port) + 1, Len(c)) \in Seq(Line)
          /\ Len(SubSeq(c, Len(port) + 1, Len(c))) = Len(s)
        BY <1>1, <1>2
    <2>2. \A i \in 1..Len(s) : SubSeq(c, Len(port) + 1, Len(c))[i] = s[i]
        BY <1>1, <1>2
    <2> QED BY <1>1, <2>1, <2>2, SeqEqual
<1>5. Channel!Discarded(Len(port)) = port \o Channel!Undisplayed(s)
    BY <1>3, <1>4 DEF Channel!Discarded, s
<1>6. Channel!Undisplayed(s) = Critical(s)
    BY <1>1, FiltersAgree
<1>7. SubSeq(c, 1, Len(c)) = c
    BY <1>2, SubSeqFull
<1> QED BY <1>2, <1>3, <1>5, <1>6, <1>7 DEF Way, s

(* Display lines in the queue make the discarding one.                      *)
LEMMA Shorter ==
    ASSUME TypeOK, HasBulk(q.queue)
    PROVE  port \o Critical(q.queue) # Way
<1>1. port \in Seq(Line) /\ q.queue \in Seq(Line) /\ Critical(q.queue) \in Seq(Line)
    BY CriticalTyped DEF TypeOK
<1>2. Critical(q.queue) # q.queue
    BY <1>1, CriticalOnly
<1>3. \A s, t \in Seq(Line) : port \o s = port \o t => s = t
    BY <1>1, ConcatSimplifications
<1> QED BY <1>1, <1>2, <1>3 DEF Way

(* Breaking loses what is behind the port, or what it displays.             *)
LEMMA IsBreak ==
    ASSUME TypeOK, Broken',
           \/ Way' = Way
           \/ Way' = port
           \/ Way' = port \o Critical(q.queue)
           \/ ~Broken /\ Way' = Append(port \o Critical(q.queue), Resumed)
    PROVE  Channel!Next
<1> DEFINE k == Len(port)
           m == Len(Way)
<1>1. /\ k \in 0..Len(port \o q.queue) /\ m \in 0..Len(port \o q.queue)
      /\ Channel!Discarded(k) = port \o Critical(q.queue)
      /\ SubSeq(Way, 1, k) = port /\ SubSeq(Way, 1, m) = Way
    BY Discards
<1> HIDE DEF k, m
<1>2. CASE Way' = Way
    BY <1>1, <1>2 DEF Channel!Next, Channel!Break, Way, Broken
<1>3. CASE ~(Way' = Way)
    BY <1>1, <1>3 DEF Channel!Next, Channel!Break, Way, Broken, Resumed
<1> QED BY <1>2, <1>3

LEMMA IsDiscard ==
    ASSUME TypeOK, ~Broken, ~Broken', HasBulk(q.queue),
           \/ /\ Way' = Append(port \o Critical(q.queue), Notice("dropped"))
              /\ q'.paused = q.paused
           \/ /\ Way' = (port \o Critical(q.queue)) \o <<Resumed, Notice("dropped")>>
              /\ q.paused /\ ~q'.paused
    PROVE  Channel!Next
<1> DEFINE k == Len(port)
<1>1. /\ k \in 0..Len(port \o q.queue)
      /\ Channel!Discarded(k) = port \o Critical(q.queue)
    BY Discards
<1>2. Channel!Discarded(k) # Way
    BY <1>1, Shorter
<1> HIDE DEF k
<1> QED BY <1>1, <1>2 DEF Channel!Next, Channel!Works, Channel!Discard, Way, Broken, Resumed

LEMMA IsTake ==
    ASSUME TypeOK, port # <<>>, port' = Tail(port), UNCHANGED <<q, gone>>
    PROVE  Channel!Next
<1> DEFINE s == q.queue
<1>1. port \in Seq(Line) /\ s \in Seq(Line)
    BY DEF TypeOK
<1> HIDE DEF s
<1>2. port \o s # <<>> /\ Tail(port \o s) = Tail(port) \o s
    <2>1. /\ Tail(port) \in Seq(Line) /\ Len(Tail(port)) = Len(port) - 1
          /\ Len(port) \in Nat \ {0} /\ Len(s) \in Nat
          /\ port \o s \in Seq(Line) /\ Len(port \o s) = Len(port) + Len(s)
        BY <1>1, EmptySeq, HeadTailProperties, ConcatProperties
    <2>2. port \o s # <<>>
        BY <2>1
    <2>3. /\ Tail(port \o s) \in Seq(Line) /\ Len(Tail(port \o s)) = Len(port) - 1 + Len(s)
          /\ Tail(port) \o s \in Seq(Line) /\ Len(Tail(port) \o s) = Len(port) - 1 + Len(s)
        BY <1>1, <2>1, <2>2, HeadTailProperties, ConcatProperties
    <2>4. \A i \in 1..Len(Tail(port \o s)) : Tail(port \o s)[i] = (Tail(port) \o s)[i]
        BY <1>1, <2>1, <2>2, <2>3
    <2> QED BY <2>2, <2>3, <2>4, SeqEqual
<1> QED BY <1>2 DEF Channel!Next, Channel!Take, s

(* Nothing on the way moves.                                                *)
LEMMA IsStutter ==
    ASSUME Way' = Way, q'.paused = q.paused, Broken' <=> Broken
    PROVE  UNCHANGED Channel!chan
BY DEF Channel!chan, Way, Broken

-----------------------------------------------------------------------------
(* Every step of the queue.                                                 *)

LEMMA DisplayMoves ==
    ASSUME Kept, NEW n \in BulkSize, Display(n) PROVE [Channel!Next]_(Channel!chan)
<1>1. /\ q.air \in Nat /\ Counted(q, q.air) /\ Calm(q) /\ TypeOK
      /\ ~gone /\ gone' = gone
    BY Begins DEF Kept, Display
<1> DEFINE x == Event(n)
           w == Offered(q, x)
<1>2. x \in Line /\ Notice("paused") \in Line /\ Resumed \in Line
    BY NoticeLines DEF Resumed
<1>3. x \in DisplayLines
    BY DEF DisplayLines
<1> HIDE DEF x
<1>4. /\ Counted(w, q.air) /\ Calm(w)
      /\ \/ w = q
         \/ /\ ~q.over /\ ~q.paused /\ ~w.over /\ ~w.paused
            /\ Lines(w) = Append(Lines(q), x)
         \/ /\ ~q.over /\ ~q.paused /\ ~w.over /\ w.paused
            /\ Lines(w) = Append(Lines(q), Notice("paused"))
         \/ /\ ~q.over /\ ~q.paused /\ ~w.over /\ ~w.paused
            /\ Lines(w) = Append(Append(Lines(q), Notice("paused")), Resumed)
         \/ ~q.over /\ w.over /\ Lines(w) = Lines(q)
    BY <1>1, <1>2, OfferedIs
<1>5. Becomes(w)
    BY DEF Display, x
<1> HIDE DEF w
<1>6. /\ (Broken <=> q.over) /\ (Broken' <=> w.over)
      /\ {q.paused, q'.paused} \subseteq BOOLEAN
      /\ Way' = port \o Lines(w) /\ q'.paused = w.paused /\ q'.over = w.over
      /\ Way = port \o Lines(q) /\ port \in Seq(Line)
      /\ Lines(q) = q.queue /\ Lines(q) \in Seq(Line) /\ Way \in Seq(Line)
    BY <1>1, <1>4, <1>5, WayIs DEF Counted
<1>7. CASE w = q
    BY <1>1, <1>6, <1>7, IsStutter
<1>8. CASE /\ ~q.over /\ ~q.paused /\ ~w.over /\ ~w.paused
           /\ Lines(w) = Append(Lines(q), x)
    <2>1. Way' = Append(Way, x)
        BY <1>2, <1>6, <1>8, Longer
    <2>2. ~Broken /\ ~Broken' /\ ~q.paused /\ q'.paused = q.paused
        BY <1>6, <1>8
    <2> QED BY <1>3, <2>1, <2>2, IsShow
<1>9. CASE /\ ~q.over /\ ~q.paused /\ ~w.over /\ w.paused
           /\ Lines(w) = Append(Lines(q), Notice("paused"))
    <2>1. Way' = Append(Way, Notice("paused"))
        BY <1>2, <1>6, <1>9, Longer
    <2> QED BY <1>1, <1>6, <1>9, <2>1, IsWithhold
<1>10. CASE /\ ~q.over /\ ~q.paused /\ ~w.over /\ ~w.paused
            /\ Lines(w) = Append(Append(Lines(q), Notice("paused")), Resumed)
    <2> DEFINE y == Notice("paused")
    <2> HIDE DEF y
    <2>1. /\ port \in Seq(Line) /\ Lines(q) \in Seq(Line) /\ y \in Line /\ Resumed \in Line
          /\ Lines(w) = Append(Append(Lines(q), y), Resumed)
        BY <1>2, <1>6, <1>10 DEF y
    <2>2. port \o Append(Append(Lines(q), y), Resumed) = (port \o Lines(q)) \o <<y, Resumed>>
        BY <2>1, LongerTwice
    <2>3. Way' = Way \o <<Notice("paused"), Resumed>>
        BY <1>6, <2>1, <2>2 DEF y
    <2> QED BY <1>1, <1>6, <1>10, <2>3, IsWithhold
<1>11. CASE ~q.over /\ w.over /\ Lines(w) = Lines(q)
    BY <1>1, <1>6, <1>11, IsBreak
<1> QED BY <1>4, <1>7, <1>8, <1>9, <1>10, <1>11

(* A critical line; while output is withheld the queue waits, so the notice *)
(* that it is welcome does not follow at once.                              *)
LEMMA SayMoves ==
    ASSUME Kept, NEW k \in {"ask", "beat"}, ~gone, gone' = gone, Becomes(Said(q, Notice(k)))
    PROVE  [Channel!Next]_(Channel!chan)
<1>1. q.air \in Nat /\ Counted(q, q.air) /\ Calm(q) /\ TypeOK
    BY Begins DEF Kept
<1> DEFINE x == Notice(k)
           w == Said(q, x)
<1>2. x \in Line /\ x \in {Notice(j) : j \in {"boot", "ask", "beat"}}
    BY NoticeLines
<1> HIDE DEF x
<1>3. Becomes(w)
    BY DEF x
<1>4. CASE q.over
    <2>1. w = q
        BY <1>4, SaidOver
    <2> HIDE DEF w
    <2>2. /\ (Broken <=> q.over) /\ (Broken' <=> w.over)
          /\ Way' = port \o Lines(w) /\ q'.paused = w.paused /\ q'.over = w.over
          /\ Way = port \o Lines(q)
        BY <1>1, <1>3, <2>1, WayIs DEF Counted
    <2> QED BY <2>1, <2>2, IsStutter
<1>5. CASE ~q.over
    <2>1. Counted(w, q.air) /\ (Told(q, w, x) \/ Full(q, w, x))
        BY <1>1, <1>2, <1>5, SaidIs DEF Calm
    <2> HIDE DEF w
    <2>2. /\ (Broken <=> q.over) /\ (Broken' <=> w.over)
          /\ Way' = port \o Lines(w) /\ q'.paused = w.paused /\ q'.over = w.over
          /\ Way = port \o Lines(q) /\ port \in Seq(Line) /\ Lines(q) \in Seq(Line)
        BY <1>1, <1>3, <2>1, WayIs DEF Counted
    <2>3. q.paused => q.waiting
        BY <1>1, <1>5 DEF Calm, Woken
    <2>4. CASE Told(q, w, x)
        <3>1. ~w.over /\ w.paused = q.paused /\ Lines(w) = Append(Lines(q), x)
            BY <2>3, <2>4 DEF Told
        <3>2. Way' = Append(Way, x)
            BY <1>2, <2>2, <3>1, Longer
        <3> QED BY <1>2, <1>5, <2>2, <3>1, <3>2, IsAccept
    <2>5. CASE Full(q, w, x)
        BY <1>1, <2>2, <2>5, IsBreak DEF Full
    <2> QED BY <2>1, <2>4, <2>5
<1> QED BY <1>4, <1>5

LEMMA InterruptMoves ==
    ASSUME Kept, Interrupt PROVE [Channel!Next]_(Channel!chan)
<1>1. /\ q.air \in Nat /\ Counted(q, q.air) /\ Calm(q) /\ TypeOK
      /\ ~gone /\ gone' = gone
    BY Begins DEF Kept, Interrupt
<1> DEFINE w == Interrupted(q)
           drop == Notice("dropped")
           rest == Critical(q.queue)
<1>2. /\ Counted(w, q.air)
      /\ \/ Lines(w) = Lines(q) /\ w.paused = q.paused /\ w.over = q.over
         \/ HasBulk(q.queue) /\ q.over /\ w.over /\ Lines(w) = Thinned(q)
         \/ /\ HasBulk(q.queue) /\ ~q.over /\ w.over
            /\ Lines(w) \in {Thinned(q), Append(Thinned(q), Resumed)}
         \/ /\ HasBulk(q.queue) /\ ~q.over /\ ~w.over /\ w.paused = q.paused
            /\ Lines(w) = Append(Thinned(q), drop)
         \/ /\ HasBulk(q.queue) /\ ~q.over /\ ~w.over /\ q.paused /\ ~w.paused
            /\ Lines(w) = Append(Append(Thinned(q), Resumed), drop)
    BY <1>1, InterruptedIs
<1>3. Becomes(w)
    BY DEF Interrupt
<1> HIDE DEF w
<1>4. /\ (Broken <=> q.over) /\ (Broken' <=> w.over)
      /\ Way' = port \o Lines(w) /\ q'.paused = w.paused /\ q'.over = w.over
      /\ Way = port \o Lines(q) /\ port \in Seq(Line)
      /\ Lines(q) = q.queue /\ q.queue \in Seq(Line)
    BY <1>1, <1>2, <1>3, WayIs DEF Counted
<1>5. rest \in Seq(Line) /\ Thinned(q) = rest
    <2>1. rest \in Seq(Line) /\ q.out = <<>>
        BY <1>1, <1>4, CriticalTyped, QueueTyped
    <2> HIDE DEF rest
    <2>2. <<>> \o rest = rest
        BY <2>1, ConcatEmptySeq
    <2> QED BY <2>1, <2>2 DEF Thinned, rest
<1>6. drop \in Line /\ Resumed \in Line
    BY NoticeLines DEF Resumed
<1> HIDE DEF rest
<1>7. CASE Lines(w) = Lines(q) /\ w.paused = q.paused /\ w.over = q.over
    BY <1>1, <1>4, <1>7, IsStutter
<1>8. CASE HasBulk(q.queue) /\ q.over /\ w.over /\ Lines(w) = Thinned(q)
    BY <1>1, <1>4, <1>5, <1>8, IsBreak DEF rest
<1>9. CASE /\ HasBulk(q.queue) /\ ~q.over /\ w.over
           /\ Lines(w) \in {Thinned(q), Append(Thinned(q), Resumed)}
    <2>1. CASE Lines(w) = rest
        BY <1>1, <1>4, <1>9, <2>1, IsBreak DEF rest
    <2>2. CASE Lines(w) = Append(rest, Resumed)
        <3>1. Way' = Append(port \o rest, Resumed)
            BY <1>4, <1>5, <1>6, <2>2, Longer
        <3> QED BY <1>1, <1>4, <1>9, <3>1, IsBreak DEF rest
    <2> QED BY <1>5, <1>9, <2>1, <2>2
<1>10. CASE /\ HasBulk(q.queue) /\ ~q.over /\ ~w.over /\ w.paused = q.paused
            /\ Lines(w) = Append(Thinned(q), drop)
    <2>1. Way' = Append(port \o rest, drop)
        BY <1>4, <1>5, <1>6, <1>10, Longer
    <2> QED BY <1>1, <1>4, <1>10, <2>1, IsDiscard DEF rest
<1>11. CASE /\ HasBulk(q.queue) /\ ~q.over /\ ~w.over /\ q.paused /\ ~w.paused
            /\ Lines(w) = Append(Append(Thinned(q), Resumed), drop)
    <2> HIDE DEF drop
    <2>1. port \o Append(Append(rest, Resumed), drop) = (port \o rest) \o <<Resumed, drop>>
        BY <1>4, <1>5, <1>6, LongerTwice
    <2>2. Way' = (port \o rest) \o <<Resumed, drop>>
        BY <1>4, <1>5, <1>11, <2>1
    <2> QED BY <1>1, <1>4, <1>11, <2>2, IsDiscard DEF rest, drop
<1> QED BY <1>2, <1>7, <1>8, <1>9, <1>10, <1>11

LEMMA AckMoves ==
    ASSUME Kept, AckArrives PROVE [Channel!Next]_(Channel!chan)
<1>1. TypeOK /\ acks # <<>> /\ gone' = gone
    BY DEF Kept, AckArrives
<1>2. CASE gone
    <2>1. q' = q /\ port' = port
        BY <1>2 DEF AckArrives
    <2> QED BY <1>1, <2>1, IsStutter DEF Way, Broken
<1>3. CASE ~gone
    <2> DEFINE n == Head(acks)
               w == Drained(q, n)
               base == IF n >= q.air THEN 0 ELSE q.air - n
    <2>1. n \in Nat /\ q \in Queue /\ q.out = <<>> /\ Calm(q)
        BY <1>1, <1>3, AcksAre, QueueTyped, Begins
    <2>2. Becomes(w)
        BY <1>3 DEF AckArrives
    <2> HIDE DEF n
    <2>3. /\ Counted(w, base) /\ w.over = q.over
          /\ \/ Lines(w) = Lines(q) /\ w.paused = q.paused
             \/ /\ q.paused /\ ~q.over /\ ~w.paused
                /\ Lines(w) = Append(Lines(q), Resumed)
        BY <2>1, DrainedIs
    <2> HIDE DEF w, base
    <2>4. /\ (Broken <=> q.over) /\ (Broken' <=> w.over)
          /\ Way' = port \o Lines(w) /\ q'.paused = w.paused /\ q'.over = w.over
          /\ Way = port \o Lines(q) /\ port \in Seq(Line) /\ Lines(q) \in Seq(Line)
        BY <1>1, <1>3, <2>2, <2>3, WayIs DEF Counted
    <2>5. CASE Lines(w) = Lines(q) /\ w.paused = q.paused
        BY <1>1, <2>3, <2>4, <2>5, IsStutter
    <2>6. CASE /\ q.paused /\ ~q.over /\ ~w.paused
               /\ Lines(w) = Append(Lines(q), Resumed)
        <3>1. Resumed \in Line
            BY NoticeLines DEF Resumed
        <3>2. Way' = Append(Way, Resumed)
            BY <2>4, <2>6, <3>1, Longer
        <3> QED BY <1>1, <1>3, <2>3, <2>4, <2>6, <3>2, IsGoOn
    <2> QED BY <2>3, <2>5, <2>6
<1> QED BY <1>2, <1>3

LEMMA DisposeMoves ==
    ASSUME Kept, Dispose PROVE [Channel!Next]_(Channel!chan)
<1>1. TypeOK /\ gone' = TRUE /\ port' = port /\ q' = [q EXCEPT !.queue = <<>>]
    BY DEF Kept, Dispose
<1>2. q'.queue = <<>> /\ port \in Seq(Line)
    BY <1>1 DEF TypeOK
<1>3. Way' = port
    BY <1>1, <1>2, ConcatEmptySeq DEF Way
<1> QED BY <1>1, <1>3, IsBreak DEF Broken

LEMMA InitMoves == Init => Channel!Init
<1> SUFFICES ASSUME Init PROVE Channel!Init
    OBVIOUS
<1> DEFINE C == {Notice(k) : k \in {"boot", "ask", "beat"}}
           boot == Notice("boot")
<1>1. port \in {<<>>, <<boot>>} /\ q.queue = <<>> /\ ~q.paused /\ ~q.over /\ ~gone
    BY DEF Init, EmptyQueue
<1>2. boot \in C
    OBVIOUS
<1> HIDE DEF C, boot
<1>3. port \o q.queue = port
    BY <1>1, <1>2
<1>4. port \in [1..0 -> C] \/ port \in [1..1 -> C]
    <2>1. CASE port = <<>>
        <3>1. port \in Seq(C) /\ Len(port) = 0
            BY <2>1
        <3> QED BY <3>1, LenProperties
    <2>2. CASE port = <<boot>>
        <3>1. port \in Seq(C) /\ Len(port) = 1
            BY <1>2, <2>2
        <3> QED BY <3>1, LenProperties
    <2> QED BY <1>1, <2>1, <2>2
<1>5. 0 \in 0..1 /\ 1 \in 0..1
    OBVIOUS
<1>6. \E m \in 0..1 : port \in [1..m -> C]
    BY <1>4, <1>5
<1>7. port \in UNION {[1..m -> C] : m \in 0..1}
    BY <1>6
<1> QED BY <1>1, <1>3, <1>7 DEF Channel!Init, Channel!SeqOf, C

LEMMA StepMoves == Kept /\ [Next]_vars => [Channel!Next]_(Channel!chan)
<1> SUFFICES ASSUME Kept, [Next]_vars PROVE [Channel!Next]_(Channel!chan)
    OBVIOUS
<1>1. ASSUME NEW n \in BulkSize, Display(n) PROVE [Channel!Next]_(Channel!chan)
    BY <1>1, DisplayMoves
<1>2. CASE Ask
    <2>1. ~gone /\ gone' = gone /\ Becomes(Said(q, Notice("ask")))
        BY <1>2 DEF Ask
    <2> QED BY <2>1, SayMoves
<1>3. CASE Beat
    <2>1. ~gone /\ gone' = gone /\ Becomes(Said(q, Notice("beat")))
        BY <1>3 DEF Beat
    <2> QED BY <2>1, SayMoves
<1>4. CASE Interrupt
    BY <1>4, InterruptMoves
<1>5. CASE Dispose
    BY <1>5, DisposeMoves
<1>6. CASE AckArrives
    BY <1>6, AckMoves
<1>7. CASE AppHandles
    BY <1>7, IsTake DEF AppHandles, Kept
<1>8. CASE PortBreaks \/ AppAcks \/ UNCHANGED vars
    <2>1. UNCHANGED <<q, port, gone>>
        BY <1>8 DEF PortBreaks, AppAcks, vars
    <2>2. Way' = Way /\ q'.paused = q.paused /\ (Broken' <=> Broken)
        BY <2>1 DEF Way, Broken
    <2> QED BY <2>2, IsStutter
<1> QED BY <1>1, <1>2, <1>3, <1>4, <1>5, <1>6, <1>7, <1>8 DEF Next

(* WireOutboundQueue over the credit window of the port, with the app that  *)
(* acknowledges, is one ordered channel: no critical line is lost or        *)
(* overtaken while it works, display lines are lost only behind a notice,   *)
(* and once it has overflowed or is disposed what it holds keeps its order. *)
THEOREM KeepsTheChannel == Spec => KeepsChannel
<1>1. Init => Channel!Init
    BY InitMoves
<1>2. Kept /\ [Next]_vars => [Channel!Next]_(Channel!chan)
    BY StepMoves
<1> QED BY <1>1, <1>2, AlwaysKept, PTL DEF Spec, KeepsChannel, Channel!Spec

=============================================================================
