---------------------- MODULE TransactionManager_proofs ----------------------
(***************************************************************************)
(* Theorems about the edit transactions, for any files, tools and drafts,  *)
(* any number of transactions, and every failure of the disk.              *)
(***************************************************************************)
EXTENDS TransactionManager, TLAPS, FiniteSetTheorems, SequenceTheorems,
        WellFoundedInduction

-----------------------------------------------------------------------------
(* The records of a sequence, as a set.                                     *)

LEMMA EmptyHas ==
    ASSUME NEW S
    PROVE  <<>> \in Seq(S) /\ ToSet(<<>>) = {}
BY EmptySeq DEF ToSet

LEMMA SeqHas ==
    ASSUME NEW S, NEW s \in Seq(S)
    PROVE  ToSet(s) \subseteq S /\ (ToSet(s) = {} => s = <<>>)
<1>1. DOMAIN s = 1..Len(s) /\ Len(s) \in Nat /\ \A i \in 1..Len(s) : s[i] \in S
    BY LenProperties, ElementOfSeq
<1>2. s # <<>> => 1 \in DOMAIN s
    BY <1>1, EmptySeq
<1> QED BY <1>1, <1>2 DEF ToSet

LEMMA AppendHas ==
    ASSUME NEW S, NEW s \in Seq(S), NEW e \in S
    PROVE  Append(s, e) \in Seq(S) /\ ToSet(Append(s, e)) = ToSet(s) \cup {e}
<1> DEFINE a == Append(s, e)
<1>1. /\ a \in Seq(S) /\ Len(a) = Len(s) + 1 /\ a[Len(s) + 1] = e
      /\ \A i \in 1..Len(s) : a[i] = s[i]
    BY AppendProperties
<1>2. DOMAIN s = 1..Len(s) /\ Len(s) \in Nat /\ DOMAIN a = 1..Len(a)
    BY <1>1, LenProperties
<1> HIDE DEF a
<1>3. ASSUME NEW x \in ToSet(a) PROVE x \in ToSet(s) \cup {e}
    <2>1. PICK i \in DOMAIN a : x = a[i]
        BY <1>3 DEF ToSet
    <2>2. i = Len(s) + 1 \/ i \in DOMAIN s
        BY <1>1, <1>2, <2>1
    <2> QED BY <1>1, <1>2, <2>1, <2>2 DEF ToSet
<1>4. ASSUME NEW x \in ToSet(s) \cup {e} PROVE x \in ToSet(a)
    <2>1. CASE x = e
        <3>1. Len(s) + 1 \in DOMAIN a
            BY <1>1, <1>2
        <3> QED BY <1>1, <2>1, <3>1 DEF ToSet
    <2>2. CASE x \in ToSet(s)
        <3>1. PICK i \in DOMAIN s : x = s[i]
            BY <2>2 DEF ToSet
        <3>2. i \in DOMAIN a /\ a[i] = x
            BY <1>1, <1>2, <3>1
        <3> QED BY <3>2 DEF ToSet
    <2> QED BY <1>4, <2>1, <2>2
<1> QED BY <1>1, <1>3, <1>4 DEF a

LEMMA ReverseHas ==
    ASSUME NEW S, NEW s \in Seq(S)
    PROVE  Reverse(s) \in Seq(S) /\ ToSet(Reverse(s)) = ToSet(s)
<1> DEFINE n == Len(s)
           r == Reverse(s)
<1>1. n \in Nat /\ DOMAIN s = 1..n /\ \A i \in 1..n : s[i] \in S
    BY LenProperties, ElementOfSeq
<1>2. r = [i \in 1..n |-> s[(n - i) + 1]]
    BY DEF Reverse
<1> HIDE DEF r, n
<1>3. \A i \in 1..n : (n - i) + 1 \in 1..n /\ (n - ((n - i) + 1)) + 1 = i
    BY <1>1
<1>4. r \in [1..n -> S] /\ DOMAIN r = 1..n /\ \A i \in 1..n : r[i] = s[(n - i) + 1]
    BY <1>1, <1>2, <1>3
<1>5. r \in Seq(S)
    BY <1>1, <1>4
<1>6. ASSUME NEW x \in ToSet(r) PROVE x \in ToSet(s)
    BY <1>1, <1>3, <1>4 DEF ToSet
<1>7. ASSUME NEW x \in ToSet(s) PROVE x \in ToSet(r)
    <2>1. PICK i \in 1..n : x = s[i]
        BY <1>1 DEF ToSet
    <2>2. (n - i) + 1 \in 1..n /\ r[(n - i) + 1] = x
        BY <1>3, <1>4, <2>1
    <2> QED BY <1>4, <2>2 DEF ToSet
<1> QED BY <1>5, <1>6, <1>7 DEF r

LEMMA TailHas ==
    ASSUME NEW S, NEW s \in Seq(S), s # <<>>
    PROVE  /\ Head(s) \in S /\ Tail(s) \in Seq(S)
           /\ ToSet(s) = {Head(s)} \cup ToSet(Tail(s))
<1> DEFINE t == Tail(s)
<1>1. /\ Head(s) \in S /\ t \in Seq(S) /\ Len(t) = Len(s) - 1
      /\ \A i \in 1..Len(t) : t[i] = s[i + 1]
    BY HeadTailProperties
<1>2. Head(s) = s[1] /\ Len(s) \in Nat \ {0} /\ DOMAIN s = 1..Len(s) /\ DOMAIN t = 1..Len(t)
    BY <1>1, EmptySeq, LenProperties
<1> HIDE DEF t
<1>3. ASSUME NEW x \in ToSet(s) PROVE x \in {Head(s)} \cup ToSet(t)
    <2>1. PICK i \in DOMAIN s : x = s[i]
        BY <1>3 DEF ToSet
    <2>2. CASE i = 1
        BY <1>2, <2>1, <2>2
    <2>3. CASE i # 1
        <3>1. i - 1 \in 1..Len(t) /\ (i - 1) + 1 = i
            BY <1>1, <1>2, <2>1, <2>3
        <3>2. t[i - 1] = x
            BY <1>1, <2>1, <3>1
        <3> QED BY <1>2, <3>1, <3>2 DEF ToSet
    <2> QED BY <2>2, <2>3
<1>4. ASSUME NEW x \in {Head(s)} \cup ToSet(t) PROVE x \in ToSet(s)
    <2>1. CASE x = Head(s)
        <3>1. 1 \in DOMAIN s
            BY <1>2
        <3> QED BY <1>2, <2>1, <3>1 DEF ToSet
    <2>2. CASE x \in ToSet(t)
        <3>1. PICK i \in 1..Len(t) : x = t[i]
            BY <1>2, <2>2 DEF ToSet
        <3>2. i + 1 \in DOMAIN s /\ s[i + 1] = x
            BY <1>1, <1>2, <3>1
        <3> QED BY <3>2 DEF ToSet
    <2> QED BY <1>4, <2>1, <2>2
<1> QED BY <1>1, <1>3, <1>4 DEF t

LEMMA ConcatHas ==
    ASSUME NEW S, NEW s \in Seq(S), NEW t \in Seq(S)
    PROVE  s \o t \in Seq(S) /\ ToSet(s \o t) = ToSet(s) \cup ToSet(t)
<1> DEFINE c == s \o t
           m == Len(s)
           n == Len(t)
<1>1. /\ c \in Seq(S) /\ Len(c) = m + n
      /\ \A i \in 1..(m + n) : c[i] = IF i <= m THEN s[i] ELSE t[i - m]
    BY ConcatProperties
<1>2. m \in Nat /\ n \in Nat /\ DOMAIN s = 1..m /\ DOMAIN t = 1..n /\ DOMAIN c = 1..(m + n)
    BY <1>1, LenProperties
<1> HIDE DEF c, m, n
<1>3. ASSUME NEW x \in ToSet(c) PROVE x \in ToSet(s) \cup ToSet(t)
    <2>1. PICK i \in 1..(m + n) : x = c[i]
        BY <1>2, <1>3 DEF ToSet
    <2>2. CASE i <= m
        <3>1. i \in 1..m /\ x = s[i]
            BY <1>1, <1>2, <2>1, <2>2
        <3> QED BY <1>2, <3>1 DEF ToSet
    <2>3. CASE ~(i <= m)
        <3>1. i - m \in 1..n /\ x = t[i - m]
            BY <1>1, <1>2, <2>1, <2>3
        <3> QED BY <1>2, <3>1 DEF ToSet
    <2> QED BY <2>2, <2>3
<1>4. ASSUME NEW x \in ToSet(s) PROVE x \in ToSet(c)
    <2>1. PICK i \in 1..m : x = s[i]
        BY <1>2, <1>4 DEF ToSet
    <2>2. i \in 1..(m + n) /\ i <= m
        BY <1>2
    <2>3. c[i] = x
        BY <1>1, <2>1, <2>2
    <2> QED BY <1>2, <2>2, <2>3 DEF ToSet
<1>5. ASSUME NEW x \in ToSet(t) PROVE x \in ToSet(c)
    <2>1. PICK i \in 1..n : x = t[i]
        BY <1>2, <1>5 DEF ToSet
    <2>2. i + m \in 1..(m + n) /\ ~(i + m <= m) /\ (i + m) - m = i
        BY <1>2
    <2>3. c[i + m] = x
        BY <1>1, <2>1, <2>2
    <2> QED BY <1>2, <2>2, <2>3 DEF ToSet
<1> QED BY <1>1, <1>3, <1>4, <1>5 DEF c

-----------------------------------------------------------------------------
(* Types                                                                    *)

Ops == [at : {"idle", "waiting", "ready"}, path : Path \cup {None},
        draft : Draft \cup {Absent, None}, tx : TxId \cup {None}]
Snaps == [at : {"none", "open", "read", "done"}, seen : OnDisk \cup {None}]
Causes == {"fault", "late", "outside", "person", "recovery", "remade"}

(* TypeOK, but for the number of bytes held.                                *)
Typed ==
    /\ disk \in [Path -> OnDisk] /\ tx \in {None} \cup Transaction
    /\ snap \in [Path -> Snaps] /\ op \in [Tool -> Ops]
    /\ restoring \in {None} \cup Undoing /\ retained \in [TxId -> Seq(EditRecord)]
    /\ begins \in 0..MaxTx /\ ops \in 0..MaxOps /\ edits \in 0..MaxEdits
    /\ begun \in [Path -> OnDisk] /\ undone \in BOOLEAN /\ spoiled \subseteq Causes

LEMMA TypedIs == TypeOK <=> Typed /\ held \in Nat
BY DEF TypeOK, Typed, Ops, Snaps, Causes

LEMMA OpenIs ==
    ASSUME Typed, Open
    PROVE  /\ tx \in Transaction /\ tx.id \in TxId /\ tx.edits \in Seq(EditRecord)
           /\ tx.pending \in Nat
BY DEF Typed, Open, Transaction

LEMMA RollingIs ==
    ASSUME Typed, Rolling
    PROVE  /\ restoring \in Undoing /\ restoring.id \in TxId /\ restoring.later \subseteq TxId
           /\ restoring.todo \in Seq(EditRecord) /\ restoring.keep \in Seq(EditRecord)
           /\ restoring.done \in Seq(EditRecord) /\ restoring.force \in BOOLEAN
BY DEF Typed, Rolling, Undoing

LEMMA RecordIs ==
    ASSUME NEW r \in EditRecord
    PROVE  r.path \in Path /\ r.base \in Baseline /\ r.expected \subseteq Text \cup {Absent}
BY DEF EditRecord

LEMMA BusyIs ==
    ASSUME Typed, NEW step, Busy(step)
    PROVE  /\ Rolling /\ Now \in EditRecord /\ Now.path \in Path /\ Now.base \in Baseline
           /\ Tail(restoring.todo) \in Seq(EditRecord)
           /\ ToSet(restoring.todo) = {Now} \cup ToSet(Tail(restoring.todo))
           /\ restoring.step = step
<1>1. restoring.todo \in Seq(EditRecord) /\ restoring.todo # <<>> /\ Rolling
    BY RollingIs DEF Busy
<1>2. /\ Now \in EditRecord /\ Tail(restoring.todo) \in Seq(EditRecord)
      /\ ToSet(restoring.todo) = {Now} \cup ToSet(Tail(restoring.todo))
    BY <1>1, TailHas DEF Now
<1> QED BY <1>1, <1>2, RecordIs DEF Busy

Ids == SUBSET TxId

LEMMA RestorationIs ==
    ASSUME NEW i \in TxId, NEW records \in Seq(EditRecord), NEW force \in BOOLEAN,
           NEW later \in Ids, NEW r, r = Restoration(i, records, force, later)
    PROVE  /\ r \in Undoing /\ r # None /\ r.id = i /\ r.force = force /\ r.todo = records
           /\ r.keep = <<>> /\ r.done = <<>> /\ r.step = "read" /\ r.later = later
<1>1. <<>> \in Seq(EditRecord) /\ "read" \in {"read", "write", "check"}
      /\ None \in Baseline \cup {None}
    BY EmptySeq
<1>2. r \in Undoing
    BY <1>1 DEF Restoration, Undoing, Ids
<1> QED BY <1>2, NothingAssumption DEF Restoration

(* A record that is settled leaves the others as they are.                  *)
OneLess(kept, r) ==
    /\ r \in Undoing /\ r # None /\ r.id = restoring.id /\ r.force = restoring.force
    /\ r.later = restoring.later /\ r.todo = Tail(restoring.todo) /\ r.step = "read"
    /\ r.keep = IF kept THEN Append(restoring.keep, Now) ELSE restoring.keep
    /\ r.done = IF kept THEN restoring.done ELSE Append(restoring.done, Now)

LEMMA SettledIs ==
    ASSUME Typed, NEW step, Busy(step), NEW kept \in BOOLEAN, NEW causes, Settled(kept, causes)
    PROVE  OneLess(kept, restoring') /\ spoiled' = spoiled \cup causes
<1> DEFINE k == IF kept THEN Append(restoring.keep, Now) ELSE restoring.keep
           d == IF kept THEN restoring.done ELSE Append(restoring.done, Now)
           t == Tail(restoring.todo)
<1>1. restoring \in Undoing /\ restoring.keep \in Seq(EditRecord)
      /\ restoring.done \in Seq(EditRecord)
    BY BusyIs, RollingIs
<1>2. Append(restoring.keep, Now) \in Seq(EditRecord) /\ Append(restoring.done, Now) \in Seq(EditRecord)
    BY <1>1, BusyIs, AppendHas
<1>3. k \in Seq(EditRecord) /\ d \in Seq(EditRecord) /\ t \in Seq(EditRecord)
    BY <1>1, <1>2, BusyIs
<1>4. restoring' = [restoring EXCEPT !.todo = t, !.step = "read", !.saw = None,
                                     !.keep = k, !.done = d]
    BY DEF Settled
<1>5. "read" \in {"read", "write", "check"} /\ None \in Baseline \cup {None}
    OBVIOUS
<1> HIDE DEF k, d, t
<1>6. /\ restoring' \in Undoing /\ restoring'.id = restoring.id
      /\ restoring'.force = restoring.force /\ restoring'.later = restoring.later
      /\ restoring'.todo = t /\ restoring'.step = "read" /\ restoring'.keep = k
      /\ restoring'.done = d
    BY <1>1, <1>3, <1>4, <1>5 DEF Undoing
<1>7. spoiled' = spoiled \cup causes
    BY DEF Settled
<1> QED BY <1>6, <1>7, NothingAssumption DEF OneLess, k, d, t

LEMMA WrittenIs ==
    ASSUME Typed, NEW p \in Path, NEW text \in Text
    PROVE  /\ Written(p, text) \in File /\ Written(p, text).text = text
           /\ disk[p] \in File => Written(p, text).mode = disk[p].mode
           /\ disk[p] = Absent => Written(p, text).mode = "default"
<1>1. disk[p] \in File \/ disk[p] = Absent
    BY DEF Typed, OnDisk
<1>2. Absent \notin File
    BY NothingAssumption
<1> QED BY <1>1, <1>2 DEF Written, File, Mode

-----------------------------------------------------------------------------
(* The count of callers: pending is exactly the tools that wait and the     *)
(* captures under way, so that a transaction without any can be closed.     *)

Waiting == {t \in Tool : op[t].at = "waiting"}
Capturing == {p \in Path : snap[p].at \in {"open", "read"}}

Fenced ==
    /\ Open => tx.pending = Cardinality(Waiting) + Cardinality(Capturing)
    /\ ~Open => Waiting = {} /\ \A p \in Path : snap[p].at = "none"
    /\ \A t \in Waiting : op[t].tx = tx.id /\ snap[op[t].path].at # "none"

(* What a tool that is not idle knows.                                      *)
Called ==
    \A t \in Tool : op[t].at # "idle" =>
        op[t].path \in Path /\ op[t].draft \in Draft \cup {Absent}

LEMMA CountIs ==
    /\ IsFiniteSet(Waiting) /\ IsFiniteSet(Capturing)
    /\ Cardinality(Waiting) \in Nat /\ Cardinality(Capturing) \in Nat
<1>1. Waiting \in SUBSET Tool /\ Capturing \in SUBSET Path
    BY DEF Waiting, Capturing
<1>2. IsFiniteSet(Waiting) /\ IsFiniteSet(Capturing)
    BY <1>1, PathsAssumption, FS_Subset
<1> QED BY <1>2, FS_CardinalityType

LEMMA NobodyWaits ==
    ASSUME Typed, Fenced, Open, tx.pending = 0
    PROVE  Waiting = {} /\ Capturing = {}
<1>1. Cardinality(Waiting) + Cardinality(Capturing) = 0
    BY DEF Fenced
<1>2. Cardinality(Waiting) = 0 /\ Cardinality(Capturing) = 0
    BY <1>1, CountIs
<1> QED BY <1>2, CountIs, FS_EmptySet

(* The last caller is gone: the transaction may close.                      *)
LEMMA ClosedFenced ==
    ASSUME Typed, Fenced, Open, tx.pending = 0, tx' = None,
           snap' = [p \in Path |-> NoSnapshot],
           \A t \in Tool : op'[t].at = "waiting" => op[t].at = "waiting"
    PROVE  Fenced' /\ snap' \in [Path -> Snaps] /\ ~Open'
<1>1. Waiting = {}
    BY NobodyWaits
<1>2. Waiting' = {}
    BY <1>1 DEF Waiting
<1>3. NoSnapshot \in Snaps /\ NoSnapshot.at = "none"
    BY DEF NoSnapshot, Snaps
<1>4. \A p \in Path : snap'[p].at = "none"
    BY <1>3
<1> QED BY <1>2, <1>3, <1>4 DEF Fenced, Open

(* Neither the transaction nor a capture nor a tool that waits changes.     *)
LEMMA SameFenced ==
    ASSUME Typed, Fenced, UNCHANGED <<tx, snap>>,
           \A t \in Tool : op'[t].at = "waiting" <=> op[t].at = "waiting",
           \A t \in Tool : op[t].at = "waiting" => op'[t] = op[t]
    PROVE  Fenced'
<1>1. Waiting' = Waiting /\ Capturing' = Capturing
    BY DEF Waiting, Capturing
<1>2. \A t \in Waiting : op'[t] = op[t]
    BY DEF Waiting
<1> QED BY <1>1, <1>2 DEF Fenced, Open

LEMMA BeginFenced ==
    ASSUME Typed, Fenced, NEW i \in TxId, Begin(i)
    PROVE  Typed' /\ Fenced' /\ Open' /\ tx'.id = i /\ tx'.edits = <<>>
<1>1. tx' = [id |-> i, edits |-> <<>>, pending |-> 0] /\ begins' = i
    BY DEF Begin
<1>2. <<>> \in Seq(EditRecord) /\ 0 \in Nat
    BY EmptySeq
<1>3. /\ tx' \in Transaction /\ tx'.id = i /\ tx'.edits = <<>> /\ tx'.pending = 0
    BY <1>1, <1>2 DEF Transaction
<1>4. Open'
    BY <1>3, NothingAssumption DEF Open
<1>5. begins' \in 0..MaxTx
    BY <1>1, BudgetAssumption DEF TxId
<1>6. Typed'
    BY <1>3, <1>5 DEF Begin, Typed
<1>7. Waiting' = {} /\ Capturing' = {}
    BY DEF Begin, Fenced, Waiting, Capturing
<1>8. Cardinality({}) = 0
    BY FS_EmptySet
<1>9. tx'.pending = Cardinality(Waiting') + Cardinality(Capturing')
    BY <1>3, <1>7, <1>8
<1> QED BY <1>3, <1>4, <1>6, <1>7, <1>9 DEF Fenced

LEMMA RollbackIs ==
    ASSUME Typed, Fenced, NEW force \in BOOLEAN, RollbackStarts(force),
           \A t \in Tool : op'[t].at = "waiting" => op[t].at = "waiting"
    PROVE  /\ Fenced' /\ snap' \in [Path -> Snaps] /\ tx' = None /\ ~Open' /\ ~Rolling
           /\ Open /\ tx.pending = 0
           /\ restoring' \in Undoing /\ restoring'.id = tx.id /\ restoring'.keep = <<>>
           /\ restoring'.todo = Reverse(tx.edits) /\ restoring'.later = {}
           /\ restoring'.step = "read" /\ restoring'.done = <<>>
           /\ Reverse(tx.edits) \in Seq(EditRecord)
           /\ ToSet(Reverse(tx.edits)) = ToSet(tx.edits)
<1>1. Open /\ tx.pending = 0 /\ ~Rolling /\ tx' = None /\ snap' = [p \in Path |-> NoSnapshot]
      /\ restoring' = Restoration(tx.id, Reverse(tx.edits), force, {})
    BY DEF RollbackStarts, MayRollBack
<1>2. Reverse(tx.edits) \in Seq(EditRecord) /\ ToSet(Reverse(tx.edits)) = ToSet(tx.edits)
    BY <1>1, OpenIs, ReverseHas
<1>3. tx.id \in TxId /\ {} \in Ids
    BY <1>1, OpenIs DEF Ids
<1>4. /\ restoring' \in Undoing /\ restoring'.id = tx.id /\ restoring'.keep = <<>>
      /\ restoring'.todo = Reverse(tx.edits) /\ restoring'.later = {}
      /\ restoring'.step = "read" /\ restoring'.done = <<>>
    BY <1>1, <1>2, <1>3, RestorationIs
<1> QED BY <1>1, <1>2, <1>4, ClosedFenced

(* There is an oldest transaction among some: the order is well-founded.    *)
Less == {p \in Nat \X Nat : p[1] < p[2]}

LEMMA LessFounded == IsWellFoundedOn(Less, Nat)
BY NatLessThanWellFounded DEF OpToRel, Less

LEMMA LeastOf ==
    ASSUME NEW S, S \subseteq Nat, S # {}
    PROVE  \E n \in S : \A m \in S : n <= m
<1>1. PICK n \in S : \A m \in S : <<m, n>> \notin Less
    BY LessFounded, WFMin
<1>2. ASSUME NEW m \in S PROVE n <= m
    <2>1. m \in Nat /\ n \in Nat /\ ~(m < n)
        BY <1>1 DEF Less
    <2> QED BY <2>1
<1> QED BY <1>2

LEMMA OldestIs ==
    ASSUME NEW ids \in SUBSET TxId, ids # {}
    PROVE  Oldest(ids) \in ids
<1>1. TxId \subseteq Nat
    BY BudgetAssumption DEF TxId
<1>2. \E i \in ids : \A j \in ids : i <= j
    BY <1>1, LeastOf
<1> QED BY <1>2 DEF Oldest

LEMMA LifecycleTyped ==
    ASSUME Typed, Fenced, Commit \/ Recover \/ \E force \in BOOLEAN : Rollback(force)
    PROVE  Typed' /\ Fenced'
<1>1. CASE Commit
    <2>1. Fenced' /\ snap' \in [Path -> Snaps]
        BY <1>1, ClosedFenced DEF Commit
    <2> QED BY <1>1, <2>1 DEF Commit, Typed
<1>2. CASE Recover
    <2> DEFINE i == Oldest(Retained)
    <2>1. Retained # {} /\ Retained \subseteq TxId
        BY <1>2 DEF Recover, Retained
    <2>2. i \in TxId
        BY <2>1, OldestIs
    <2>3. retained[i] \in Seq(EditRecord) /\ Retained \ {i} \in SUBSET TxId
        BY <2>1, <2>2 DEF Typed
    <2>4. restoring' = Restoration(i, retained[i], FALSE, Retained \ {i})
        BY <1>2 DEF Recover
    <2> DEFINE s == retained[i]
               l == Retained \ {i}
    <2> HIDE DEF i, s, l
    <2>5. /\ i \in TxId /\ s \in Seq(EditRecord) /\ l \in Ids /\ FALSE \in BOOLEAN
          /\ restoring' = Restoration(i, s, FALSE, l)
        BY <2>2, <2>3, <2>4 DEF s, l, Ids
    <2>6. restoring' \in Undoing
        BY <2>5, RestorationIs
    <2>7. spoiled' \subseteq Causes
        BY <1>2 DEF Recover, Typed, Causes
    <2>8. Typed'
        BY <1>2, <2>6, <2>7 DEF Recover, Typed
    <2>9. Fenced'
        BY <1>2, SameFenced DEF Recover
    <2> QED BY <2>8, <2>9
<1>3. ASSUME NEW force \in BOOLEAN, Rollback(force) PROVE Typed' /\ Fenced'
    <2>1. /\ Fenced' /\ snap' \in [Path -> Snaps] /\ tx' = None /\ restoring' \in Undoing
        BY <1>3, RollbackIs DEF Rollback
    <2> QED BY <1>3, <2>1 DEF Rollback, Typed
<1> QED BY <1>1, <1>2, <1>3

(* A capture and its first caller, or one more caller of it.                *)
LEMMA RegisteredFenced ==
    ASSUME Typed, Fenced, Open, NEW p \in Path, NEW t \in Tool, op[t].at # "waiting",
           NEW o \in Ops, o.at = "waiting", o.path = p, o.tx = tx.id,
           op' = [op EXCEPT ![t] = o], Registered(p)
    PROVE  /\ Fenced' /\ snap' \in [Path -> Snaps]
           /\ tx' \in Transaction /\ tx'.id = tx.id /\ tx'.edits = tx.edits
           /\ \A r \in Path : snap'[r].at = "done" <=> snap[r].at = "done"
<1> DEFINE n == IF snap[p].at = "none" THEN 2 ELSE 1
           c == [at |-> "open", seen |-> None]
<1>1. tx \in Transaction /\ tx.pending \in Nat
    BY OpenIs
<1>2. tx' = [tx EXCEPT !.pending = tx.pending + n]
    BY DEF Registered
<1>3. snap' = IF snap[p].at = "none" THEN [snap EXCEPT ![p] = c] ELSE snap
    BY DEF Registered
<1>4. n \in Nat
    OBVIOUS
<1>5. tx' \in Transaction /\ tx'.id = tx.id /\ tx'.edits = tx.edits
      /\ tx'.pending = tx.pending + n
    <2> HIDE DEF n
    <2>1. tx.pending + n \in Nat
        BY <1>1, <1>4
    <2> QED BY <1>1, <1>2, <2>1 DEF Transaction
<1>6. c \in Snaps /\ c.at = "open"
    BY DEF Snaps
<1>7. snap' \in [Path -> Snaps]
    BY <1>3, <1>6 DEF Typed
<1>8. Waiting' = Waiting \cup {t} /\ t \notin Waiting
    BY DEF Waiting, Typed
<1>9. Cardinality(Waiting') = Cardinality(Waiting) + 1
    BY <1>8, CountIs, FS_AddElement
<1>10. Cardinality(Capturing') = Cardinality(Capturing) + n - 1
    <2>1. CASE snap[p].at = "none"
        <3>1. Capturing' = Capturing \cup {p} /\ p \notin Capturing
            BY <1>3, <1>6, <2>1 DEF Capturing, Typed
        <3>2. Cardinality(Capturing') = Cardinality(Capturing) + 1
            BY <3>1, CountIs, FS_AddElement
        <3> QED BY <2>1, <3>2, CountIs
    <2>2. CASE snap[p].at # "none"
        <3>1. Capturing' = Capturing
            BY <1>3, <2>2 DEF Capturing
        <3> QED BY <2>2, <3>1, CountIs
    <2> QED BY <2>1, <2>2
<1>11. tx'.pending = Cardinality(Waiting') + Cardinality(Capturing')
    <2> HIDE DEF n
    <2>1. tx.pending = Cardinality(Waiting) + Cardinality(Capturing)
        BY DEF Fenced
    <2> QED BY <1>4, <1>5, <1>9, <1>10, <2>1, CountIs
<1>12. Open'
    BY <1>5, NothingAssumption DEF Open
<1>13. \A r \in Path : snap[r].at # "none" => snap'[r].at # "none"
    BY <1>3, <1>6 DEF Typed
<1>14. snap'[p].at # "none"
    BY <1>3, <1>6 DEF Typed
<1>15. \A s \in Waiting' : op'[s].tx = tx'.id /\ snap'[op'[s].path].at # "none"
    <2> TAKE s \in Waiting'
    <2>1. CASE s = t
        <3>1. op'[s] = o
            BY <2>1 DEF Typed
        <3> QED BY <1>5, <1>14, <3>1
    <2>2. CASE s # t
        <3>1. op'[s] = op[s] /\ s \in Waiting
            BY <1>8, <2>2 DEF Waiting, Typed
        <3>2. op[s].tx = tx.id /\ snap[op[s].path].at # "none"
            BY <3>1 DEF Fenced
        <3>3. CASE op[s].path \in Path
            BY <1>5, <1>13, <3>1, <3>2, <3>3
        <3>4. CASE op[s].path \notin Path
            <4>1. snap'[op[s].path] = snap[op[s].path]
                BY <1>3, <3>4 DEF Typed
            <4> QED BY <1>5, <3>1, <3>2, <4>1
        <3> QED BY <3>3, <3>4
    <2> QED BY <2>1, <2>2
<1>16. \A r \in Path : snap'[r].at = "done" <=> snap[r].at = "done"
    BY <1>3, <1>6 DEF Typed
<1> QED BY <1>5, <1>7, <1>11, <1>12, <1>15, <1>16 DEF Fenced

(* A capture that has its answer: one caller less, and one record more.     *)
FiledRecord(p, base) == [path |-> p, base |-> base, expected |-> {}]

LEMMA FiledIs ==
    ASSUME Typed, Fenced, Open, NEW p \in Path, snap[p].at \in {"open", "read"},
           NEW base \in Baseline, UNCHANGED op, Filed(p, base)
    PROVE  /\ Fenced' /\ snap' \in [Path -> Snaps]
           /\ tx' \in Transaction /\ tx'.id = tx.id
           /\ FiledRecord(p, base) \in EditRecord
           /\ tx'.edits = Append(tx.edits, FiledRecord(p, base))
           /\ ToSet(tx'.edits) = ToSet(tx.edits) \cup {FiledRecord(p, base)}
           /\ snap'[p].at = "done" /\ \A r \in Path \ {p} : snap'[r] = snap[r]
<1> DEFINE e == FiledRecord(p, base)
           d == [at |-> "done", seen |-> None]
<1>1. tx \in Transaction /\ tx.pending \in Nat /\ tx.edits \in Seq(EditRecord)
    BY OpenIs
<1>2. e \in EditRecord
    BY DEF FiledRecord, EditRecord
<1>3. Append(tx.edits, e) \in Seq(EditRecord) /\ ToSet(Append(tx.edits, e)) = ToSet(tx.edits) \cup {e}
    BY <1>1, <1>2, AppendHas
<1>4. tx' = [tx EXCEPT !.pending = tx.pending - 1, !.edits = Append(tx.edits, e)]
      /\ snap' = [snap EXCEPT ![p] = d]
    BY DEF Filed, FiledRecord
<1>5. d \in Snaps /\ d.at = "done"
    BY DEF Snaps
<1>6. /\ snap' \in [Path -> Snaps] /\ snap'[p].at = "done"
      /\ \A r \in Path \ {p} : snap'[r] = snap[r]
    BY <1>4, <1>5 DEF Typed
<1>7. Capturing' = Capturing \ {p} /\ p \in Capturing
    BY <1>6 DEF Capturing
<1>8. Cardinality(Capturing') = Cardinality(Capturing) - 1 /\ Cardinality(Capturing') \in Nat
    <2>1. IsFiniteSet(Capturing \ {p}) /\ Cardinality(Capturing \ {p}) = Cardinality(Capturing) - 1
        BY <1>7, CountIs, FS_RemoveElement
    <2> QED BY <1>7, <2>1, FS_CardinalityType
<1>9. tx.pending = Cardinality(Waiting) + Cardinality(Capturing) /\ Waiting' = Waiting
    BY DEF Fenced, Waiting
<1>10. tx.pending - 1 \in Nat /\ tx.pending - 1 = Cardinality(Waiting') + Cardinality(Capturing')
    BY <1>8, <1>9, CountIs
<1> HIDE DEF e
<1>11. /\ tx' \in Transaction /\ tx'.id = tx.id /\ tx'.pending = tx.pending - 1
       /\ tx'.edits = Append(tx.edits, e)
    BY <1>1, <1>3, <1>4, <1>10 DEF Transaction
<1>12. Open'
    BY <1>11, NothingAssumption DEF Open
<1>13. \A s \in Waiting' : op'[s].tx = tx'.id /\ snap'[op'[s].path].at # "none"
    <2> TAKE s \in Waiting'
    <2>1. op[s].tx = tx.id /\ snap[op[s].path].at # "none" /\ op'[s] = op[s]
        BY <1>9 DEF Fenced
    <2>2. CASE op[s].path = p
        BY <1>6, <1>11, <2>1, <2>2
    <2>3. CASE op[s].path # p
        <3>1. snap'[op[s].path] = snap[op[s].path]
            BY <1>4, <2>3 DEF Typed
        <3> QED BY <1>11, <2>1, <3>1
    <2> QED BY <2>2, <2>3
<1> QED BY <1>2, <1>3, <1>6, <1>10, <1>11, <1>12, <1>13 DEF Fenced, e

LEMMA ReservedFenced ==
    ASSUME Typed, Fenced, Open, NEW p \in Path, snap[p].at = "open", UNCHANGED <<op, tx>>,
           snap' = [snap EXCEPT ![p] = [at |-> "read", seen |-> disk[p]]]
    PROVE  /\ Fenced' /\ snap' \in [Path -> Snaps]
           /\ \A r \in Path : snap'[r].at = "done" <=> snap[r].at = "done"
<1> DEFINE c == [at |-> "read", seen |-> disk[p]]
<1>1. c \in Snaps /\ c.at = "read"
    BY DEF Snaps, Typed
<1>2. /\ snap' \in [Path -> Snaps] /\ snap'[p].at = "read"
      /\ \A r \in Path \ {p} : snap'[r] = snap[r]
    BY <1>1 DEF Typed
<1>3. Capturing' = Capturing /\ Waiting' = Waiting
    BY <1>2 DEF Capturing, Waiting
<1>4. \A s : snap[s].at # "none" => snap'[s].at # "none"
    <2> TAKE s
    <2>1. CASE s = p
        BY <1>2, <2>1
    <2>2. CASE s # p
        <3>1. snap'[s] = snap[s]
            BY <2>2 DEF Typed
        <3> QED BY <3>1
    <2> QED BY <2>1, <2>2
<1> QED BY <1>2, <1>3, <1>4 DEF Fenced, Open

-----------------------------------------------------------------------------
(* What each step of a tool does to the transaction.                        *)

SameTx == (Open' <=> Open) /\ (Open => tx'.id = tx.id /\ tx'.edits = tx.edits)
SameDone == \A p \in Path : snap'[p].at = "done" <=> snap[p].at = "done"

Sound == Typed /\ Fenced /\ Called

LEMMA OpIs ==
    ASSUME Typed, NEW t \in Tool
    PROVE  /\ op[t] \in Ops /\ op[t].at \in {"idle", "waiting", "ready"}
           /\ op[t].tx \in TxId \cup {None}
           /\ NoOp \in Ops /\ NoOp.at = "idle"
BY DEF Typed, Ops, NoOp

LEMMA StartIs ==
    ASSUME Sound, NEW t \in Tool, NEW p \in Path, NEW d \in Draft \cup {Absent},
           ToolStarts(t, p, d)
    PROVE  /\ Sound' /\ SameTx /\ SameDone
           /\ op'[t].at = (IF Open THEN "waiting" ELSE "ready") /\ op'[t].tx = CurrentId
           /\ \A s \in Tool \ {t} : op'[s] = op[s]
<1> DEFINE o == [at |-> IF Open THEN "waiting" ELSE "ready", path |-> p, draft |-> d,
                 tx |-> CurrentId]
<1>1. Typed /\ Fenced /\ Called
    BY DEF Sound
<1>2. CurrentId \in TxId \cup {None}
    BY <1>1, OpenIs DEF CurrentId
<1>3. /\ o \in Ops /\ o.at = (IF Open THEN "waiting" ELSE "ready") /\ o.path = p
      /\ o.tx = CurrentId /\ o.draft = d
    BY <1>2 DEF Ops
<1>4. op' = [op EXCEPT ![t] = o] /\ op[t].at = "idle" /\ ops < MaxOps /\ ops' = ops + 1
    BY DEF ToolStarts
<1> HIDE DEF o
<1>5. op' \in [Tool -> Ops] /\ op'[t] = o /\ \A s \in Tool \ {t} : op'[s] = op[s]
    BY <1>1, <1>3, <1>4 DEF Typed
<1>6. Called'
    <2> SUFFICES ASSUME NEW s \in Tool, op'[s].at # "idle"
                 PROVE  op'[s].path \in Path /\ op'[s].draft \in Draft \cup {Absent}
        BY DEF Called
    <2>1. CASE s = t
        BY <1>3, <1>5, <2>1
    <2>2. CASE s # t
        BY <1>1, <1>5, <2>2 DEF Called
    <2> QED BY <2>1, <2>2
<1>7. ops' \in 0..MaxOps
    BY <1>1, <1>4, BudgetAssumption DEF Typed
<1>8. CASE Open
    <2>1. Registered(p) /\ CurrentId = tx.id
        BY <1>8 DEF ToolStarts, CurrentId
    <2>2. op[t].at # "waiting"
        BY <1>4
    <2>3. /\ Fenced' /\ snap' \in [Path -> Snaps]
          /\ tx' \in Transaction /\ tx'.id = tx.id /\ tx'.edits = tx.edits /\ SameDone
        BY <1>1, <1>3, <1>4, <1>8, <2>1, <2>2, RegisteredFenced DEF SameDone
    <2>4. Open'
        BY <2>3, NothingAssumption DEF Open
    <2>5. Typed'
        BY <1>1, <1>5, <1>7, <2>3 DEF ToolStarts, Typed
    <2> QED BY <1>3, <1>5, <1>6, <1>8, <2>3, <2>4, <2>5 DEF Sound, SameTx
<1>9. CASE ~Open
    <2>1. UNCHANGED <<tx, snap>>
        BY <1>9 DEF ToolStarts
    <2>2. Typed'
        BY <1>1, <1>5, <1>7, <2>1 DEF ToolStarts, Typed
    <2>3. \A s \in Tool : /\ op'[s].at = "waiting" <=> op[s].at = "waiting"
                          /\ op[s].at = "waiting" => op'[s] = op[s]
        BY <1>3, <1>4, <1>5, <1>9
    <2>4. Fenced'
        BY <1>1, <2>1, <2>3, SameFenced
    <2> QED BY <1>3, <1>5, <1>6, <2>1, <2>2, <2>4 DEF Sound, SameTx, SameDone, Open
<1> QED BY <1>8, <1>9

(* A capture ends with a record, or goes on.                                *)
Captured(p, base) ==
    /\ Open /\ Open' /\ tx'.id = tx.id /\ snap[p].at \in {"open", "read"}
    /\ FiledRecord(p, base) \in EditRecord
    /\ ToSet(tx'.edits) = ToSet(tx.edits) \cup {FiledRecord(p, base)}
    /\ snap'[p].at = "done" /\ \A r \in Path \ {p} : snap'[r] = snap[r]
    /\ base = disk[p] \/ (base = Unreadable /\ spoiled' # {})

LEMMA CaptureIs ==
    ASSUME Sound, NEW p \in Path, CaptureOpens(p) \/ CaptureReads(p)
    PROVE  /\ Sound' /\ Open /\ UNCHANGED op
           /\ spoiled \subseteq spoiled'
           /\ \/ \E base \in Baseline : Captured(p, base)
              \/ SameTx /\ SameDone /\ spoiled' = spoiled
<1>1. Typed /\ Fenced /\ Called /\ UNCHANGED op /\ Open /\ Called'
    BY DEF Sound, CaptureOpens, CaptureReads, Called
<1>2. /\ disk[p] \in Baseline /\ Absent \in Baseline /\ Unreadable \in Baseline
      /\ Absent # Unreadable /\ disk[p] # Unreadable
    BY <1>1, NothingAssumption, PathsAssumption DEF Typed, Baseline, OnDisk
<1>3. ASSUME NEW base \in Baseline, Filed(p, base), snap[p].at \in {"open", "read"},
             base = disk[p] \/ base = Unreadable
      PROVE  Sound' /\ spoiled \subseteq spoiled' /\ Captured(p, base)
    <2>1. /\ Fenced' /\ snap' \in [Path -> Snaps] /\ tx' \in Transaction /\ tx'.id = tx.id
          /\ FiledRecord(p, base) \in EditRecord
          /\ ToSet(tx'.edits) = ToSet(tx.edits) \cup {FiledRecord(p, base)}
          /\ snap'[p].at = "done" /\ \A r \in Path \ {p} : snap'[r] = snap[r]
        BY <1>1, <1>3, FiledIs
    <2>2. spoiled' = IF base = Unreadable THEN spoiled \cup {"fault"} ELSE spoiled
        BY <1>3 DEF Filed
    <2>3. spoiled \subseteq spoiled' /\ spoiled' \subseteq Causes
          /\ (base = Unreadable => spoiled' # {})
        BY <1>1, <2>2 DEF Typed, Causes
    <2>4. Typed'
        BY <1>1, <2>1, <2>3 DEF CaptureOpens, CaptureReads, Typed
    <2>5. Open'
        BY <2>1, NothingAssumption DEF Open
    <2> QED BY <1>1, <1>3, <2>1, <2>3, <2>4, <2>5 DEF Sound, Captured
<1>4. ASSUME CaptureOpens(p)
      PROVE  Sound' /\ spoiled \subseteq spoiled'
             /\ \/ \E base \in Baseline : Captured(p, base)
                \/ SameTx /\ SameDone /\ spoiled' = spoiled
    <2>1. snap[p].at = "open" /\ (NothingThere(p) \/ Reserved(p) \/ CannotOpen(p))
        BY <1>4 DEF CaptureOpens
    <2>2. CASE NothingThere(p)
        <3>1. disk[p] = Absent /\ Filed(p, Absent)
            BY <2>2 DEF NothingThere
        <3> QED BY <1>2, <1>3, <2>1, <3>1
    <2>3. CASE CannotOpen(p)
        <3>1. Filed(p, Unreadable)
            BY <2>3 DEF CannotOpen
        <3> QED BY <1>2, <1>3, <2>1, <3>1
    <2>4. CASE Reserved(p)
        <3>1. UNCHANGED <<tx, spoiled>>
              /\ snap' = [snap EXCEPT ![p] = [at |-> "read", seen |-> disk[p]]]
            BY <2>4 DEF Reserved
        <3>2. Fenced' /\ snap' \in [Path -> Snaps] /\ SameDone
            BY <1>1, <2>1, <3>1, ReservedFenced DEF SameDone
        <3>3. Typed'
            BY <1>1, <1>4, <3>1, <3>2 DEF CaptureOpens, Typed
        <3> QED BY <1>1, <3>1, <3>2, <3>3 DEF Sound, SameTx, Open
    <2> QED BY <2>1, <2>2, <2>3, <2>4
<1>5. ASSUME CaptureReads(p)
      PROVE  Sound' /\ spoiled \subseteq spoiled' /\ \E base \in Baseline : Captured(p, base)
    <2>1. snap[p].at = "read" /\ (Filed(p, disk[p]) \/ Filed(p, Unreadable))
        BY <1>5 DEF CaptureReads, ReadBack
    <2> QED BY <1>2, <1>3, <2>1
<1> QED BY <1>1, <1>4, <1>5

(* Each record of the path takes the draft.                                 *)
LEMMA DeclaredIs ==
    ASSUME Sound, NEW t \in Tool, op[t].at # "idle", NEW s \in Seq(EditRecord),
           NEW d, d = [i \in DOMAIN s |-> Declared(t, s[i])]
    PROVE  /\ d \in Seq(EditRecord) /\ ToSet(d) = {Declared(t, r) : r \in ToSet(s)}
           /\ \A r \in EditRecord :
                /\ Declared(t, r) \in EditRecord
                /\ Declared(t, r).path = r.path /\ Declared(t, r).base = r.base
                /\ Declared(t, r).expected =
                       r.expected \cup (IF r.path = op[t].path THEN {op[t].draft} ELSE {})
<1>1. op[t].draft \in Text \cup {Absent}
    BY DEF Sound, Called, Text
<1>2. \A r \in EditRecord :
          /\ Declared(t, r) \in EditRecord
          /\ Declared(t, r).path = r.path /\ Declared(t, r).base = r.base
          /\ Declared(t, r).expected =
                 r.expected \cup (IF r.path = op[t].path THEN {op[t].draft} ELSE {})
    BY <1>1 DEF Declared, EditRecord
<1>3. Len(s) \in Nat /\ DOMAIN s = 1..Len(s) /\ \A i \in 1..Len(s) : s[i] \in EditRecord
    BY LenProperties, ElementOfSeq
<1>4. DOMAIN d = 1..Len(s) /\ \A i \in 1..Len(s) : d[i] = Declared(t, s[i])
    BY <1>3
<1>5. d \in [1..Len(s) -> EditRecord]
    BY <1>2, <1>3
<1>6. d \in Seq(EditRecord)
    BY <1>3, <1>5
<1>7. ToSet(d) = {Declared(t, r) : r \in ToSet(s)}
    BY <1>3, <1>4 DEF ToSet
<1> QED BY <1>2, <1>6, <1>7

LEMMA TrackedIs ==
    ASSUME Sound, NEW t \in Tool, ToolTracked(t)
    PROVE  /\ Sound' /\ Open /\ Open' /\ tx'.id = tx.id
           /\ tx'.edits = [i \in DOMAIN tx.edits |-> Declared(t, tx.edits[i])]
           /\ ToSet(tx'.edits) = {Declared(t, r) : r \in ToSet(tx.edits)}
           /\ tx.edits \in Seq(EditRecord)
           /\ op[t].at = "waiting" /\ snap[op[t].path].at = "done"
           /\ op'[t].at = "ready" /\ op'[t].path = op[t].path /\ op'[t].draft = op[t].draft
           /\ op'[t].tx = op[t].tx
           /\ \A s \in Tool \ {t} : op'[s] = op[s]
<1> DEFINE d == [i \in DOMAIN tx.edits |-> Declared(t, tx.edits[i])]
<1>1. Typed /\ Fenced /\ Called /\ Open /\ op[t].at = "waiting" /\ op[t] \in Ops
      /\ snap[op[t].path].at = "done"
    BY OpIs DEF Sound, ToolTracked
<1>2. tx \in Transaction /\ tx.pending \in Nat /\ tx.edits \in Seq(EditRecord)
    BY <1>1, OpenIs
<1>3. d \in Seq(EditRecord) /\ ToSet(d) = {Declared(t, r) : r \in ToSet(tx.edits)}
    BY <1>1, <1>2, DeclaredIs
<1>4. /\ tx' = [tx EXCEPT !.pending = tx.pending - 1, !.edits = d]
      /\ op' = [op EXCEPT ![t].at = "ready"] /\ UNCHANGED snap
    BY DEF ToolTracked
<1> HIDE DEF d
<1>5. /\ op' \in [Tool -> Ops] /\ op'[t].at = "ready" /\ op'[t].path = op[t].path
      /\ op'[t].draft = op[t].draft /\ op'[t].tx = op[t].tx
      /\ \A s \in Tool \ {t} : op'[s] = op[s]
    BY <1>1, <1>4 DEF Typed, Ops
<1>6. Waiting' = Waiting \ {t} /\ t \in Waiting /\ Capturing' = Capturing
    BY <1>1, <1>4, <1>5 DEF Waiting, Capturing
<1>7. Cardinality(Waiting') = Cardinality(Waiting) - 1 /\ Cardinality(Waiting') \in Nat
    <2>1. IsFiniteSet(Waiting \ {t}) /\ Cardinality(Waiting \ {t}) = Cardinality(Waiting) - 1
        BY <1>6, CountIs, FS_RemoveElement
    <2> QED BY <1>6, <2>1, FS_CardinalityType
<1>8. tx.pending = Cardinality(Waiting) + Cardinality(Capturing)
    BY <1>1 DEF Fenced
<1>9. tx.pending - 1 \in Nat /\ tx.pending - 1 = Cardinality(Waiting') + Cardinality(Capturing')
    BY <1>6, <1>7, <1>8, CountIs
<1>10. /\ tx' \in Transaction /\ tx'.id = tx.id /\ tx'.pending = tx.pending - 1
       /\ tx'.edits = d
    BY <1>2, <1>3, <1>4, <1>9 DEF Transaction
<1>11. Open'
    BY <1>10, NothingAssumption DEF Open
<1>12. \A s \in Waiting' : op'[s].tx = tx'.id /\ snap'[op'[s].path].at # "none"
    BY <1>1, <1>4, <1>5, <1>6, <1>10 DEF Fenced, Waiting
<1>13. Fenced'
    BY <1>9, <1>10, <1>11, <1>12 DEF Fenced
<1>14. Called'
    BY <1>1, <1>5 DEF Called
<1>15. Typed'
    BY <1>1, <1>5, <1>10 DEF ToolTracked, Typed
<1> QED BY <1>1, <1>2, <1>3, <1>5, <1>10, <1>11, <1>13, <1>14, <1>15 DEF Sound, d

(* A tool writes, or fails to.                                              *)
LEMMA WriteIs ==
    ASSUME Sound, NEW t \in Tool, ToolWrites(t)
    PROVE  /\ Sound' /\ UNCHANGED <<tx, snap, restoring>>
           /\ op'[t].at = "idle" /\ \A s \in Tool \ {t} : op'[s] = op[s]
<1>1. Typed /\ Fenced /\ Called /\ op[t].at = "ready" /\ NoOp \in Ops /\ NoOp.at = "idle"
    BY OpIs DEF Sound, ToolWrites
<1>2. op[t].path \in Path /\ op[t].draft \in Draft \cup {Absent}
    BY <1>1 DEF Called
<1>3. op' = [op EXCEPT ![t] = NoOp] /\ UNCHANGED <<tx, snap, restoring>>
    BY DEF ToolWrites
<1>4. /\ op' \in [Tool -> Ops] /\ op'[t].at = "idle"
      /\ \A s \in Tool \ {t} : op'[s] = op[s]
    BY <1>1, <1>3 DEF Typed
<1>5. Fenced'
    <2>1. \A s \in Tool : /\ op'[s].at = "waiting" <=> op[s].at = "waiting"
                          /\ op[s].at = "waiting" => op'[s] = op[s]
        BY <1>1, <1>4
    <2> QED BY <1>1, <1>3, <2>1, SameFenced
<1>6. Called'
    BY <1>1, <1>4 DEF Called
<1>7. disk' \in [Path -> OnDisk]
    <2> DEFINE f == IF op[t].draft = Absent THEN Absent ELSE Written(op[t].path, op[t].draft)
    <2>1. op[t].draft # Absent => op[t].draft \in Text
        BY <1>2 DEF Text
    <2>2. f \in OnDisk
        BY <1>1, <1>2, <2>1, WrittenIs DEF OnDisk
    <2>3. disk' = [disk EXCEPT ![op[t].path] = f]
        BY DEF ToolWrites
    <2> HIDE DEF f
    <2> QED BY <1>1, <1>2, <2>2, <2>3 DEF Typed
<1>8. spoiled' \subseteq Causes /\ undone' \in BOOLEAN
    BY <1>1 DEF ToolWrites, Typed, Causes, Disturbs, Remakes
<1>9. Typed'
    BY <1>1, <1>3, <1>4, <1>7, <1>8 DEF ToolWrites, Typed
<1> QED BY <1>3, <1>4, <1>5, <1>6, <1>9 DEF Sound

LEMMA FailIs ==
    ASSUME Sound, NEW t \in Tool, ToolFails(t)
    PROVE  /\ Sound' /\ op'[t].at = "idle" /\ \A s \in Tool \ {t} : op'[s] = op[s]
           /\ spoiled \subseteq spoiled' /\ UNCHANGED <<begun, begins, retained>>
           /\ disk' = disk \/ spoiled' # {}
           /\ undone' => undone /\ disk' = disk
           /\ RollbackStarts(FALSE) \/ UNCHANGED <<tx, snap, restoring>>
<1>1. Typed /\ Fenced /\ Called /\ op[t].at = "ready" /\ NoOp \in Ops /\ NoOp.at = "idle"
    BY OpIs DEF Sound, ToolFails
<1>2. op[t].path \in Path /\ op[t].draft \in Draft \cup {Absent}
    BY <1>1 DEF Called
<1>3. op' = [op EXCEPT ![t] = NoOp] /\ UNCHANGED <<begins, begun, retained, ops, edits>>
    BY DEF ToolFails
<1>4. /\ op' \in [Tool -> Ops] /\ op'[t].at = "idle"
      /\ \A s \in Tool \ {t} : op'[s] = op[s]
    BY <1>1, <1>3 DEF Typed
<1>5. \A s \in Tool : /\ op'[s].at = "waiting" <=> op[s].at = "waiting"
                      /\ op[s].at = "waiting" => op'[s] = op[s]
    BY <1>1, <1>4
<1>6. Called'
    BY <1>1, <1>4 DEF Called
<1>7. PICK f \in {disk[op[t].path]} \cup {Written(op[t].path, "torn")} :
          /\ disk' = [disk EXCEPT ![op[t].path] = f]
          /\ spoiled' = spoiled \cup (IF f = disk[op[t].path] THEN {} ELSE {"fault"})
          /\ undone' = (undone /\ f = disk[op[t].path])
    BY DEF ToolFails
<1>8. f \in OnDisk /\ disk[op[t].path] \in OnDisk
    <2>1. disk[op[t].path] \in OnDisk
        BY <1>1, <1>2 DEF Typed
    <2>2. Written(op[t].path, "torn") \in OnDisk
        BY <1>1, <1>2, WrittenIs DEF Text, OnDisk
    <2> QED BY <1>7, <2>1, <2>2
<1>9. /\ disk' \in [Path -> OnDisk] /\ spoiled' \subseteq Causes /\ undone' \in BOOLEAN
      /\ spoiled \subseteq spoiled' /\ (disk' = disk \/ spoiled' # {})
      /\ (undone' => undone /\ disk' = disk)
    <2>1. CASE f = disk[op[t].path]
        <3>1. disk' = disk /\ spoiled' = spoiled /\ undone' = undone
            BY <1>1, <1>2, <1>7, <2>1 DEF Typed
        <3> QED BY <1>1, <3>1 DEF Typed
    <2>2. CASE f # disk[op[t].path]
        <3>1. spoiled' = spoiled \cup {"fault"} /\ undone' = FALSE
            BY <1>7, <2>2
        <3>2. disk' \in [Path -> OnDisk]
            BY <1>1, <1>2, <1>7, <1>8 DEF Typed
        <3> QED BY <1>1, <3>1, <3>2 DEF Typed, Causes
    <2> QED BY <2>1, <2>2
<1>10. CASE RollbackStarts(FALSE)
    <2>1. FALSE \in BOOLEAN /\ \A s \in Tool : op'[s].at = "waiting" => op[s].at = "waiting"
        BY <1>5
    <2>2. Fenced' /\ snap' \in [Path -> Snaps] /\ tx' = None /\ restoring' \in Undoing
        BY <1>1, <1>10, <2>1, RollbackIs
    <2>3. Typed'
        BY <1>1, <1>3, <1>4, <1>9, <2>2 DEF Typed
    <2> QED BY <1>3, <1>4, <1>6, <1>9, <1>10, <2>2, <2>3 DEF Sound
<1>11. CASE UNCHANGED <<tx, snap, restoring>>
    <2>1. Fenced'
        BY <1>1, <1>5, <1>11, SameFenced
    <2>2. Typed'
        BY <1>1, <1>3, <1>4, <1>9, <1>11 DEF Typed
    <2> QED BY <1>3, <1>4, <1>6, <1>9, <1>11, <2>1, <2>2 DEF Sound
<1> QED BY <1>10, <1>11 DEF ToolFails

LEMMA PersonIs ==
    ASSUME Sound, NEW p \in Path, PersonEdits(p)
    PROVE  /\ Sound' /\ UNCHANGED <<tx, snap, op, restoring, begun, begins, retained>>
           /\ spoiled' # {} /\ spoiled \subseteq spoiled' /\ ~undone'
<1>1. Typed /\ Fenced /\ Called /\ UNCHANGED <<tx, snap, op, restoring, begun, begins, retained, ops>>
    BY DEF Sound, PersonEdits
<1>2. Fenced' /\ Called'
    <2>1. Called'
        BY <1>1 DEF Called
    <2> QED BY <1>1, <2>1, SameFenced
<1>3. disk' \in [Path -> OnDisk]
    <2>1. Written(p, "human") \in OnDisk
        BY <1>1, WrittenIs DEF Text, OnDisk
    <2>2. disk[p] # Absent => disk[p] \in File
        BY <1>1 DEF Typed, OnDisk
    <2>3. disk[p] # Absent => [disk[p] EXCEPT !.mode = "changed"] \in OnDisk
        BY <2>2 DEF File, Mode, OnDisk
    <2>4. Absent \in OnDisk
        BY DEF OnDisk
    <2>5. \/ disk' = [disk EXCEPT ![p] = Written(p, "human")]
          \/ disk' = [disk EXCEPT ![p] = Absent]
          \/ disk[p] # Absent /\ disk' = [disk EXCEPT ![p] = [disk[p] EXCEPT !.mode = "changed"]]
        BY DEF PersonEdits
    <2> QED BY <1>1, <2>1, <2>3, <2>4, <2>5 DEF Typed
<1>4. /\ edits' \in 0..MaxEdits /\ spoiled' \subseteq Causes /\ undone' \in BOOLEAN
      /\ spoiled' # {} /\ spoiled \subseteq spoiled' /\ ~undone'
    <2>1. /\ edits < MaxEdits /\ edits' = edits + 1
          /\ spoiled' = spoiled \cup {"person"} /\ undone' = FALSE
        BY DEF PersonEdits
    <2>2. edits \in 0..MaxEdits /\ spoiled \subseteq Causes
        BY <1>1 DEF Typed
    <2>3. edits' \in 0..MaxEdits
        BY <2>1, <2>2, BudgetAssumption
    <2>4. spoiled' \subseteq Causes /\ spoiled' # {} /\ spoiled \subseteq spoiled'
        BY <2>1, <2>2 DEF Causes
    <2> QED BY <2>1, <2>3, <2>4
<1>5. Typed'
    BY <1>1, <1>3, <1>4 DEF Typed
<1> QED BY <1>1, <1>2, <1>4, <1>5 DEF Sound

-----------------------------------------------------------------------------
(* What each step of a restoration does.                                    *)

LEMMA RestoringTyped ==
    ASSUME Sound, Rolling, UNCHANGED <<begins, tx, snap, op, retained, ops, edits, begun, undone>>,
           disk' \in [Path -> OnDisk], restoring' \in Undoing, spoiled' \subseteq Causes
    PROVE  Sound'
<1>1. Fenced' /\ Called'
    BY SameFenced DEF Sound, Called
<1>2. Typed'
    BY DEF Sound, Typed
<1> QED BY <1>1, <1>2 DEF Sound

LEMMA ReadsIs ==
    ASSUME Sound, RestoreReads
    PROVE  /\ Sound' /\ Rolling /\ Busy("read") /\ spoiled \subseteq spoiled'
           /\ \/ OneLess(FALSE, restoring') /\ (Now.base = Unreadable \/ Now.base = disk[Now.path])
              \/ /\ OneLess(TRUE, restoring')
                 /\ spoiled' # {} \/ (disk[Now.path] # Now.base /\ ~Own(disk[Now.path]))
              \/ /\ restoring' \in Undoing /\ restoring'.id = restoring.id
                 /\ restoring'.later = restoring.later /\ restoring'.force = restoring.force
                 /\ restoring'.todo = restoring.todo /\ restoring'.keep = restoring.keep
                 /\ restoring'.done = restoring.done
                 /\ restoring'.step = "write" /\ Now.base # Unreadable
                 /\ restoring.force \/ Own(restoring'.saw)
<1>1. Typed /\ Busy("read") /\ Rolling /\ Now.path \in Path /\ restoring \in Undoing
    BY BusyIs, RollingIs DEF Sound, RestoreReads
<1>2. disk[Now.path] \in OnDisk /\ disk[Now.path] # Unreadable /\ spoiled \subseteq Causes
    BY <1>1, NothingAssumption, PathsAssumption DEF Typed, OnDisk
<1>3. PICK f \in {disk[Now.path], Unreadable} : Reads(f)
    BY DEF RestoreReads
<1>4. /\ UNCHANGED <<begins, tx, snap, op, retained, ops, edits, begun, undone>>
      /\ disk' \in [Path -> OnDisk]
    BY <1>1 DEF RestoreReads, Typed
<1>5. ASSUME NEW kept \in BOOLEAN, NEW causes \in SUBSET Causes, Settled(kept, causes)
      PROVE  Sound' /\ spoiled' = spoiled \cup causes /\ OneLess(kept, restoring')
    <2>1. OneLess(kept, restoring') /\ spoiled' = spoiled \cup causes
        BY <1>1, <1>5, SettledIs
    <2>2. restoring' \in Undoing /\ spoiled' \subseteq Causes
        BY <1>2, <2>1 DEF OneLess
    <2> QED BY <1>1, <1>4, <2>1, <2>2, RestoringTyped
<1>6. {} \in SUBSET Causes /\ {"fault"} \in SUBSET Causes /\ TRUE \in BOOLEAN /\ FALSE \in BOOLEAN
    BY DEF Causes
<1>7. CASE Settled(FALSE, {}) /\ (Now.base = Unreadable \/ f = Now.base)
    BY <1>1, <1>2, <1>3, <1>5, <1>6, <1>7
<1>8. CASE Settled(TRUE, {"fault"})
    BY <1>1, <1>5, <1>6, <1>8
<1>9. CASE Settled(TRUE, {}) /\ f \notin {Unreadable, Now.base} /\ ~Own(f)
    BY <1>1, <1>3, <1>5, <1>6, <1>9
<1>10. CASE /\ Now.base # Unreadable
            /\ restoring.force \/ Own(f)
            /\ restoring' = [restoring EXCEPT !.step = "write", !.saw = f]
            /\ UNCHANGED spoiled
    <2>1. f \in Baseline \cup {None} /\ "write" \in {"read", "write", "check"}
        BY <1>2, <1>3 DEF Baseline
    <2>2. /\ restoring' \in Undoing /\ restoring'.id = restoring.id
          /\ restoring'.later = restoring.later /\ restoring'.force = restoring.force
          /\ restoring'.todo = restoring.todo /\ restoring'.keep = restoring.keep
          /\ restoring'.done = restoring.done
          /\ restoring'.step = "write" /\ restoring'.saw = f
        BY <1>1, <1>10, <2>1 DEF Undoing
    <2>3. Sound'
        BY <1>1, <1>2, <1>4, <1>10, <2>2, RestoringTyped
    <2> QED BY <1>1, <1>10, <2>2, <2>3
<1> QED BY <1>3, <1>7, <1>8, <1>9, <1>10 DEF Reads

LEMMA WritesIs ==
    ASSUME Sound, RestoreWrites, Now.base # Unreadable
    PROVE  /\ Sound' /\ Rolling /\ Busy("write") /\ spoiled \subseteq spoiled'
           /\ \/ /\ disk' = [disk EXCEPT ![Now.path] = Now.base] /\ UNCHANGED spoiled
                 /\ restoring' \in Undoing /\ restoring'.id = restoring.id
                 /\ restoring'.later = restoring.later /\ restoring'.force = restoring.force
                 /\ restoring'.todo = restoring.todo /\ restoring'.keep = restoring.keep
                 /\ restoring'.done = restoring.done
                 /\ restoring'.step = "check"
              \/ OneLess(TRUE, restoring') /\ disk' = disk /\ spoiled' # {}
<1>1. /\ Typed /\ Busy("write") /\ Rolling /\ Now.path \in Path /\ restoring \in Undoing
      /\ Now.base \in Baseline
    BY BusyIs, RollingIs DEF Sound, RestoreWrites
<1>2. UNCHANGED <<begins, tx, snap, op, retained, ops, edits, begun, undone>>
    BY DEF RestoreWrites
<1>3. Now.base \in OnDisk /\ disk \in [Path -> OnDisk] /\ spoiled \subseteq Causes
    BY <1>1 DEF Baseline, Typed
<1>4. CASE /\ disk' = [disk EXCEPT ![Now.path] = Now.base] /\ UNCHANGED spoiled
           /\ restoring' = [restoring EXCEPT !.step = "check"]
    <2>1. disk' \in [Path -> OnDisk]
        BY <1>1, <1>3, <1>4
    <2>2. /\ restoring' \in Undoing /\ restoring'.id = restoring.id
          /\ restoring'.later = restoring.later /\ restoring'.force = restoring.force
          /\ restoring'.todo = restoring.todo /\ restoring'.keep = restoring.keep
          /\ restoring'.done = restoring.done
          /\ restoring'.step = "check"
        BY <1>1, <1>4 DEF Undoing
    <2>3. Sound'
        BY <1>1, <1>2, <1>3, <1>4, <2>1, <2>2, RestoringTyped
    <2> QED BY <1>1, <1>4, <2>2, <2>3
<1>5. CASE Settled(TRUE, {"fault"}) /\ UNCHANGED disk
    <2>1. TRUE \in BOOLEAN
        OBVIOUS
    <2>2. OneLess(TRUE, restoring') /\ spoiled' = spoiled \cup {"fault"}
        BY <1>1, <1>5, <2>1, SettledIs
    <2>3. restoring' \in Undoing /\ spoiled' \subseteq Causes
        BY <1>3, <2>2 DEF OneLess, Causes
    <2>4. Sound'
        BY <1>1, <1>2, <1>3, <1>5, <2>3, RestoringTyped
    <2> QED BY <1>1, <1>5, <2>2, <2>4
<1> QED BY <1>4, <1>5 DEF RestoreWrites

LEMMA ChecksIs ==
    ASSUME Sound, RestoreChecks
    PROVE  /\ Sound' /\ Rolling /\ Busy("check") /\ spoiled \subseteq spoiled' /\ UNCHANGED disk
           /\ \/ OneLess(FALSE, restoring') /\ (Now.base = Unreadable \/ Now.base = disk[Now.path])
              \/ OneLess(TRUE, restoring') /\ (spoiled' # {} \/ disk[Now.path] # Now.base)
<1>1. Typed /\ Busy("check") /\ Rolling /\ Now.path \in Path /\ restoring \in Undoing
    BY BusyIs, RollingIs DEF Sound, RestoreChecks
<1>2. PICK f \in {disk[Now.path], Unreadable} : Checked(f)
    BY DEF RestoreChecks
<1>3. /\ UNCHANGED <<begins, tx, snap, op, retained, ops, edits, begun, undone, disk>>
      /\ disk' \in [Path -> OnDisk] /\ spoiled \subseteq Causes
    BY <1>1 DEF RestoreChecks, Typed
<1>4. PICK kept \in BOOLEAN, causes \in SUBSET {"fault"} :
          /\ Settled(kept, causes)
          /\ ~kept => f = Now.base
          /\ kept => f # Now.base /\ (f = Unreadable => causes = {"fault"})
    <2>1. CASE f = Now.base
        <3>1. Settled(FALSE, {}) /\ {} \in SUBSET {"fault"}
            BY <1>2, <2>1 DEF Checked
        <3> QED BY <2>1, <3>1
    <2>2. CASE f # Now.base /\ f = Unreadable
        <3>1. Settled(TRUE, {"fault"}) /\ {"fault"} \in SUBSET {"fault"}
            BY <1>2, <2>2 DEF Checked
        <3> QED BY <2>2, <3>1
    <2>3. CASE f # Now.base /\ f # Unreadable
        <3>1. Settled(TRUE, {}) /\ {} \in SUBSET {"fault"}
            BY <1>2, <2>3 DEF Checked
        <3> QED BY <2>3, <3>1
    <2> QED BY <2>1, <2>2, <2>3
<1>5. OneLess(kept, restoring') /\ spoiled' = spoiled \cup causes
    BY <1>1, <1>4, SettledIs
<1>6. restoring' \in Undoing /\ spoiled' \subseteq Causes
    BY <1>3, <1>5 DEF OneLess, Causes
<1>7. Sound'
    BY <1>1, <1>3, <1>6, RestoringTyped
<1>8. CASE kept
    BY <1>1, <1>2, <1>3, <1>4, <1>5, <1>7, <1>8
<1>9. CASE ~kept
    BY <1>1, <1>2, <1>3, <1>4, <1>5, <1>7, <1>9
<1> QED BY <1>8, <1>9

(* A restoration goes on with, or begins by, the oldest of some retained    *)
(* transactions.                                                            *)
Recovers(ids) ==
    \E i \in ids :
        /\ restoring' \in Undoing /\ Rolling' /\ restoring'.id = i /\ restoring'.todo = retained[i]
        /\ restoring'.keep = <<>> /\ restoring'.done = <<>>
        /\ restoring'.later = ids \ {i} /\ restoring'.step = "read"

OldestFirst(ids) ==
    restoring' = Restoration(Oldest(ids), retained[Oldest(ids)], FALSE, ids \ {Oldest(ids)})

LEMMA RecoversIs ==
    ASSUME Typed, NEW ids \in SUBSET TxId, ids # {}, OldestFirst(ids)
    PROVE  Recovers(ids)
<1> DEFINE i == Oldest(ids)
           s == retained[i]
           l == ids \ {i}
<1>1. i \in ids /\ i \in TxId
    BY OldestIs
<1>2. s \in Seq(EditRecord) /\ l \in Ids
    BY <1>1 DEF Typed, Ids
<1>3. restoring' = Restoration(i, s, FALSE, l)
    BY DEF OldestFirst
<1> HIDE DEF i, s, l
<1>4. /\ i \in TxId /\ s \in Seq(EditRecord) /\ l \in Ids /\ FALSE \in BOOLEAN
      /\ restoring' = Restoration(i, s, FALSE, l)
    BY <1>1, <1>2, <1>3
<1>5. /\ restoring' \in Undoing /\ restoring' # None /\ restoring'.id = i
      /\ restoring'.todo = s /\ restoring'.keep = <<>> /\ restoring'.done = <<>>
      /\ restoring'.step = "read" /\ restoring'.later = l
    <2>1. restoring' \in Undoing
        BY <1>4, RestorationIs
    <2>2. /\ restoring'.id = i /\ restoring'.todo = s /\ restoring'.keep = <<>>
          /\ restoring'.done = <<>> /\ restoring'.step = "read" /\ restoring'.later = l
        BY <1>4 DEF Restoration
    <2> QED BY <2>1, <2>2, NothingAssumption
<1> QED BY <1>1, <1>5 DEF Recovers, Rolling, s, l

LEMMA RecoverIs ==
    ASSUME Sound, Recover
    PROVE  /\ Sound' /\ ~Rolling /\ ~Open /\ ~Open' /\ spoiled' # {}
           /\ UNCHANGED <<begins, disk, tx, snap, op, retained, begun, undone>>
           /\ Recovers(Retained)
<1>1. /\ Retained # {} /\ ~Rolling /\ ~Open /\ spoiled' = spoiled \cup {"recovery"}
      /\ UNCHANGED <<begins, disk, tx, snap, op, retained, begun, undone>>
    BY DEF Recover
<1>2. Retained \in SUBSET TxId
    BY DEF Retained
<1>3. Recovers(Retained)
    BY <1>1, <1>2, RecoversIs DEF Recover, Sound, OldestFirst
<1>4. Typed' /\ Fenced'
    BY LifecycleTyped DEF Sound
<1>5. Called'
    BY <1>1 DEF Sound, Called
<1> QED BY <1>1, <1>3, <1>4, <1>5 DEF Sound, Open

LEMMA EndsIs ==
    ASSUME Sound, RestoreEnds
    PROVE  /\ Sound' /\ Rolling /\ restoring.todo = <<>> /\ undone'
           /\ UNCHANGED <<begins, disk, tx, snap, op, begun, spoiled>>
           /\ retained' = [retained EXCEPT ![restoring.id] = restoring.keep]
           /\ restoring.later = {} => ~Rolling'
           /\ restoring.later # {} => Recovers(restoring.later)
<1>1. /\ Rolling /\ restoring.todo = <<>> /\ undone' = TRUE
      /\ UNCHANGED <<begins, disk, tx, snap, op, begun, spoiled, ops, edits>>
      /\ retained' = [retained EXCEPT ![restoring.id] = restoring.keep]
    BY DEF RestoreEnds
<1>2. Typed /\ restoring.later \in SUBSET TxId /\ restoring.keep \in Seq(EditRecord)
    BY <1>1, RollingIs DEF Sound
<1>3. restoring.later = {} => restoring' = None
    BY DEF RestoreEnds
<1>4. ASSUME restoring.later # {} PROVE Recovers(restoring.later)
    <2> DEFINE l == restoring.later
    <2>1. restoring' = Restoration(Oldest(l), retained[Oldest(l)], FALSE, l \ {Oldest(l)})
        BY <1>4 DEF RestoreEnds
    <2> HIDE DEF l
    <2>2. l = restoring.later
        BY DEF l
    <2>3. Recovers(l)
        BY <1>2, <1>4, <2>1, <2>2, RecoversIs DEF OldestFirst
    <2> QED BY <2>2, <2>3
<1>5. restoring' \in {None} \cup Undoing
    BY <1>3, <1>4 DEF Recovers
<1>6. retained' \in [TxId -> Seq(EditRecord)]
    BY <1>1, <1>2 DEF Typed
<1>7. Typed'
    BY <1>1, <1>2, <1>5, <1>6 DEF Typed
<1>8. Fenced' /\ Called'
    BY <1>1, SameFenced DEF Sound, Called
<1> QED BY <1>1, <1>3, <1>4, <1>7, <1>8 DEF Sound, Rolling

LEMMA BeginIs ==
    ASSUME Sound, NEW i \in TxId, Begin(i)
    PROVE  /\ Sound' /\ ~Rolling /\ ~Open /\ Open' /\ tx'.id = i /\ tx'.edits = <<>>
           /\ i = begins + 1 /\ begins' = i /\ begun' = disk /\ spoiled' = {} /\ ~undone'
           /\ retained[i] = <<>>
           /\ UNCHANGED <<disk, snap, op, restoring, retained>>
<1>1. Typed' /\ Fenced' /\ Open' /\ tx'.id = i /\ tx'.edits = <<>>
    BY BeginFenced DEF Sound
<1>2. Called'
    BY DEF Begin, Sound, Called
<1> QED BY <1>1, <1>2 DEF Begin, Sound

LEMMA CommitIs ==
    ASSUME Sound, Commit
    PROVE  /\ Sound' /\ Open /\ ~Open'
           /\ UNCHANGED <<begins, disk, op, restoring, retained, begun, spoiled, undone>>
<1>1. Typed' /\ Fenced'
    BY LifecycleTyped DEF Sound
<1>2. Called'
    BY DEF Commit, Sound, Called
<1> QED BY <1>1, <1>2 DEF Commit, Sound, Open

(* The transaction is closed and its records are to be put back.            *)
Undoes ==
    /\ Open /\ ~Open' /\ ~Rolling /\ Rolling' /\ restoring' \in Undoing
    /\ restoring'.id = tx.id /\ restoring'.keep = <<>> /\ restoring'.later = {}
    /\ restoring'.step = "read" /\ restoring'.done = <<>>
    /\ restoring'.todo = Reverse(tx.edits) /\ ToSet(restoring'.todo) = ToSet(tx.edits)

LEMMA UndoesIs ==
    ASSUME Sound, Sound', NEW force \in BOOLEAN, RollbackStarts(force),
           \A t \in Tool : op'[t].at = "waiting" => op[t].at = "waiting"
    PROVE  Undoes
<1>1. Typed /\ Fenced /\ restoring' \in Undoing
    BY RollbackIs DEF Sound
<1>2. Rolling'
    BY <1>1, NothingAssumption DEF Rolling
<1> QED BY <1>1, <1>2, RollbackIs DEF Undoes

LEMMA RollsBackIs ==
    ASSUME Sound, NEW force \in BOOLEAN, Rollback(force)
    PROVE  /\ Sound' /\ Undoes
           /\ UNCHANGED <<begins, disk, op, retained, begun, spoiled, undone>>
<1>1. RollbackStarts(force) /\ UNCHANGED <<begins, disk, op, retained, begun, spoiled, undone>>
    BY DEF Rollback
<1>2. Typed' /\ Fenced'
    BY LifecycleTyped DEF Sound
<1>3. Called'
    BY <1>1 DEF Sound, Called
<1>4. Sound'
    BY <1>2, <1>3 DEF Sound
<1> QED BY <1>1, <1>4, UndoesIs

-----------------------------------------------------------------------------
(* A restoration writes only what it has read and judged, and transactions  *)
(* are apart: what is undone is closed, and ids are not used twice.         *)

Aimed ==
    Busy("write") =>
        /\ Now.base # Unreadable
        /\ restoring.force \/ Own(restoring.saw)

Apart ==
    /\ Rolling => ~Open /\ restoring.id \notin restoring.later
    /\ Open => tx.id = begins
    /\ \A t \in Tool : op[t].at # "idle" /\ op[t].tx # None => op[t].tx \in 1..begins

LEMMA NotAiming ==
    ASSUME Rolling' => restoring'.step = "read" \/ restoring'.step = "check"
    PROVE  Aimed'
BY DEF Aimed, Busy

LEMMA SameAim ==
    ASSUME Aimed, restoring' = restoring
    PROVE  Aimed'
BY DEF Aimed, Busy, Rolling, Now, Own

LEMMA ReadApart ==
    ASSUME Apart, UNCHANGED <<begins, tx, op>>, Rolling, Rolling',
           restoring'.id = restoring.id, restoring'.later = restoring.later
    PROVE  Apart'
BY DEF Apart, Rolling, Open

LEMMA UndoesApart ==
    ASSUME Apart, Undoes, UNCHANGED begins,
           \A t \in Tool : op'[t].at = "idle" \/ op'[t] = op[t]
    PROVE  Apart' /\ Aimed'
<1>1. Aimed'
    BY NotAiming DEF Undoes
<1> QED BY <1>1 DEF Apart, Undoes

LEMMA RecoversApart ==
    ASSUME Apart, NEW ids, Recovers(ids), ~Open', UNCHANGED <<begins, op>>
    PROVE  Apart' /\ Aimed'
<1>1. Aimed'
    BY NotAiming DEF Recovers
<1> QED BY <1>1 DEF Apart, Recovers

LEMMA RestoreApart ==
    ASSUME Sound, Aimed, Apart, Restores
    PROVE  Sound' /\ Aimed' /\ Apart'
<1>1. UNCHANGED <<begins, tx, op>>
    BY DEF Restores, RestoreReads, RestoreWrites, RestoreChecks, RestoreEnds
<1>2. ASSUME NEW kept \in BOOLEAN, Rolling, OneLess(kept, restoring') PROVE Aimed' /\ Apart'
    <2>1. Rolling' /\ restoring'.step = "read"
        BY <1>2 DEF OneLess, Rolling
    <2>2. restoring'.id = restoring.id /\ restoring'.later = restoring.later
        BY <1>2 DEF OneLess
    <2> QED BY <1>1, <1>2, <2>1, <2>2, NotAiming, ReadApart
<1>3. ASSUME Rolling, restoring' \in Undoing, restoring'.id = restoring.id,
             restoring'.later = restoring.later
      PROVE  Rolling' /\ Apart'
    <2>1. Rolling'
        BY <1>3, NothingAssumption DEF Rolling
    <2> QED BY <1>1, <1>3, <2>1, ReadApart
<1>4. TRUE \in BOOLEAN /\ FALSE \in BOOLEAN
    OBVIOUS
<1>5. CASE RestoreReads
    <2>1. Sound' /\ Rolling /\ Busy("read")
        BY <1>5, ReadsIs
    <2>2. CASE OneLess(FALSE, restoring')
        BY <1>2, <1>4, <2>1, <2>2
    <2>3. CASE OneLess(TRUE, restoring')
        BY <1>2, <1>4, <2>1, <2>3
    <2>4. CASE /\ restoring' \in Undoing /\ restoring'.id = restoring.id
               /\ restoring'.later = restoring.later /\ restoring'.force = restoring.force
               /\ restoring'.todo = restoring.todo
               /\ Now.base # Unreadable
               /\ restoring.force \/ Own(restoring'.saw)
        <3>1. Aimed'
            BY <2>4 DEF Aimed, Now, Own
        <3> QED BY <1>3, <2>1, <2>4, <3>1
    <2> QED BY <1>5, <2>1, <2>2, <2>3, <2>4, ReadsIs
<1>6. CASE RestoreWrites
    <2>1. Now.base # Unreadable
        BY <1>6 DEF Aimed, RestoreWrites
    <2>2. Sound' /\ Rolling
        BY <1>6, <2>1, WritesIs
    <2>3. CASE OneLess(TRUE, restoring')
        BY <1>2, <1>4, <2>2, <2>3
    <2>4. CASE /\ restoring' \in Undoing /\ restoring'.id = restoring.id
               /\ restoring'.later = restoring.later /\ restoring'.step = "check"
        BY <1>3, <2>2, <2>4, NotAiming
    <2> QED BY <1>6, <2>1, <2>2, <2>3, <2>4, WritesIs
<1>7. CASE RestoreChecks
    <2>1. Sound' /\ Rolling
        BY <1>7, ChecksIs
    <2> QED BY <1>2, <1>4, <1>7, <2>1, ChecksIs
<1>8. CASE RestoreEnds
    <2>1. Sound' /\ Rolling /\ ~Open
        BY <1>8, EndsIs DEF Apart
    <2>2. ~Open'
        BY <1>1, <2>1 DEF Open
    <2>3. CASE ~Rolling'
        BY <1>1, <2>1, <2>2, <2>3, NotAiming DEF Apart
    <2>4. CASE Recovers(restoring.later)
        BY <1>1, <2>1, <2>2, <2>4, RecoversApart
    <2> QED BY <1>8, <2>1, <2>3, <2>4, EndsIs
<1> QED BY <1>5, <1>6, <1>7, <1>8 DEF Restores

LEMMA ToolApart ==
    ASSUME Sound, Aimed, Apart,
           \/ Snapshots \/ Tools \/ \E p \in Path : PersonEdits(p)
           \/ \E t \in Tool, p \in Path, d \in Draft \cup {Absent} : ToolStarts(t, p, d)
    PROVE  Sound' /\ Aimed' /\ Apart'
<1>1. ASSUME NEW t \in Tool, NEW p \in Path, NEW d \in Draft \cup {Absent}, ToolStarts(t, p, d)
      PROVE  Sound' /\ Aimed' /\ Apart'
    <2>1. /\ Sound' /\ SameTx /\ op'[t].tx = CurrentId
          /\ \A s \in Tool \ {t} : op'[s] = op[s]
        BY <1>1, StartIs
    <2>2. UNCHANGED <<begins, restoring>>
        BY <1>1 DEF ToolStarts
    <2>3. CurrentId # None => CurrentId \in 1..begins
        <3>1. CASE Open
            <4>1. tx.id \in TxId /\ tx.id = begins
                BY <3>1, OpenIs DEF Sound, Apart
            <4> QED BY <3>1, <4>1, BudgetAssumption DEF CurrentId, TxId
        <3> QED BY <3>1 DEF CurrentId
    <2>4. Apart'
        <3>1. \A s \in Tool : op'[s].at # "idle" /\ op'[s].tx # None => op'[s].tx \in 1..begins'
            BY <2>1, <2>2, <2>3 DEF Apart
        <3> QED BY <2>1, <2>2, <3>1 DEF Apart, SameTx, Rolling
    <2> QED BY <2>1, <2>2, <2>4, SameAim
<1>2. ASSUME NEW p \in Path, CaptureOpens(p) \/ CaptureReads(p) PROVE Sound' /\ Aimed' /\ Apart'
    <2>1. Sound' /\ Open /\ UNCHANGED op
        BY <1>2, CaptureIs
    <2>2. UNCHANGED <<begins, restoring>>
        BY <1>2 DEF CaptureOpens, CaptureReads
    <2>3. Open' /\ tx'.id = tx.id
        BY <1>2, <2>1, CaptureIs DEF Captured, SameTx
    <2>4. Apart'
        BY <2>1, <2>2, <2>3 DEF Apart, Rolling
    <2> QED BY <2>1, <2>2, <2>4, SameAim
<1>3. ASSUME NEW t \in Tool, ToolTracked(t) PROVE Sound' /\ Aimed' /\ Apart'
    <2>1. /\ Sound' /\ Open /\ Open' /\ tx'.id = tx.id /\ op[t].at = "waiting"
          /\ op'[t].tx = op[t].tx /\ \A s \in Tool \ {t} : op'[s] = op[s]
        BY <1>3, TrackedIs
    <2>2. UNCHANGED <<begins, restoring>>
        BY <1>3 DEF ToolTracked
    <2>3. Apart'
        BY <2>1, <2>2 DEF Apart, Rolling
    <2> QED BY <2>1, <2>2, <2>3, SameAim
<1>4. ASSUME NEW t \in Tool, ToolWrites(t) PROVE Sound' /\ Aimed' /\ Apart'
    <2>1. /\ Sound' /\ UNCHANGED <<tx, restoring>> /\ op'[t].at = "idle"
          /\ \A s \in Tool \ {t} : op'[s] = op[s]
        BY <1>4, WriteIs
    <2>2. UNCHANGED begins
        BY <1>4 DEF ToolWrites
    <2>3. Apart'
        BY <2>1, <2>2 DEF Apart, Rolling, Open
    <2> QED BY <2>1, <2>3, SameAim
<1>5. ASSUME NEW t \in Tool, ToolFails(t) PROVE Sound' /\ Aimed' /\ Apart'
    <2>1. /\ Sound' /\ op'[t].at = "idle" /\ \A s \in Tool \ {t} : op'[s] = op[s]
          /\ UNCHANGED begins
        BY <1>5, FailIs
    <2>2. CASE RollbackStarts(FALSE)
        <3>1. Undoes
            BY <2>1, <2>2, UndoesIs
        <3> QED BY <2>1, <3>1, UndoesApart
    <2>3. CASE UNCHANGED <<tx, snap, restoring>>
        <3>1. Apart'
            BY <2>1, <2>3 DEF Apart, Rolling, Open
        <3> QED BY <2>1, <2>3, <3>1, SameAim
    <2> QED BY <1>5, <2>2, <2>3, FailIs
<1>6. ASSUME NEW p \in Path, PersonEdits(p) PROVE Sound' /\ Aimed' /\ Apart'
    <2>1. Sound' /\ UNCHANGED <<begins, tx, op, restoring>>
        BY <1>6, PersonIs
    <2>2. Apart'
        BY <2>1 DEF Apart, Rolling, Open
    <2> QED BY <2>1, <2>2, SameAim
<1> QED BY <1>1, <1>2, <1>3, <1>4, <1>5, <1>6 DEF Snapshots, Tools

LEMMA LifecycleApart ==
    ASSUME Sound, Aimed, Apart,
           \/ \E i \in TxId : Begin(i)
           \/ Commit \/ Recover
           \/ \E force \in BOOLEAN : Rollback(force)
    PROVE  Sound' /\ Aimed' /\ Apart'
<1>1. ASSUME NEW i \in TxId, Begin(i) PROVE Sound' /\ Aimed' /\ Apart'
    <2>1. /\ Sound' /\ ~Rolling /\ Open' /\ tx'.id = i /\ i = begins + 1 /\ begins' = i
          /\ UNCHANGED <<op, restoring>>
        BY <1>1, BeginIs
    <2>2. 1..begins \subseteq 1..begins'
        <3>1. begins \in Nat
            BY BudgetAssumption DEF Sound, Typed
        <3> QED BY <2>1, <3>1
    <2>3. Apart'
        BY <2>1, <2>2 DEF Apart, Rolling
    <2> QED BY <2>1, <2>3, SameAim
<1>2. CASE Commit
    <2>1. Sound' /\ Open /\ ~Open' /\ UNCHANGED <<begins, op, restoring>>
        BY <1>2, CommitIs
    <2>2. Apart'
        BY <2>1 DEF Apart, Rolling
    <2> QED BY <2>1, <2>2, SameAim
<1>3. CASE Recover
    <2>1. Sound' /\ ~Open' /\ UNCHANGED <<begins, op>> /\ Recovers(Retained)
        BY <1>3, RecoverIs
    <2> QED BY <2>1, RecoversApart
<1>4. ASSUME NEW force \in BOOLEAN, Rollback(force) PROVE Sound' /\ Aimed' /\ Apart'
    <2>1. Sound' /\ Undoes /\ UNCHANGED <<begins, op>>
        BY <1>4, RollsBackIs
    <2> QED BY <2>1, UndoesApart
<1> QED BY <1>1, <1>2, <1>3, <1>4

LEMMA StepApart ==
    ASSUME Sound, Aimed, Apart, [Next]_vars
    PROVE  Sound' /\ Aimed' /\ Apart'
<1>1. CASE UNCHANGED vars
    <2>1. Typed' /\ Fenced' /\ Called'
        BY <1>1 DEF vars, Sound, Typed, Fenced, Called, Open, Waiting, Capturing
    <2>2. Apart'
        BY <1>1 DEF vars, Apart, Rolling, Open
    <2> QED BY <1>1, <2>1, <2>2, SameAim DEF Sound, vars
<1>2. CASE Next
    BY <1>2, LifecycleApart, ToolApart, RestoreApart DEF Next
<1> QED BY <1>1, <1>2

LEMMA StartApart ==
    ASSUME Init
    PROVE  Sound /\ Aimed /\ Apart
<1>1. /\ tx = None /\ restoring = None /\ op = [t \in Tool |-> NoOp]
      /\ snap = [p \in Path |-> NoSnapshot]
    BY DEF Init
<1>2. NoOp \in Ops /\ NoOp.at = "idle" /\ NoSnapshot \in Snaps /\ NoSnapshot.at = "none"
    BY DEF NoOp, NoSnapshot, Ops, Snaps
<1>3. \A t \in Tool : op[t].at = "idle"
    BY <1>1, <1>2
<1>4. disk \in [Path -> OnDisk]
    <2>1. [text |-> "old", mode |-> "default"] \in OnDisk /\ Absent \in OnDisk
        BY DEF OnDisk, File, Text, Mode
    <2> QED BY <2>1 DEF Init
<1>5. retained \in [TxId -> Seq(EditRecord)]
    <2>1. <<>> \in Seq(EditRecord)
        BY EmptySeq
    <2> QED BY <2>1 DEF Init
<1>6. /\ 0 \in 0..MaxTx /\ 0 \in 0..MaxOps /\ 0 \in 0..MaxEdits
    BY BudgetAssumption
<1>7. begins \in 0..MaxTx /\ ops \in 0..MaxOps /\ edits \in 0..MaxEdits
      /\ begun \in [Path -> OnDisk] /\ undone \in BOOLEAN /\ spoiled \subseteq Causes
    BY <1>4, <1>6 DEF Init
<1>8. Typed
    BY <1>1, <1>2, <1>4, <1>5, <1>7 DEF Typed
<1>9. Fenced
    BY <1>1, <1>2, <1>3 DEF Fenced, Open, Waiting
<1>10. Called /\ Apart /\ Aimed
    BY <1>1, <1>3 DEF Called, Apart, Aimed, Open, Rolling, Busy
<1> QED BY <1>8, <1>9, <1>10 DEF Sound

LEMMA SoundAlways == Spec => [](Sound /\ Aimed /\ Apart)
BY StartApart, StepApart, PTL DEF Spec

(* No transaction closes while a tool waits for a capture of it: begin(),   *)
(* commit() and rollbackDetailed() all test pendingSnapshots, and every     *)
(* caller of trackEdit() and every capture counts one there, so that none   *)
(* declares its write to a transaction that is already gone.                *)
THEOREM NobodyLeftBehind == Spec => []CallersFenced
<1>1. Sound => CallersFenced
    BY DEF Sound, Fenced, CallersFenced, Waiting
<1> QED BY <1>1, SoundAlways, PTL

-----------------------------------------------------------------------------
(* A restoration takes for its own only what the transaction declared.      *)

DraftsOnly(s) == \A r \in ToSet(s) : r.expected \subseteq Draft \cup {Absent}

Drafted ==
    /\ Open => DraftsOnly(tx.edits)
    /\ Rolling => DraftsOnly(restoring.todo) /\ DraftsOnly(restoring.keep)
    /\ \A i \in TxId : DraftsOnly(retained[i])

LEMMA NoDrafts == DraftsOnly(<<>>)
BY EmptyHas DEF DraftsOnly

LEMMA RecoversDrafted ==
    ASSUME Drafted, NEW ids, ids \subseteq TxId, Recovers(ids), ~Open', DraftsOnly(<<>>),
           \A i \in TxId : DraftsOnly(retained'[i])
    PROVE  Drafted'
<1>1. PICK i \in ids : restoring'.todo = retained[i] /\ restoring'.keep = <<>>
    BY DEF Recovers
<1> QED BY <1>1 DEF Drafted, DraftsOnly

LEMMA OneLessDrafted ==
    ASSUME Sound, Drafted, NEW step, Busy(step), NEW kept \in BOOLEAN, OneLess(kept, restoring')
    PROVE  DraftsOnly(restoring'.todo) /\ DraftsOnly(restoring'.keep)
<1>1. /\ Rolling /\ Now \in EditRecord
      /\ ToSet(restoring.todo) = {Now} \cup ToSet(Tail(restoring.todo))
    BY BusyIs DEF Sound
<1>2. restoring.keep \in Seq(EditRecord)
    BY <1>1, RollingIs DEF Sound
<1>3. ToSet(Append(restoring.keep, Now)) = ToSet(restoring.keep) \cup {Now}
    BY <1>1, <1>2, AppendHas
<1>4. restoring'.todo = Tail(restoring.todo)
      /\ (restoring'.keep = Append(restoring.keep, Now) \/ restoring'.keep = restoring.keep)
    BY DEF OneLess
<1>5. DraftsOnly(restoring.todo) /\ DraftsOnly(restoring.keep)
    BY <1>1 DEF Drafted
<1> QED BY <1>1, <1>3, <1>4, <1>5 DEF DraftsOnly

LEMMA RestoreDrafted ==
    ASSUME Sound, Aimed, Apart, Drafted, Restores
    PROVE  Drafted'
<1>1. UNCHANGED <<tx, op>> /\ Rolling /\ ~Open
    BY DEF Restores, RestoreReads, RestoreWrites, RestoreChecks, RestoreEnds, Busy, Apart
<1>2. ASSUME UNCHANGED retained,
             DraftsOnly(restoring'.todo) /\ DraftsOnly(restoring'.keep)
      PROVE  Drafted'
    BY <1>1, <1>2 DEF Drafted, Open
<1>3. ASSUME restoring'.todo = restoring.todo, restoring'.keep = restoring.keep
      PROVE  DraftsOnly(restoring'.todo) /\ DraftsOnly(restoring'.keep)
    BY <1>1, <1>3 DEF Drafted
<1>4. TRUE \in BOOLEAN /\ FALSE \in BOOLEAN
    OBVIOUS
<1>5. CASE RestoreReads
    <2>1. UNCHANGED retained /\ Busy("read")
        BY <1>5 DEF RestoreReads
    <2>2. CASE OneLess(FALSE, restoring') \/ OneLess(TRUE, restoring')
        BY <1>2, <1>4, <2>1, <2>2, OneLessDrafted
    <2>3. CASE restoring'.todo = restoring.todo /\ restoring'.keep = restoring.keep
        BY <1>2, <1>3, <2>1, <2>3
    <2> QED BY <1>5, <2>2, <2>3, ReadsIs
<1>6. CASE RestoreWrites
    <2>1. UNCHANGED retained /\ Busy("write") /\ Now.base # Unreadable
        BY <1>6 DEF RestoreWrites, Aimed
    <2>2. CASE OneLess(TRUE, restoring')
        BY <1>2, <1>4, <2>1, <2>2, OneLessDrafted
    <2>3. CASE restoring'.todo = restoring.todo /\ restoring'.keep = restoring.keep
        BY <1>2, <1>3, <2>1, <2>3
    <2> QED BY <1>6, <2>1, <2>2, <2>3, WritesIs
<1>7. CASE RestoreChecks
    <2>1. UNCHANGED retained /\ Busy("check")
        BY <1>7 DEF RestoreChecks
    <2>2. OneLess(FALSE, restoring') \/ OneLess(TRUE, restoring')
        BY <1>7, ChecksIs
    <2> QED BY <1>2, <1>4, <2>1, <2>2, OneLessDrafted
<1>8. CASE RestoreEnds
    <2>1. /\ retained' = [retained EXCEPT ![restoring.id] = restoring.keep]
          /\ restoring.later = {} => ~Rolling'
          /\ restoring.later # {} => Recovers(restoring.later)
        BY <1>8, EndsIs
    <2>2. restoring.later \subseteq TxId /\ DraftsOnly(restoring.keep)
        BY <1>1, RollingIs DEF Sound, Drafted
    <2>3. \A i \in TxId : DraftsOnly(retained'[i])
        <3> TAKE i \in TxId
        <3>1. retained'[i] = restoring.keep \/ retained'[i] = retained[i]
            BY <2>1 DEF Sound, Typed
        <3> QED BY <2>2, <3>1 DEF Drafted
    <2>4. ~Open'
        BY <1>1 DEF Open
    <2>5. CASE ~Rolling'
        BY <2>3, <2>4, <2>5 DEF Drafted
    <2>6. CASE Recovers(restoring.later)
        BY <2>2, <2>3, <2>4, <2>6, NoDrafts, RecoversDrafted
    <2> QED BY <2>1, <2>5, <2>6
<1> QED BY <1>5, <1>6, <1>7, <1>8 DEF Restores

LEMMA ToolDrafted ==
    ASSUME Sound, Aimed, Apart, Drafted,
           \/ Snapshots \/ Tools \/ \E p \in Path : PersonEdits(p)
           \/ \E t \in Tool, p \in Path, d \in Draft \cup {Absent} : ToolStarts(t, p, d)
    PROVE  Drafted'
<1>1. ASSUME UNCHANGED <<restoring, retained>>, Open' => DraftsOnly(tx'.edits)
      PROVE  Drafted'
    BY <1>1 DEF Drafted, Rolling
<1>2. ASSUME NEW t \in Tool, NEW p \in Path, NEW d \in Draft \cup {Absent}, ToolStarts(t, p, d)
      PROVE  Drafted'
    <2>1. UNCHANGED <<restoring, retained>> /\ SameTx
        BY <1>2, StartIs DEF ToolStarts
    <2> QED BY <1>1, <2>1 DEF SameTx, Drafted
<1>3. ASSUME NEW p \in Path, CaptureOpens(p) \/ CaptureReads(p) PROVE Drafted'
    <2>1. UNCHANGED <<restoring, retained>>
        BY <1>3 DEF CaptureOpens, CaptureReads
    <2>2. CASE SameTx
        BY <1>1, <2>1, <2>2 DEF SameTx, Drafted
    <2>3. ASSUME NEW base \in Baseline, Captured(p, base) PROVE Drafted'
        <3>1. /\ Open
              /\ ToSet(tx'.edits) = ToSet(tx.edits) \cup {FiledRecord(p, base)}
            BY <2>3 DEF Captured
        <3>2. FiledRecord(p, base).expected = {}
            BY DEF FiledRecord
        <3>3. DraftsOnly(tx'.edits)
            BY <3>1, <3>2 DEF Drafted, DraftsOnly
        <3> QED BY <1>1, <2>1, <3>3
    <2> QED BY <1>3, <2>2, <2>3, CaptureIs
<1>4. ASSUME NEW t \in Tool, ToolTracked(t) PROVE Drafted'
    <2>1. /\ Open /\ ToSet(tx'.edits) = {Declared(t, r) : r \in ToSet(tx.edits)}
          /\ tx.edits \in Seq(EditRecord) /\ op[t].at # "idle"
        BY <1>4, TrackedIs
    <2>2. \A r \in EditRecord : Declared(t, r).expected \subseteq r.expected \cup {op[t].draft}
        BY DEF Declared, EditRecord
    <2>3. ToSet(tx.edits) \subseteq EditRecord
        BY <2>1, SeqHas
    <2>4. op[t].draft \in Draft \cup {Absent}
        BY <2>1 DEF Sound, Called
    <2>5. DraftsOnly(tx.edits)
        BY <2>1 DEF Drafted
    <2>6. DraftsOnly(tx'.edits)
        <3> SUFFICES ASSUME NEW e \in ToSet(tx'.edits)
                     PROVE  e.expected \subseteq Draft \cup {Absent}
            BY DEF DraftsOnly
        <3>1. PICK r \in ToSet(tx.edits) : e = Declared(t, r)
            BY <2>1
        <3>2. r.expected \subseteq Draft \cup {Absent} /\ r \in EditRecord
            BY <2>3, <2>5 DEF DraftsOnly
        <3>3. e.expected \subseteq r.expected \cup {op[t].draft}
            BY <2>2, <3>1, <3>2
        <3> QED BY <2>4, <3>2, <3>3
    <2>7. UNCHANGED <<restoring, retained>>
        BY <1>4 DEF ToolTracked
    <2> QED BY <1>1, <2>6, <2>7
<1>5. ASSUME NEW t \in Tool, ToolWrites(t) PROVE Drafted'
    <2>1. UNCHANGED <<tx, restoring, retained>>
        BY <1>5 DEF ToolWrites
    <2> QED BY <1>1, <2>1 DEF Drafted, Open
<1>6. ASSUME NEW p \in Path, PersonEdits(p) PROVE Drafted'
    <2>1. UNCHANGED <<tx, restoring, retained>>
        BY <1>6 DEF PersonEdits
    <2> QED BY <1>1, <2>1 DEF Drafted, Open
<1>7. ASSUME Undoes, UNCHANGED retained PROVE Drafted'
    BY <1>7, NoDrafts DEF Undoes, Drafted, DraftsOnly
<1>8. ASSUME NEW t \in Tool, ToolFails(t) PROVE Drafted'
    <2>1. /\ Sound' /\ op'[t].at = "idle" /\ \A s \in Tool \ {t} : op'[s] = op[s]
          /\ UNCHANGED retained
        BY <1>8, FailIs
    <2>2. CASE RollbackStarts(FALSE)
        <3>1. Undoes
            BY <2>1, <2>2, UndoesIs
        <3> QED BY <1>7, <2>1, <3>1
    <2>3. CASE UNCHANGED <<tx, snap, restoring>>
        BY <1>1, <2>1, <2>3 DEF Drafted, Open
    <2> QED BY <1>8, <2>2, <2>3, FailIs
<1> QED BY <1>2, <1>3, <1>4, <1>5, <1>6, <1>8 DEF Snapshots, Tools

LEMMA LifecycleDrafted ==
    ASSUME Sound, Aimed, Apart, Drafted,
           \/ \E i \in TxId : Begin(i)
           \/ Commit \/ Recover
           \/ \E force \in BOOLEAN : Rollback(force)
    PROVE  Drafted'
<1>1. ASSUME NEW i \in TxId, Begin(i) PROVE Drafted'
    BY <1>1, BeginIs, NoDrafts DEF Drafted, Rolling
<1>2. CASE Commit
    BY <1>2, CommitIs DEF Drafted, Rolling
<1>3. CASE Recover
    <2>1. ~Open' /\ UNCHANGED retained /\ Recovers(Retained) /\ Retained \subseteq TxId
        BY <1>3, RecoverIs DEF Retained
    <2>2. \A i \in TxId : DraftsOnly(retained'[i])
        BY <2>1 DEF Drafted
    <2> QED BY <2>1, <2>2, NoDrafts, RecoversDrafted
<1>4. ASSUME NEW force \in BOOLEAN, Rollback(force) PROVE Drafted'
    <2>1. Undoes /\ UNCHANGED retained
        BY <1>4, RollsBackIs
    <2> QED BY <2>1, NoDrafts DEF Undoes, Drafted, DraftsOnly
<1> QED BY <1>1, <1>2, <1>3, <1>4

LEMMA StepDrafted ==
    ASSUME Sound, Aimed, Apart, Drafted, [Next]_vars
    PROVE  Drafted'
<1>1. CASE UNCHANGED vars
    BY <1>1 DEF vars, Drafted, Rolling, Open
<1>2. CASE Next
    BY <1>2, LifecycleDrafted, ToolDrafted, RestoreDrafted DEF Next
<1> QED BY <1>1, <1>2

LEMMA DraftedAlways == Spec => []Drafted
<1>1. Init => Drafted
    BY NoDrafts DEF Init, Drafted, Open, Rolling
<1> QED BY <1>1, StepDrafted, SoundAlways, PTL DEF Spec

(* restoreOne() without force: what it is about to replace is a text the    *)
(* transaction declared through trackEdit(), with the permissions the file  *)
(* had; so neither what the person wrote nor a file whose permissions were  *)
(* changed is overwritten, unless that came after the last look at it.      *)
THEOREM ForeignSpared == Spec => ForeignKept
<1>1. ASSUME Sound, Aimed, Drafted, Busy("write"), ~restoring.force,
             disk[Now.path] = restoring.saw
      PROVE  contentToken(disk[Now.path]) # "human" /\ SameMode(disk[Now.path], Now.base)
    <2>1. Own(disk[Now.path])
        BY <1>1 DEF Aimed
    <2>2. Rolling /\ Now \in ToSet(restoring.todo)
        BY <1>1, BusyIs DEF Sound
    <2>3. Now.expected \subseteq Draft \cup {Absent}
        BY <1>1, <2>2 DEF Drafted, DraftsOnly
    <2>4. "human" \notin Draft \cup {Absent}
        BY PathsAssumption
    <2> QED BY <2>1, <2>3, <2>4 DEF Own
<1>2. Sound /\ Aimed /\ Drafted =>
        ((Busy("write") /\ ~restoring.force /\ disk[Now.path] = restoring.saw
          /\ disk' # disk /\ restoring' # restoring)
         => ~\/ contentToken(disk[Now.path]) = "human"
             \/ ~SameMode(disk[Now.path], Now.base))
    BY <1>1
<1> QED BY <1>2, SoundAlways, DraftedAlways, PTL DEF ForeignKept

-----------------------------------------------------------------------------
(* The records of a transaction are in one place: while it is open, while   *)
(* it is undone, or retained.                                               *)

Mine(i) == Open /\ tx.id = i
Under(i) == Rolling /\ restoring.id = i

Placed(i) ==
    /\ Mine(i) => CurrentId = i /\ ToSet(Records(i)) = ToSet(tx.edits)
    /\ ~Mine(i) => CurrentId # i
    /\ Under(i) => ToSet(Records(i)) = ToSet(restoring.todo) \cup ToSet(restoring.keep)
    /\ ~Mine(i) /\ ~Under(i) => ToSet(Records(i)) = ToSet(retained[i])

LEMMA PlacedNow == Sound /\ Apart => \A i \in TxId : Placed(i)
<1> SUFFICES ASSUME Sound, Apart, NEW i \in TxId
             PROVE  Placed(i)
    OBVIOUS
<1>1. i # None
    BY PathsAssumption DEF TxId
<1>2. CurrentId = i <=> Mine(i)
    BY <1>1 DEF CurrentId, Mine
<1>3. CASE Mine(i)
    <2>1. Records(i) = tx.edits /\ ~Under(i)
        BY <1>2, <1>3 DEF Mine, Under, Records, Sound, Apart
    <2> QED BY <1>2, <1>3, <2>1 DEF Placed
<1>4. CASE ~Mine(i) /\ Under(i)
    <2>1. /\ Records(i) = restoring.todo \o restoring.keep
          /\ restoring.todo \in Seq(EditRecord) /\ restoring.keep \in Seq(EditRecord)
        BY <1>2, <1>4, RollingIs DEF Under, Records, Sound
    <2>2. ToSet(Records(i)) = ToSet(restoring.todo) \cup ToSet(restoring.keep)
        BY <2>1, ConcatHas
    <2> QED BY <1>2, <1>4, <2>2 DEF Placed
<1>5. CASE ~Mine(i) /\ ~Under(i)
    <2>1. Records(i) = retained[i]
        BY <1>2, <1>5 DEF Under, Records
    <2> QED BY <1>2, <1>5, <2>1 DEF Placed
<1> QED BY <1>3, <1>4, <1>5

LEMMA PlacedNext == (Sound /\ Apart)' => \A i \in TxId : Placed(i)'
<1>1. (Sound /\ Apart)' => (\A i \in TxId : Placed(i))'
    BY PlacedNow, PTL
<1> QED BY <1>1

(* What a step that restores nothing does with the records.                 *)
Quiet ==
    /\ UNCHANGED <<restoring, retained>>
    /\ Open' => Open /\ tx'.id = tx.id

Moves ==
    \/ Quiet
    \/ /\ \E i \in TxId : ~Open /\ Open' /\ tx'.id = i /\ retained[i] = <<>>
       /\ ~Rolling /\ UNCHANGED <<restoring, retained>>
    \/ Undoes /\ UNCHANGED retained
    \/ ~Open /\ ~Open' /\ ~Rolling /\ Recovers(Retained) /\ UNCHANGED retained

LEMMA MovesIs ==
    ASSUME Sound, Apart, [Next]_vars, ~Restores
    PROVE  Moves
<1>1. ASSUME NEW i \in TxId, Begin(i) PROVE Moves
    BY <1>1, BeginIs DEF Moves
<1>2. CASE Commit
    BY <1>2, CommitIs DEF Moves, Quiet
<1>3. CASE Recover
    BY <1>3, RecoverIs DEF Moves
<1>4. ASSUME NEW force \in BOOLEAN, Rollback(force) PROVE Moves
    BY <1>4, RollsBackIs DEF Moves
<1>5. ASSUME NEW t \in Tool, NEW p \in Path, NEW d \in Draft \cup {Absent}, ToolStarts(t, p, d)
      PROVE  Moves
    <2>1. UNCHANGED <<restoring, retained>> /\ SameTx
        BY <1>5, StartIs DEF ToolStarts
    <2> QED BY <2>1 DEF Moves, Quiet, SameTx
<1>6. ASSUME NEW p \in Path, CaptureOpens(p) \/ CaptureReads(p) PROVE Moves
    <2>1. UNCHANGED <<restoring, retained>>
        BY <1>6 DEF CaptureOpens, CaptureReads
    <2>2. Open /\ tx'.id = tx.id
        BY <1>6, CaptureIs DEF SameTx, Captured
    <2> QED BY <2>1, <2>2 DEF Moves, Quiet
<1>7. ASSUME NEW t \in Tool, ToolTracked(t) PROVE Moves
    <2>1. UNCHANGED <<restoring, retained>>
        BY <1>7 DEF ToolTracked
    <2> QED BY <1>7, <2>1, TrackedIs DEF Moves, Quiet
<1>8. ASSUME UNCHANGED <<tx, restoring, retained>> PROVE Moves
    BY <1>8 DEF Moves, Quiet, Open
<1>9. ASSUME NEW t \in Tool, ToolFails(t) PROVE Moves
    <2>1. /\ Sound' /\ op'[t].at = "idle" /\ \A s \in Tool \ {t} : op'[s] = op[s]
          /\ UNCHANGED retained
        BY <1>9, FailIs
    <2>2. CASE RollbackStarts(FALSE)
        <3>1. Undoes
            BY <2>1, <2>2, UndoesIs
        <3> QED BY <2>1, <3>1 DEF Moves
    <2>3. CASE UNCHANGED <<tx, snap, restoring>>
        BY <1>8, <2>1, <2>3
    <2> QED BY <1>9, <2>2, <2>3, FailIs
<1>10. ASSUME NEW t \in Tool, ToolWrites(t) PROVE Moves
    BY <1>8, <1>10 DEF ToolWrites
<1>11. ASSUME NEW p \in Path, PersonEdits(p) PROVE Moves
    BY <1>8, <1>11 DEF PersonEdits
<1>12. CASE UNCHANGED vars
    BY <1>8, <1>12 DEF vars
<1> QED BY <1>1, <1>2, <1>3, <1>4, <1>5, <1>6, <1>7, <1>9, <1>10, <1>11, <1>12
       DEF Next, Snapshots, Tools

(* What becomes of a record.                                                *)
Survives(i, r) ==
    \/ r.base = Unreadable \/ disk[r.path] = r.base
    \/ CurrentId = i /\ ~Rolling'
    \/ \E q \in ToSet(Records(i)') : q.path = r.path /\ q.base = r.base

LEMMA MovesKeep ==
    ASSUME Sound, Apart, Sound', Apart', Moves, NEW i \in TxId, NEW r \in ToSet(Records(i))
    PROVE  Survives(i, r)
<1>1. Placed(i) /\ Placed(i)'
    BY PlacedNow, PlacedNext
<1>2. ASSUME ToSet(Records(i)) \subseteq ToSet(Records(i)') PROVE Survives(i, r)
    BY <1>2 DEF Survives
<1>3. CASE Quiet
    <2>1. CASE Mine(i)
        BY <1>1, <1>3, <2>1 DEF Placed, Mine, Survives, Quiet, Rolling, Apart
    <2>2. CASE ~Mine(i) /\ Under(i)
        <3>1. Under(i)' /\ restoring' = restoring
            BY <1>3, <2>2 DEF Quiet, Under, Rolling
        <3> QED BY <1>1, <1>2, <2>2, <3>1 DEF Placed
    <2>3. CASE ~Mine(i) /\ ~Under(i)
        <3>1. ~Mine(i)' /\ ~Under(i)' /\ retained' = retained
            BY <1>3, <2>3 DEF Quiet, Under, Rolling, Mine
        <3> QED BY <1>1, <1>2, <2>3, <3>1 DEF Placed
    <2> QED BY <2>1, <2>2, <2>3
<1>4. ASSUME NEW j \in TxId, ~Open, Open', tx'.id = j, retained[j] = <<>>, ~Rolling,
             UNCHANGED <<restoring, retained>>
      PROVE  Survives(i, r)
    <2>1. ~Mine(i) /\ ~Under(i) /\ ~Under(i)' /\ ToSet(Records(i)) = ToSet(retained[i])
        BY <1>1, <1>4 DEF Mine, Under, Rolling, Placed
    <2>2. i # j
        BY <1>4, <2>1, EmptyHas
    <2>3. ~Mine(i)'
        BY <1>4, <2>2 DEF Mine
    <2> QED BY <1>1, <1>2, <1>4, <2>1, <2>3 DEF Placed
<1>5. CASE Undoes /\ UNCHANGED retained
    <2>1. CASE Mine(i)
        <3>1. Under(i)' /\ ToSet(restoring'.todo) = ToSet(tx.edits)
            BY <1>5, <2>1 DEF Undoes, Mine, Under
        <3> QED BY <1>1, <1>2, <2>1, <3>1 DEF Placed
    <2>2. CASE ~Mine(i)
        <3>1. ~Under(i) /\ ~Under(i)' /\ ~Mine(i)'
            BY <1>5, <2>2 DEF Undoes, Mine, Under
        <3> QED BY <1>1, <1>2, <1>5, <2>2, <3>1 DEF Placed
    <2> QED BY <2>1, <2>2
<1>6. CASE ~Open /\ ~Open' /\ ~Rolling /\ Recovers(Retained) /\ UNCHANGED retained
    <2>1. ~Mine(i) /\ ~Mine(i)' /\ ~Under(i)
        BY <1>6 DEF Mine, Under
    <2>2. Under(i)' => restoring'.todo = retained[i]
        BY <1>6 DEF Recovers, Under
    <2> QED BY <1>1, <1>2, <1>6, <2>1, <2>2 DEF Placed
<1> QED BY <1>3, <1>4, <1>5, <1>6 DEF Moves

LEMMA RestoresKeep ==
    ASSUME Sound, Aimed, Apart, Sound', Apart', Restores,
           NEW i \in TxId, NEW r \in ToSet(Records(i))
    PROVE  Survives(i, r)
<1>1. Placed(i) /\ Placed(i)'
    BY PlacedNow, PlacedNext
<1>2. ASSUME ToSet(Records(i)) \subseteq ToSet(Records(i)') PROVE Survives(i, r)
    BY <1>2 DEF Survives
<1>3. UNCHANGED tx /\ Rolling /\ ~Open
    BY DEF Restores, RestoreReads, RestoreWrites, RestoreChecks, RestoreEnds, Busy, Apart
<1>4. ~Mine(i) /\ ~Mine(i)'
    BY <1>3 DEF Mine, Open
<1>5. CASE ~Under(i) /\ ~RestoreEnds
    <2>1. UNCHANGED retained /\ ~RestoreEnds
        BY <1>5 DEF Restores, RestoreReads, RestoreWrites, RestoreChecks
    <2>2. restoring'.id = restoring.id
        <3>1. CASE RestoreReads
            BY <3>1, ReadsIs DEF OneLess
        <3>2. CASE RestoreWrites
            <4>1. Now.base # Unreadable
                BY <3>2 DEF Aimed, RestoreWrites
            <4> QED BY <3>2, <4>1, WritesIs DEF OneLess
        <3>3. CASE RestoreChecks
            BY <3>3, ChecksIs DEF OneLess
        <3> QED BY <2>1, <3>1, <3>2, <3>3 DEF Restores
    <2>3. ~Under(i)'
        BY <1>3, <1>5, <2>2 DEF Under
    <2> QED BY <1>1, <1>2, <1>4, <1>5, <2>1, <2>3 DEF Placed
<1>6. CASE Under(i) /\ ~RestoreEnds
    <2>1. r \in ToSet(restoring.todo) \cup ToSet(restoring.keep)
        BY <1>1, <1>6 DEF Placed
    <2>2. ASSUME Rolling', restoring'.id = restoring.id, restoring'.todo = restoring.todo,
                 restoring'.keep = restoring.keep
          PROVE  Survives(i, r)
        <3>1. Under(i)'
            BY <1>6, <2>2 DEF Under
        <3> QED BY <1>1, <1>2, <1>6, <2>2, <3>1 DEF Placed
    <2>3. ASSUME restoring' \in Undoing PROVE Rolling'
        BY <2>3, NothingAssumption DEF Rolling
    <2>4. ASSUME NEW step, Busy(step), OneLess(TRUE, restoring') PROVE Survives(i, r)
        <3>1. Under(i)'
            BY <1>6, <2>4 DEF OneLess, Under, Rolling
        <3>2. /\ Now \in EditRecord
              /\ ToSet(restoring.todo) = {Now} \cup ToSet(Tail(restoring.todo))
            BY <2>4, BusyIs DEF Sound
        <3>3. restoring.keep \in Seq(EditRecord)
            BY <1>3, RollingIs DEF Sound
        <3>4. ToSet(Append(restoring.keep, Now)) = ToSet(restoring.keep) \cup {Now}
            BY <3>2, <3>3, AppendHas
        <3>5. restoring'.todo = Tail(restoring.todo) /\ restoring'.keep = Append(restoring.keep, Now)
            BY <2>4 DEF OneLess
        <3> QED BY <1>1, <1>2, <1>6, <3>1, <3>2, <3>4, <3>5 DEF Placed
    <2>5. ASSUME NEW step, Busy(step), OneLess(FALSE, restoring'),
                 Now.base = Unreadable \/ Now.base = disk[Now.path]
          PROVE  Survives(i, r)
        <3>1. Under(i)'
            BY <1>6, <2>5 DEF OneLess, Under, Rolling
        <3>2. ToSet(restoring.todo) = {Now} \cup ToSet(Tail(restoring.todo))
            BY <2>5, BusyIs DEF Sound
        <3>3. restoring'.todo = Tail(restoring.todo) /\ restoring'.keep = restoring.keep
            BY <2>5 DEF OneLess
        <3>4. CASE r = Now
            BY <2>5, <3>4 DEF Survives
        <3>5. CASE r # Now
            <4>1. r \in ToSet(Records(i)')
                BY <1>1, <2>1, <3>1, <3>2, <3>3, <3>5 DEF Placed
            <4> QED BY <4>1 DEF Survives
        <3> QED BY <3>4, <3>5
    <2>6. CASE RestoreReads
        BY <2>2, <2>3, <2>4, <2>5, <2>6, ReadsIs
    <2>7. CASE RestoreWrites
        <3>1. Now.base # Unreadable
            BY <2>7 DEF Aimed, RestoreWrites
        <3> QED BY <2>2, <2>3, <2>4, <2>7, <3>1, WritesIs
    <2>8. CASE RestoreChecks
        BY <2>4, <2>5, <2>8, ChecksIs
    <2> QED BY <1>6, <2>6, <2>7, <2>8 DEF Restores
<1>7. CASE RestoreEnds
    <2>1. /\ restoring.todo = <<>> /\ restoring.id \notin restoring.later
          /\ retained' = [retained EXCEPT ![restoring.id] = restoring.keep]
          /\ restoring.later = {} => ~Rolling'
          /\ restoring.later # {} => Recovers(restoring.later)
        BY <1>3, <1>7, EndsIs DEF Apart
    <2>2. CASE Under(i)
        <3>1. ~Under(i)'
            BY <2>1, <2>2 DEF Under, Recovers
        <3>2. retained'[i] = restoring.keep
            BY <2>1, <2>2 DEF Sound, Typed, Under
        <3>3. ToSet(Records(i)) = ToSet(restoring.keep)
            BY <1>1, <2>1, <2>2, EmptyHas DEF Placed
        <3> QED BY <1>1, <1>2, <1>4, <3>1, <3>2, <3>3 DEF Placed
    <2>3. CASE ~Under(i)
        <3>1. retained'[i] = retained[i]
            BY <1>3, <2>1, <2>3 DEF Sound, Typed, Under
        <3>2. Under(i)' => restoring'.todo = retained[i]
            BY <2>1 DEF Under, Recovers
        <3>3. ToSet(Records(i)) = ToSet(retained[i])
            BY <1>1, <1>4, <2>3 DEF Placed
        <3> QED BY <1>1, <1>2, <1>4, <3>1, <3>2, <3>3 DEF Placed
    <2> QED BY <2>2, <2>3
<1> QED BY <1>5, <1>6, <1>7

(* restoreTransaction() and recover(): a baseline leaves the records only   *)
(* by a commit, or when it was unreadable from the start, or when the file  *)
(* was seen to hold it; whatever fails or conflicts is retained, and what a *)
(* recovery could not settle stays for the next.                            *)
THEOREM BaselinesKept == Spec => NothingForgotten
<1>1. ASSUME Sound, Aimed, Apart, Sound', Apart', [Next]_vars,
             NEW i \in TxId, NEW k \in DOMAIN Records(i)
      PROVE  LET r == Records(i)[k]
             IN r.base = Unreadable \/ disk[r.path] = r.base
                \/ (CurrentId = i /\ ~Rolling')
                \/ \E j \in DOMAIN Records(i)' :
                     Records(i)'[j].path = r.path /\ Records(i)'[j].base = r.base
    <2> DEFINE r == Records(i)[k]
    <2>1. r \in ToSet(Records(i))
        BY <1>1 DEF ToSet
    <2> HIDE DEF r
    <2>2. Survives(i, r)
        <3>1. CASE Restores
            BY <1>1, <2>1, <3>1, RestoresKeep
        <3>2. CASE ~Restores
            <4>1. Moves
                BY <1>1, <3>2, MovesIs
            <4> QED BY <1>1, <2>1, <4>1, MovesKeep
        <3> QED BY <3>1, <3>2
    <2>3. ASSUME NEW q \in ToSet(Records(i)') PROVE \E j \in DOMAIN Records(i)' : Records(i)'[j] = q
        BY <2>3 DEF ToSet
    <2>4. \/ r.base = Unreadable \/ disk[r.path] = r.base
          \/ CurrentId = i /\ ~Rolling'
          \/ \E j \in DOMAIN Records(i)' :
               Records(i)'[j].path = r.path /\ Records(i)'[j].base = r.base
        BY <2>2, <2>3 DEF Survives
    <2> QED BY <2>4 DEF r
<1> DEFINE Kept ==
        \A i \in TxId : \A k \in DOMAIN Records(i) :
            LET r == Records(i)[k]
            IN r.base = Unreadable \/ disk[r.path] = r.base
               \/ (CurrentId = i /\ ~Rolling')
               \/ \E j \in DOMAIN Records(i)' :
                    Records(i)'[j].path = r.path /\ Records(i)'[j].base = r.base
<1>2. Sound /\ Aimed /\ Apart /\ Sound' /\ Apart' /\ [Next]_vars => Kept
    BY <1>1
<1> HIDE DEF Kept
<1>3. Spec => [][Kept]_vars
    BY <1>2, SoundAlways, PTL DEF Spec
<1> QED BY <1>3 DEF Kept, NothingForgotten

-----------------------------------------------------------------------------
(* An open transaction has a record of every path it captured, and a tool   *)
(* that may write has declared what it is about to leave there.             *)

Tracked ==
    Open =>
        /\ \A p \in Path : snap[p].at = "done" <=> \E r \in ToSet(tx.edits) : r.path = p
        /\ \A t \in Tool : op[t].at = "ready" /\ op[t].tx = tx.id =>
              /\ snap[op[t].path].at = "done"
              /\ \A r \in ToSet(tx.edits) : r.path = op[t].path => op[t].draft \in r.expected

LEMMA ClosedTracked ==
    ASSUME ~Open'
    PROVE  Tracked'
BY DEF Tracked

LEMMA BeginTracked ==
    ASSUME Sound, Apart, NEW i \in TxId, Begin(i)
    PROVE  Tracked'
<1>1. /\ ~Open /\ tx'.id = i /\ tx'.edits = <<>> /\ i = begins + 1 /\ UNCHANGED <<snap, op>>
    BY BeginIs
<1>2. ToSet(tx'.edits) = {}
    BY <1>1, EmptyHas
<1>3. \A p \in Path : snap'[p].at = "none"
    BY <1>1 DEF Sound, Fenced
<1>4. \A t \in Tool : op'[t].at = "ready" => op'[t].tx # tx'.id
    <2> TAKE t \in Tool
    <2>1. CASE op[t].at = "ready"
        <3>1. op[t].tx = None \/ op[t].tx \in 1..begins
            BY <2>1 DEF Apart
        <3>2. begins \in Nat
            BY BudgetAssumption DEF Sound, Typed
        <3>3. begins + 1 \notin 1..begins
            BY <3>2
        <3>4. i # None
            BY PathsAssumption DEF TxId
        <3> QED BY <1>1, <3>1, <3>3, <3>4
    <2> QED BY <1>1, <2>1
<1> QED BY <1>2, <1>3, <1>4 DEF Tracked

LEMMA StartTracked ==
    ASSUME Sound, Tracked, NEW t \in Tool, NEW p \in Path, NEW d \in Draft \cup {Absent},
           ToolStarts(t, p, d)
    PROVE  Tracked'
<1>1. /\ SameTx /\ SameDone /\ op'[t].at = (IF Open THEN "waiting" ELSE "ready")
      /\ \A s \in Tool \ {t} : op'[s] = op[s]
    BY StartIs
<1>2. CASE ~Open'
    BY <1>2, ClosedTracked
<1>3. CASE Open'
    <2>1. Open /\ tx'.id = tx.id /\ tx'.edits = tx.edits
        BY <1>1, <1>3 DEF SameTx
    <2>2. \A s \in Tool : op'[s].at = "ready" => s # t
        BY <1>1, <2>1
    <2>3. \A s \in Tool : op[s].at # "idle" => op[s].path \in Path
        BY DEF Sound, Called
    <2>4. ASSUME NEW s \in Tool, op'[s].at = "ready", op'[s].tx = tx'.id
          PROVE  /\ snap'[op'[s].path].at = "done"
                 /\ \A r \in ToSet(tx'.edits) : r.path = op'[s].path => op'[s].draft \in r.expected
        <3>1. op'[s] = op[s] /\ op[s].path \in Path
            BY <1>1, <2>2, <2>3, <2>4
        <3> QED BY <1>1, <2>1, <2>4, <3>1 DEF Tracked, SameDone
    <2>5. \A q \in Path : snap'[q].at = "done" <=> \E r \in ToSet(tx'.edits) : r.path = q
        BY <1>1, <2>1 DEF Tracked, SameDone
    <2> QED BY <2>4, <2>5 DEF Tracked
<1> QED BY <1>2, <1>3

LEMMA CaptureTracked ==
    ASSUME Sound, Tracked, NEW p \in Path, CaptureOpens(p) \/ CaptureReads(p)
    PROVE  Tracked'
<1>1. Open /\ UNCHANGED op
    BY CaptureIs
<1>2. \A s \in Tool : op[s].at # "idle" => op[s].path \in Path
    BY DEF Sound, Called
<1>3. CASE SameTx /\ SameDone
    BY <1>1, <1>2, <1>3 DEF SameTx, SameDone, Tracked
<1>4. ASSUME NEW base \in Baseline, Captured(p, base) PROVE Tracked'
    <2> DEFINE e == FiledRecord(p, base)
    <2>1. /\ tx'.id = tx.id /\ ToSet(tx'.edits) = ToSet(tx.edits) \cup {e}
          /\ snap[p].at # "done" /\ snap'[p].at = "done"
          /\ \A q \in Path \ {p} : snap'[q] = snap[q]
        BY <1>4 DEF Captured
    <2>2. e.path = p
        BY DEF FiledRecord
    <2> HIDE DEF e
    <2>3. \A q \in Path : snap'[q].at = "done" <=> \E r \in ToSet(tx'.edits) : r.path = q
        BY <1>1, <2>1, <2>2 DEF Tracked
    <2>4. ASSUME NEW s \in Tool, op'[s].at = "ready", op'[s].tx = tx'.id
          PROVE  /\ snap'[op'[s].path].at = "done"
                 /\ \A r \in ToSet(tx'.edits) : r.path = op'[s].path => op'[s].draft \in r.expected
        <3>1. op'[s] = op[s] /\ op[s].path \in Path
            BY <1>1, <1>2, <2>4
        <3>2. /\ snap[op[s].path].at = "done"
              /\ \A r \in ToSet(tx.edits) : r.path = op[s].path => op[s].draft \in r.expected
            BY <1>1, <2>1, <2>4, <3>1 DEF Tracked
        <3>3. op[s].path # p
            BY <2>1, <3>2
        <3> QED BY <2>1, <2>2, <3>1, <3>2, <3>3
    <2> QED BY <2>3, <2>4 DEF Tracked
<1> QED BY <1>3, <1>4, CaptureIs

(* The records after a declaration are those before, with more expected.    *)
LEMMA DeclaredSet ==
    ASSUME Sound, NEW t \in Tool, ToolTracked(t)
    PROVE  /\ \A e \in ToSet(tx'.edits) : \E r \in ToSet(tx.edits) :
                 /\ e.path = r.path /\ e.base = r.base /\ r.expected \subseteq e.expected
                 /\ e.path = op[t].path => op[t].draft \in e.expected
           /\ \A r \in ToSet(tx.edits) : \E e \in ToSet(tx'.edits) : e.path = r.path
<1>1. /\ ToSet(tx'.edits) = {Declared(t, r) : r \in ToSet(tx.edits)}
      /\ tx.edits \in Seq(EditRecord)
    BY TrackedIs
<1>2. ToSet(tx.edits) \subseteq EditRecord
    BY <1>1, SeqHas
<1>3. \A r \in EditRecord :
          /\ Declared(t, r).path = r.path /\ Declared(t, r).base = r.base
          /\ r.expected \subseteq Declared(t, r).expected
          /\ r.path = op[t].path => op[t].draft \in Declared(t, r).expected
    BY DEF Declared, EditRecord
<1> QED BY <1>1, <1>2, <1>3

LEMMA DeclareTracked ==
    ASSUME Sound, Tracked, NEW t \in Tool, ToolTracked(t)
    PROVE  Tracked'
<1>1. /\ Open /\ Open' /\ tx'.id = tx.id
      /\ op[t].at = "waiting" /\ snap[op[t].path].at = "done"
      /\ op'[t].path = op[t].path /\ op'[t].draft = op[t].draft
      /\ \A s \in Tool \ {t} : op'[s] = op[s]
    BY TrackedIs
<1>2. UNCHANGED snap
    BY DEF ToolTracked
<1>3. /\ \A e \in ToSet(tx'.edits) : \E r \in ToSet(tx.edits) :
              /\ e.path = r.path /\ e.base = r.base /\ r.expected \subseteq e.expected
              /\ e.path = op[t].path => op[t].draft \in e.expected
      /\ \A r \in ToSet(tx.edits) : \E e \in ToSet(tx'.edits) : e.path = r.path
    BY DeclaredSet
<1>4. \A p \in Path : snap'[p].at = "done" <=> \E e \in ToSet(tx'.edits) : e.path = p
    <2> TAKE p \in Path
    <2>1. snap[p].at = "done" <=> \E r \in ToSet(tx.edits) : r.path = p
        BY <1>1 DEF Tracked
    <2> QED BY <1>2, <1>3, <2>1
<1>5. ASSUME NEW s \in Tool, op'[s].at = "ready", op'[s].tx = tx'.id
      PROVE  /\ snap'[op'[s].path].at = "done"
             /\ \A e \in ToSet(tx'.edits) : e.path = op'[s].path => op'[s].draft \in e.expected
    <2>1. CASE s = t
        BY <1>1, <1>2, <1>3, <2>1
    <2>2. CASE s # t
        <3>1. /\ snap[op[s].path].at = "done"
              /\ \A r \in ToSet(tx.edits) : r.path = op[s].path => op[s].draft \in r.expected
            BY <1>1, <1>5, <2>2 DEF Tracked
        <3> QED BY <1>1, <1>2, <1>3, <2>2, <3>1
    <2> QED BY <2>1, <2>2
<1> QED BY <1>4, <1>5 DEF Tracked

LEMMA SameTracked ==
    ASSUME Tracked, UNCHANGED <<tx, snap>>,
           \A t \in Tool : op'[t].at = "idle" \/ op'[t] = op[t]
    PROVE  Tracked'
BY DEF Tracked, Open

LEMMA StepTracked ==
    ASSUME Sound, Aimed, Apart, Tracked, [Next]_vars
    PROVE  Tracked'
<1>1. ASSUME NEW t \in Tool, ToolFails(t) PROVE Tracked'
    <2>1. /\ Sound' /\ op'[t].at = "idle" /\ \A s \in Tool \ {t} : op'[s] = op[s]
        BY <1>1, FailIs
    <2>2. CASE RollbackStarts(FALSE)
        <3>1. Undoes
            BY <2>1, <2>2, UndoesIs
        <3> QED BY <3>1, ClosedTracked DEF Undoes
    <2>3. CASE UNCHANGED <<tx, snap, restoring>>
        BY <2>1, <2>3, SameTracked
    <2> QED BY <1>1, <2>2, <2>3, FailIs
<1>2. ASSUME NEW t \in Tool, ToolWrites(t) PROVE Tracked'
    BY <1>2, WriteIs, SameTracked
<1>3. ASSUME NEW p \in Path, PersonEdits(p) PROVE Tracked'
    BY <1>3, PersonIs, SameTracked
<1>4. ASSUME NEW force \in BOOLEAN, Rollback(force) PROVE Tracked'
    BY <1>4, RollsBackIs, ClosedTracked DEF Undoes
<1>5. CASE Commit
    BY <1>5, CommitIs, ClosedTracked
<1>6. CASE Recover
    BY <1>6, RecoverIs, ClosedTracked
<1>7. CASE Restores
    BY <1>7, SameTracked DEF Restores, RestoreReads, RestoreWrites, RestoreChecks, RestoreEnds
<1>8. CASE UNCHANGED vars
    BY <1>8, SameTracked DEF vars
<1>9. CASE Snapshots
    BY <1>9, CaptureTracked DEF Snapshots
<1>10. CASE Tools
    BY <1>1, <1>2, <1>10, DeclareTracked DEF Tools
<1> QED BY <1>3, <1>4, <1>5, <1>6, <1>7, <1>8, <1>9, <1>10, BeginTracked, StartTracked DEF Next

-----------------------------------------------------------------------------
(* While nothing disturbs it, every file either holds what it held when the *)
(* transaction began or has a record of that whose expected states hold     *)
(* what is there.                                                           *)

Ours(r) ==
    /\ r.base = begun[r.path]
    /\ \/ disk[r.path] = r.base
       \/ contentToken(disk[r.path]) \in r.expected /\ SameMode(disk[r.path], r.base)

Covers(s) ==
    /\ \A r \in ToSet(s) : Ours(r)
    /\ \A p \in Path : (\A r \in ToSet(s) : r.path # p) => disk[p] = begun[p]

Clean ==
    spoiled = {} =>
        /\ Open => ~undone /\ Covers(tx.edits)
        /\ Rolling => /\ ~undone /\ Covers(restoring.todo) /\ restoring.later = {}
                      /\ Busy("check") => disk[Now.path] = Now.base
        /\ undone => disk = begun

(* Nothing is written and no record changes.                                *)
LEMMA SameClean ==
    ASSUME Clean, UNCHANGED <<disk, begun, undone, restoring>>, spoiled' = {} => spoiled = {},
           Open' => Open /\ tx'.edits = tx.edits
    PROVE  Clean'
<1>1. CASE Open'
    BY <1>1 DEF Clean, Covers, Ours, Rolling, Busy, Now
<1>2. CASE ~Open'
    BY <1>2 DEF Clean, Covers, Ours, Rolling, Busy, Now
<1> QED BY <1>1, <1>2

LEMMA SpoiltClean ==
    ASSUME spoiled' # {}
    PROVE  Clean'
BY DEF Clean

LEMMA BeginClean ==
    ASSUME Sound, NEW i \in TxId, Begin(i)
    PROVE  Clean'
<1>1. /\ ~Rolling' /\ tx'.edits = <<>> /\ begun' = disk' /\ ~undone'
    BY BeginIs DEF Rolling
<1>2. ToSet(tx'.edits) = {}
    BY <1>1, EmptyHas
<1> QED BY <1>1, <1>2 DEF Clean, Covers

LEMMA UndoesClean ==
    ASSUME Clean, Undoes, UNCHANGED <<disk, begun>>, undone' => undone,
           spoiled' = {} => spoiled = {}
    PROVE  Clean'
<1>1. ~Busy("check")' /\ ~Open' /\ Open /\ restoring'.later = {}
      /\ ToSet(restoring'.todo) = ToSet(tx.edits)
    BY DEF Undoes, Busy
<1>2. spoiled' = {} => ~undone' /\ Covers(restoring.todo)'
    BY <1>1 DEF Clean, Covers, Ours
<1> QED BY <1>1, <1>2 DEF Clean

LEMMA CaptureClean ==
    ASSUME Sound, Tracked, Clean, NEW p \in Path, CaptureOpens(p) \/ CaptureReads(p)
    PROVE  Clean'
<1>1. UNCHANGED <<disk, begun, undone, restoring>>
    BY DEF CaptureOpens, CaptureReads
<1>2. spoiled \subseteq spoiled' /\ Open
    BY CaptureIs
<1>3. CASE SameTx
    BY <1>1, <1>2, <1>3, SameClean DEF SameTx
<1>4. ASSUME NEW base \in Baseline, Captured(p, base), spoiled' = {} PROVE Clean'
    <2> DEFINE e == FiledRecord(p, base)
    <2>1. /\ ToSet(tx'.edits) = ToSet(tx.edits) \cup {e} /\ snap[p].at # "done" /\ base = disk[p]
        BY <1>4 DEF Captured
    <2>2. e.path = p /\ e.base = base
        BY DEF FiledRecord
    <2> HIDE DEF e
    <2>3. spoiled = {}
        BY <1>2, <1>4
    <2>4. ~undone /\ Covers(tx.edits)
        BY <1>2, <2>3 DEF Clean
    <2>5. \A r \in ToSet(tx.edits) : r.path # p
        BY <1>2, <2>1 DEF Tracked
    <2>6. disk[p] = begun[p]
        BY <2>4, <2>5 DEF Covers
    <2>7. \A r \in ToSet(tx'.edits) : Ours(r)'
        BY <1>1, <2>1, <2>2, <2>4, <2>6 DEF Covers, Ours
    <2>8. Covers(tx.edits)'
        BY <1>1, <2>1, <2>4, <2>7 DEF Covers
    <2>9. Rolling' => Rolling
        BY <1>1 DEF Rolling
    <2> QED BY <1>1, <1>4, <2>3, <2>4, <2>8, <2>9 DEF Clean, Covers, Ours, Busy, Now
<1> QED BY <1>3, <1>4, SpoiltClean, CaptureIs

LEMMA DeclareClean ==
    ASSUME Sound, Clean, NEW t \in Tool, ToolTracked(t)
    PROVE  Clean'
<1>1. UNCHANGED <<disk, begun, undone, restoring, spoiled>> /\ Open
    BY DEF ToolTracked
<1>2. /\ \A e \in ToSet(tx'.edits) : \E r \in ToSet(tx.edits) :
              e.path = r.path /\ e.base = r.base /\ r.expected \subseteq e.expected
      /\ \A r \in ToSet(tx.edits) : \E e \in ToSet(tx'.edits) : e.path = r.path
    BY DeclaredSet
<1>3. CASE spoiled = {}
    <2>1. ~undone /\ Covers(tx.edits)
        BY <1>1, <1>3 DEF Clean
    <2>2. \A e \in ToSet(tx'.edits) : Ours(e)'
        <3> TAKE e \in ToSet(tx'.edits)
        <3>1. PICK r \in ToSet(tx.edits) :
                  e.path = r.path /\ e.base = r.base /\ r.expected \subseteq e.expected
            BY <1>2
        <3>2. Ours(r)
            BY <2>1 DEF Covers
        <3> QED BY <1>1, <3>1, <3>2 DEF Ours
    <2>3. Covers(tx.edits)'
        BY <1>1, <1>2, <2>1, <2>2 DEF Covers
    <2> QED BY <1>1, <1>3, <2>1, <2>3 DEF Clean, Covers, Ours, Busy, Now, Rolling
<1>4. CASE spoiled # {}
    BY <1>1, <1>4, SpoiltClean
<1> QED BY <1>3, <1>4

(* A write that disturbs nothing is by a tool of the open transaction, to a *)
(* path whose record expects it, with the permissions the file had.         *)
LEMMA WriteClean ==
    ASSUME Sound, Tracked, Clean, NEW t \in Tool, ToolWrites(t)
    PROVE  Clean'
<1> DEFINE p == op[t].path
           d == op[t].draft
           f == IF d = Absent THEN Absent ELSE Written(p, d)
<1>1. /\ op[t].at = "ready" /\ disk' = [disk EXCEPT ![p] = f]
      /\ spoiled' = spoiled \cup Disturbs(t) \cup Remakes(p, d)
      /\ undone' = (undone /\ op[t].tx # CurrentId)
      /\ UNCHANGED <<tx, restoring, begun>>
    BY DEF ToolWrites
<1>2. CASE spoiled' # {}
    BY <1>2, SpoiltClean
<1>3. CASE spoiled' = {}
    <2>1. spoiled = {} /\ Disturbs(t) = {} /\ Remakes(p, d) = {}
        BY <1>1, <1>3
    <2>2. op[t].tx = CurrentId /\ ~Rolling
        BY <2>1 DEF Disturbs
    <2>3. ~undone' /\ ~Rolling'
        BY <1>1, <2>2 DEF Rolling
    <2>4. CASE ~Open
        BY <1>1, <2>3, <2>4 DEF Clean, Open
    <2>5. CASE Open
        <3>1. op[t].tx = tx.id /\ Covers(tx.edits)
            BY <2>1, <2>2, <2>5 DEF CurrentId, Clean
        <3>2. p \in Path /\ d \in Draft \cup {Absent}
            BY <1>1 DEF Sound, Called
        <3>3. /\ \E r \in ToSet(tx.edits) : r.path = p
              /\ \A r \in ToSet(tx.edits) : r.path = p => d \in r.expected
            BY <1>1, <2>5, <3>1, <3>2 DEF Tracked
        <3>4. disk[p] \in OnDisk /\ begun[p] \in OnDisk /\ disk \in [Path -> OnDisk]
            BY <3>2 DEF Sound, Typed
        <3>5. contentToken(f) = d
            <4>1. CASE d = Absent
                BY <4>1 DEF contentToken
            <4>2. CASE d # Absent
                <5>1. d \in Text
                    BY <3>2, <4>2 DEF Text
                <5>2. Written(p, d) \in File /\ Written(p, d).text = d
                    BY <3>2, <5>1, WrittenIs DEF Sound
                <5>3. Written(p, d) # Absent
                    BY <5>2, NothingAssumption
                <5> QED BY <4>2, <5>2, <5>3 DEF contentToken
            <4> QED BY <4>1, <4>2
        <3>6. SameMode(f, begun[p])
            <4>1. SUFFICES ASSUME f \in File, begun[p] \in File
                           PROVE  f.mode = begun[p].mode
                BY DEF SameMode
            <4>2. d # Absent /\ f = Written(p, d)
                BY <4>1, NothingAssumption
            <4>3. d \in Text
                BY <3>2, <4>2 DEF Text
            <4>4. CASE disk[p] = Absent
                <5>1. f.mode = "default"
                    BY <3>2, <4>2, <4>3, <4>4, WrittenIs DEF Sound
                <5>2. begun[p].mode = "default"
                    BY <2>1, <4>1, <4>2, <4>4 DEF Remakes
                <5> QED BY <5>1, <5>2
            <4>5. CASE disk[p] \in File
                <5>1. f.mode = disk[p].mode
                    BY <3>2, <4>2, <4>3, <4>5, WrittenIs DEF Sound
                <5>2. PICK r \in ToSet(tx.edits) : r.path = p
                    BY <3>3
                <5>3. r.base = begun[p] /\ (disk[p] = r.base \/ SameMode(disk[p], r.base))
                    BY <3>1, <5>2 DEF Covers, Ours
                <5> QED BY <4>1, <4>5, <5>1, <5>3 DEF SameMode
            <4> QED BY <3>4, <4>4, <4>5 DEF OnDisk
        <3> HIDE DEF f, d, p
        <3>7. disk'[p] = f /\ \A q \in Path \ {p} : disk'[q] = disk[q]
            BY <1>1, <3>2, <3>4
        <3>8. ToSet(tx.edits) \subseteq EditRecord
            BY <2>5, OpenIs, SeqHas DEF Sound
        <3>9. \A r \in ToSet(tx.edits) : Ours(r)'
            <4> TAKE r \in ToSet(tx.edits)
            <4>1. Ours(r) /\ r.path \in Path
                BY <3>1, <3>8, RecordIs DEF Covers
            <4>2. CASE r.path = p
                BY <1>1, <3>3, <3>5, <3>6, <3>7, <4>1, <4>2 DEF Ours
            <4>3. CASE r.path # p
                BY <1>1, <3>7, <4>1, <4>3 DEF Ours
            <4> QED BY <4>2, <4>3
        <3>10. \A q \in Path : (\A r \in ToSet(tx.edits) : r.path # q) => disk'[q] = begun'[q]
            BY <1>1, <3>1, <3>3, <3>7 DEF Covers
        <3>11. Covers(tx.edits)'
            BY <1>1, <3>9, <3>10 DEF Covers
        <3> QED BY <2>3, <3>11 DEF Clean
    <2> QED BY <2>4, <2>5
<1> QED BY <1>2, <1>3

(* The last record is settled, and its file holds what it held.             *)
LEMMA SettledClean ==
    ASSUME Sound, Apart, Clean, NEW step, Busy(step), spoiled' = {} => spoiled = {},
           OneLess(FALSE, restoring'), Now.base = Unreadable \/ Now.base = disk[Now.path],
           UNCHANGED <<disk, begun, undone, tx>>
    PROVE  Clean'
<1>1. /\ Rolling /\ Now.path \in Path
      /\ ToSet(restoring.todo) = {Now} \cup ToSet(Tail(restoring.todo))
    BY BusyIs DEF Sound
<1>2. ~Open' /\ ~Busy("check")'
    BY <1>1 DEF Apart, Open, OneLess, Busy
<1>3. restoring'.todo = Tail(restoring.todo) /\ restoring'.later = restoring.later
    BY DEF OneLess
<1>4. CASE spoiled' # {}
    BY <1>4, SpoiltClean
<1>5. CASE spoiled' = {}
    <2>1. ~undone /\ Covers(restoring.todo) /\ restoring.later = {}
        BY <1>1, <1>5 DEF Clean
    <2>2. Now.base = begun[Now.path]
        BY <1>1, <2>1 DEF Covers, Ours
    <2>3. begun[Now.path] # Unreadable
        BY <1>1, NothingAssumption, PathsAssumption DEF Sound, Typed, OnDisk
    <2>4. disk[Now.path] = begun[Now.path]
        BY <2>2, <2>3
    <2>5. \A r \in ToSet(restoring'.todo) : Ours(r)'
        BY <1>1, <1>3, <2>1 DEF Covers, Ours
    <2>6. \A p \in Path : (\A r \in ToSet(restoring'.todo) : r.path # p) => disk'[p] = begun'[p]
        BY <1>1, <1>3, <2>1, <2>4 DEF Covers
    <2>7. Covers(restoring.todo)'
        BY <2>5, <2>6 DEF Covers
    <2> QED BY <1>2, <1>3, <2>1, <2>7 DEF Clean
<1> QED BY <1>4, <1>5

LEMMA ReadClean ==
    ASSUME Sound, Apart, Clean, RestoreReads
    PROVE  Clean'
<1>1. /\ Rolling /\ Busy("read") /\ spoiled \subseteq spoiled' /\ ~Open
      /\ UNCHANGED <<disk, begun, undone, tx>>
    BY ReadsIs DEF Apart, RestoreReads
<1>2. spoiled' = {} => spoiled = {}
    BY <1>1
<1>3. Now \in ToSet(restoring.todo) /\ Now.path \in Path
    BY <1>1, BusyIs DEF Sound
<1>4. CASE OneLess(FALSE, restoring') /\ (Now.base = Unreadable \/ Now.base = disk[Now.path])
    BY <1>1, <1>2, <1>4, SettledClean
<1>5. CASE disk[Now.path] # Now.base /\ ~Own(disk[Now.path])
    <2>1. ~Ours(Now)
        BY <1>5 DEF Ours, Own
    <2>2. spoiled # {}
        BY <1>1, <1>3, <2>1 DEF Clean, Covers
    <2> QED BY <1>2, <2>2, SpoiltClean
<1>6. CASE /\ restoring'.later = restoring.later /\ restoring'.todo = restoring.todo
           /\ restoring'.step = "write"
    <2>1. ~Open' /\ ~Busy("check")'
        BY <1>1, <1>6 DEF Open, Busy
    <2> QED BY <1>1, <1>2, <1>6, <2>1 DEF Clean, Covers, Ours
<1> QED BY <1>4, <1>5, <1>6, SpoiltClean, ReadsIs

LEMMA WritesClean ==
    ASSUME Sound, Aimed, Apart, Clean, RestoreWrites
    PROVE  Clean'
<1>1. Now.base # Unreadable
    BY DEF Aimed, RestoreWrites
<1>2. /\ Rolling /\ Busy("write") /\ ~Open' /\ UNCHANGED <<begun, undone>>
      /\ spoiled \subseteq spoiled'
    BY <1>1, WritesIs DEF Apart, RestoreWrites, Open
<1>3. Now \in ToSet(restoring.todo) /\ Now.path \in Path
      /\ restoring.todo \in Seq(EditRecord)
    BY <1>2, BusyIs, RollingIs DEF Sound
<1>4. CASE /\ disk' = [disk EXCEPT ![Now.path] = Now.base] /\ UNCHANGED spoiled
           /\ restoring'.later = restoring.later /\ restoring'.todo = restoring.todo
           /\ spoiled' = {}
    <2> DEFINE p == Now.path
               f == Now.base
    <2>1. ~undone /\ Covers(restoring.todo) /\ restoring.later = {}
        BY <1>2, <1>4 DEF Clean
    <2>2. f = begun[p]
        BY <1>3, <2>1 DEF Covers, Ours
    <2>3. Now' = Now
        BY <1>4 DEF Now
    <2>4. disk \in [Path -> OnDisk] /\ disk' = [disk EXCEPT ![p] = f] /\ p \in Path
        BY <1>3, <1>4 DEF Sound, Typed
    <2> HIDE DEF p, f
    <2>5. disk'[p] = f /\ \A q \in Path \ {p} : disk'[q] = disk[q]
        BY <2>4
    <2>6. ToSet(restoring.todo) \subseteq EditRecord
        BY <1>3, SeqHas
    <2>7. \A r \in ToSet(restoring.todo) : Ours(r)'
        <3> TAKE r \in ToSet(restoring.todo)
        <3>1. Ours(r) /\ r.path \in Path
            BY <2>1, <2>6, RecordIs DEF Covers
        <3>2. CASE r.path = p
            <4>1. r.base = begun'[r.path] /\ disk'[r.path] = r.base
                BY <1>2, <2>2, <2>5, <3>1, <3>2 DEF Ours
            <4> QED BY <4>1 DEF Ours
        <3>3. CASE r.path # p
            BY <1>2, <2>5, <3>1, <3>3 DEF Ours
        <3> QED BY <3>2, <3>3
    <2>8. \A q \in Path : (\A r \in ToSet(restoring.todo) : r.path # q) => disk'[q] = begun'[q]
        <3> TAKE q \in Path
        <3>1. CASE q = p
            BY <1>2, <2>2, <2>5, <3>1
        <3>2. CASE q # p
            BY <1>2, <2>1, <2>5, <3>2 DEF Covers
        <3> QED BY <3>1, <3>2
    <2>9. Covers(restoring.todo)'
        BY <1>4, <2>7, <2>8 DEF Covers
    <2>10. disk'[Now'.path] = Now'.base
        BY <2>3, <2>5 DEF p, f
    <2> QED BY <1>2, <1>4, <2>1, <2>9, <2>10 DEF Clean
<1> QED BY <1>1, <1>4, SpoiltClean, WritesIs

LEMMA ChecksClean ==
    ASSUME Sound, Apart, Clean, RestoreChecks
    PROVE  Clean'
<1>1. /\ Rolling /\ Busy("check") /\ spoiled \subseteq spoiled' /\ ~Open
      /\ UNCHANGED <<disk, begun, undone, tx>>
    BY ChecksIs DEF Apart, RestoreChecks
<1>2. spoiled' = {} => spoiled = {}
    BY <1>1
<1>3. CASE OneLess(FALSE, restoring') /\ (Now.base = Unreadable \/ Now.base = disk[Now.path])
    BY <1>1, <1>2, <1>3, SettledClean
<1>4. CASE disk[Now.path] # Now.base
    <2>1. spoiled # {}
        BY <1>1, <1>4 DEF Clean
    <2> QED BY <1>2, <2>1, SpoiltClean
<1> QED BY <1>3, <1>4, SpoiltClean, ChecksIs

LEMMA EndsClean ==
    ASSUME Sound, Apart, Clean, RestoreEnds
    PROVE  Clean'
<1>1. /\ Rolling /\ restoring.todo = <<>> /\ ~Open'
      /\ UNCHANGED <<disk, begun, spoiled>>
      /\ restoring.later = {} => ~Rolling'
    BY EndsIs DEF Apart, Open
<1>2. CASE spoiled = {}
    <2>1. Covers(<<>>) /\ restoring.later = {}
        BY <1>1, <1>2 DEF Clean
    <2>2. \A p \in Path : disk[p] = begun[p]
        BY <2>1, EmptyHas DEF Covers
    <2>3. disk = begun
        BY <2>2 DEF Sound, Typed
    <2> QED BY <1>1, <2>1, <2>3 DEF Clean
<1>3. CASE spoiled # {}
    BY <1>1, <1>3, SpoiltClean
<1> QED BY <1>2, <1>3

LEMMA StepClean ==
    ASSUME Sound, Aimed, Apart, Tracked, Clean, [Next]_vars
    PROVE  Clean'
<1>1. ASSUME NEW t \in Tool, ToolFails(t) PROVE Clean'
    <2>1. /\ Sound' /\ op'[t].at = "idle" /\ \A s \in Tool \ {t} : op'[s] = op[s]
          /\ spoiled \subseteq spoiled' /\ UNCHANGED begun
          /\ disk' = disk \/ spoiled' # {}
          /\ undone' => undone /\ disk' = disk
        BY <1>1, FailIs
    <2>2. CASE spoiled' # {}
        BY <2>2, SpoiltClean
    <2>3. CASE spoiled' = {} /\ RollbackStarts(FALSE)
        <3>1. Undoes
            BY <2>1, <2>3, UndoesIs
        <3> QED BY <2>1, <2>3, <3>1, UndoesClean
    <2>4. CASE spoiled' = {} /\ UNCHANGED <<tx, snap, restoring>>
        BY <2>1, <2>4 DEF Clean, Covers, Ours, Open, Rolling, Busy, Now
    <2> QED BY <1>1, <2>2, <2>3, <2>4, FailIs
<1>2. ASSUME NEW t \in Tool, NEW p \in Path, NEW d \in Draft \cup {Absent}, ToolStarts(t, p, d)
      PROVE  Clean'
    <2>1. UNCHANGED <<disk, begun, undone, restoring, spoiled>> /\ SameTx
        BY <1>2, StartIs DEF ToolStarts
    <2> QED BY <2>1, SameClean DEF SameTx
<1>3. ASSUME NEW p \in Path, PersonEdits(p) PROVE Clean'
    BY <1>3, PersonIs, SpoiltClean
<1>4. ASSUME NEW force \in BOOLEAN, Rollback(force) PROVE Clean'
    BY <1>4, RollsBackIs, UndoesClean
<1>5. CASE Commit
    BY <1>5, CommitIs, SameClean
<1>6. CASE Recover
    BY <1>6, RecoverIs, SpoiltClean
<1>7. CASE Restores
    BY <1>7, ReadClean, WritesClean, ChecksClean, EndsClean DEF Restores
<1>8. CASE UNCHANGED vars
    BY <1>8, SameClean DEF vars, Open
<1>9. CASE Snapshots
    BY <1>9, CaptureClean DEF Snapshots
<1>10. CASE Tools
    BY <1>1, <1>10, WriteClean, DeclareClean DEF Tools
<1> QED BY <1>2, <1>3, <1>4, <1>5, <1>6, <1>7, <1>8, <1>9, <1>10, BeginClean DEF Next

(* A rollback that nothing disturbed leaves every file as it was when the   *)
(* transaction began: trackEdit() shares the first baseline of a path with  *)
(* every caller, a tool writes only what it declared, and restoreOne() puts *)
(* each baseline back and reads it again.                                   *)
THEOREM RollbackExact == Spec => []UndoneExactly
<1>1. Init => Tracked /\ Clean
    BY DEF Init, Tracked, Clean, Open, Rolling
<1>2. Spec => [](Tracked /\ Clean)
    BY <1>1, StepTracked, StepClean, SoundAlways, PTL DEF Spec
<1>3. Clean => UndoneExactly
    BY DEF Clean, UndoneExactly
<1> QED BY <1>2, <1>3, PTL

-----------------------------------------------------------------------------
(* The bytes of a sequence of records: one for each that holds a file.      *)

Holding(s) == {i \in DOMAIN s : s[i].base \in File}
One(e) == IF e.base \in File THEN 1 ELSE 0

LEMMA SameCount ==
    ASSUME NEW S, NEW T, IsFiniteSet(S), NEW f \in [S -> T],
           \A x, y \in S : f[x] = f[y] => x = y, \A y \in T : \E x \in S : f[x] = y
    PROVE  Cardinality(T) = Cardinality(S)
<1>1. f \in Bijection(S, T)
    BY DEF Bijection, Injection, Surjection, IsInjective
<1> QED BY <1>1, FS_Bijection DEF ExistsBijection

LEMMA HoldingIs ==
    ASSUME NEW s \in Seq(EditRecord)
    PROVE  /\ Len(s) \in Nat /\ DOMAIN s = 1..Len(s) /\ Holding(s) \subseteq 1..Len(s)
           /\ IsFiniteSet(Holding(s)) /\ Bytes(s) = Cardinality(Holding(s)) /\ Bytes(s) \in Nat
<1>1. Len(s) \in Nat /\ DOMAIN s = 1..Len(s) /\ Holding(s) \in SUBSET (1..Len(s))
    BY DEF Holding
<1>2. IsFiniteSet(1..Len(s))
    BY <1>1, FS_Interval
<1>3. IsFiniteSet(Holding(s))
    BY <1>1, <1>2, FS_Subset
<1> QED BY <1>1, <1>3, FS_CardinalityType DEF Bytes, Holding

LEMMA BytesEmpty == Bytes(<<>>) = 0
<1>1. Holding(<<>>) = {}
    BY EmptySeq DEF Holding
<1> QED BY <1>1, FS_EmptySet DEF Bytes, Holding

LEMMA BytesSame ==
    ASSUME NEW s, NEW t, DOMAIN s = DOMAIN t,
           \A i \in DOMAIN s : s[i].base \in File <=> t[i].base \in File
    PROVE  Bytes(s) = Bytes(t)
<1>1. Holding(s) = Holding(t)
    BY DEF Holding
<1> QED BY <1>1 DEF Bytes, Holding

LEMMA BytesAppend ==
    ASSUME NEW s \in Seq(EditRecord), NEW e \in EditRecord
    PROVE  Bytes(Append(s, e)) = Bytes(s) + One(e)
<1> DEFINE a == Append(s, e)
           n == Len(s)
<1>1. /\ a \in Seq(EditRecord) /\ Len(a) = n + 1 /\ a[n + 1] = e
      /\ \A i \in 1..n : a[i] = s[i]
    BY AppendProperties
<1>2. n \in Nat /\ DOMAIN s = 1..n /\ DOMAIN a = 1..(n + 1) /\ Holding(s) \subseteq 1..n
      /\ IsFiniteSet(Holding(s)) /\ Bytes(s) = Cardinality(Holding(s)) /\ Bytes(s) \in Nat
      /\ Bytes(a) = Cardinality(Holding(a))
    BY <1>1, HoldingIs
<1> HIDE DEF a, n
<1>3. n + 1 \notin Holding(s)
    BY <1>2
<1>4. \A i \in 1..(n + 1) : i \in 1..n \/ i = n + 1
    BY <1>2
<1>5. \A i \in 1..n : i \in 1..(n + 1)
    BY <1>2
<1>6. n + 1 \in 1..(n + 1)
    BY <1>2
<1>7. CASE e.base \in File
    <2>1. Holding(a) = Holding(s) \cup {n + 1}
        BY <1>1, <1>2, <1>4, <1>5, <1>6, <1>7 DEF Holding
    <2>2. Cardinality(Holding(a)) = Cardinality(Holding(s)) + 1
        BY <1>2, <1>3, <2>1, FS_AddElement
    <2> QED BY <1>2, <1>7, <2>2 DEF One, a
<1>8. CASE e.base \notin File
    <2>1. Holding(a) = Holding(s)
        BY <1>1, <1>2, <1>4, <1>5, <1>8 DEF Holding
    <2> QED BY <1>2, <1>8, <2>1 DEF One, a
<1> QED BY <1>7, <1>8

LEMMA BytesTail ==
    ASSUME NEW s \in Seq(EditRecord), s # <<>>
    PROVE  Bytes(s) = One(Head(s)) + Bytes(Tail(s))
<1> DEFINE t == Tail(s)
           n == Len(t)
           f == [i \in Holding(t) |-> i + 1]
<1>1. /\ t \in Seq(EditRecord) /\ n = Len(s) - 1 /\ \A i \in 1..n : t[i] = s[i + 1]
      /\ Head(s) = s[1]
    BY HeadTailProperties
<1>2. /\ n \in Nat /\ DOMAIN t = 1..n /\ Holding(t) \subseteq 1..n /\ IsFiniteSet(Holding(t))
      /\ Bytes(t) = Cardinality(Holding(t)) /\ Bytes(t) \in Nat
      /\ Len(s) \in Nat /\ DOMAIN s = 1..Len(s) /\ IsFiniteSet(Holding(s))
      /\ Bytes(s) = Cardinality(Holding(s)) /\ Bytes(s) \in Nat
    BY <1>1, HoldingIs
<1>3. DOMAIN s = 1..(n + 1)
    BY <1>1, <1>2
<1> HIDE DEF t, n
<1>4. \A i \in 1..n : i + 1 \in 1..(n + 1) /\ i + 1 # 1
    BY <1>2
<1>5. \A i \in 1..(n + 1) : i # 1 => i - 1 \in 1..n /\ (i - 1) + 1 = i
    BY <1>2
<1>6. f \in [Holding(t) -> Holding(s) \ {1}]
    BY <1>1, <1>2, <1>3, <1>4 DEF Holding
<1>7. \A x, y \in Holding(t) : f[x] = f[y] => x = y
    BY <1>2
<1>8. \A y \in Holding(s) \ {1} : \E x \in Holding(t) : f[x] = y
    <2> TAKE y \in Holding(s) \ {1}
    <2>1. y - 1 \in 1..n /\ (y - 1) + 1 = y /\ s[y].base \in File
        BY <1>3, <1>5 DEF Holding
    <2>2. y - 1 \in Holding(t)
        BY <1>1, <1>2, <2>1 DEF Holding
    <2> QED BY <2>1, <2>2
<1>9. Cardinality(Holding(s) \ {1}) = Bytes(t)
    <2> HIDE DEF f
    <2> QED BY <1>2, <1>6, <1>7, <1>8, SameCount
<1>10. 1 \in Holding(s) <=> Head(s).base \in File
    BY <1>1, <1>2, <1>3 DEF Holding
<1>11. Cardinality(Holding(s) \ {1}) = IF 1 \in Holding(s) THEN Bytes(s) - 1 ELSE Bytes(s)
    BY <1>2, FS_RemoveElement
<1>12. Bytes(s) = One(Head(s)) + Bytes(t)
    <2>1. CASE 1 \in Holding(s)
        <3>1. One(Head(s)) = 1
            BY <1>10, <2>1 DEF One
        <3> QED BY <1>2, <1>9, <1>11, <2>1, <3>1
    <2>2. CASE 1 \notin Holding(s)
        <3>1. One(Head(s)) = 0
            BY <1>10, <2>2 DEF One
        <3> QED BY <1>2, <1>9, <1>11, <2>2, <3>1
    <2> QED BY <2>1, <2>2
<1> QED BY <1>12 DEF t

LEMMA BytesReverse ==
    ASSUME NEW s \in Seq(EditRecord)
    PROVE  Bytes(Reverse(s)) = Bytes(s)
<1> DEFINE n == Len(s)
           r == Reverse(s)
           f == [i \in Holding(s) |-> (n - i) + 1]
<1>1. n \in Nat /\ DOMAIN s = 1..n /\ IsFiniteSet(Holding(s)) /\ Holding(s) \subseteq 1..n
      /\ Bytes(s) = Cardinality(Holding(s))
    BY HoldingIs
<1>2. r = [i \in 1..n |-> s[(n - i) + 1]] /\ Bytes(r) = Cardinality(Holding(r))
    BY DEF Reverse, Bytes, Holding
<1> HIDE DEF r, n
<1>3. \A i \in 1..n : (n - i) + 1 \in 1..n /\ (n - ((n - i) + 1)) + 1 = i
    BY <1>1
<1>4. DOMAIN r = 1..n /\ \A i \in 1..n : r[i] = s[(n - i) + 1]
    BY <1>2
<1>5. f \in [Holding(s) -> Holding(r)]
    BY <1>1, <1>3, <1>4 DEF Holding
<1>6. \A x, y \in Holding(s) : f[x] = f[y] => x = y
    BY <1>1
<1>7. \A y \in Holding(r) : \E x \in Holding(s) : f[x] = y
    <2> TAKE y \in Holding(r)
    <2>1. y \in 1..n /\ s[(n - y) + 1].base \in File
        BY <1>4 DEF Holding
    <2>2. (n - y) + 1 \in Holding(s)
        BY <1>1, <1>3, <2>1 DEF Holding
    <2> QED BY <1>3, <2>1, <2>2
<1>8. Cardinality(Holding(r)) = Cardinality(Holding(s))
    <2> HIDE DEF f
    <2> QED BY <1>1, <1>5, <1>6, <1>7, SameCount
<1> QED BY <1>1, <1>2, <1>8 DEF r

LEMMA BytesConcat ==
    ASSUME NEW s \in Seq(EditRecord), NEW t \in Seq(EditRecord)
    PROVE  Bytes(s \o t) = Bytes(s) + Bytes(t)
<1> DEFINE m == Len(s)
           n == Len(t)
           c == s \o t
           f == [i \in Holding(t) |-> i + m]
           H == Holding(c) \ Holding(s)
<1>1. /\ c \in Seq(EditRecord) /\ Len(c) = m + n
      /\ \A i \in 1..(m + n) : c[i] = IF i <= m THEN s[i] ELSE t[i - m]
    BY ConcatProperties
<1>2. /\ m \in Nat /\ DOMAIN s = 1..m /\ Holding(s) \subseteq 1..m /\ IsFiniteSet(Holding(s))
      /\ Bytes(s) = Cardinality(Holding(s)) /\ Bytes(s) \in Nat
      /\ n \in Nat /\ DOMAIN t = 1..n /\ Holding(t) \subseteq 1..n /\ IsFiniteSet(Holding(t))
      /\ Bytes(t) = Cardinality(Holding(t)) /\ Bytes(t) \in Nat
      /\ DOMAIN c = 1..(m + n) /\ IsFiniteSet(Holding(c))
      /\ Bytes(c) = Cardinality(Holding(c)) /\ Bytes(c) \in Nat
    BY <1>1, HoldingIs
<1> HIDE DEF c, m, n
<1>3. \A i \in 1..m : i \in 1..(m + n) /\ i <= m
    BY <1>2
<1>4. \A i \in 1..n : i + m \in 1..(m + n) /\ ~(i + m <= m) /\ (i + m) - m = i
    BY <1>2
<1>5. \A i \in 1..(m + n) : /\ i <= m => i \in 1..m
                            /\ ~(i <= m) => i - m \in 1..n /\ (i - m) + m = i
    BY <1>2
<1>6. Holding(s) = Holding(c) \cap (1..m)
    BY <1>1, <1>2, <1>3, <1>5 DEF Holding
<1>7. f \in [Holding(t) -> H]
    <2> SUFFICES ASSUME NEW i \in Holding(t) PROVE i + m \in H
        OBVIOUS
    <2>1. i \in 1..n /\ t[i].base \in File
        BY <1>2 DEF Holding
    <2>2. c[i + m] = t[i] /\ i + m \notin 1..m
        BY <1>1, <1>2, <1>4, <2>1
    <2> QED BY <1>2, <1>4, <1>6, <2>1, <2>2 DEF Holding
<1>8. \A x, y \in Holding(t) : f[x] = f[y] => x = y
    BY <1>2
<1>9. \A y \in H : \E x \in Holding(t) : f[x] = y
    <2> TAKE y \in H
    <2>1. y \in 1..(m + n) /\ c[y].base \in File /\ y \notin 1..m
        BY <1>2, <1>6 DEF Holding
    <2>2. ~(y <= m) /\ y - m \in 1..n /\ (y - m) + m = y
        BY <1>5, <2>1
    <2>3. y - m \in Holding(t)
        BY <1>1, <1>2, <2>1, <2>2 DEF Holding
    <2> QED BY <2>2, <2>3
<1>10. Cardinality(H) = Bytes(t)
    <2> HIDE DEF f, H
    <2> QED BY <1>2, <1>7, <1>8, <1>9, SameCount
<1>11. Cardinality(H) = Bytes(c) - Bytes(s)
    <2>1. Holding(c) \cap Holding(s) = Holding(s)
        BY <1>6
    <2>2. Cardinality(H) = Cardinality(Holding(c)) - Cardinality(Holding(c) \cap Holding(s))
        <3>1. IsFiniteSet(Holding(c))
            BY <1>2
        <3> QED BY <3>1, FS_Difference
    <2> QED BY <1>2, <2>1, <2>2
<1> QED BY <1>2, <1>10, <1>11 DEF c

-----------------------------------------------------------------------------
(* The sum over the transactions, as the number of units they hold.         *)

Units(h, R) == UNION {{i} \X (1..h[i]) : i \in R}
Weight(h, R) == Cardinality(Units(h, R))

LEMMA UnitsFinite ==
    ASSUME NEW S, NEW h \in [S -> Nat], NEW R \in SUBSET S, IsFiniteSet(R)
    PROVE  IsFiniteSet(Units(h, R)) /\ Weight(h, R) \in Nat
<1> DEFINE g == [i \in R |-> {i} \X (1..h[i])]
           T == {{i} \X (1..h[i]) : i \in R}
<1>1. g \in Surjection(R, T)
    BY DEF Surjection
<1>2. IsFiniteSet(T)
    <2> HIDE DEF g, T
    <2> QED BY <1>1, FS_Surjection
<1>3. ASSUME NEW i \in R PROVE IsFiniteSet({i} \X (1..h[i]))
    <2>1. h[i] \in Nat /\ IsFiniteSet({i})
        BY FS_Singleton
    <2>2. IsFiniteSet(1..h[i])
        <3>1. 1 \in Int /\ h[i] \in Int
            BY <2>1
        <3> QED BY <3>1, FS_Interval
    <2> QED BY <2>1, <2>2, FS_Product
<1>4. \A U \in T : IsFiniteSet(U)
    BY <1>3
<1>5. IsFiniteSet(UNION T)
    <2> HIDE DEF T
    <2> QED BY <1>2, <1>4, FS_UNION
<1> QED BY <1>5, FS_CardinalityType DEF Units, Weight

LEMMA WeightOne ==
    ASSUME NEW S, NEW h \in [S -> Nat], NEW R \in SUBSET S, IsFiniteSet(R), NEW i \in R
    PROVE  Weight(h, R) = Weight(h, R \ {i}) + h[i]
<1> DEFINE A == Units(h, R \ {i})
           B == {i} \X (1..h[i])
<1>1. IsFiniteSet(R \ {i}) /\ R \ {i} \in SUBSET S
    BY FS_RemoveElement
<1>2. IsFiniteSet(A) /\ Cardinality(A) \in Nat
    BY <1>1, UnitsFinite DEF Weight
<1>3. IsFiniteSet(B) /\ Cardinality(B) = h[i] /\ h[i] \in Nat
    <2>1. h[i] \in Nat /\ IsFiniteSet({i}) /\ Cardinality({i}) = 1
        BY FS_Singleton
    <2>2. IsFiniteSet(1..h[i]) /\ Cardinality(1..h[i]) = h[i]
        BY <2>1, FS_Interval
    <2>3. IsFiniteSet(B) /\ Cardinality(B) = 1 * h[i]
        BY <2>1, <2>2, FS_Product
    <2> QED BY <2>1, <2>3
<1>4. Units(h, R) = A \cup B /\ A \cap B = {}
    <2>1. Units(h, R) = A \cup B
        BY DEF Units
    <2>2. ASSUME NEW p \in A, p \in B PROVE FALSE
        <3>1. PICK j \in R \ {i} : p \in {j} \X (1..h[j])
            BY DEF Units
        <3> QED BY <2>2, <3>1
    <2> QED BY <2>1, <2>2
<1> HIDE DEF A, B
<1>5. Cardinality(A \cup B) = Cardinality(A) + Cardinality(B) - Cardinality(A \cap B)
    BY <1>2, <1>3, FS_Union
<1>6. Cardinality(A \cap B) = 0
    BY <1>4, FS_EmptySet
<1> QED BY <1>2, <1>3, <1>4, <1>5, <1>6 DEF Weight, A

LEMMA WeightSame ==
    ASSUME NEW h, NEW g, NEW R, \A i \in R : h[i] = g[i]
    PROVE  Weight(h, R) = Weight(g, R)
<1>1. Units(h, R) = Units(g, R)
    BY DEF Units
<1> QED BY <1>1 DEF Weight

(* One transaction holds more or less, and the others the same.             *)
LEMMA WeightMoves ==
    ASSUME NEW S, NEW h \in [S -> Nat], NEW g \in [S -> Nat], IsFiniteSet(S), NEW i \in S,
           \A j \in S \ {i} : g[j] = h[j]
    PROVE  /\ Weight(g, S) + h[i] = Weight(h, S) + g[i]
           /\ Weight(g, S) \in Nat /\ Weight(h, S) \in Nat
<1>1. Weight(h, S) = Weight(h, S \ {i}) + h[i] /\ Weight(g, S) = Weight(g, S \ {i}) + g[i]
    BY WeightOne
<1>2. Weight(h, S \ {i}) = Weight(g, S \ {i})
    BY WeightSame
<1>3. IsFiniteSet(S \ {i}) /\ S \ {i} \in SUBSET S
    BY FS_RemoveElement
<1>4. Weight(h, S \ {i}) \in Nat
    BY <1>3, UnitsFinite
<1> QED BY <1>1, <1>2, <1>4

Some(t) == CHOOSE x \in t : TRUE

LEMMA FoldIs ==
    ASSUME NEW S, IsFiniteSet(S), NEW h \in [S -> Nat], NEW c \in Nat, NEW f,
           \A t \in SUBSET S :
               f[t] = IF t = {} THEN c ELSE f[t \ {Some(t)}] + h[Some(t)]
    PROVE  f[S] = c + Weight(h, S)
<1> SUFFICES ASSUME f[S] # c + Weight(h, S) PROVE FALSE
    OBVIOUS
<1> DEFINE Wrong == {t \in SUBSET S : f[t] # c + Weight(h, t)}
           N == {Cardinality(t) : t \in Wrong}
<1>1. \A t \in SUBSET S : IsFiniteSet(t) /\ Cardinality(t) \in Nat /\ Weight(h, t) \in Nat
    BY FS_Subset, FS_CardinalityType, UnitsFinite
<1>2. N \subseteq Nat /\ N # {}
    BY <1>1
<1>3. PICK n \in N : \A m \in N : n <= m
    <2> HIDE DEF N
    <2> QED BY <1>2, LeastOf
<1>4. PICK t \in Wrong : n = Cardinality(t)
    OBVIOUS
<1>5. t \in SUBSET S /\ IsFiniteSet(t) /\ Cardinality(t) \in Nat
    BY <1>1
<1>6. CASE t = {}
    <2>1. Units(h, {}) = {}
        BY DEF Units
    <2>2. f[t] = c /\ Weight(h, t) = 0
        BY <1>5, <1>6, <2>1, FS_EmptySet DEF Weight
    <2> QED BY <2>2
<1>7. CASE t # {}
    <2> DEFINE x == Some(t)
               u == t \ {x}
    <2>1. x \in t
        BY <1>7 DEF Some
    <2>2. f[t] = f[u] + h[x]
        BY <1>5, <1>7
    <2> HIDE DEF x
    <2>3. Weight(h, t) = Weight(h, u) + h[x]
        BY <1>5, <2>1, WeightOne
    <2>4. u \in SUBSET S /\ Cardinality(u) = Cardinality(t) - 1
        BY <1>5, <2>1, FS_RemoveElement
    <2>5. u \notin Wrong
        <3> SUFFICES ASSUME u \in Wrong PROVE FALSE
            OBVIOUS
        <3>1. Cardinality(u) \in N
            OBVIOUS
        <3>2. n <= Cardinality(u)
            BY <1>3, <3>1
        <3> QED BY <1>4, <1>5, <2>4, <3>2
    <2>6. f[u] = c + Weight(h, u)
        BY <2>4, <2>5
    <2>7. h[x] \in Nat /\ Weight(h, u) \in Nat
        BY <1>1, <1>5, <2>1, <2>4
    <2> QED BY <2>2, <2>3, <2>6, <2>7
<1> QED BY <1>6, <1>7

Holds == [i \in TxId |-> HeldBy(i)]
Total == FoldSet(LAMBDA i, n : n + HeldBy(i), Cardinality(Reading), TxId)

LEMMA IdsFinite == IsFiniteSet(TxId) /\ TxId \subseteq Nat
BY BudgetAssumption, FS_Interval DEF TxId

LEMMA TotalIs ==
    ASSUME \A i \in TxId : HeldBy(i) \in Nat, Cardinality(Reading) \in Nat
    PROVE  Total = Cardinality(Reading) + Weight(Holds, TxId)
<1> DEFINE c == Cardinality(Reading)
           Step(f) == [t \in SUBSET TxId |->
                         IF t = {} THEN c ELSE f[t \ {Some(t)}] + HeldBy(Some(t))]
           it == CHOOSE f : f = Step(f)
           g == [t \in SUBSET TxId |-> c + Weight(Holds, t)]
<1>1. Holds \in [TxId -> Nat] /\ \A i \in TxId : Holds[i] = HeldBy(i)
    BY DEF Holds
<1>2. \A t \in SUBSET TxId : IsFiniteSet(t)
    BY IdsFinite, FS_Subset
<1>3. Total = it[TxId]
    BY DEF Total, FoldSet, MapThenFoldSet, Some
<1>4. ASSUME NEW t \in SUBSET TxId
      PROVE  g[t] = IF t = {} THEN c ELSE g[t \ {Some(t)}] + HeldBy(Some(t))
    <2>1. CASE t = {}
        <3>1. Units(Holds, {}) = {}
            BY DEF Units
        <3>2. Weight(Holds, t) = 0
            BY <2>1, <3>1, FS_EmptySet DEF Weight
        <3> QED BY <2>1, <3>2
    <2>2. CASE t # {}
        <3>1. Some(t) \in t
            BY <2>2 DEF Some
        <3>2. Weight(Holds, t) = Weight(Holds, t \ {Some(t)}) + Holds[Some(t)]
            BY <1>1, <1>2, <3>1, WeightOne
        <3>3. t \ {Some(t)} \in SUBSET TxId
            OBVIOUS
        <3>4. Weight(Holds, t \ {Some(t)}) \in Nat
            BY <1>1, <1>2, <3>3, UnitsFinite
        <3>5. HeldBy(Some(t)) \in Nat /\ Holds[Some(t)] = HeldBy(Some(t))
            BY <1>1, <3>1
        <3>6. g[t] = c + Weight(Holds, t) /\ g[t \ {Some(t)}] = c + Weight(Holds, t \ {Some(t)})
            BY <3>3
        <3> HIDE DEF c, g
        <3>7. c \in Nat
            BY DEF c
        <3> QED BY <2>2, <3>2, <3>4, <3>5, <3>6, <3>7
    <2> QED BY <2>1, <2>2
<1>5. \E f : f = Step(f)
    <2>1. g = Step(g)
        BY <1>4
    <2> QED BY <2>1
<1>6. it = Step(it)
    BY <1>5
<1> HIDE DEF it
<1>7. \A t \in SUBSET TxId : it[t] = IF t = {} THEN c ELSE it[t \ {Some(t)}] + Holds[Some(t)]
    <2> TAKE t \in SUBSET TxId
    <2>1. it[t] = IF t = {} THEN c ELSE it[t \ {Some(t)}] + HeldBy(Some(t))
        BY <1>6
    <2>2. t # {} => Some(t) \in TxId
        BY DEF Some
    <2> QED BY <1>1, <2>1, <2>2
<1>8. it[TxId] = c + Weight(Holds, TxId)
    <2> HIDE DEF c
    <2>1. c \in Nat
        BY DEF c
    <2> QED BY <1>1, <1>7, <2>1, IdsFinite, FoldIs
<1> QED BY <1>3, <1>8

-----------------------------------------------------------------------------
(* What each transaction holds, by where its records are.                   *)

Owes(i) ==
    /\ HeldBy(i) \in Nat
    /\ Mine(i) => HeldBy(i) = Bytes(tx.edits)
    /\ Under(i) => HeldBy(i) = Bytes(restoring.todo) + Bytes(restoring.keep)
                               + Bytes(restoring.done)
    /\ ~Mine(i) /\ ~Under(i) => HeldBy(i) = Bytes(retained[i])

LEMMA OwesNow == Sound /\ Apart => \A i \in TxId : Owes(i)
<1> SUFFICES ASSUME Sound, Apart, NEW i \in TxId
             PROVE  Owes(i)
    OBVIOUS
<1>1. i # None /\ Typed
    BY PathsAssumption DEF TxId, Sound
<1>2. CurrentId = i <=> Mine(i)
    BY <1>1 DEF CurrentId, Mine
<1>3. CASE Mine(i)
    <2>1. ~Under(i) /\ Open
        BY <1>3 DEF Mine, Under, Apart
    <2>2. Bytes(tx.edits) \in Nat
        BY <1>1, <2>1, OpenIs, HoldingIs
    <2>3. HeldBy(i) = Bytes(tx.edits) + 0
        BY <1>2, <1>3, <2>1 DEF HeldBy, Records, Under
    <2> QED BY <1>3, <2>1, <2>2, <2>3 DEF Owes
<1>4. CASE ~Mine(i) /\ Under(i)
    <2>1. /\ restoring.todo \in Seq(EditRecord) /\ restoring.keep \in Seq(EditRecord)
          /\ restoring.done \in Seq(EditRecord)
        BY <1>1, <1>4, RollingIs DEF Under
    <2>2. HeldBy(i) = Bytes(restoring.todo \o restoring.keep) + Bytes(restoring.done)
        BY <1>2, <1>4 DEF HeldBy, Records, Under
    <2>3. Bytes(restoring.todo \o restoring.keep) = Bytes(restoring.todo) + Bytes(restoring.keep)
        BY <2>1, BytesConcat
    <2>4. Bytes(restoring.todo) \in Nat /\ Bytes(restoring.keep) \in Nat
          /\ Bytes(restoring.done) \in Nat
        BY <2>1, HoldingIs
    <2> QED BY <1>4, <2>2, <2>3, <2>4 DEF Owes
<1>5. CASE ~Mine(i) /\ ~Under(i)
    <2>1. HeldBy(i) = Bytes(retained[i]) + 0
        BY <1>2, <1>5 DEF HeldBy, Records, Under
    <2>2. Bytes(retained[i]) \in Nat
        BY <1>1, HoldingIs DEF Typed
    <2> QED BY <1>5, <2>1, <2>2 DEF Owes
<1> QED BY <1>3, <1>4, <1>5

LEMMA OwesNext == (Sound /\ Apart)' => \A i \in TxId : Owes(i)'
<1>1. (Sound /\ Apart)' => (\A i \in TxId : Owes(i))'
    BY OwesNow, PTL
<1> QED BY <1>1

Counts == IsFiniteSet(Reading) /\ Cardinality(Reading) \in Nat

LEMMA ReadingIs == Counts
<1>1. Reading \in SUBSET Path
    BY DEF Reading
<1> QED BY <1>1, PathsAssumption, FS_Subset, FS_CardinalityType DEF Counts

LEMMA ReadingNext == Counts'
BY ReadingIs, PTL

-----------------------------------------------------------------------------
(* The snapshot budget.                                                     *)

Budget ==
    /\ held = Cardinality(Reading) + Weight(Holds, TxId) /\ held <= MaxHeld
    /\ Open => retained[tx.id] = <<>>
    /\ \A p \in Path : snap[p].at = "read" => snap[p].seen \in File

(* What the steps of this part have in common.                              *)
Stepping == Sound /\ Apart /\ Sound' /\ Apart' /\ Budget

Hold == Holds \in [TxId -> Nat]

LEMMA HoldsNow == Sound /\ Apart => Hold
BY OwesNow DEF Owes, Holds, Hold

LEMMA HoldsNext == (Sound /\ Apart)' => Hold'
BY HoldsNow, PTL

LEMMA Nats ==
    ASSUME Stepping
    PROVE  /\ Holds \in [TxId -> Nat] /\ Holds' \in [TxId -> Nat] /\ held \in Nat
           /\ Cardinality(Reading) \in Nat /\ Cardinality(Reading') \in Nat
           /\ IsFiniteSet(Reading) /\ Weight(Holds, TxId) \in Nat
           /\ \A i \in TxId : Owes(i) /\ Owes(i)'
           /\ \A i \in TxId : Holds[i] = HeldBy(i) /\ Holds'[i] = HeldBy(i)'
<1>1. Holds \in [TxId -> Nat] /\ Holds' \in [TxId -> Nat]
    BY HoldsNow, HoldsNext DEF Stepping, Hold
<1>2. /\ Cardinality(Reading) \in Nat /\ Cardinality(Reading') \in Nat
      /\ IsFiniteSet(Reading)
    BY ReadingIs, ReadingNext DEF Counts
<1>3. Weight(Holds, TxId) \in Nat
    BY <1>1, IdsFinite, UnitsFinite
<1>4. held \in Nat
    BY <1>2, <1>3 DEF Stepping, Budget
<1>5. \A i \in TxId : Owes(i) /\ Owes(i)'
    BY OwesNow, OwesNext DEF Stepping
<1>6. \A i \in TxId : Holds[i] = HeldBy(i) /\ Holds'[i] = HeldBy(i)'
    BY DEF Holds
<1> QED BY <1>1, <1>2, <1>3, <1>4, <1>5, <1>6

(* The equation of the budget, when one transaction changes what it holds.  *)
LEMMA Balanced ==
    ASSUME Stepping, NEW i \in TxId, \A j \in TxId \ {i} : HeldBy(j)' = HeldBy(j),
           held' + Cardinality(Reading) + HeldBy(i) = held + Cardinality(Reading') + HeldBy(i)',
           held' \in Int
    PROVE  held' = Cardinality(Reading') + Weight(Holds', TxId)
<1>1. \A j \in TxId \ {i} : Holds'[j] = Holds[j]
    BY Nats
<1>2. /\ Weight(Holds', TxId) + Holds[i] = Weight(Holds, TxId) + Holds'[i]
      /\ Weight(Holds', TxId) \in Nat /\ Weight(Holds, TxId) \in Nat
    <2>1. Holds \in [TxId -> Nat] /\ Holds' \in [TxId -> Nat] /\ IsFiniteSet(TxId)
        BY Nats, IdsFinite
    <2> QED BY <1>1, <2>1, WeightMoves
<1>3. held = Cardinality(Reading) + Weight(Holds, TxId)
    BY DEF Stepping, Budget
<1>4. /\ Holds[i] = HeldBy(i) /\ Holds'[i] = HeldBy(i)' /\ HeldBy(i) \in Nat /\ HeldBy(i)' \in Nat
      /\ held \in Nat /\ Cardinality(Reading) \in Nat /\ Cardinality(Reading') \in Nat
    BY Nats DEF Owes
<1> QED BY <1>2, <1>3, <1>4

LEMMA Unmoved ==
    ASSUME Stepping, \A j \in TxId : HeldBy(j)' = HeldBy(j), held' = held,
           Cardinality(Reading') = Cardinality(Reading)
    PROVE  held' = Cardinality(Reading') + Weight(Holds', TxId) /\ held' <= MaxHeld
<1>1. Weight(Holds', TxId) = Weight(Holds, TxId)
    BY Nats, WeightSame
<1> QED BY <1>1 DEF Stepping, Budget

(* No restoration, and each transaction holds its records where it did.     *)
LEMMA SameHeld ==
    ASSUME Stepping, UNCHANGED <<restoring, retained>>, Open' <=> Open, Open => tx'.id = tx.id,
           NEW i \in TxId, Mine(i) => Bytes(tx'.edits) = Bytes(tx.edits)
    PROVE  HeldBy(i)' = HeldBy(i)
<1>1. Owes(i) /\ Owes(i)'
    BY Nats
<1>2. (Mine(i)' <=> Mine(i)) /\ (Under(i)' <=> Under(i))
    BY DEF Mine, Under, Rolling
<1>3. Bytes(restoring.todo)' = Bytes(restoring.todo) /\ Bytes(restoring.keep)' = Bytes(restoring.keep)
      /\ Bytes(restoring.done)' = Bytes(restoring.done) /\ Bytes(retained[i])' = Bytes(retained[i])
    BY DEF Bytes
<1>4. Bytes(tx.edits)' = Bytes(tx'.edits)
    BY DEF Bytes
<1> QED BY <1>1, <1>2, <1>3, <1>4 DEF Owes

-----------------------------------------------------------------------------
(* A step that neither captures nor moves records.                          *)
LEMMA SameBudget ==
    ASSUME Stepping, UNCHANGED <<restoring, retained, held>>, Open' <=> Open,
           Open => tx'.id = tx.id /\ Bytes(tx'.edits) = Bytes(tx.edits),
           \A p \in Path : snap'[p].at = "read" <=> snap[p].at = "read",
           \A p \in Path : snap[p].at = "read" => snap'[p] = snap[p]
    PROVE  Budget'
<1>1. \A i \in TxId : HeldBy(i)' = HeldBy(i)
    BY SameHeld DEF Mine
<1>2. Reading' = Reading
    BY DEF Reading
<1>3. held' = Cardinality(Reading') + Weight(Holds', TxId) /\ held' <= MaxHeld
    BY <1>1, <1>2, Unmoved
<1>4. Open' => retained'[tx'.id] = <<>>
    BY DEF Stepping, Budget
<1>5. \A p \in Path : snap'[p].at = "read" => snap'[p].seen \in File
    BY DEF Stepping, Budget
<1> QED BY <1>3, <1>4, <1>5 DEF Budget

(* The transaction is closed: nothing is being read any more.               *)
LEMMA ClosedReads ==
    ASSUME Sound, Open, tx.pending = 0, snap' = [p \in Path |-> NoSnapshot]
    PROVE  Reading = {} /\ Reading' = {} /\ \A p \in Path : snap'[p].at # "read"
<1>1. Capturing = {}
    BY NobodyWaits DEF Sound
<1>2. Reading = {}
    BY <1>1 DEF Reading, Capturing
<1>3. \A p \in Path : snap'[p].at # "read"
    BY DEF NoSnapshot
<1> QED BY <1>2, <1>3 DEF Reading

LEMMA CommitBudget ==
    ASSUME Stepping, Commit
    PROVE  Budget'
<1>1. /\ Open /\ tx.pending = 0 /\ held' = held - Bytes(tx.edits) /\ tx' = None
      /\ snap' = [p \in Path |-> NoSnapshot] /\ UNCHANGED <<restoring, retained>>
    BY DEF Commit
<1>2. tx.id \in TxId /\ Sound /\ ~Open' /\ ~Rolling /\ ~Rolling'
    BY <1>1, OpenIs DEF Stepping, Sound, Open, Apart, Rolling
<1>3. PICK i \in TxId : i = tx.id
    BY <1>2
<1>4. Reading = {} /\ Reading' = {} /\ \A p \in Path : snap'[p].at # "read"
    BY <1>1, <1>2, ClosedReads
<1>5. \A j \in TxId : Owes(j) /\ Owes(j)'
    BY Nats
<1>6. HeldBy(i) = Bytes(tx.edits) /\ HeldBy(i) \in Nat
    BY <1>1, <1>3, <1>5 DEF Owes, Mine
<1>7. \A j \in TxId : ~Under(j) /\ ~Under(j)' /\ ~Mine(j)' /\ (j # i => ~Mine(j))
    BY <1>2, <1>3 DEF Mine, Under
<1>8. \A j \in TxId : HeldBy(j)' = Bytes(retained[j])
    <2> TAKE j \in TxId
    <2>1. HeldBy(j)' = Bytes(retained[j])'
        BY <1>5, <1>7 DEF Owes
    <2> QED BY <1>1, <2>1 DEF Bytes
<1>9. \A j \in TxId \ {i} : HeldBy(j)' = HeldBy(j)
    BY <1>5, <1>7, <1>8 DEF Owes
<1>10. HeldBy(i)' = 0
    <2>1. retained[i] = <<>>
        BY <1>1, <1>3 DEF Stepping, Budget
    <2> QED BY <1>8, <2>1, BytesEmpty
<1>11. held' \in Int /\ held' <= MaxHeld
    <2>1. held \in Nat /\ held <= MaxHeld /\ held' = held - HeldBy(i) /\ MaxHeld \in Nat
        BY <1>1, <1>6, Nats, BudgetAssumption DEF Stepping, Budget
    <2> QED BY <1>6, <2>1
<1>12. Cardinality(Reading) = 0 /\ Cardinality(Reading') = 0 /\ held \in Nat
    BY <1>4, FS_EmptySet, Nats
<1>13. held' + Cardinality(Reading) + HeldBy(i) = held + Cardinality(Reading') + HeldBy(i)'
    BY <1>1, <1>6, <1>10, <1>12
<1>14. held' = Cardinality(Reading') + Weight(Holds', TxId)
    BY <1>9, <1>11, <1>13, Balanced
<1> QED BY <1>2, <1>4, <1>11, <1>14 DEF Budget

(* begin(): its id has nothing retained.                                    *)
LEMMA BeginBudget ==
    ASSUME Stepping, NEW i \in TxId, Begin(i)
    PROVE  Budget'
<1>1. /\ ~Rolling /\ ~Open /\ Open' /\ tx'.id = i /\ tx'.edits = <<>> /\ retained[i] = <<>>
      /\ UNCHANGED <<snap, restoring, retained>> /\ held' = held
    BY BeginIs DEF Stepping, Begin
<1>2. \A j \in TxId : Owes(j) /\ Owes(j)'
    BY Nats
<1>3. \A j \in TxId : /\ ~Under(j) /\ ~Under(j)' /\ ~Mine(j) /\ (j # i => ~Mine(j)')
                      /\ (j = i => Mine(j)')
    BY <1>1 DEF Mine, Under, Rolling
<1>4. \A j \in TxId : HeldBy(j)' = HeldBy(j)
    <2> TAKE j \in TxId
    <2>1. HeldBy(j) = Bytes(retained[j])
        BY <1>2, <1>3 DEF Owes
    <2>2. CASE j = i
        <3>1. HeldBy(j)' = Bytes(tx.edits)'
            BY <1>2, <1>3, <2>2 DEF Owes
        <3>2. Bytes(tx.edits)' = Bytes(retained[j])
            BY <1>1, <2>2 DEF Bytes
        <3> QED BY <2>1, <3>1, <3>2
    <2>3. CASE j # i
        <3>1. HeldBy(j)' = Bytes(retained[j])'
            BY <1>2, <1>3, <2>3 DEF Owes
        <3>2. Bytes(retained[j])' = Bytes(retained[j])
            BY <1>1 DEF Bytes
        <3> QED BY <2>1, <3>1, <3>2
    <2> QED BY <2>2, <2>3
<1>5. Reading' = Reading
    BY <1>1 DEF Reading
<1>6. held' = Cardinality(Reading') + Weight(Holds', TxId) /\ held' <= MaxHeld
    BY <1>1, <1>4, <1>5, Unmoved
<1>7. \A p \in Path : snap'[p].at = "read" => snap'[p].seen \in File
    BY <1>1 DEF Stepping, Budget
<1> QED BY <1>1, <1>6, <1>7 DEF Budget

(* rollbackDetailed(): the records of the transaction are to be put back.   *)
LEMMA UndoesBudget ==
    ASSUME Stepping, Undoes, NEW force, RollbackStarts(force), UNCHANGED <<retained, held>>
    PROVE  Budget'
<1>1. /\ Open /\ ~Open' /\ ~Rolling /\ Rolling' /\ restoring'.id = tx.id
      /\ restoring'.keep = <<>> /\ restoring'.done = <<>>
      /\ restoring'.todo = Reverse(tx.edits)
      /\ tx.pending = 0 /\ snap' = [p \in Path |-> NoSnapshot]
    BY DEF Undoes, RollbackStarts, MayRollBack
<1>2. tx.id \in TxId /\ tx.edits \in Seq(EditRecord) /\ Sound
    BY <1>1, OpenIs DEF Stepping, Sound
<1>3. PICK i \in TxId : i = tx.id
    BY <1>2
<1>4. Reading = {} /\ Reading' = {} /\ \A p \in Path : snap'[p].at # "read"
    BY <1>1, <1>2, ClosedReads
<1>5. \A j \in TxId : Owes(j) /\ Owes(j)'
    BY Nats
<1>6. \A j \in TxId : /\ ~Under(j) /\ ~Mine(j)' /\ (j # i => ~Mine(j) /\ ~Under(j)')
                      /\ (j = i => Mine(j) /\ Under(j)')
    BY <1>1, <1>3 DEF Mine, Under
<1>7. \A j \in TxId : HeldBy(j)' = HeldBy(j)
    <2> TAKE j \in TxId
    <2>1. CASE j = i
        <3>1. HeldBy(j) = Bytes(tx.edits) /\ HeldBy(j) \in Nat
            BY <1>5, <1>6, <2>1 DEF Owes
        <3>2. HeldBy(j)' = Bytes(restoring'.todo) + Bytes(restoring'.keep)
                           + Bytes(restoring'.done)
            BY <1>5, <1>6, <2>1 DEF Owes, Bytes
        <3>3. Bytes(restoring'.todo) = Bytes(tx.edits) /\ Bytes(restoring'.keep) = 0
              /\ Bytes(restoring'.done) = 0
            BY <1>1, <1>2, BytesReverse, BytesEmpty
        <3> QED BY <3>1, <3>2, <3>3
    <2>2. CASE j # i
        <3>1. HeldBy(j) = Bytes(retained[j]) /\ HeldBy(j)' = Bytes(retained[j])'
            BY <1>5, <1>6, <2>2 DEF Owes
        <3>2. Bytes(retained[j])' = Bytes(retained[j])
            BY DEF Bytes
        <3> QED BY <3>1, <3>2
    <2> QED BY <2>1, <2>2
<1>8. held' = Cardinality(Reading') + Weight(Holds', TxId) /\ held' <= MaxHeld
    BY <1>4, <1>7, Unmoved
<1> QED BY <1>1, <1>4, <1>8 DEF Budget

(* recover(): the oldest transaction is taken up again.                     *)
LEMMA RecoverBudget ==
    ASSUME Stepping, Recover
    PROVE  Budget'
<1>1. /\ ~Rolling /\ ~Open /\ ~Open' /\ Recovers(Retained)
      /\ UNCHANGED <<snap, retained, held>>
    BY RecoverIs DEF Stepping, Recover
<1>2. \A j \in TxId : Owes(j) /\ Owes(j)'
    BY Nats
<1>3. \A j \in TxId : ~Mine(j) /\ ~Mine(j)' /\ ~Under(j)
    BY <1>1 DEF Mine, Under
<1>4. \A j \in TxId : HeldBy(j)' = HeldBy(j)
    <2> TAKE j \in TxId
    <2>1. HeldBy(j) = Bytes(retained[j]) /\ HeldBy(j) \in Nat
        BY <1>2, <1>3 DEF Owes
    <2>2. CASE Under(j)'
        <3>1. restoring'.todo = retained[j] /\ restoring'.keep = <<>> /\ restoring'.done = <<>>
            BY <1>1, <2>2 DEF Recovers, Under
        <3>2. HeldBy(j)' = Bytes(restoring'.todo) + Bytes(restoring'.keep)
                           + Bytes(restoring'.done)
            BY <1>2, <2>2 DEF Owes, Bytes
        <3> QED BY <2>1, <3>1, <3>2, BytesEmpty
    <2>3. CASE ~Under(j)'
        <3>1. HeldBy(j)' = Bytes(retained[j])'
            BY <1>2, <1>3, <2>3 DEF Owes
        <3>2. Bytes(retained[j])' = Bytes(retained[j])
            BY <1>1 DEF Bytes
        <3> QED BY <2>1, <3>1, <3>2
    <2> QED BY <2>2, <2>3
<1>5. Reading' = Reading
    BY <1>1 DEF Reading
<1>6. held' = Cardinality(Reading') + Weight(Holds', TxId) /\ held' <= MaxHeld
    BY <1>1, <1>4, <1>5, Unmoved
<1>7. \A p \in Path : snap'[p].at = "read" => snap'[p].seen \in File
    BY <1>1 DEF Stepping, Budget
<1> QED BY <1>1, <1>6, <1>7 DEF Budget

-----------------------------------------------------------------------------
(* What the records of a restoration hold, settled or not.                  *)
Bulk == Bytes(restoring.todo) + Bytes(restoring.keep) + Bytes(restoring.done)

(* A record is settled, or not yet: they hold the same.                     *)
LEMMA RestoringBudget ==
    ASSUME Stepping, Rolling, Rolling', UNCHANGED <<tx, snap, retained, held>>,
           restoring'.id = restoring.id, Bulk' = Bulk
    PROVE  Budget'
<1>1. \A j \in TxId : Owes(j) /\ Owes(j)'
    BY Nats
<1>2. \A j \in TxId : (Mine(j)' <=> Mine(j)) /\ (Under(j)' <=> Under(j)) /\ (Under(j) => ~Mine(j))
    BY DEF Mine, Under, Open, Stepping, Apart
<1>3. \A j \in TxId : HeldBy(j)' = HeldBy(j)
    <2> TAKE j \in TxId
    <2>1. Bytes(retained[j])' = Bytes(retained[j]) /\ Bytes(tx.edits)' = Bytes(tx.edits)
        BY DEF Bytes
    <2>2. CASE Under(j)
        <3>1. HeldBy(j) = Bulk /\ HeldBy(j)' = Bulk'
            BY <1>1, <1>2, <2>2 DEF Owes, Bulk
        <3> QED BY <3>1
    <2>3. CASE ~Under(j)
        BY <1>1, <1>2, <2>1, <2>3 DEF Owes
    <2> QED BY <2>2, <2>3
<1>4. Reading' = Reading
    BY DEF Reading
<1>5. held' = Cardinality(Reading') + Weight(Holds', TxId) /\ held' <= MaxHeld
    BY <1>3, <1>4, Unmoved
<1>6. Open' => retained'[tx'.id] = <<>>
    BY DEF Stepping, Budget, Open
<1>7. \A p \in Path : snap'[p].at = "read" => snap'[p].seen \in File
    BY DEF Stepping, Budget
<1> QED BY <1>5, <1>6, <1>7 DEF Budget

LEMMA OneLessBulk ==
    ASSUME Sound, NEW step, Busy(step), NEW kept \in BOOLEAN, OneLess(kept, restoring')
    PROVE  Bulk' = Bulk /\ Rolling' /\ restoring'.id = restoring.id
<1>1. /\ restoring.todo \in Seq(EditRecord) /\ restoring.keep \in Seq(EditRecord)
      /\ restoring.done \in Seq(EditRecord) /\ restoring.todo # <<>> /\ Now \in EditRecord
      /\ Now = Head(restoring.todo)
    BY BusyIs, RollingIs DEF Sound, Busy, Now
<1>2. Bytes(restoring.todo) = One(Now) + Bytes(Tail(restoring.todo))
    BY <1>1, BytesTail
<1>3. /\ Bytes(Append(restoring.keep, Now)) = Bytes(restoring.keep) + One(Now)
      /\ Bytes(Append(restoring.done, Now)) = Bytes(restoring.done) + One(Now)
    BY <1>1, BytesAppend
<1>4. Bytes(Tail(restoring.todo)) \in Nat /\ Bytes(restoring.keep) \in Nat
      /\ Bytes(restoring.done) \in Nat /\ One(Now) \in Nat
    <2>1. Tail(restoring.todo) \in Seq(EditRecord)
        BY <1>1, TailHas
    <2> QED BY <1>1, <2>1, HoldingIs DEF One
<1>5. Bulk' = Bytes(restoring'.todo) + Bytes(restoring'.keep) + Bytes(restoring'.done)
    BY DEF Bulk, Bytes
<1>6. Rolling' /\ restoring'.id = restoring.id /\ restoring'.todo = Tail(restoring.todo)
    BY DEF OneLess, Rolling
<1>7. CASE kept
    <2>1. restoring'.keep = Append(restoring.keep, Now) /\ restoring'.done = restoring.done
        BY <1>7 DEF OneLess
    <2> QED BY <1>2, <1>3, <1>4, <1>5, <1>6, <2>1 DEF Bulk
<1>8. CASE ~kept
    <2>1. restoring'.keep = restoring.keep /\ restoring'.done = Append(restoring.done, Now)
        BY <1>8 DEF OneLess
    <2> QED BY <1>2, <1>3, <1>4, <1>5, <1>6, <2>1 DEF Bulk
<1> QED BY <1>7, <1>8

LEMMA SameBulk ==
    ASSUME restoring' \in Undoing, restoring'.todo = restoring.todo,
           restoring'.keep = restoring.keep, restoring'.done = restoring.done
    PROVE  Bulk' = Bulk /\ Rolling'
<1>1. Bulk' = Bytes(restoring'.todo) + Bytes(restoring'.keep) + Bytes(restoring'.done)
    BY DEF Bulk, Bytes
<1> QED BY <1>1, NothingAssumption DEF Bulk, Rolling

LEMMA EndsBudget ==
    ASSUME Stepping, RestoreEnds
    PROVE  Budget'
<1>1. /\ Rolling /\ restoring.todo = <<>> /\ held' = held - Bytes(restoring.done)
      /\ UNCHANGED <<tx, snap>>
      /\ retained' = [retained EXCEPT ![restoring.id] = restoring.keep]
      /\ restoring.later = {} => ~Rolling'
      /\ restoring.later # {} => Recovers(restoring.later)
    BY EndsIs DEF Stepping, RestoreEnds, Released
<1>2. /\ restoring.id \in TxId /\ restoring.keep \in Seq(EditRecord)
      /\ restoring.done \in Seq(EditRecord) /\ ~Open /\ ~Open' /\ retained \in [TxId -> Seq(EditRecord)]
      /\ restoring.id \notin restoring.later
    BY <1>1, RollingIs DEF Stepping, Sound, Apart, Open, Typed
<1>3. PICK i \in TxId : i = restoring.id
    BY <1>2
<1>4. \A j \in TxId : Owes(j) /\ Owes(j)'
    BY Nats
<1>5. \A j \in TxId : /\ ~Mine(j) /\ ~Mine(j)' /\ (j # i => ~Under(j) /\ retained'[j] = retained[j])
                      /\ Under(i) /\ ~Under(i)' /\ retained'[i] = restoring.keep
    BY <1>1, <1>2, <1>3 DEF Mine, Under, Recovers
<1>6. ASSUME NEW j \in TxId PROVE HeldBy(j)' = Bytes(retained'[j])
    <2>1. CASE Under(j)'
        <3>1. restoring'.todo = retained[j] /\ restoring'.keep = <<>> /\ restoring'.done = <<>>
              /\ j # i
            BY <1>1, <1>5, <2>1 DEF Recovers, Under
        <3>2. HeldBy(j)' = Bytes(restoring'.todo) + Bytes(restoring'.keep)
                           + Bytes(restoring'.done)
            BY <1>4, <2>1 DEF Owes, Bytes
        <3>3. Bytes(retained[j]) \in Nat /\ retained'[j] = retained[j]
            BY <1>2, <1>5, <3>1, HoldingIs
        <3> QED BY <3>1, <3>2, <3>3, BytesEmpty
    <2>2. CASE ~Under(j)'
        BY <1>4, <1>5, <2>2 DEF Owes, Bytes
    <2> QED BY <2>1, <2>2
<1>7. \A j \in TxId \ {i} : HeldBy(j)' = HeldBy(j)
    BY <1>4, <1>5, <1>6 DEF Owes
<1>8. /\ HeldBy(i)' = Bytes(restoring.keep)
      /\ HeldBy(i) = Bytes(restoring.keep) + Bytes(restoring.done)
      /\ Bytes(restoring.keep) \in Nat /\ Bytes(restoring.done) \in Nat
    <2>1. Bytes(restoring.keep) \in Nat /\ Bytes(restoring.done) \in Nat
        BY <1>2, HoldingIs
    <2>2. HeldBy(i) = 0 + Bytes(restoring.keep) + Bytes(restoring.done)
        BY <1>1, <1>4, <1>5, BytesEmpty DEF Owes
    <2>3. HeldBy(i)' = Bytes(restoring.keep)
        BY <1>5, <1>6
    <2> QED BY <2>1, <2>2, <2>3
<1>9. Reading' = Reading
    BY <1>1 DEF Reading
<1>10. held \in Nat /\ Cardinality(Reading) \in Nat /\ held <= MaxHeld /\ MaxHeld \in Nat
    BY Nats, BudgetAssumption DEF Stepping, Budget
<1>11. held' \in Int /\ held' <= MaxHeld
    BY <1>1, <1>8, <1>10
<1>12. held' + Cardinality(Reading) + HeldBy(i) = held + Cardinality(Reading') + HeldBy(i)'
    BY <1>1, <1>8, <1>9, <1>10
<1>13. held' = Cardinality(Reading') + Weight(Holds', TxId)
    BY <1>7, <1>11, <1>12, Balanced
<1>14. \A p \in Path : snap'[p].at = "read" => snap'[p].seen \in File
    BY <1>1 DEF Stepping, Budget
<1> QED BY <1>2, <1>11, <1>13, <1>14 DEF Budget

LEMMA RestoreBudget ==
    ASSUME Stepping, Aimed, Restores
    PROVE  Budget'
<1>1. Sound /\ TRUE \in BOOLEAN /\ FALSE \in BOOLEAN
    BY DEF Stepping
<1>2. CASE RestoreReads
    <2>1. Rolling /\ Busy("read") /\ UNCHANGED <<tx, snap, retained, held>>
        BY <1>1, <1>2, ReadsIs DEF RestoreReads
    <2>2. Bulk' = Bulk /\ Rolling' /\ restoring'.id = restoring.id
        BY <1>1, <1>2, <2>1, ReadsIs, OneLessBulk, SameBulk
    <2> QED BY <2>1, <2>2, RestoringBudget
<1>3. CASE RestoreWrites
    <2>1. Busy("write") /\ UNCHANGED <<tx, snap, retained, held>>
        BY <1>3 DEF RestoreWrites
    <2>2. Now.base # Unreadable /\ Rolling
        BY <2>1 DEF Aimed, Busy
    <2>3. Bulk' = Bulk /\ Rolling' /\ restoring'.id = restoring.id
        BY <1>1, <1>3, <2>1, <2>2, WritesIs, OneLessBulk, SameBulk
    <2> QED BY <2>1, <2>2, <2>3, RestoringBudget
<1>4. CASE RestoreChecks
    <2>1. Rolling /\ Busy("check") /\ UNCHANGED <<tx, snap, retained, held>>
        BY <1>1, <1>4, ChecksIs DEF RestoreChecks
    <2>2. Bulk' = Bulk /\ Rolling' /\ restoring'.id = restoring.id
        BY <1>1, <1>4, <2>1, ChecksIs, OneLessBulk
    <2> QED BY <2>1, <2>2, RestoringBudget
<1> QED BY <1>2, <1>3, <1>4, EndsBudget DEF Restores

-----------------------------------------------------------------------------
(* Captures.                                                                *)

(* A capture has its answer; what it read is a record now, or is given back.*)
LEMMA FiledBudget ==
    ASSUME Stepping, Open, NEW p \in Path, snap[p].at \in {"open", "read"},
           NEW base \in Baseline, Filed(p, base), UNCHANGED <<op, restoring, retained>>,
           held' = held + (IF base \in File THEN 1 ELSE 0) - (IF snap[p].at = "read" THEN 1 ELSE 0),
           base \in File => snap[p].at = "read"
    PROVE  Budget'
<1> DEFINE e == FiledRecord(p, base)
<1>1. /\ tx'.id = tx.id /\ e \in EditRecord /\ tx'.edits = Append(tx.edits, e)
      /\ snap'[p].at = "done" /\ \A r \in Path \ {p} : snap'[r] = snap[r]
      /\ tx' \in Transaction /\ tx.edits \in Seq(EditRecord) /\ tx.id \in TxId
    BY FiledIs, OpenIs DEF Stepping, Sound
<1>2. Open'
    BY <1>1, NothingAssumption DEF Open
<1>3. PICK i \in TxId : i = tx.id
    BY <1>1
<1>4. Mine(i) /\ Mine(i)' /\ Owes(i) /\ Owes(i)'
    BY <1>1, <1>2, <1>3, Nats DEF Mine
<1>5. One(e) = (IF base \in File THEN 1 ELSE 0)
    BY DEF One, FiledRecord
<1>6. HeldBy(i)' = HeldBy(i) + One(e) /\ HeldBy(i) \in Nat
    <2>1. HeldBy(i) = Bytes(tx.edits) /\ HeldBy(i)' = Bytes(tx'.edits) /\ HeldBy(i) \in Nat
        BY <1>4 DEF Owes, Bytes
    <2> QED BY <1>1, <2>1, BytesAppend
<1>7. \A j \in TxId \ {i} : HeldBy(j)' = HeldBy(j)
    <2> TAKE j \in TxId \ {i}
    <2>1. ~Mine(j) /\ (Open' <=> Open) /\ j \in TxId
        BY <1>2, <1>3 DEF Mine
    <2> QED BY <1>1, <2>1, SameHeld
<1>8. Reading' = Reading \ {p}
    BY <1>1 DEF Reading
<1>9. Cardinality(Reading') = IF snap[p].at = "read" THEN Cardinality(Reading) - 1
                              ELSE Cardinality(Reading)
    <2>1. p \in Reading <=> snap[p].at = "read"
        BY DEF Reading
    <2> QED BY <1>8, <2>1, Nats, FS_RemoveElement
<1>10. held \in Nat /\ Cardinality(Reading) \in Nat /\ held <= MaxHeld /\ MaxHeld \in Nat
    BY Nats, BudgetAssumption DEF Stepping, Budget
<1> HIDE DEF e
<1>11. held' \in Int /\ held' <= MaxHeld
    BY <1>10
<1>12. held' + Cardinality(Reading) + HeldBy(i) = held + Cardinality(Reading') + HeldBy(i)'
    BY <1>5, <1>6, <1>9, <1>10
<1>13. held' = Cardinality(Reading') + Weight(Holds', TxId)
    BY <1>7, <1>11, <1>12, Balanced
<1>14. Open' => retained'[tx'.id] = <<>>
    BY <1>1 DEF Stepping, Budget
<1>15. \A q \in Path : snap'[q].at = "read" => snap'[q].seen \in File
    BY <1>1 DEF Stepping, Budget
<1> QED BY <1>11, <1>13, <1>14, <1>15 DEF Budget

(* The size is known and there is room for it.                              *)
LEMMA ReservedBudget ==
    ASSUME Stepping, NEW p \in Path, snap[p].at = "open", Reserved(p),
           UNCHANGED <<restoring, retained>>
    PROVE  Budget'
<1>1. /\ disk[p] # Absent /\ held < MaxHeld /\ held' = held + 1 /\ UNCHANGED tx
      /\ snap' = [snap EXCEPT ![p] = [at |-> "read", seen |-> disk[p]]]
    BY DEF Reserved
<1>2. disk[p] \in File /\ snap \in [Path -> Snaps]
    BY <1>1 DEF Stepping, Sound, Typed, OnDisk
<1>3. /\ snap'[p].at = "read" /\ snap'[p].seen = disk[p]
      /\ \A r \in Path \ {p} : snap'[r] = snap[r]
    BY <1>1, <1>2
<1>4. Reading' = Reading \cup {p} /\ p \notin Reading
    BY <1>3 DEF Reading
<1>5. Cardinality(Reading') = Cardinality(Reading) + 1
    BY <1>4, Nats, FS_AddElement
<1>6. \A j \in TxId : HeldBy(j)' = HeldBy(j)
    <2> TAKE j \in TxId
    <2>1. (Open' <=> Open) /\ tx' = tx
        BY <1>1 DEF Open
    <2> QED BY <2>1, SameHeld
<1>7. Weight(Holds', TxId) = Weight(Holds, TxId)
    BY <1>6, Nats, WeightSame
<1>8. /\ held = Cardinality(Reading) + Weight(Holds, TxId) /\ held \in Nat
      /\ Cardinality(Reading) \in Nat /\ Weight(Holds, TxId) \in Nat /\ MaxHeld \in Nat
    BY Nats, BudgetAssumption DEF Stepping, Budget
<1>9. held' = Cardinality(Reading') + Weight(Holds', TxId) /\ held' <= MaxHeld
    BY <1>1, <1>5, <1>7, <1>8
<1>10. Open' => retained'[tx'.id] = <<>>
    BY <1>1 DEF Stepping, Budget, Open
<1>11. \A q \in Path : snap'[q].at = "read" => snap'[q].seen \in File
    BY <1>2, <1>3 DEF Stepping, Budget
<1> QED BY <1>9, <1>10, <1>11 DEF Budget

LEMMA CaptureBudget ==
    ASSUME Stepping, NEW p \in Path, CaptureOpens(p) \/ CaptureReads(p)
    PROVE  Budget'
<1>1. /\ Open /\ UNCHANGED <<op, restoring, retained>> /\ held \in Nat
      /\ Absent \notin File /\ Unreadable \notin File
      /\ Absent \in Baseline /\ Unreadable \in Baseline
    BY Nats, NothingAssumption DEF CaptureOpens, CaptureReads, Baseline, OnDisk
<1>2. CASE CaptureOpens(p)
    <2>1. snap[p].at = "open" /\ (NothingThere(p) \/ Reserved(p) \/ CannotOpen(p))
        BY <1>2 DEF CaptureOpens
    <2>2. CASE NothingThere(p)
        <3>1. Filed(p, Absent) /\ held' = held + 0 - 0
            BY <1>1, <2>2 DEF NothingThere
        <3> QED BY <1>1, <2>1, <3>1, FiledBudget
    <2>3. CASE CannotOpen(p)
        <3>1. Filed(p, Unreadable) /\ held' = held + 0 - 0
            BY <1>1, <2>3 DEF CannotOpen
        <3> QED BY <1>1, <2>1, <3>1, FiledBudget
    <2> QED BY <1>1, <2>1, <2>2, <2>3, ReservedBudget
<1>3. CASE CaptureReads(p)
    <2>1. snap[p].at = "read" /\ ReadBack(p)
        BY <1>3 DEF CaptureReads
    <2>2. snap[p].seen \in File
        BY <2>1 DEF Stepping, Budget
    <2>3. CASE disk[p] = snap[p].seen /\ Filed(p, disk[p]) /\ UNCHANGED held
        <3>1. disk[p] \in File /\ disk[p] \in Baseline /\ held' = held + 1 - 1
            BY <1>1, <2>2, <2>3 DEF Baseline, OnDisk
        <3> QED BY <1>1, <2>1, <2>3, <3>1, FiledBudget
    <2>4. CASE Filed(p, Unreadable) /\ held' = held - 1
        <3>1. held' = held + 0 - 1
            BY <1>1, <2>4
        <3> QED BY <1>1, <2>1, <2>4, <3>1, FiledBudget
    <2> QED BY <2>1, <2>3, <2>4 DEF ReadBack
<1> QED BY <1>2, <1>3

-----------------------------------------------------------------------------
LEMMA StartsBudget ==
    ASSUME Stepping, NEW t \in Tool, NEW p \in Path, NEW d \in Draft \cup {Absent},
           ToolStarts(t, p, d)
    PROVE  Budget'
<1>1. SameTx /\ UNCHANGED <<restoring, retained, held>> /\ snap \in [Path -> Snaps]
    BY StartIs DEF ToolStarts, Stepping, Sound, Typed
<1>2. \A q \in Path : /\ snap'[q].at = "read" <=> snap[q].at = "read"
                      /\ snap[q].at = "read" => snap'[q] = snap[q]
    <2>1. CASE UNCHANGED snap
        BY <2>1
    <2>2. CASE Open /\ snap[p].at = "none"
               /\ snap' = [snap EXCEPT ![p] = [at |-> "open", seen |-> None]]
        <3>1. snap'[p].at = "open" /\ \A q \in Path \ {p} : snap'[q] = snap[q]
            BY <1>1, <2>2
        <3> QED BY <2>2, <3>1
    <2> QED BY <2>1, <2>2 DEF ToolStarts, Registered
<1> QED BY <1>1, <1>2, SameBudget DEF SameTx

LEMMA DeclaresBudget ==
    ASSUME Stepping, NEW t \in Tool, ToolTracked(t)
    PROVE  Budget'
<1>1. /\ Open /\ Open' /\ tx'.id = tx.id /\ tx.edits \in Seq(EditRecord) /\ op[t].at # "idle"
      /\ tx'.edits = [i \in DOMAIN tx.edits |-> Declared(t, tx.edits[i])]
      /\ UNCHANGED <<restoring, retained, held, snap>> /\ Sound
    BY TrackedIs DEF Stepping, ToolTracked
<1>2. \A r \in EditRecord : Declared(t, r).base = r.base
    BY <1>1, DeclaredIs
<1>3. \A i \in DOMAIN tx.edits : tx'.edits[i].base = tx.edits[i].base
    BY <1>1, <1>2
<1>4. Bytes(tx'.edits) = Bytes(tx.edits)
    BY <1>1, <1>3, BytesSame
<1> QED BY <1>1, <1>4, SameBudget

LEMMA StepBudget ==
    ASSUME Sound, Apart, Aimed, Budget, Sound', Apart', [Next]_vars
    PROVE  Budget'
<1>1. Stepping
    BY DEF Stepping
<1>2. ASSUME UNCHANGED <<tx, snap, restoring, retained, held>> PROVE Budget'
    BY <1>1, <1>2, SameBudget DEF Open
<1>3. ASSUME NEW t \in Tool, ToolFails(t) PROVE Budget'
    <2>1. /\ op'[t].at = "idle" /\ \A s \in Tool \ {t} : op'[s] = op[s]
          /\ UNCHANGED <<retained, held>>
        BY <1>3, FailIs DEF ToolFails
    <2>2. CASE RollbackStarts(FALSE)
        <3>1. Undoes
            BY <2>1, <2>2, UndoesIs
        <3> QED BY <1>1, <2>1, <2>2, <3>1, UndoesBudget
    <2> QED BY <1>2, <1>3, <2>1, <2>2, FailIs
<1>4. ASSUME NEW force \in BOOLEAN, Rollback(force) PROVE Budget'
    <2>1. Undoes /\ RollbackStarts(force) /\ UNCHANGED <<retained, held>>
        BY <1>4, RollsBackIs DEF Rollback
    <2> QED BY <1>1, <2>1, UndoesBudget
<1>5. ASSUME NEW t \in Tool, ToolWrites(t) PROVE Budget'
    BY <1>2, <1>5 DEF ToolWrites
<1>6. ASSUME NEW p \in Path, PersonEdits(p) PROVE Budget'
    BY <1>2, <1>6 DEF PersonEdits
<1>7. CASE UNCHANGED vars
    BY <1>2, <1>7 DEF vars
<1>8. CASE Snapshots
    BY <1>1, <1>8, CaptureBudget DEF Snapshots
<1>9. CASE Tools
    BY <1>1, <1>3, <1>5, <1>9, DeclaresBudget DEF Tools
<1> QED BY <1>1, <1>4, <1>6, <1>7, <1>8, <1>9, BeginBudget, CommitBudget, RecoverBudget,
           StartsBudget, RestoreBudget DEF Next

LEMMA StartBudget ==
    ASSUME Init
    PROVE  Budget
<1>1. Sound /\ Apart
    BY StartApart
<1>2. /\ held = 0 /\ ~Open /\ ~Rolling /\ snap = [p \in Path |-> NoSnapshot]
      /\ retained = [i \in TxId |-> <<>>] /\ MaxHeld \in Nat
    BY BudgetAssumption DEF Init, Open, Rolling
<1>3. \A p \in Path : snap[p].at # "read"
    BY <1>2 DEF NoSnapshot
<1>4. Cardinality(Reading) = 0
    BY <1>3, FS_EmptySet DEF Reading
<1>5. \A i \in TxId : HeldBy(i) = 0
    <2> TAKE i \in TxId
    <2>1. Owes(i) /\ ~Mine(i) /\ ~Under(i) /\ retained[i] = <<>>
        BY <1>1, <1>2, OwesNow DEF Mine, Under
    <2> QED BY <2>1, BytesEmpty DEF Owes
<1>6. Weight(Holds, TxId) = 0
    <2>1. \A i \in TxId : 1..Holds[i] = {}
        BY <1>5 DEF Holds
    <2>2. Units(Holds, TxId) = {}
        BY <2>1 DEF Units
    <2> QED BY <2>2, FS_EmptySet DEF Weight
<1> QED BY <1>2, <1>3, <1>4, <1>6 DEF Budget

LEMMA BudgetIs == Sound /\ Apart /\ Budget => HeldExact
<1> SUFFICES ASSUME Sound, Apart, Budget PROVE HeldExact
    OBVIOUS
<1>1. \A i \in TxId : HeldBy(i) \in Nat
    BY OwesNow DEF Owes
<1>2. Cardinality(Reading) \in Nat
    BY ReadingIs DEF Counts
<1>3. held = Total
    BY <1>1, <1>2, TotalIs DEF Budget
<1>4. Holds \in [TxId -> Nat]
    BY <1>1 DEF Holds
<1>5. held \in Nat
    <2>1. TxId \in SUBSET TxId /\ IsFiniteSet(TxId)
        BY IdsFinite
    <2>2. Weight(Holds, TxId) \in Nat
        BY <1>4, <2>1, UnitsFinite
    <2> QED BY <1>2, <2>2 DEF Budget
<1>6. TypeOK
    BY <1>5, TypedIs DEF Sound
<1>7. held <= MaxHeld
    BY DEF Budget
<1>8. held = FoldSet(LAMBDA i, n : n + HeldBy(i), Cardinality(Reading), TxId)
    BY <1>3 DEF Total
<1> QED BY <1>6, <1>7, <1>8 DEF HeldExact

(* heldSnapshotBytes is exactly what the baselines kept and the reads under *)
(* way amount to, and within its limit: a capture that is refused gives its *)
(* reservation back, commit() and the end of a restoration release what     *)
(* they let go and nothing else, and a recovery takes up what was retained  *)
(* without counting it again; and everything has its type.                  *)
THEOREM BudgetExact == Spec => []HeldExact
<1>1. Sound /\ Apart /\ Aimed /\ Budget /\ (Sound /\ Aimed /\ Apart)' /\ [Next]_vars => Budget'
    BY StepBudget
<1>2. Spec => []Budget
    BY <1>1, StartBudget, SoundAlways, PTL DEF Spec
<1> QED BY <1>2, BudgetIs, SoundAlways, PTL
=============================================================================
