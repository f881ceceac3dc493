------------------------ MODULE ThreadStorage_proofs -------------------------
(***************************************************************************)
(* Theorems about the files of the threads, for any number of threads and  *)
(* versions, any writes that fail and any crashes.                         *)
(***************************************************************************)
EXTENDS ThreadStorage, TLAPS, SequenceTheorems, FiniteSetTheorems

Ways == [by : {"none", "archive", "room", "bin", "back"},
         at : {"", "write", "move", "bin", "rename", "restore"}, ahead : Nat]

LEMMA StateTyped ==
    TypeOK <=>
        /\ listed \in [Thread -> BOOLEAN] /\ ver \in [Thread -> 1..MaxVersion]
        /\ pending \in [Thread -> Entries \cup {NoEntry}]
        /\ written \in [Thread -> Nat] /\ gen \in 0..(Final - 1)
        /\ batches \in Seq(Seq(Entries)) /\ step \in {"check", "write", "failed"}
        /\ failed \in BOOLEAN /\ timer \in BOOLEAN
        /\ leave \in [Thread -> Ways]
        /\ file \in [Thread -> 0..MaxVersion] /\ shelf \in [Thread -> 0..MaxVersion]
        /\ backup \in [Thread -> 0..MaxVersion] /\ acked \in [Thread -> 0..MaxVersion]
        /\ flaws \subseteq {"retry", "copy"}
        /\ faults \in 0..MaxFaults /\ moves \in 0..MaxMoves
BY DEF TypeOK, Ways

LEMMA StateTypedNext ==
    TypeOK' <=>
        /\ listed' \in [Thread -> BOOLEAN] /\ ver' \in [Thread -> 1..MaxVersion]
        /\ pending' \in [Thread -> Entries \cup {NoEntry}]
        /\ written' \in [Thread -> Nat] /\ gen' \in 0..(Final - 1)
        /\ batches' \in Seq(Seq(Entries)) /\ step' \in {"check", "write", "failed"}
        /\ failed' \in BOOLEAN /\ timer' \in BOOLEAN
        /\ leave' \in [Thread -> Ways]
        /\ file' \in [Thread -> 0..MaxVersion] /\ shelf' \in [Thread -> 0..MaxVersion]
        /\ backup' \in [Thread -> 0..MaxVersion] /\ acked' \in [Thread -> 0..MaxVersion]
        /\ flaws' \subseteq {"retry", "copy"}
        /\ faults' \in 0..MaxFaults /\ moves' \in 0..MaxMoves
BY DEF TypeOK, Ways

(* A set of entries as a sequence has no others.                            *)
LEMMA ListedIs ==
    ASSUME NEW S, IsFiniteSet(S)
    PROVE  SetToSeq(S) \in Seq(S)
<1>1. Cardinality(S) \in Nat /\ ExistsBijection(1..Cardinality(S), S)
    BY FS_CardinalityType
<1>2. \E f \in [1..Cardinality(S) -> S] : IsInjective(f)
    BY <1>1 DEF ExistsBijection, Bijection, Injection
<1>3. SetToSeq(S) \in [1..Cardinality(S) -> S]
    BY <1>2 DEF SetToSeq
<1> QED BY <1>1, <1>3

-----------------------------------------------------------------------------
(* What is still to be written.                                             *)

Queued(k) == {batches[k][i] : i \in DOMAIN batches[k]}
Saves(t) == {e \in Entries : e.id = t /\ (e = pending[t] \/ \E k \in DOMAIN batches : e \in Queued(k))}
(* Those that the thread's way out does not wait for.                       *)
Late(t) == {e \in Saves(t) : \/ e = pending[t]
                             \/ \E k \in DOMAIN batches : k > leave[t].ahead /\ e \in Queued(k)}

LEMMA FlushedIs ==
    ASSUME TypeOK, Flush
    PROVE  /\ batches' \in Seq(Seq(Entries))
           /\ \A k \in DOMAIN batches' :
                  \/ k \in DOMAIN batches /\ Queued(k)' = Queued(k)
                  \/ \A e \in Queued(k)' : \E t \in Thread : e = pending[t]
<1> DEFINE S == {pending[t] : t \in Thread} \ {NoEntry}
           q == SetToSeq(S)
<1>1. batches \in Seq(Seq(Entries)) /\ S \subseteq Entries
    BY StateTyped
<1>2. IsFiniteSet(S)
    <2> DEFINE T == {pending[t] : t \in Thread}
    <2>1. pending \in [Thread -> T] /\ \A e \in T : \E t \in Thread : pending[t] = e
        BY StateTyped
    <2>2. pending \in Surjection(Thread, T)
        BY <2>1 DEF Surjection
    <2>3. IsFiniteSet(T)
        BY <2>2, FS_Surjection, BoundsAssumption
    <2> QED BY <2>3, FS_Subset
<1>3. q \in Seq(S)
    BY <1>2, ListedIs
<1>4. q \in Seq(Entries) /\ \A i \in DOMAIN q : q[i] \in S
    <2>1. Len(q) \in Nat /\ q \in [1..Len(q) -> S] /\ DOMAIN q = 1..Len(q)
        BY <1>3, LenProperties
    <2>2. q \in [1..Len(q) -> Entries]
        BY <1>1, <2>1
    <2>3. q \in Seq(Entries)
        BY <2>1, <2>2
    <2> QED BY <2>1, <2>3
<1>5. batches' = Append(batches, q)
    BY DEF Flush
<1> HIDE DEF q
<1>6. /\ batches' \in Seq(Seq(Entries)) /\ Len(batches') = Len(batches) + 1
      /\ \A k \in 1..Len(batches) : batches'[k] = batches[k]
      /\ batches'[Len(batches) + 1] = q
    BY <1>1, <1>4, <1>5, AppendProperties
<1>7. DOMAIN batches = 1..Len(batches) /\ DOMAIN batches' = 1..Len(batches) + 1
    BY <1>1, <1>6
<1>8. \A k \in DOMAIN batches : Queued(k)' = Queued(k)
    BY <1>6, <1>7 DEF Queued
<1>9. ASSUME NEW k, k = Len(batches) + 1 PROVE \A e \in Queued(k)' : e \in S
    <2>1. Queued(k)' = {q[i] : i \in DOMAIN q}
        BY <1>6, <1>9 DEF Queued
    <2> QED BY <1>4, <2>1
<1>10. \A k \in DOMAIN batches' : k \in DOMAIN batches \/ k = Len(batches) + 1
    <2>1. Len(batches) \in Nat
        BY <1>1
    <2> QED BY <1>7, <2>1
<1> QED BY <1>6, <1>8, <1>9, <1>10

LEMMA EntryIs ==
    ASSUME TypeOK, batches # <<>>, Head(batches) # <<>>
    PROVE  /\ 1 \in DOMAIN batches /\ Entry \in Queued(1) /\ Entry \in Entries
           /\ EntryDone => /\ batches' \in Seq(Seq(Entries)) /\ DOMAIN batches' = DOMAIN batches
                           /\ \A k \in DOMAIN batches : Queued(k)' \subseteq Queued(k)
<1> DEFINE first == batches[1]
<1>1. /\ batches \in Seq(Seq(Entries)) /\ 1 \in DOMAIN batches /\ Len(batches) \in Nat \ {0}
      /\ Head(batches) = first /\ first \in Seq(Entries) /\ first # <<>>
    BY StateTyped, EmptySeq
<1> HIDE DEF first
<1>2. /\ Head(first) \in Entries /\ Head(first) = first[1] /\ 1 \in DOMAIN first
      /\ Tail(first) \in Seq(Entries) /\ Len(Tail(first)) = Len(first) - 1
      /\ \A i \in 1..Len(Tail(first)) : Tail(first)[i] = first[i + 1]
    BY <1>1, HeadTailProperties, EmptySeq
<1>3. Entry = first[1] /\ Entry \in Entries /\ Entry \in Queued(1)
    BY <1>1, <1>2 DEF Entry, Queued, first
<1>4. ASSUME EntryDone
      PROVE  /\ batches' \in Seq(Seq(Entries)) /\ DOMAIN batches' = DOMAIN batches
             /\ batches'[1] = Tail(first) /\ \A k \in DOMAIN batches \ {1} : batches'[k] = batches[k]
    <2>1. batches' = [batches EXCEPT ![1] = Tail(first)]
        BY <1>4 DEF EntryDone, first
    <2> QED BY <1>1, <1>2, <2>1
<1>5. ASSUME EntryDone, NEW k \in DOMAIN batches PROVE Queued(k)' \subseteq Queued(k)
    <2>1. CASE k # 1
        BY <1>4, <1>5, <2>1 DEF Queued
    <2>2. CASE k = 1
        <3>1. ASSUME NEW i \in DOMAIN Tail(first)
              PROVE  \E j \in DOMAIN first : Tail(first)[i] = first[j]
            <4>1. i \in 1..Len(Tail(first)) /\ i + 1 \in DOMAIN first
                BY <1>1, <1>2
            <4> QED BY <1>2, <4>1
        <3>2. Queued(1)' = {Tail(first)[i] : i \in DOMAIN Tail(first)}
            BY <1>4, <1>5 DEF Queued
        <3>3. Queued(1) = {first[j] : j \in DOMAIN first}
            BY DEF Queued, first
        <3> QED BY <2>2, <3>1, <3>2, <3>3
    <2> QED BY <2>1, <2>2
<1> QED BY <1>1, <1>3, <1>4, <1>5

LEMMA EndedIs ==
    ASSUME TypeOK, batches # <<>>, batches' = Tail(batches)
    PROVE  /\ batches' \in Seq(Seq(Entries)) /\ DOMAIN batches' = 1..Len(batches) - 1
           /\ DOMAIN batches = 1..Len(batches) /\ Len(batches) \in Nat \ {0}
           /\ \A k \in DOMAIN batches' : Queued(k)' = Queued(k + 1)
<1>1. batches \in Seq(Seq(Entries))
    BY StateTyped
<1>2. /\ Tail(batches) \in Seq(Seq(Entries)) /\ Len(Tail(batches)) = Len(batches) - 1
      /\ \A k \in 1..Len(Tail(batches)) : Tail(batches)[k] = batches[k + 1]
      /\ Len(batches) \in Nat \ {0}
    BY <1>1, HeadTailProperties, EmptySeq
<1>3. DOMAIN batches' = 1..Len(batches) - 1 /\ DOMAIN batches = 1..Len(batches)
    BY <1>1, <1>2
<1>4. \A k \in DOMAIN batches' : batches'[k] = batches[k + 1]
    BY <1>2, <1>3
<1> QED BY <1>2, <1>3, <1>4 DEF Queued

-----------------------------------------------------------------------------
(* The inductive invariant, one thread at a time.                           *)

(* Where a thread stands on its way out of the list or back.                *)
Way(t) ==
    \/ leave[t] = Stays
    \/ /\ leave[t].by \in {"archive", "room", "bin"} /\ ~listed[t]
       /\ written[t] = Final /\ file[t] # None
       /\ \/ leave[t].at = "write"
          \/ leave[t].at = "move" /\ leave[t].ahead = 0
          \/ /\ leave[t].at = "bin" /\ leave[t].by = "bin"
             /\ leave[t].ahead = 0 /\ backup[t] # None
    \/ /\ leave[t].by = "back" /\ ~listed[t] /\ leave[t].ahead = 0
       /\ \/ leave[t].at = "rename" /\ shelf[t] # None
          \/ leave[t].at = "restore" /\ file[t] # None

Saved(t) ==
    /\ pending[t] = NoEntry \/ pending[t] \in Saves(t)
    /\ \A e \in Saves(t) : e.gen < Final
    /\ listed[t] => file[t] # None

(* No save of a thread whose file is gone will be written.                  *)
Sealed(t) == written[t] = Final \/ Saves(t) = {}

(* One place for each, and a copy only of what is gone or about to go.      *)
Placed(t) ==
    /\ shelf[t] # None =>
           /\ file[t] = None /\ ~listed[t] /\ backup[t] = None
           /\ leave[t] = Stays \/ leave[t].at = "rename"
    /\ backup[t] # None =>
           leave[t].at = "bin" \/ (leave[t] = Stays /\ file[t] = None /\ ~listed[t])
    /\ file[t] = None => Sealed(t)

(* The disk is not ahead of the app, nor behind what has been reported, and *)
(* what is still to be written is in order and not older than the file.     *)
OnDisk(t) ==
    /\ file[t] <= ver[t] /\ acked[t] <= ver[t]
    /\ shelf[t] \in {None, ver[t]} /\ backup[t] \in {None, ver[t]}
    /\ file[t] # None => acked[t] <= file[t]
    /\ file[t] = None => acked[t] = None \/ shelf[t] # None \/ backup[t] # None
    /\ leave[t].at \in {"move", "bin", "restore"} => file[t] = ver[t]
Fits(t) == \A e \in Saves(t) :
    /\ e.gen <= gen /\ e.ver <= ver[t]
    /\ written[t] > e.gen \/ file[t] <= e.ver
    /\ e = pending[t] => e.ver = ver[t]
Ordered(t) == \A e \in Saves(t), f \in Saves(t) : e.gen <= f.gen => e.ver <= f.ver
LastWords(t) == ~listed[t] => \A e \in Late(t) : e.ver = ver[t]
Known(t) == written[t] <= gen \/ written[t] = Final
InOrder(t) == Fits(t) /\ Ordered(t) /\ LastWords(t) /\ Known(t)

Kept(t) ==
    /\ Way(t) /\ Saved(t)
    /\ "copy" \notin flaws => Placed(t)
    /\ flaws = {} => OnDisk(t) /\ InOrder(t)
IInv == TypeOK /\ \A t \in Thread : Kept(t)

(* A step that is not about a thread, as that thread sees it.               *)
Same(u) ==
    /\ listed'[u] = listed[u] /\ ver'[u] = ver[u] /\ written'[u] = written[u]
    /\ file'[u] = file[u] /\ shelf'[u] = shelf[u] /\ backup'[u] = backup[u]
    /\ acked'[u] = acked[u]

LEMMA Bystander ==
    ASSUME TypeOK, TypeOK', NEW u \in Thread, Same(u), Kept(u),
           leave'[u].by = leave[u].by, leave'[u].at = leave[u].at,
           leave[u] = Stays => leave'[u] = Stays, leave[u].ahead = 0 => leave'[u].ahead = 0,
           pending'[u] \in {pending[u], NoEntry},
           pending'[u] = NoEntry \/ pending'[u] \in Saves(u)',
           Saves(u)' \subseteq Saves(u), Late(u)' \subseteq Late(u),
           gen <= gen', flaws \subseteq flaws'
    PROVE  Kept(u)'
<1>1. Way(u)'
    BY DEF Kept, Way, Same
<1>2. Saved(u)'
    BY DEF Kept, Saved, Same
<1>3. ASSUME "copy" \notin flaws' PROVE Placed(u)'
    <2>1. Placed(u)
        BY <1>3 DEF Kept
    <2> QED BY <2>1 DEF Placed, Sealed, Same
<1>4. ASSUME flaws' = {} PROVE OnDisk(u)' /\ InOrder(u)'
    <2>1. OnDisk(u) /\ InOrder(u) /\ pending'[u] \in {pending[u], NoEntry}
        BY <1>4 DEF Kept
    <2>2. OnDisk(u)'
        BY <2>1 DEF OnDisk, Same
    <2>3. gen \in Nat /\ gen' \in Nat /\ written[u] \in Nat
        BY StateTyped, StateTypedNext
    <2>4. Fits(u)'
        <3> SUFFICES ASSUME NEW e \in Saves(u)'
                     PROVE  /\ e.gen <= gen' /\ e.ver <= ver'[u]
                            /\ written'[u] > e.gen \/ file'[u] <= e.ver
                            /\ e = pending'[u] => e.ver = ver'[u]
            BY DEF Fits
        <3>1. /\ e \in Saves(u) /\ e.gen <= gen /\ e.ver <= ver[u]
              /\ written[u] > e.gen \/ file[u] <= e.ver
              /\ e = pending[u] => e.ver = ver[u]
            BY <2>1 DEF InOrder, Fits
        <3>2. e \in Entries /\ e.gen \in Nat /\ e # NoEntry
            BY <3>1 DEF Saves, Entries, NoEntry
        <3> QED BY <2>1, <2>3, <3>1, <3>2 DEF Same
    <2>5. Ordered(u)'
        BY <2>1 DEF InOrder, Ordered
    <2>6. LastWords(u)'
        BY <2>1 DEF InOrder, LastWords, Same
    <2>7. Known(u)'
        BY <2>1, <2>3 DEF InOrder, Known, Same
    <2> QED BY <2>2, <2>4, <2>5, <2>6, <2>7 DEF InOrder
<1> QED BY <1>1, <1>2, <1>3, <1>4 DEF Kept

LEMMA AllLate ==
    ASSUME TypeOK, NEW u \in Thread, leave[u].ahead = 0
    PROVE  Late(u) = Saves(u)
<1>1. \A k \in DOMAIN batches : k > 0
    BY StateTyped
<1> QED BY <1>1 DEF Late, Saves

LEMMA SavesSame ==
    ASSUME NEW u \in Thread, batches' = batches, pending'[u] = pending[u]
    PROVE  /\ Saves(u)' = Saves(u)
           /\ leave'[u].ahead = leave[u].ahead => Late(u)' = Late(u)
<1>1. \A k : Queued(k)' = Queued(k)
    BY DEF Queued
<1>2. Saves(u)' = Saves(u)
    BY <1>1 DEF Saves
<1> QED BY <1>1, <1>2 DEF Late

LEMMA OneThread ==
    ASSUME IInv, NEW t \in Thread, TypeOK', Kept(t)', batches' = batches,
           \A u \in Thread \ {t} : Same(u) /\ pending'[u] = pending[u] /\ leave'[u] = leave[u],
           gen <= gen', flaws' = flaws
    PROVE  IInv'
<1> SUFFICES ASSUME NEW u \in Thread, u # t PROVE Kept(u)'
    BY DEF IInv
<1>1. /\ Same(u) /\ Kept(u) /\ pending'[u] = pending[u] /\ leave'[u] = leave[u] /\ TypeOK
      /\ pending[u] = NoEntry \/ pending[u] \in Saves(u)
    BY DEF IInv, Kept, Saved
<1>2. Saves(u)' = Saves(u) /\ Late(u)' = Late(u)
    BY <1>1, SavesSame
<1> QED BY <1>1, <1>2, Bystander

LEMMA Values ==
    ASSUME TypeOK, NEW t \in Thread
    PROVE  /\ ver[t] \in 1..MaxVersion /\ ver[t] \in Nat /\ ver[t] # None /\ MaxVersion \in Nat
           /\ file[t] \in 0..MaxVersion /\ file[t] \in Nat /\ shelf[t] \in 0..MaxVersion
           /\ backup[t] \in 0..MaxVersion /\ acked[t] \in Nat /\ None \in 0..MaxVersion
           /\ written[t] \in Nat /\ gen \in Nat /\ gen < Final /\ Final \in Nat /\ None = 0
           /\ leave[t] \in Ways /\ leave[t].ahead \in Nat /\ listed[t] \in BOOLEAN
           /\ \A e \in Saves(t) : /\ e \in Entries /\ e # NoEntry /\ e.gen \in Nat
                                  /\ e.ver \in Nat /\ e.ver # None
<1>1. /\ ver[t] \in 1..MaxVersion /\ MaxVersion \in Nat \ {0}
      /\ file[t] \in 0..MaxVersion /\ shelf[t] \in 0..MaxVersion
      /\ backup[t] \in 0..MaxVersion /\ acked[t] \in 0..MaxVersion
      /\ written[t] \in Nat /\ gen \in 0..(Final - 1) /\ leave[t] \in Ways /\ listed[t] \in BOOLEAN
    BY StateTyped, BoundsAssumption
<1>2. leave[t].ahead \in Nat
    BY <1>1 DEF Ways
<1>3. \A e \in Saves(t) : e \in Entries /\ e.gen \in Nat /\ e.ver \in 1..MaxVersion
    BY DEF Saves, Entries
<1>4. NoEntry \notin Entries
    BY DEF NoEntry, Entries
<1> QED BY <1>1, <1>2, <1>3, <1>4 DEF Final, None

LEMMA StaysIs ==
    /\ Stays \in Ways /\ Stays.by = "none" /\ Stays.ahead = 0
    /\ Stays.at \notin {"write", "move", "bin", "rename", "restore"}
    /\ NoEntry.gen = 0 /\ NoEntry \notin Entries
BY DEF Stays, Ways, NoEntry, Entries

LEMMA FaultIs ==
    ASSUME TypeOK, Fault
    PROVE  faults' \in 0..MaxFaults
<1>1. faults \in 0..MaxFaults /\ MaxFaults \in Nat
    BY StateTyped, BoundsAssumption
<1>2. faults < MaxFaults /\ faults' = faults + 1
    BY DEF Fault
<1> QED BY <1>1, <1>2

LEMMA SavedIs ==
    ASSUME TypeOK, NEW t \in Thread, NEW v \in 1..MaxVersion, NEW g \in Nat, SavedLater(t, v, g)
    PROVE  /\ pending' \in [Thread -> Entries \cup {NoEntry}]
           /\ pending'[t] \in Entries /\ pending'[t].id = t
           /\ pending'[t].ver = v /\ pending'[t].gen = g
           /\ \A u \in Thread \ {t} : pending'[u] = pending[u]
           /\ gen' = g /\ gen' \in 0..(Final - 1) /\ timer' \in BOOLEAN /\ g < Final
<1> DEFINE e == [id |-> t, ver |-> v, gen |-> g]
<1>1. e \in Entries /\ e.id = t /\ e.ver = v /\ e.gen = g
    BY DEF Entries
<1>2. pending' = [pending EXCEPT ![t] = e] /\ gen' = g /\ timer' = TRUE /\ g < Final
    BY DEF SavedLater
<1> HIDE DEF e
<1>3. pending \in [Thread -> Entries \cup {NoEntry}]
    BY StateTyped
<1>4. gen' \in 0..(Final - 1)
    BY <1>2 DEF Final
<1> QED BY <1>1, <1>2, <1>3, <1>4

LEMMA SavesNew ==
    ASSUME TypeOK, NEW t \in Thread, batches' = batches,
           pending'[t] \in Entries, pending'[t].id = t
    PROVE  /\ pending'[t] \in Saves(t)'
           /\ \A e \in Saves(t)' : e = pending'[t] \/ e \in Saves(t)
           /\ Late(t)' \subseteq Saves(t)'
<1>1. \A k : Queued(k)' = Queued(k)
    BY DEF Queued
<1> QED BY <1>1 DEF Saves, Late

LEMMA SavesGone ==
    ASSUME TypeOK, NEW t \in Thread, batches' = batches, pending'[t] = NoEntry
    PROVE  /\ Saves(t)' \subseteq Saves(t)
           /\ Late(t)' \subseteq Saves(t)'
<1>1. \A k : Queued(k)' = Queued(k)
    BY DEF Queued
<1>2. NoEntry \notin Entries
    BY StaysIs
<1> QED BY <1>1, <1>2 DEF Saves, Late

-----------------------------------------------------------------------------
(* Changes of a listed thread.                                              *)

LEMMA InTheList ==
    ASSUME IInv, NEW t \in Thread, listed[t]
    PROVE  /\ leave[t] = Stays /\ file[t] # None
           /\ "copy" \notin flaws => shelf[t] = None /\ backup[t] = None
<1>1. Kept(t) /\ leave[t] = Stays /\ file[t] # None
    BY DEF IInv, Kept, Way, Saved
<1>2. leave[t].at \notin {"bin", "rename"}
    BY <1>1, StaysIs
<1> QED BY <1>1, <1>2 DEF Kept, Placed

LEMMA ChangeKept ==
    ASSUME IInv, NEW t \in Thread, Change(t)
    PROVE  IInv'
<1>1. TypeOK /\ Kept(t) /\ listed[t] /\ ver[t] + 1 \in 1..MaxVersion /\ gen + 1 \in Nat
    BY Values DEF IInv, Change
<1>2. /\ pending' \in [Thread -> Entries \cup {NoEntry}]
      /\ pending'[t] \in Entries /\ pending'[t].id = t
      /\ pending'[t].ver = ver[t] + 1 /\ pending'[t].gen = gen + 1
      /\ \A u \in Thread \ {t} : pending'[u] = pending[u]
      /\ gen' = gen + 1 /\ gen' \in 0..(Final - 1) /\ timer' \in BOOLEAN /\ gen + 1 < Final
    BY <1>1, SavedIs DEF Change
<1>3. /\ ver' \in [Thread -> 1..MaxVersion] /\ ver'[t] = ver[t] + 1
      /\ \A u \in Thread \ {t} : ver'[u] = ver[u]
      /\ UNCHANGED <<flaws, listed, written, batches, step, failed, leave, file, shelf, backup,
                    acked, faults, moves>>
    BY <1>1, StateTyped DEF Change, disk, bounds
<1>4. TypeOK'
    BY <1>1, <1>2, <1>3, StateTyped, StateTypedNext
<1>5. /\ leave[t] = Stays /\ file[t] # None
      /\ "copy" \notin flaws => shelf[t] = None /\ backup[t] = None
    BY <1>1, InTheList
<1>6. /\ pending'[t] \in Saves(t)' /\ Late(t)' \subseteq Saves(t)'
      /\ \A e \in Saves(t)' : e = pending'[t] \/ e \in Saves(t)
    BY <1>1, <1>2, <1>3, SavesNew
<1>7. Way(t)' /\ Saved(t)'
    BY <1>1, <1>2, <1>3, <1>5, <1>6 DEF Way, Kept, Saved
<1>8. "copy" \notin flaws' => Placed(t)'
    BY <1>3, <1>5 DEF Placed
<1>9. ASSUME flaws' = {} PROVE OnDisk(t)' /\ InOrder(t)'
    <2>1. OnDisk(t) /\ InOrder(t) /\ shelf[t] = None /\ backup[t] = None
        BY <1>1, <1>3, <1>5, <1>9 DEF Kept
    <2>2. OnDisk(t)'
        <3>1. leave'[t].at \notin {"move", "bin", "restore"}
            BY <1>3, <1>5, StaysIs
        <3>2. /\ file'[t] <= ver'[t] /\ acked'[t] <= ver'[t] /\ acked'[t] <= file'[t]
            BY <1>1, <1>3, <1>5, <2>1, Values DEF OnDisk
        <3> QED BY <1>3, <1>5, <2>1, <3>1, <3>2 DEF OnDisk
    <2>3. Fits(t)'
        BY <1>1, <1>2, <1>3, <1>6, <2>1, Values DEF InOrder, Fits, OnDisk
    <2>4. Ordered(t)'
        BY <1>1, <1>2, <1>3, <1>6, <2>1, Values DEF InOrder, Fits, Ordered
    <2>5. LastWords(t)' /\ Known(t)'
        BY <1>1, <1>2, <1>3, <2>1, Values DEF InOrder, LastWords, Known
    <2> QED BY <2>2, <2>3, <2>4, <2>5 DEF InOrder
<1>10. \A u \in Thread \ {t} : Same(u) /\ leave'[u] = leave[u]
    BY <1>3 DEF Same
<1>11. gen <= gen'
    BY <1>1, <1>2, Values
<1>12. Kept(t)'
    BY <1>7, <1>8, <1>9 DEF Kept
<1> QED BY <1>2, <1>3, <1>4, <1>10, <1>11, <1>12, OneThread

LEMMA ChangeNowKept ==
    ASSUME IInv, NEW t \in Thread, ChangeNow(t)
    PROVE  IInv'
<1>1. /\ TypeOK /\ Kept(t) /\ listed[t] /\ ver[t] + 1 \in 1..MaxVersion
      /\ gen + 1 \in Nat /\ gen + 2 \in Nat
    BY Values DEF IInv, ChangeNow
<1>2. /\ ver' \in [Thread -> 1..MaxVersion] /\ ver'[t] = ver[t] + 1
      /\ \A u \in Thread \ {t} : ver'[u] = ver[u]
      /\ UNCHANGED <<flaws, listed, batches, step, failed, leave, shelf, backup, moves>>
    BY <1>1, StateTyped DEF ChangeNow
<1>3. /\ leave[t] = Stays /\ file[t] # None
      /\ "copy" \notin flaws => shelf[t] = None /\ backup[t] = None
    BY <1>1, InTheList
<1>4. leave[t].at \notin {"move", "bin", "restore"}
    BY <1>3, StaysIs
<1>5. CASE /\ NoFault /\ gen + 1 < Final
           /\ file' = [file EXCEPT ![t] = ver[t] + 1]
           /\ acked' = [acked EXCEPT ![t] = ver[t] + 1]
           /\ written' = [written EXCEPT ![t] = gen + 1]
           /\ pending' = [pending EXCEPT ![t] = NoEntry]
           /\ gen' = gen + 1 /\ UNCHANGED timer
    <2>1. /\ pending' \in [Thread -> Entries \cup {NoEntry}]
          /\ file' \in [Thread -> 0..MaxVersion] /\ acked' \in [Thread -> 0..MaxVersion]
          /\ written' \in [Thread -> Nat]
        <3>1. ver[t] + 1 \in 0..MaxVersion
            BY <1>1, Values
        <3> QED BY <1>1, <1>5, <3>1, StateTyped
    <2>2. /\ file'[t] = ver[t] + 1 /\ acked'[t] = ver[t] + 1 /\ written'[t] = gen + 1
          /\ pending'[t] = NoEntry
          /\ \A u \in Thread \ {t} : /\ pending'[u] = pending[u] /\ file'[u] = file[u]
                                     /\ acked'[u] = acked[u] /\ written'[u] = written[u]
        BY <1>1, <1>5, StateTyped
    <2>3. gen' \in 0..(Final - 1) /\ gen <= gen'
        BY <1>1, <1>5, Values DEF Final
    <2>4. TypeOK'
        BY <1>1, <1>2, <1>5, <2>1, <2>3, StateTyped, StateTypedNext DEF NoFault
    <2>5. Saves(t)' \subseteq Saves(t) /\ Late(t)' \subseteq Saves(t)'
        BY <1>1, <1>2, <2>2, SavesGone
    <2>6. file'[t] # None
        BY <1>1, <2>2, Values
    <2>7. Way(t)' /\ Saved(t)' /\ ("copy" \notin flaws' => Placed(t)')
        BY <1>1, <1>2, <1>3, <2>2, <2>5, <2>6 DEF Way, Kept, Saved, Placed
    <2>8. ASSUME flaws' = {} PROVE OnDisk(t)' /\ InOrder(t)'
        <3>1. OnDisk(t) /\ InOrder(t) /\ shelf[t] = None /\ backup[t] = None
            BY <1>1, <1>2, <1>3, <2>8 DEF Kept
        <3>2. OnDisk(t)'
            BY <1>1, <1>2, <1>4, <2>2, <2>6, <3>1, Values DEF OnDisk
        <3>3. \A e \in Saves(t)' : e.gen <= gen /\ e.ver <= ver[t] /\ e # NoEntry
            BY <1>1, <2>5, <3>1, Values DEF InOrder, Fits
        <3>4. Fits(t)'
            BY <1>1, <1>2, <1>5, <2>2, <2>5, <3>3, Values DEF Fits
        <3>5. Ordered(t)'
            BY <2>5, <3>1 DEF InOrder, Ordered
        <3>6. LastWords(t)' /\ Known(t)'
            BY <1>1, <1>2, <1>5, <2>2, Values DEF LastWords, Known
        <3> QED BY <3>2, <3>4, <3>5, <3>6 DEF InOrder
    <2>9. Kept(t)' /\ \A u \in Thread \ {t} : Same(u) /\ leave'[u] = leave[u]
        BY <1>2, <2>2, <2>7, <2>8 DEF Kept, Same
    <2> QED BY <1>2, <2>2, <2>3, <2>4, <2>9, OneThread
<1>6. CASE Fault /\ SavedLater(t, ver[t] + 1, gen + 2) /\ UNCHANGED <<file, acked, written>>
    <2>1. /\ pending' \in [Thread -> Entries \cup {NoEntry}]
          /\ pending'[t] \in Entries /\ pending'[t].id = t
          /\ pending'[t].ver = ver[t] + 1 /\ pending'[t].gen = gen + 2
          /\ \A u \in Thread \ {t} : pending'[u] = pending[u]
          /\ gen' = gen + 2 /\ gen' \in 0..(Final - 1) /\ timer' \in BOOLEAN /\ gen + 2 < Final
        BY <1>1, <1>6, SavedIs
    <2>2. faults' \in 0..MaxFaults
        BY <1>1, <1>6, FaultIs
    <2>3. TypeOK'
        BY <1>1, <1>2, <1>6, <2>1, <2>2, StateTyped, StateTypedNext
    <2>4. /\ pending'[t] \in Saves(t)' /\ Late(t)' \subseteq Saves(t)'
          /\ \A e \in Saves(t)' : e = pending'[t] \/ e \in Saves(t)
        BY <1>1, <1>2, <2>1, SavesNew
    <2>5. Way(t)' /\ Saved(t)' /\ ("copy" \notin flaws' => Placed(t)')
        BY <1>1, <1>2, <1>3, <1>6, <2>1, <2>4 DEF Way, Kept, Saved, Placed
    <2>6. ASSUME flaws' = {} PROVE OnDisk(t)' /\ InOrder(t)'
        <3>1. OnDisk(t) /\ InOrder(t) /\ shelf[t] = None /\ backup[t] = None
            BY <1>1, <1>2, <1>3, <2>6 DEF Kept
        <3>2. OnDisk(t)'
            <4>0. /\ file'[t] = file[t] /\ acked'[t] = acked[t] /\ ver'[t] = ver[t] + 1
                  /\ file[t] <= ver[t] /\ acked[t] <= ver[t] /\ acked[t] <= file[t]
                BY <1>2, <1>3, <1>6, <3>1 DEF OnDisk
            <4>1. file'[t] <= ver'[t] /\ acked'[t] <= ver'[t] /\ acked'[t] <= file'[t]
                BY <1>1, <4>0, Values
            <4> QED BY <1>2, <1>3, <1>4, <1>6, <3>1, <4>1 DEF OnDisk
        <3>3. Fits(t)'
            BY <1>1, <1>2, <1>6, <2>1, <2>4, <3>1, Values DEF InOrder, Fits, OnDisk
        <3>4. Ordered(t)'
            BY <1>1, <1>2, <2>1, <2>4, <3>1, Values DEF InOrder, Fits, Ordered
        <3>5. LastWords(t)' /\ Known(t)'
            BY <1>1, <1>2, <1>6, <2>1, <3>1, Values DEF InOrder, LastWords, Known
        <3> QED BY <3>2, <3>3, <3>4, <3>5 DEF InOrder
    <2>7. Kept(t)' /\ gen <= gen' /\ \A u \in Thread \ {t} : Same(u) /\ leave'[u] = leave[u]
        <3>1. gen <= gen'
            BY <1>1, <2>1, Values
        <3> QED BY <1>2, <1>6, <2>5, <2>6, <3>1 DEF Kept, Same
    <2> QED BY <1>2, <2>1, <2>3, <2>7, OneThread
<1> QED BY <1>5, <1>6 DEF ChangeNow

-----------------------------------------------------------------------------
(* Out of the list and back: the steps of one thread's way.                 *)

LEMMA WayIs ==
    ASSUME NEW r \in Ways, NEW a \in {"write", "move", "bin", "rename", "restore"}
    PROVE  LET q == [r EXCEPT !.at = a]
           IN  q \in Ways /\ q.at = a /\ q.by = r.by /\ q.ahead = r.ahead
BY DEF Ways

LEMMA GoesOnIs ==
    ASSUME TypeOK, NEW t \in Thread, NEW a \in {"write", "move", "bin", "rename", "restore"},
           GoesOn(t, a)
    PROVE  /\ leave' \in [Thread -> Ways]
           /\ leave'[t].at = a /\ leave'[t].by = leave[t].by /\ leave'[t].ahead = leave[t].ahead
           /\ \A u \in Thread \ {t} : leave'[u] = leave[u]
<1> DEFINE q == [leave[t] EXCEPT !.at = a]
<1>1. leave \in [Thread -> Ways] /\ leave[t] \in Ways
    BY StateTyped
<1>2. q \in Ways /\ q.at = a /\ q.by = leave[t].by /\ q.ahead = leave[t].ahead
    BY <1>1, WayIs
<1>3. leave' = [leave EXCEPT ![t] = q]
    BY DEF GoesOn
<1> HIDE DEF q
<1> QED BY <1>1, <1>2, <1>3

(* What is so of a thread on its way.                                       *)
LEMMA OnTheWay ==
    ASSUME IInv, NEW t \in Thread
    PROVE  /\ leave[t].at \in {"write", "move", "bin"} =>
                  ~listed[t] /\ written[t] = Final /\ file[t] # None /\ leave[t] # Stays
           /\ leave[t].at = "bin" => leave[t].by = "bin" /\ backup[t] # None
           /\ leave[t].at = "rename" => ~listed[t] /\ shelf[t] # None /\ leave[t].by = "back"
           /\ leave[t].at = "restore" => ~listed[t] /\ file[t] # None /\ leave[t].by = "back"
BY StaysIs DEF IInv, Kept, Way

LEMMA WordsLast ==
    ASSUME IInv, NEW t \in Thread, ~listed[t], leave[t].ahead = 0, flaws = {}
    PROVE  \A e \in Saves(t) : e.ver = ver[t]
<1>1. LastWords(t) /\ TypeOK
    BY DEF IInv, Kept, InOrder
<1> QED BY <1>1, AllLate DEF LastWords

(* A step of the way that leaves the saves of its thread alone.             *)
LEMMA PlacesMove ==
    ASSUME IInv, TypeOK', NEW t \in Thread, ~listed[t],
           UNCHANGED <<listed, ver, pending, written, gen, batches, flaws>>,
           leave[t].ahead = 0, leave'[t].ahead = 0, Way(t)',
           "copy" \notin flaws => Placed(t)',
           flaws = {} => OnDisk(t)' /\ (Sealed(t) \/ file'[t] = file[t]),
           \A u \in Thread \ {t} : Same(u) /\ leave'[u] = leave[u]
    PROVE  IInv'
<1>1. TypeOK /\ Kept(t) /\ Saves(t)' = Saves(t) /\ Late(t)' = Late(t)
    BY SavesSame DEF IInv
<1>2. Saved(t)'
    BY <1>1 DEF Kept, Saved
<1>3. ASSUME flaws' = {} PROVE InOrder(t)'
    <2>1. InOrder(t) /\ (Sealed(t) \/ file'[t] = file[t]) /\ Saved(t)
        BY <1>1, <1>3 DEF Kept
    <2>2. Fits(t)'
        BY <1>1, <2>1, Values DEF InOrder, Fits, Sealed, Saved
    <2> QED BY <1>1, <2>1, <2>2 DEF InOrder, Ordered, LastWords, Known
<1>4. Kept(t)'
    BY <1>2, <1>3 DEF Kept
<1>5. gen <= gen'
    BY <1>1, Values
<1> QED BY <1>4, <1>5, OneThread

LEMMA ReadmittedIs ==
    ASSUME TypeOK, NEW t \in Thread, NEW v \in 1..MaxVersion, Readmitted(t, v), ~listed[t]
    PROVE  /\ leave' \in [Thread -> Ways] /\ written' \in [Thread -> Nat]
           /\ pending' \in [Thread -> Entries \cup {NoEntry}]
           /\ listed' \in [Thread -> BOOLEAN] /\ timer' \in BOOLEAN
           /\ gen' \in 0..(Final - 1) /\ gen <= gen'
           /\ leave'[t] = Stays /\ written'[t] = 0
           /\ \/ ~listed'[t] /\ pending'[t] = pending[t] /\ gen' = gen
              \/ /\ pending'[t] \in Entries /\ pending'[t].id = t /\ pending'[t].ver = v
                 /\ pending'[t].gen = gen + 1 /\ gen' = gen + 1 /\ gen + 1 < Final
           /\ \A u \in Thread \ {t} : /\ leave'[u] = leave[u] /\ written'[u] = written[u]
                                      /\ pending'[u] = pending[u] /\ listed'[u] = listed[u]
<1>1. /\ leave' \in [Thread -> Ways] /\ written' \in [Thread -> Nat]
      /\ leave'[t] = Stays /\ written'[t] = 0
      /\ \A u \in Thread \ {t} : leave'[u] = leave[u] /\ written'[u] = written[u]
    BY StateTyped, StaysIs DEF Readmitted
<1>2. CASE UNCHANGED <<listed, pending, gen, timer>>
    <2>1. gen <= gen'
        BY <1>2, Values
    <2> QED BY <1>1, <1>2, <2>1, StateTyped
<1>3. CASE listed' = [listed EXCEPT ![t] = TRUE] /\ SavedLater(t, v, gen + 1)
    <2>1. gen \in Nat /\ gen + 1 \in Nat /\ gen <= gen + 1
        BY Values
    <2>2. /\ pending' \in [Thread -> Entries \cup {NoEntry}]
          /\ pending'[t] \in Entries /\ pending'[t].id = t
          /\ pending'[t].ver = v /\ pending'[t].gen = gen + 1
          /\ \A u \in Thread \ {t} : pending'[u] = pending[u]
          /\ gen' = gen + 1 /\ gen' \in 0..(Final - 1) /\ timer' \in BOOLEAN /\ gen + 1 < Final
        BY <1>3, <2>1, SavedIs
    <2>3. listed' \in [Thread -> BOOLEAN] /\ \A u \in Thread \ {t} : listed'[u] = listed[u]
        BY <1>3, StateTyped
    <2> QED BY <1>1, <2>1, <2>2, <2>3
<1> QED BY <1>2, <1>3 DEF Readmitted

(* A thread that is readmitted, with what its file has become.              *)
LEMMA ReadmittedKept ==
    ASSUME IInv, TypeOK', NEW t \in Thread, NEW v \in 1..MaxVersion, Readmitted(t, v),
           ~listed[t], leave[t].ahead = 0, ver'[t] = v, batches' = batches, flaws' = flaws,
           file'[t] # None, shelf'[t] = shelf[t],
           "copy" \notin flaws => shelf[t] = None /\ backup'[t] = None,
           flaws = {} => OnDisk(t)' /\ v = ver[t],
           \A u \in Thread \ {t} : /\ ver'[u] = ver[u] /\ file'[u] = file[u]
                                   /\ shelf'[u] = shelf[u] /\ backup'[u] = backup[u]
                                   /\ acked'[u] = acked[u]
    PROVE  IInv'
<1>1. TypeOK /\ Kept(t)
    BY DEF IInv
<1>2. /\ gen <= gen' /\ leave'[t] = Stays /\ written'[t] = 0
      /\ \/ ~listed'[t] /\ pending'[t] = pending[t] /\ gen' = gen
         \/ /\ pending'[t] \in Entries /\ pending'[t].id = t /\ pending'[t].ver = v
            /\ pending'[t].gen = gen + 1 /\ gen' = gen + 1 /\ gen + 1 < Final
      /\ \A u \in Thread \ {t} : /\ leave'[u] = leave[u] /\ written'[u] = written[u]
                                 /\ pending'[u] = pending[u] /\ listed'[u] = listed[u]
    BY <1>1, ReadmittedIs
<1>3. /\ pending'[t] = NoEntry \/ pending'[t] \in Saves(t)'
      /\ \A e \in Saves(t)' : e \in Saves(t) \/ (e.ver = v /\ e.gen = gen' /\ e.gen < Final)
    <2>1. CASE pending'[t] = pending[t]
        <3>1. Saves(t)' = Saves(t)
            BY <2>1, SavesSame
        <3> QED BY <1>1, <2>1, <3>1 DEF Kept, Saved
    <2>2. CASE /\ pending'[t] \in Entries /\ pending'[t].id = t /\ pending'[t].ver = v
               /\ pending'[t].gen = gen + 1 /\ gen' = gen + 1 /\ gen + 1 < Final
        <3>1. /\ pending'[t] \in Saves(t)'
              /\ \A e \in Saves(t)' : e = pending'[t] \/ e \in Saves(t)
            BY <1>1, <2>2, SavesNew
        <3> QED BY <2>2, <3>1
    <2> QED BY <1>2, <2>1, <2>2
<1>4. Way(t)' /\ Saved(t)'
    BY <1>1, <1>2, <1>3 DEF Kept, Way, Saved
<1>5. "copy" \notin flaws' => Placed(t)'
    BY DEF Placed
<1>6. ASSUME flaws' = {} PROVE OnDisk(t)' /\ InOrder(t)'
    <2>1. InOrder(t) /\ OnDisk(t)' /\ v = ver[t]
        BY <1>1, <1>6 DEF Kept
    <2>2. /\ \A e \in Saves(t)' : e.ver = v /\ e.gen <= gen' /\ e.gen \in Nat
          /\ gen' \in Nat /\ v \in Nat /\ file'[t] \in Nat /\ file'[t] <= v
        <3>1. gen \in Nat /\ gen' \in Nat
            BY <1>1, <1>2, Values, StateTypedNext
        <3>2. ASSUME NEW e \in Saves(t)' PROVE e.ver = v /\ e.gen <= gen' /\ e.gen \in Nat
            <4>1. CASE e \in Saves(t)
                <5>1. e.ver = ver[t] /\ e.gen <= gen /\ e.gen \in Nat
                    BY <1>1, <1>6, <2>1, <4>1, WordsLast, Values DEF InOrder, Fits
                <5> QED BY <1>2, <2>1, <3>1, <5>1
            <4>2. CASE e.ver = v /\ e.gen = gen' /\ e.gen < Final
                BY <3>1, <4>2
            <4> QED BY <1>3, <4>1, <4>2
        <3>3. v \in Nat /\ file'[t] \in Nat /\ file'[t] <= v
            <4>1. file'[t] \in 0..MaxVersion /\ MaxVersion \in Nat
                BY StateTypedNext, BoundsAssumption
            <4> QED BY <2>1, <4>1 DEF OnDisk
        <3> QED BY <3>1, <3>2, <3>3
    <2>3. Fits(t)' /\ Ordered(t)'
        BY <2>2 DEF Fits, Ordered
    <2>4. Late(t)' \subseteq Saves(t)'
        BY DEF Late
    <2>5. LastWords(t)' /\ Known(t)'
        BY <1>2, <2>2, <2>4 DEF LastWords, Known
    <2> QED BY <2>1, <2>3, <2>5 DEF InOrder
<1>7. Kept(t)'
    BY <1>4, <1>5, <1>6 DEF Kept
<1>8. \A u \in Thread \ {t} : Same(u) /\ pending'[u] = pending[u] /\ leave'[u] = leave[u]
    BY <1>2 DEF Same
<1> QED BY <1>2, <1>7, <1>8, OneThread

LEMMA ReleaseKept ==
    ASSUME IInv, NEW t \in Thread, NEW by \in Leavings, Release(t, by)
    PROVE  IInv'
<1> DEFINE r == [by |-> by, at |-> "write", ahead |-> Len(batches)]
<1>1. /\ TypeOK /\ Kept(t) /\ listed[t] /\ leave[t] = Stays
      /\ batches \in Seq(Seq(Entries)) /\ Len(batches) \in Nat /\ DOMAIN batches = 1..Len(batches)
    <2>1. TypeOK /\ Kept(t) /\ listed[t] /\ leave[t] = Stays
        BY DEF IInv, Release
    <2>2. batches \in Seq(Seq(Entries))
        BY <2>1, StateTyped
    <2> QED BY <2>1, <2>2
<1>2. /\ r \in Ways /\ r.by \in {"archive", "room", "bin"} /\ r.at = "write"
      /\ r.ahead = Len(batches)
    <2>1. by \in {"archive", "room", "bin"}
        BY BoundsAssumption
    <2> QED BY <1>1, <2>1 DEF Ways
<1>3. leave' = [leave EXCEPT ![t] = r]
    BY DEF Release
<1> HIDE DEF r
<1>4. /\ leave' \in [Thread -> Ways] /\ leave'[t] = r
      /\ listed' \in [Thread -> BOOLEAN] /\ ~listed'[t]
      /\ written' \in [Thread -> Nat] /\ written'[t] = Final
      /\ \A u \in Thread \ {t} : /\ leave'[u] = leave[u] /\ listed'[u] = listed[u]
                                 /\ written'[u] = written[u]
      /\ UNCHANGED <<flaws, ver, pending, gen, batches, step, failed, timer, file, shelf, backup,
                    acked, faults>>
    BY <1>1, <1>2, <1>3, StateTyped DEF Release, disk, Final
<1>5. moves' \in 0..MaxMoves
    <2>1. moves \in 0..MaxMoves /\ MaxMoves \in Nat /\ moves < MaxMoves /\ moves' = moves + 1
        BY <1>1, StateTyped, BoundsAssumption DEF Release
    <2> QED BY <2>1
<1>6. TypeOK'
    BY <1>1, <1>4, <1>5, StateTyped, StateTypedNext
<1>7. /\ file[t] # None
      /\ "copy" \notin flaws => shelf[t] = None /\ backup[t] = None
    BY <1>1, InTheList
<1>8. Saves(t)' = Saves(t)
    BY <1>4, SavesSame
<1>9. Way(t)' /\ Saved(t)' /\ ("copy" \notin flaws' => Placed(t)')
    BY <1>1, <1>2, <1>4, <1>7, <1>8 DEF Way, Kept, Saved, Placed
<1>10. ASSUME flaws' = {} PROVE OnDisk(t)' /\ InOrder(t)'
    <2>1. OnDisk(t) /\ InOrder(t) /\ Saved(t)
        BY <1>1, <1>4, <1>10 DEF Kept
    <2>2. OnDisk(t)'
        BY <1>2, <1>4, <2>1, StaysIs DEF OnDisk
    <2>3. Fits(t)' /\ Ordered(t)' /\ Known(t)'
        BY <1>1, <1>4, <1>8, <2>1, Values DEF InOrder, Fits, Ordered, Known, Saved
    <2>4. \A e \in Late(t)' : e = pending[t] /\ e \in Saves(t)
        <3>1. \A k \in DOMAIN batches : ~(k > Len(batches))
            BY <1>1
        <3> QED BY <1>2, <1>4, <1>8, <3>1 DEF Late
    <2>5. LastWords(t)'
        BY <1>4, <2>1, <2>4 DEF InOrder, Fits, LastWords
    <2> QED BY <2>2, <2>3, <2>5 DEF InOrder
<1>11. Kept(t)' /\ gen <= gen'
    BY <1>1, <1>4, <1>9, <1>10, Values DEF Kept
<1>12. \A u \in Thread \ {t} : Same(u) /\ leave'[u] = leave[u] /\ pending'[u] = pending[u]
    BY <1>4 DEF Same
<1> QED BY <1>4, <1>6, <1>11, <1>12, OneThread

LEMMA FinalWrittenKept ==
    ASSUME IInv, NEW t \in Thread, FinalWritten(t)
    PROVE  IInv'
<1>1. /\ TypeOK /\ Kept(t) /\ leave[t].at = "write" /\ leave[t].ahead = 0
      /\ ~listed[t] /\ written[t] = Final /\ file[t] # None /\ leave[t] # Stays
      /\ UNCHANGED <<flaws, ver, batches, step, failed, shelf, backup, acked, moves>>
    BY OnTheWay DEF IInv, FinalWritten, Leaving
<1>2. "copy" \notin flaws => shelf[t] = None /\ backup[t] = None
    BY <1>1 DEF Kept, Placed
<1>3. CASE /\ NoFault /\ GoesOn(t, "move") /\ file' = [file EXCEPT ![t] = ver[t]]
           /\ UNCHANGED <<listed, pending, written, gen, timer>>
    <2>1. /\ leave' \in [Thread -> Ways]
          /\ leave'[t].at = "move" /\ leave'[t].by = leave[t].by /\ leave'[t].ahead = 0
          /\ \A u \in Thread \ {t} : leave'[u] = leave[u]
        BY <1>1, <1>3, GoesOnIs
    <2>2. /\ file' \in [Thread -> 0..MaxVersion] /\ file'[t] = ver[t] /\ ver[t] # None
          /\ \A u \in Thread \ {t} : file'[u] = file[u]
        <3>1. ver[t] \in 0..MaxVersion /\ ver[t] # None
            BY <1>1, Values
        <3> QED BY <1>1, <1>3, <3>1, StateTyped
    <2>3. TypeOK'
        BY <1>1, <1>3, <2>1, <2>2, StateTyped, StateTypedNext DEF NoFault
    <2>4. Way(t)'
        BY <1>1, <1>3, <2>1, <2>2 DEF Kept, Way
    <2>5. "copy" \notin flaws => Placed(t)'
        BY <1>1, <1>2, <2>2 DEF Placed
    <2>6. ASSUME flaws = {} PROVE OnDisk(t)' /\ Sealed(t)
        <3>1. OnDisk(t)
            BY <1>1, <2>6 DEF Kept
        <3>2. ver[t] <= ver[t]
            BY <1>1, Values
        <3> QED BY <1>1, <2>2, <3>1, <3>2 DEF OnDisk, Sealed
    <2>7. \A u \in Thread \ {t} : Same(u)
        BY <1>1, <1>3, <2>2 DEF Same
    <2> QED BY <1>1, <1>3, <2>1, <2>3, <2>4, <2>5, <2>6, <2>7, PlacesMove
<1>4. CASE Fault /\ Readmitted(t, ver[t]) /\ UNCHANGED file
    <2>1. ver[t] \in 1..MaxVersion
        BY <1>1, Values
    <2>2. TypeOK' /\ leave'[t] = Stays
        BY <1>1, <1>4, <2>1, ReadmittedIs, FaultIs, StateTyped, StateTypedNext
    <2>3. ASSUME flaws = {} PROVE OnDisk(t)'
        <3>1. OnDisk(t)
            BY <1>1, <2>3 DEF Kept
        <3> QED BY <1>1, <1>4, <2>2, <3>1, StaysIs DEF OnDisk
    <2> QED BY <1>1, <1>2, <1>4, <2>1, <2>2, <2>3, ReadmittedKept
<1> QED BY <1>3, <1>4 DEF FinalWritten

LEMMA ArchivedKept ==
    ASSUME IInv, NEW t \in Thread, Archived(t)
    PROVE  IInv'
<1>1. /\ TypeOK /\ Kept(t) /\ leave[t].at = "move" /\ leave[t].ahead = 0
      /\ ~listed[t] /\ written[t] = Final /\ file[t] # None /\ leave[t] # Stays
      /\ UNCHANGED <<flaws, ver, batches, step, failed, backup, moves>>
    BY OnTheWay DEF IInv, Archived, Leaving
<1>2. "copy" \notin flaws => shelf[t] = None /\ backup[t] = None
    BY <1>1 DEF Kept, Placed
<1>3. CASE /\ NoFault /\ leave' = [leave EXCEPT ![t] = Stays]
           /\ shelf' = [shelf EXCEPT ![t] = file[t]]
           /\ file' = [file EXCEPT ![t] = None]
           /\ acked' = [acked EXCEPT ![t] = ver[t]]
           /\ UNCHANGED <<listed, pending, written, gen, timer>>
    <2>1. /\ leave' \in [Thread -> Ways] /\ leave'[t] = Stays /\ leave'[t].ahead = 0
          /\ \A u \in Thread \ {t} : leave'[u] = leave[u]
        BY <1>1, <1>3, StateTyped, StaysIs
    <2>2. /\ file' \in [Thread -> 0..MaxVersion] /\ shelf' \in [Thread -> 0..MaxVersion]
          /\ acked' \in [Thread -> 0..MaxVersion]
          /\ file'[t] = None /\ shelf'[t] = file[t] /\ acked'[t] = ver[t]
          /\ \A u \in Thread \ {t} : /\ file'[u] = file[u] /\ shelf'[u] = shelf[u]
                                     /\ acked'[u] = acked[u]
        <3>1. ver[t] \in 0..MaxVersion /\ file[t] \in 0..MaxVersion /\ None \in 0..MaxVersion
            BY <1>1, Values
        <3> QED BY <1>1, <1>3, <3>1, StateTyped
    <2>3. TypeOK'
        BY <1>1, <1>3, <2>1, <2>2, StateTyped, StateTypedNext DEF NoFault
    <2>4. Way(t)'
        BY <2>1 DEF Way
    <2>5. "copy" \notin flaws => Placed(t)'
        BY <1>1, <1>2, <1>3, <2>1, <2>2 DEF Placed, Sealed
    <2>6. ASSUME flaws = {} PROVE OnDisk(t)' /\ Sealed(t)
        <3>1. OnDisk(t) /\ file[t] = ver[t]
            BY <1>1, <2>6 DEF Kept, OnDisk
        <3>2. ver[t] <= ver[t] /\ None <= ver[t] /\ ver[t] # None
            BY <1>1, Values
        <3> QED BY <1>1, <2>1, <2>2, <3>1, <3>2, StaysIs DEF OnDisk, Sealed
    <2>7. \A u \in Thread \ {t} : Same(u)
        BY <1>1, <1>3, <2>2 DEF Same
    <2> QED BY <1>1, <1>3, <2>1, <2>3, <2>4, <2>5, <2>6, <2>7, PlacesMove
<1>4. CASE Fault /\ Readmitted(t, ver[t]) /\ UNCHANGED <<file, shelf, acked>>
    <2>1. ver[t] \in 1..MaxVersion
        BY <1>1, Values
    <2>2. TypeOK' /\ leave'[t] = Stays
        BY <1>1, <1>4, <2>1, ReadmittedIs, FaultIs, StateTyped, StateTypedNext
    <2>3. ASSUME flaws = {} PROVE OnDisk(t)'
        <3>1. OnDisk(t)
            BY <1>1, <2>3 DEF Kept
        <3> QED BY <1>1, <1>4, <2>2, <3>1, StaysIs DEF OnDisk
    <2> QED BY <1>1, <1>2, <1>4, <2>1, <2>2, <2>3, ReadmittedKept
<1> QED BY <1>3, <1>4 DEF Archived

LEMMA BackedUpKept ==
    ASSUME IInv, NEW t \in Thread, BackedUp(t)
    PROVE  IInv'
<1>1. /\ TypeOK /\ Kept(t) /\ leave[t].at = "move" /\ leave[t].ahead = 0 /\ leave[t].by = "bin"
      /\ ~listed[t] /\ written[t] = Final /\ file[t] # None /\ leave[t] # Stays
      /\ UNCHANGED <<flaws, ver, batches, step, failed, file, shelf, acked, moves>>
    BY OnTheWay DEF IInv, BackedUp, Leaving
<1>2. "copy" \notin flaws => shelf[t] = None /\ backup[t] = None
    BY <1>1 DEF Kept, Placed
<1>3. CASE /\ NoFault /\ GoesOn(t, "bin") /\ backup' = [backup EXCEPT ![t] = file[t]]
           /\ UNCHANGED <<listed, pending, written, gen, timer>>
    <2>1. /\ leave' \in [Thread -> Ways]
          /\ leave'[t].at = "bin" /\ leave'[t].by = "bin" /\ leave'[t].ahead = 0
          /\ \A u \in Thread \ {t} : leave'[u] = leave[u]
        BY <1>1, <1>3, GoesOnIs
    <2>2. /\ backup' \in [Thread -> 0..MaxVersion] /\ backup'[t] = file[t]
          /\ \A u \in Thread \ {t} : backup'[u] = backup[u]
        <3>1. file[t] \in 0..MaxVersion
            BY <1>1, Values
        <3> QED BY <1>1, <1>3, <3>1, StateTyped
    <2>3. TypeOK'
        BY <1>1, <1>3, <2>1, <2>2, StateTyped, StateTypedNext DEF NoFault
    <2>4. Way(t)'
        BY <1>1, <1>3, <2>1, <2>2 DEF Way
    <2>5. "copy" \notin flaws => Placed(t)'
        BY <1>1, <1>2, <2>1, <2>2 DEF Placed
    <2>6. ASSUME flaws = {} PROVE OnDisk(t)' /\ Sealed(t)
        <3>1. OnDisk(t) /\ file[t] = ver[t]
            BY <1>1, <2>6 DEF Kept, OnDisk
        <3> QED BY <1>1, <2>1, <2>2, <3>1 DEF OnDisk, Sealed
    <2>7. \A u \in Thread \ {t} : Same(u)
        BY <1>1, <1>3, <2>2 DEF Same
    <2> QED BY <1>1, <1>3, <2>1, <2>3, <2>4, <2>5, <2>6, <2>7, PlacesMove
<1>4. CASE Fault /\ Readmitted(t, ver[t]) /\ backup' = [backup EXCEPT ![t] = None]
    <2>1. ver[t] \in 1..MaxVersion /\ None \in 0..MaxVersion
        BY <1>1, Values
    <2>2. /\ backup' \in [Thread -> 0..MaxVersion] /\ backup'[t] = None
          /\ \A u \in Thread \ {t} : backup'[u] = backup[u]
        BY <1>1, <1>4, <2>1, StateTyped
    <2>3. TypeOK' /\ leave'[t] = Stays
        BY <1>1, <1>4, <2>1, <2>2, ReadmittedIs, FaultIs, StateTyped, StateTypedNext
    <2>4. ASSUME flaws = {} PROVE OnDisk(t)'
        <3>1. OnDisk(t)
            BY <1>1, <2>4 DEF Kept
        <3> QED BY <1>1, <1>4, <2>2, <2>3, <3>1, StaysIs DEF OnDisk
    <2> QED BY <1>1, <1>2, <1>4, <2>1, <2>2, <2>3, <2>4, ReadmittedKept
<1> QED BY <1>3, <1>4 DEF BackedUp

LEMMA BinnedKept ==
    ASSUME IInv, NEW t \in Thread, Binned(t)
    PROVE  IInv'
<1>1. /\ TypeOK /\ Kept(t) /\ leave[t].at = "bin" /\ leave[t].ahead = 0
      /\ ~listed[t] /\ written[t] = Final /\ file[t] # None /\ leave[t] # Stays
      /\ backup[t] # None
      /\ UNCHANGED <<flaws, ver, batches, step, failed, shelf, moves>>
    BY OnTheWay DEF IInv, Binned, Leaving
<1>2. "copy" \notin flaws => shelf[t] = None
    BY <1>1 DEF Kept, Placed
<1>3. CASE /\ NoFault /\ leave' = [leave EXCEPT ![t] = Stays]
           /\ file' = [file EXCEPT ![t] = None]
           /\ acked' = [acked EXCEPT ![t] = ver[t]]
           /\ UNCHANGED <<listed, pending, written, gen, timer, backup>>
    <2>1. /\ leave' \in [Thread -> Ways] /\ leave'[t] = Stays /\ leave'[t].ahead = 0
          /\ \A u \in Thread \ {t} : leave'[u] = leave[u]
        BY <1>1, <1>3, StateTyped, StaysIs
    <2>2. /\ file' \in [Thread -> 0..MaxVersion] /\ acked' \in [Thread -> 0..MaxVersion]
          /\ file'[t] = None /\ acked'[t] = ver[t]
          /\ \A u \in Thread \ {t} : file'[u] = file[u] /\ acked'[u] = acked[u]
        <3>1. ver[t] \in 0..MaxVersion /\ None \in 0..MaxVersion
            BY <1>1, Values
        <3> QED BY <1>1, <1>3, <3>1, StateTyped
    <2>3. TypeOK'
        BY <1>1, <1>3, <2>1, <2>2, StateTyped, StateTypedNext DEF NoFault
    <2>4. Way(t)'
        BY <2>1 DEF Way
    <2>5. "copy" \notin flaws => Placed(t)'
        BY <1>1, <1>2, <1>3, <2>1, <2>2 DEF Placed, Sealed
    <2>6. ASSUME flaws = {} PROVE OnDisk(t)' /\ Sealed(t)
        <3>1. OnDisk(t)
            BY <1>1, <2>6 DEF Kept
        <3>2. ver[t] <= ver[t] /\ None <= ver[t]
            BY <1>1, Values
        <3> QED BY <1>1, <1>3, <2>1, <2>2, <3>1, <3>2, StaysIs DEF OnDisk, Sealed
    <2>7. \A u \in Thread \ {t} : Same(u)
        BY <1>1, <1>3, <2>2 DEF Same
    <2> QED BY <1>1, <1>3, <2>1, <2>3, <2>4, <2>5, <2>6, <2>7, PlacesMove
<1>4. CASE /\ Fault /\ Readmitted(t, ver[t])
           /\ backup' = [backup EXCEPT ![t] = None]
           /\ UNCHANGED <<file, acked>>
    <2>1. ver[t] \in 1..MaxVersion /\ None \in 0..MaxVersion
        BY <1>1, Values
    <2>2. /\ backup' \in [Thread -> 0..MaxVersion] /\ backup'[t] = None
          /\ \A u \in Thread \ {t} : backup'[u] = backup[u]
        BY <1>1, <1>4, <2>1, StateTyped
    <2>3. TypeOK' /\ leave'[t] = Stays
        BY <1>1, <1>4, <2>1, <2>2, ReadmittedIs, FaultIs, StateTyped, StateTypedNext
    <2>4. ASSUME flaws = {} PROVE OnDisk(t)'
        <3>1. OnDisk(t)
            BY <1>1, <2>4 DEF Kept
        <3> QED BY <1>1, <1>4, <2>2, <2>3, <3>1, StaysIs DEF OnDisk
    <2> QED BY <1>1, <1>2, <1>4, <2>1, <2>2, <2>3, <2>4, ReadmittedKept
<1> QED BY <1>3, <1>4 DEF Binned

LEMMA UnarchiveKept ==
    ASSUME IInv, NEW t \in Thread, Unarchive(t)
    PROVE  IInv'
<1> DEFINE r == [by |-> "back", at |-> "rename", ahead |-> 0]
<1>1. /\ TypeOK /\ Kept(t) /\ leave[t] = Stays /\ shelf[t] # None /\ file[t] = None /\ ~listed[t]
      /\ UNCHANGED <<flaws, listed, ver, store, disk, acked, bounds>>
    BY DEF IInv, Unarchive
<1>2. r \in Ways /\ r.by = "back" /\ r.at = "rename" /\ r.ahead = 0
    BY DEF Ways
<1>3. leave' = [leave EXCEPT ![t] = r]
    BY DEF Unarchive
<1> HIDE DEF r
<1>4. /\ leave' \in [Thread -> Ways] /\ leave'[t] = r
      /\ \A u \in Thread \ {t} : leave'[u] = leave[u]
    BY <1>1, <1>2, <1>3, StateTyped
<1>5. UNCHANGED <<listed, ver, pending, written, gen, batches, step, failed, timer, file, shelf,
                 backup, acked, flaws, faults, moves>>
    BY <1>1 DEF store, disk, bounds
<1>6. TypeOK'
    BY <1>1, <1>4, <1>5, StateTyped, StateTypedNext
<1>7. Way(t)' /\ leave[t].ahead = 0 /\ leave'[t].ahead = 0
    BY <1>1, <1>2, <1>4, <1>5, StaysIs DEF Way
<1>8. "copy" \notin flaws => Placed(t)'
    <2>1. ASSUME "copy" \notin flaws PROVE backup[t] = None /\ Sealed(t)
        BY <1>1, <2>1 DEF Kept, Placed
    <2>2. Saves(t)' = Saves(t)
        BY <1>5, SavesSame
    <2> QED BY <1>1, <1>2, <1>4, <1>5, <2>1, <2>2 DEF Placed, Sealed
<1>9. ASSUME flaws = {} PROVE OnDisk(t)'
    <2>1. OnDisk(t)
        BY <1>1, <1>9 DEF Kept
    <2> QED BY <1>1, <1>2, <1>4, <1>5, <2>1 DEF OnDisk
<1>10. \A u \in Thread \ {t} : Same(u)
    BY <1>5 DEF Same
<1>11. file'[t] = file[t]
    BY <1>5
<1> QED BY <1>1, <1>4, <1>5, <1>6, <1>7, <1>8, <1>9, <1>10, <1>11, PlacesMove

LEMMA UnarchivedKept ==
    ASSUME IInv, NEW t \in Thread, Unarchived(t)
    PROVE  IInv'
<1>1. /\ TypeOK /\ Kept(t) /\ leave[t].at = "rename" /\ leave[t].ahead = 0
      /\ ~listed[t] /\ shelf[t] # None /\ leave[t].by = "back" /\ leave[t] # Stays
      /\ UNCHANGED <<flaws, listed, ver, pending, written, gen, batches, step, failed, timer, backup,
                    acked, moves>>
    BY OnTheWay, StaysIs DEF IInv, Unarchived, Leaving, store
<1>2. "copy" \notin flaws => file[t] = None /\ backup[t] = None /\ Sealed(t)
    BY <1>1 DEF Kept, Placed
<1>3. CASE /\ NoFault /\ GoesOn(t, "restore")
           /\ file' = [file EXCEPT ![t] = shelf[t]]
           /\ shelf' = [shelf EXCEPT ![t] = None]
    <2>1. /\ leave' \in [Thread -> Ways]
          /\ leave'[t].at = "restore" /\ leave'[t].by = "back" /\ leave'[t].ahead = 0
          /\ \A u \in Thread \ {t} : leave'[u] = leave[u]
        BY <1>1, <1>3, GoesOnIs
    <2>2. /\ file' \in [Thread -> 0..MaxVersion] /\ shelf' \in [Thread -> 0..MaxVersion]
          /\ file'[t] = shelf[t] /\ shelf'[t] = None
          /\ \A u \in Thread \ {t} : file'[u] = file[u] /\ shelf'[u] = shelf[u]
        <3>1. shelf[t] \in 0..MaxVersion /\ None \in 0..MaxVersion
            BY <1>1, Values
        <3> QED BY <1>1, <1>3, <3>1, StateTyped
    <2>3. TypeOK'
        BY <1>1, <1>3, <2>1, <2>2, StateTyped, StateTypedNext DEF NoFault
    <2>4. Way(t)'
        BY <1>1, <2>1, <2>2 DEF Way
    <2>5. "copy" \notin flaws => Placed(t)'
        BY <1>1, <1>2, <2>1, <2>2 DEF Placed
    <2>6. ASSUME flaws = {} PROVE OnDisk(t)' /\ Sealed(t)
        <3>1. OnDisk(t) /\ Sealed(t) /\ backup[t] = None /\ shelf[t] = ver[t]
            BY <1>1, <1>2, <2>6 DEF Kept, OnDisk
        <3>2. ver[t] <= ver[t]
            BY <1>1, Values
        <3> QED BY <1>1, <2>1, <2>2, <3>1, <3>2 DEF OnDisk
    <2>7. \A u \in Thread \ {t} : Same(u)
        BY <1>1, <1>3, <2>2 DEF Same
    <2> QED BY <1>1, <1>3, <2>1, <2>3, <2>4, <2>5, <2>6, <2>7, PlacesMove
<1>4. CASE Fault /\ leave' = [leave EXCEPT ![t] = Stays] /\ UNCHANGED <<file, shelf>>
    <2>1. /\ leave' \in [Thread -> Ways] /\ leave'[t] = Stays /\ leave'[t].ahead = 0
          /\ \A u \in Thread \ {t} : leave'[u] = leave[u]
        BY <1>1, <1>4, StateTyped, StaysIs
    <2>2. TypeOK'
        BY <1>1, <1>4, <2>1, FaultIs, StateTyped, StateTypedNext
    <2>3. Way(t)'
        BY <2>1 DEF Way
    <2>4. "copy" \notin flaws => Placed(t)'
        <3>1. Saves(t)' = Saves(t)
            BY <1>1, SavesSame
        <3> QED BY <1>1, <1>2, <1>4, <2>1, <3>1 DEF Placed, Sealed
    <2>5. ASSUME flaws = {} PROVE OnDisk(t)'
        <3>1. OnDisk(t)
            BY <1>1, <2>5 DEF Kept
        <3> QED BY <1>1, <1>4, <2>1, <3>1, StaysIs DEF OnDisk
    <2>6. file'[t] = file[t] /\ \A u \in Thread \ {t} : Same(u)
        BY <1>1, <1>4 DEF Same
    <2> QED BY <1>1, <2>1, <2>2, <2>3, <2>4, <2>5, <2>6, PlacesMove
<1> QED BY <1>3, <1>4 DEF Unarchived

LEMMA RestoredKept ==
    ASSUME IInv, NEW t \in Thread, Restored(t)
    PROVE  IInv'
<1>1. /\ TypeOK /\ Kept(t) /\ leave[t].at = "restore" /\ leave[t].ahead = 0
      /\ ~listed[t] /\ file[t] # None /\ leave[t] # Stays /\ Readmitted(t, file[t])
      /\ UNCHANGED <<flaws, batches, step, failed, file, shelf, backup, acked, faults, moves>>
    BY OnTheWay, StaysIs DEF IInv, Restored, Leaving, disk, bounds
<1>2. "copy" \notin flaws => shelf[t] = None /\ backup[t] = None
    BY <1>1 DEF Kept, Placed
<1>3. file[t] \in 1..MaxVersion
    BY <1>1, Values
<1>4. /\ ver' \in [Thread -> 1..MaxVersion] /\ ver'[t] = file[t]
      /\ \A u \in Thread \ {t} : ver'[u] = ver[u]
    BY <1>1, <1>3, StateTyped DEF Restored
<1>5. TypeOK' /\ leave'[t] = Stays
    BY <1>1, <1>3, <1>4, ReadmittedIs, StateTyped, StateTypedNext
<1>6. ASSUME flaws = {} PROVE OnDisk(t)' /\ file[t] = ver[t]
    <2>1. OnDisk(t) /\ file[t] = ver[t]
        BY <1>1, <1>6 DEF Kept, OnDisk
    <2> QED BY <1>1, <1>4, <1>5, <2>1, StaysIs DEF OnDisk
<1> QED BY <1>1, <1>2, <1>3, <1>4, <1>5, <1>6, ReadmittedKept

LEMMA UndoBinKept ==
    ASSUME IInv, NEW t \in Thread, UndoBin(t)
    PROVE  IInv'
<1>1. /\ TypeOK /\ Kept(t) /\ leave[t] = Stays /\ leave[t].ahead = 0 /\ file[t] = None
      /\ ~listed[t] /\ backup[t] # None /\ Readmitted(t, backup[t])
      /\ UNCHANGED <<flaws, batches, step, failed, shelf, acked, faults, moves>>
    BY StaysIs DEF IInv, UndoBin, bounds, Kept, Saved
<1>2. "copy" \notin flaws => shelf[t] = None
    BY <1>1 DEF Kept, Placed
<1>3. backup[t] \in 1..MaxVersion /\ backup[t] \in 0..MaxVersion /\ None \in 0..MaxVersion
    BY <1>1, Values
<1>4. /\ ver' \in [Thread -> 1..MaxVersion] /\ ver'[t] = backup[t]
      /\ file' \in [Thread -> 0..MaxVersion] /\ file'[t] = backup[t]
      /\ backup' \in [Thread -> 0..MaxVersion] /\ backup'[t] = None
      /\ \A u \in Thread \ {t} : /\ ver'[u] = ver[u] /\ file'[u] = file[u]
                                 /\ backup'[u] = backup[u]
    BY <1>1, <1>3, StateTyped DEF UndoBin
<1>5. TypeOK' /\ leave'[t] = Stays
    BY <1>1, <1>3, <1>4, ReadmittedIs, StateTyped, StateTypedNext
<1>6. ASSUME flaws = {} PROVE OnDisk(t)' /\ backup[t] = ver[t]
    <2>1. OnDisk(t) /\ backup[t] = ver[t] /\ shelf[t] = None
        BY <1>1, <1>2, <1>6 DEF Kept, OnDisk
    <2>2. ver[t] <= ver[t]
        BY <1>1, Values
    <2> QED BY <1>1, <1>4, <1>5, <2>1, <2>2, StaysIs DEF OnDisk
<1> QED BY <1>1, <1>2, <1>3, <1>4, <1>5, <1>6, ReadmittedKept

LEMMA ExpiresKept ==
    ASSUME IInv, NEW t \in Thread, Expires(t)
    PROVE  IInv'
<1>1. /\ TypeOK /\ Kept(t) /\ leave[t] = Stays /\ leave[t].ahead = 0 /\ backup[t] # None
      /\ UNCHANGED <<flaws, listed, ver, pending, written, gen, batches, step, failed, timer, leave,
                    file, shelf, faults, moves>>
    BY StaysIs DEF IInv, Expires, store, bounds
<1>2. /\ backup' \in [Thread -> 0..MaxVersion] /\ backup'[t] = None
      /\ \A u \in Thread \ {t} : backup'[u] = backup[u]
      /\ acked' \in [Thread -> 0..MaxVersion]
      /\ \A u \in Thread \ {t} : acked'[u] = acked[u]
      /\ IF file[t] = None THEN acked'[t] = None ELSE acked'[t] = acked[t]
    <2>1. None \in 0..MaxVersion
        BY <1>1, Values
    <2> QED BY <1>1, <2>1, StateTyped DEF Expires
<1>3. TypeOK'
    BY <1>1, <1>2, StateTyped, StateTypedNext
<1>4. Saves(t)' = Saves(t) /\ Late(t)' = Late(t)
    BY <1>1, SavesSame
<1>5. Way(t)' /\ Saved(t)'
    BY <1>1, <1>4, StaysIs DEF Kept, Way, Saved
<1>6. ASSUME "copy" \notin flaws' PROVE Placed(t)'
    <2>1. Placed(t)
        BY <1>1, <1>6 DEF Kept
    <2> QED BY <1>1, <1>2, <1>4, <2>1 DEF Placed, Sealed
<1>7. ASSUME flaws' = {} PROVE OnDisk(t)' /\ InOrder(t)'
    <2>1. OnDisk(t) /\ InOrder(t) /\ file[t] = None
        BY <1>1, <1>7, StaysIs DEF Kept, Placed
    <2>2. None <= ver[t]
        BY <1>1, Values
    <2>3. OnDisk(t)'
        BY <1>1, <1>2, <2>1, <2>2, StaysIs DEF OnDisk
    <2>4. InOrder(t)'
        BY <1>1, <1>4, <2>1 DEF InOrder, Fits, Ordered, LastWords, Known
    <2> QED BY <2>3, <2>4
<1>8. Kept(t)' /\ gen <= gen'
    BY <1>1, <1>5, <1>6, <1>7, Values DEF Kept
<1>9. \A u \in Thread \ {t} : Same(u) /\ leave'[u] = leave[u] /\ pending'[u] = pending[u]
    BY <1>1, <1>2 DEF Same
<1> QED BY <1>1, <1>3, <1>8, <1>9, OneThread

-----------------------------------------------------------------------------
(* The writer, which is about every thread.                                 *)

LEMMA PendingIs ==
    ASSUME IInv, NEW u \in Thread
    PROVE  /\ pending[u] = NoEntry \/ (pending[u] \in Saves(u) /\ pending[u].id = u)
           /\ pending[u] \in Entries => pending[u] \in Saves(u)
<1>1. pending[u] = NoEntry \/ pending[u] \in Saves(u)
    BY DEF IInv, Kept, Saved
<1> QED BY <1>1, StaysIs DEF Saves

LEMMA FlushKept ==
    ASSUME IInv, Flush
    PROVE  IInv'
<1>1. /\ TypeOK /\ timer' = FALSE /\ pending' = [t \in Thread |-> NoEntry]
      /\ UNCHANGED <<flaws, listed, ver, written, gen, step, failed, leave, file, shelf, backup,
                    acked, faults, moves>>
    BY DEF IInv, Flush, disk, bounds
<1>2. /\ batches' \in Seq(Seq(Entries))
      /\ \A k \in DOMAIN batches' :
             \/ k \in DOMAIN batches /\ Queued(k)' = Queued(k)
             \/ \A e \in Queued(k)' : \E t \in Thread : e = pending[t]
    BY <1>1, FlushedIs
<1>3. TypeOK'
    BY <1>1, <1>2, StateTyped, StateTypedNext
<1>4. ASSUME NEW u \in Thread PROVE Kept(u)'
    <2>1. ASSUME NEW e, e.id = u, e \in Entries, NEW t \in Thread, e = pending[t]
          PROVE  e = pending[u] /\ e \in Saves(u)
        BY <2>1, PendingIs, StaysIs
    <2>2. pending'[u] = NoEntry /\ NoEntry \notin Entries
        BY <1>1, StaysIs
    <2>3. Saves(u)' \subseteq Saves(u)
        BY <1>2, <2>1, <2>2 DEF Saves
    <2>4. Late(u)' \subseteq Late(u)
        BY <1>1, <1>2, <2>1, <2>2, <2>3 DEF Late, Saves
    <2>5. Kept(u) /\ Same(u) /\ leave'[u] = leave[u] /\ gen <= gen'
        BY <1>1, Values DEF IInv, Same
    <2> QED BY <1>1, <1>3, <2>2, <2>3, <2>4, <2>5, Bystander
<1> QED BY <1>3, <1>4 DEF IInv

LEMMA SavesLess ==
    ASSUME IInv, NEW u \in Thread, pending'[u] = pending[u], DOMAIN batches' = DOMAIN batches,
           \A k \in DOMAIN batches : Queued(k)' \subseteq Queued(k)
    PROVE  /\ Saves(u)' \subseteq Saves(u)
           /\ pending'[u] = NoEntry \/ pending'[u] \in Saves(u)'
           /\ leave'[u] = leave[u] => Late(u)' \subseteq Late(u)
<1>1. Saves(u)' \subseteq Saves(u)
    BY DEF Saves
<1>2. pending[u] = NoEntry \/ (pending[u] \in Entries /\ pending[u].id = u)
    BY PendingIs DEF Saves
<1>3. pending'[u] = NoEntry \/ pending'[u] \in Saves(u)'
    BY <1>2 DEF Saves
<1> QED BY <1>1, <1>3 DEF Late

LEMMA BatchChecksKept ==
    ASSUME IInv, BatchChecks
    PROVE  IInv'
<1>1. /\ TypeOK /\ batches # <<>> /\ Head(batches) # <<>>
      /\ EntryDone \/ (step' = "write" /\ UNCHANGED batches)
      /\ UNCHANGED <<flaws, listed, ver, pending, written, gen, failed, timer, leave, file, shelf,
                    backup, acked, faults, moves>>
    BY DEF IInv, BatchChecks, Working, disk, bounds
<1>2. /\ batches' \in Seq(Seq(Entries)) /\ DOMAIN batches' = DOMAIN batches
      /\ \A k \in DOMAIN batches : Queued(k)' \subseteq Queued(k)
      /\ step' \in {"check", "write", "failed"}
    <2>1. CASE EntryDone
        BY <1>1, <2>1, EntryIs DEF EntryDone
    <2>2. CASE step' = "write" /\ UNCHANGED batches
        BY <1>1, <2>2, StateTyped DEF Queued
    <2> QED BY <1>1, <2>1, <2>2
<1>3. TypeOK'
    BY <1>1, <1>2, StateTyped, StateTypedNext
<1>4. ASSUME NEW u \in Thread PROVE Kept(u)'
    <2>1. /\ Saves(u)' \subseteq Saves(u) /\ Late(u)' \subseteq Late(u)
          /\ pending'[u] = NoEntry \/ pending'[u] \in Saves(u)'
        BY <1>1, <1>2, SavesLess
    <2>2. Kept(u) /\ Same(u) /\ leave'[u] = leave[u] /\ gen <= gen'
        BY <1>1, Values DEF IInv, Same
    <2> QED BY <1>1, <1>3, <2>1, <2>2, Bystander
<1> QED BY <1>3, <1>4 DEF IInv

(* A write that is not overtaken finds the file of its thread where it was, *)
(* not newer than what it writes.                                           *)
LEMMA WriteFits ==
    ASSUME IInv, NEW t \in Thread, NEW e \in Saves(t), ~(written[t] > e.gen)
    PROVE  /\ written[t] # Final
           /\ "copy" \notin flaws => file[t] # None /\ shelf[t] = None /\ backup[t] = None
           /\ flaws = {} => file[t] <= e.ver /\ e.ver <= ver[t]
           /\ flaws = {} /\ leave[t].at = "restore" => e.ver = ver[t]
<1>1. TypeOK /\ Kept(t) /\ Saved(t) /\ e.gen < Final
    BY DEF IInv, Kept, Saved
<1>2. written[t] # Final
    BY <1>1, Values
<1>3. ASSUME "copy" \notin flaws PROVE file[t] # None /\ shelf[t] = None /\ backup[t] = None
    <2>1. Placed(t)
        BY <1>1, <1>3 DEF Kept
    <2>2. file[t] # None
        BY <1>2, <2>1 DEF Placed, Sealed
    <2>3. leave[t].at # "bin"
        BY <1>2, OnTheWay
    <2> QED BY <2>1, <2>2, <2>3 DEF Placed
<1>4. ASSUME flaws = {} PROVE file[t] <= e.ver /\ e.ver <= ver[t]
    BY <1>1, <1>4 DEF Kept, InOrder, Fits
<1>5. ASSUME flaws = {}, leave[t].at = "restore" PROVE e.ver = ver[t]
    <2>1. leave[t].ahead = 0 /\ ~listed[t]
        BY <1>1, <1>5, StaysIs DEF Kept, Way
    <2> QED BY <1>5, <2>1, WordsLast
<1> QED BY <1>2, <1>3, <1>4, <1>5

LEMMA BatchWritesKept ==
    ASSUME IInv, BatchWrites
    PROVE  IInv'
<1>1. /\ TypeOK /\ batches # <<>> /\ Head(batches) # <<>>
      /\ UNCHANGED <<flaws, listed, ver, pending, gen, failed, timer, leave, shelf, backup, acked,
                    moves>>
    BY DEF IInv, BatchWrites, Working
<1>2. CASE Fault /\ step' = "failed" /\ UNCHANGED <<file, written, batches>>
    <2>1. TypeOK'
        BY <1>1, <1>2, FaultIs, StateTyped, StateTypedNext
    <2>2. ASSUME NEW u \in Thread PROVE Kept(u)'
        <3>1. Saves(u)' = Saves(u) /\ Late(u)' = Late(u)
            BY <1>1, <1>2, SavesSame
        <3>2. Kept(u) /\ Same(u) /\ leave'[u] = leave[u] /\ pending'[u] = pending[u] /\ gen <= gen'
            BY <1>1, <1>2, Values DEF IInv, Same
        <3> QED BY <1>1, <2>1, <3>1, <3>2, PendingIs, Bystander
    <2> QED BY <2>1, <2>2 DEF IInv
<1>3. CASE NoFault /\ Renamed(Entry) /\ EntryDone
    <2>1. PICK e \in Entries : e = Entry /\ e \in Queued(1)
        BY <1>1, EntryIs
    <2>2. PICK t \in Thread : t = e.id
        BY <2>1 DEF Entries
    <2>3. /\ batches' \in Seq(Seq(Entries)) /\ DOMAIN batches' = DOMAIN batches
          /\ \A k \in DOMAIN batches : Queued(k)' \subseteq Queued(k)
          /\ step' = "check" /\ faults' = faults
        BY <1>1, <1>3, EntryIs DEF EntryDone, NoFault
    <2>4. e \in Saves(t)
        BY <1>1, <2>1, <2>2, EntryIs DEF Saves
    <2>5. \A u \in Thread : /\ Saves(u)' \subseteq Saves(u) /\ Late(u)' \subseteq Late(u)
                            /\ pending'[u] = NoEntry \/ pending'[u] \in Saves(u)'
        BY <1>1, <2>3, SavesLess
    <2>6. CASE written[t] > e.gen
        <3>1. UNCHANGED <<file, written>>
            BY <1>3, <2>1, <2>2, <2>6 DEF Renamed, Superseded
        <3>2. TypeOK'
            BY <1>1, <2>3, <3>1, StateTyped, StateTypedNext
        <3>3. ASSUME NEW u \in Thread PROVE Kept(u)'
            <4>1. Kept(u) /\ Same(u) /\ leave'[u] = leave[u] /\ gen <= gen'
                BY <1>1, <3>1, Values DEF IInv, Same
            <4> QED BY <1>1, <2>5, <3>2, <4>1, Bystander
        <3> QED BY <3>2, <3>3 DEF IInv
    <2>7. CASE ~(written[t] > e.gen)
        <3>1. file' = [file EXCEPT ![t] = e.ver] /\ written' = [written EXCEPT ![t] = e.gen]
            BY <1>3, <2>1, <2>2, <2>7 DEF Renamed, Superseded
        <3>2. e.ver \in 1..MaxVersion /\ e.gen \in Nat /\ e.ver # None /\ e.ver \in 0..MaxVersion
            <4>1. e.ver \in 1..MaxVersion /\ e.gen \in Nat
                BY <2>1 DEF Entries
            <4> QED BY <4>1, BoundsAssumption DEF None
        <3>3. /\ file' \in [Thread -> 0..MaxVersion] /\ file'[t] = e.ver
              /\ written' \in [Thread -> Nat] /\ written'[t] = e.gen
              /\ \A u \in Thread \ {t} : file'[u] = file[u] /\ written'[u] = written[u]
            BY <1>1, <3>1, <3>2, StateTyped
        <3>4. TypeOK'
            BY <1>1, <2>3, <3>3, StateTyped, StateTypedNext
        <3>5. ASSUME NEW u \in Thread \ {t} PROVE Kept(u)'
            <4>1. Kept(u) /\ Same(u) /\ leave'[u] = leave[u] /\ gen <= gen'
                BY <1>1, <3>3, Values DEF IInv, Same
            <4> QED BY <1>1, <2>5, <3>4, <4>1, Bystander
        <3>6. /\ written[t] # Final
              /\ "copy" \notin flaws => file[t] # None /\ shelf[t] = None /\ backup[t] = None
              /\ flaws = {} => file[t] <= e.ver /\ e.ver <= ver[t]
              /\ flaws = {} /\ leave[t].at = "restore" => e.ver = ver[t]
            BY <2>4, <2>7, WriteFits
        <3>7. Kept(t)
            BY DEF IInv
        <3>8. Way(t)' /\ Saved(t)'
            BY <1>1, <2>5, <3>2, <3>3, <3>6, <3>7 DEF Kept, Way, Saved
        <3>9. "copy" \notin flaws' => Placed(t)'
            BY <1>1, <3>2, <3>3, <3>6 DEF Placed
        <3>10. ASSUME flaws' = {} PROVE OnDisk(t)' /\ InOrder(t)'
            <4>1. OnDisk(t) /\ InOrder(t) /\ file[t] # None /\ file[t] <= e.ver /\ e.ver <= ver[t]
                BY <1>1, <3>6, <3>7, <3>10 DEF Kept
            <4>2. acked[t] <= e.ver
                BY <1>1, <3>2, <4>1, Values DEF OnDisk
            <4>3. leave[t].at \notin {"move", "bin"}
                BY <3>6, OnTheWay
            <4>4. OnDisk(t)'
                BY <1>1, <3>2, <3>3, <3>6, <3>10, <4>1, <4>2, <4>3 DEF OnDisk
            <4>5. Fits(t)'
                <5> SUFFICES ASSUME NEW f \in Saves(t)'
                             PROVE  /\ f.gen <= gen' /\ f.ver <= ver'[t]
                                    /\ written'[t] > f.gen \/ file'[t] <= f.ver
                                    /\ f = pending'[t] => f.ver = ver'[t]
                    BY DEF Fits
                <5>1. f \in Saves(t) /\ f.gen \in Nat
                    BY <1>1, <2>5, Values
                <5>2. e.gen > f.gen \/ e.ver <= f.ver
                    BY <2>4, <3>2, <4>1, <5>1 DEF InOrder, Ordered
                <5> QED BY <1>1, <3>3, <4>1, <5>1, <5>2 DEF InOrder, Fits
            <4>6. Ordered(t)' /\ LastWords(t)'
                BY <1>1, <2>5, <4>1 DEF InOrder, Ordered, LastWords
            <4>7. Known(t)'
                BY <1>1, <2>4, <3>3, <4>1 DEF InOrder, Fits, Known
            <4> QED BY <4>4, <4>5, <4>6, <4>7 DEF InOrder
        <3>11. Kept(t)'
            BY <3>8, <3>9, <3>10 DEF Kept
        <3> QED BY <3>4, <3>5, <3>11 DEF IInv
    <2> QED BY <2>6, <2>7
<1> QED BY <1>2, <1>3 DEF BatchWrites

LEMMA BatchRequeuesKept ==
    ASSUME IInv, BatchRequeues
    PROVE  IInv'
<1>1. /\ TypeOK /\ batches # <<>> /\ Head(batches) # <<>> /\ EntryDone
      /\ flaws' = flaws \cup (IF Entry.ver < ver[Entry.id] /\ pending[Entry.id].gen < Entry.gen
                              THEN {"retry"} ELSE {})
      /\ UNCHANGED <<listed, ver, written, gen, timer, leave, file, shelf, backup, acked,
                    faults, moves>>
    BY DEF IInv, BatchRequeues, Working, disk, bounds
<1>2. PICK e \in Entries : e = Entry /\ e \in Queued(1)
    BY <1>1, EntryIs
<1>3. PICK t \in Thread : t = e.id
    BY <1>2 DEF Entries
<1>4. e \in Saves(t)
    BY <1>1, <1>2, <1>3, EntryIs DEF Saves
<1>5. /\ batches' \in Seq(Seq(Entries)) /\ DOMAIN batches' = DOMAIN batches
      /\ \A k \in DOMAIN batches : Queued(k)' \subseteq Queued(k)
      /\ step' = "check" /\ failed' = TRUE
    BY <1>1, EntryIs DEF EntryDone, BatchRequeues
<1>6. flaws \subseteq flaws' /\ flaws' \subseteq {"retry", "copy"}
    BY <1>1, StateTyped
<1>7. /\ pending' \in [Thread -> Entries \cup {NoEntry}]
      /\ (pending'[t] = e /\ pending[t].gen < e.gen) \/ pending'[t] = pending[t]
      /\ \A u \in Thread \ {t} : pending'[u] = pending[u]
    <2>1. pending' = IF pending[t].gen < e.gen THEN [pending EXCEPT ![t] = e] ELSE pending
        BY <1>2, <1>3 DEF BatchRequeues, Requeued
    <2> QED BY <1>1, <1>2, <2>1, StateTyped
<1>8. TypeOK'
    BY <1>1, <1>5, <1>6, <1>7, StateTyped, StateTypedNext
<1>9. ASSUME NEW u \in Thread, pending'[u] = pending[u] PROVE Kept(u)'
    <2>1. /\ Saves(u)' \subseteq Saves(u) /\ Late(u)' \subseteq Late(u)
          /\ pending'[u] = NoEntry \/ pending'[u] \in Saves(u)'
        BY <1>1, <1>5, <1>9, SavesLess
    <2>2. Kept(u) /\ Same(u) /\ leave'[u] = leave[u] /\ gen <= gen'
        BY <1>1, Values DEF IInv, Same
    <2> QED BY <1>1, <1>6, <1>8, <1>9, <2>1, <2>2, Bystander
<1>10. ASSUME pending'[t] = e, pending[t].gen < e.gen PROVE Kept(t)'
    <2>1. /\ Kept(t) /\ Saves(t)' \subseteq Saves(t) /\ e \in Saves(t)'
          /\ \A f \in Late(t)' : f = e \/ f \in Late(t)
        <3>1. Saves(t)' \subseteq Saves(t) /\ e \in Saves(t)'
            BY <1>2, <1>3, <1>4, <1>5, <1>10 DEF Saves
        <3> QED BY <1>1, <1>5, <1>10, <3>1 DEF Late, IInv
    <2>2. Way(t)' /\ Saved(t)'
        BY <1>1, <1>10, <2>1 DEF Kept, Way, Saved
    <2>3. ASSUME "copy" \notin flaws' PROVE Placed(t)'
        <3>1. Placed(t)
            BY <1>6, <2>1, <2>3 DEF Kept
        <3> QED BY <1>1, <2>1, <3>1 DEF Placed, Sealed
    <2>4. ASSUME flaws' = {} PROVE OnDisk(t)' /\ InOrder(t)'
        <3>1. OnDisk(t) /\ InOrder(t)
            BY <1>6, <2>1, <2>4 DEF Kept
        <3>2. e.ver = ver[t]
            <4>1. ~(e.ver < ver[t])
                BY <1>1, <1>2, <1>3, <1>10, <2>4
            <4>2. e.ver <= ver[t] /\ e.ver \in Nat /\ ver[t] \in Nat
                BY <1>1, <1>4, <3>1, Values DEF InOrder, Fits
            <4> QED BY <4>1, <4>2
        <3>3. OnDisk(t)'
            BY <1>1, <3>1 DEF OnDisk
        <3>4. Fits(t)' /\ Ordered(t)' /\ Known(t)'
            BY <1>1, <1>10, <2>1, <3>1, <3>2 DEF InOrder, Fits, Ordered, Known
        <3>5. LastWords(t)'
            BY <1>1, <2>1, <3>1, <3>2 DEF InOrder, LastWords
        <3> QED BY <3>3, <3>4, <3>5 DEF InOrder
    <2> QED BY <2>2, <2>3, <2>4 DEF Kept
<1> QED BY <1>7, <1>8, <1>9, <1>10 DEF IInv

LEMMA AheadIs ==
    ASSUME NEW r \in Ways, NEW n \in Nat
    PROVE  LET q == [r EXCEPT !.ahead = n]
           IN  /\ q \in Ways /\ q.at = r.at /\ q.by = r.by /\ q.ahead = n
               /\ r.ahead = n => q = r
BY DEF Ways

LEMMA BatchEndsKept ==
    ASSUME IInv, BatchEnds
    PROVE  IInv'
<1>1. /\ TypeOK /\ batches # <<>> /\ batches' = Tail(batches)
      /\ failed' = FALSE /\ timer' = (timer \/ failed)
      /\ leave' = [t \in Thread |-> [leave[t] EXCEPT !.ahead = IF @ > 0 THEN @ - 1 ELSE 0]]
      /\ UNCHANGED <<flaws, listed, ver, pending, written, gen, step, file, shelf, backup, acked,
                    faults, moves>>
    BY DEF IInv, BatchEnds, disk, bounds
<1>2. /\ batches' \in Seq(Seq(Entries)) /\ DOMAIN batches' = 1..Len(batches) - 1
      /\ DOMAIN batches = 1..Len(batches) /\ Len(batches) \in Nat \ {0}
      /\ \A k \in DOMAIN batches' : Queued(k)' = Queued(k + 1)
    BY <1>1, EndedIs
<1>3. /\ \A k \in DOMAIN batches' : k + 1 \in DOMAIN batches /\ k \in Nat \ {0}
    BY <1>2
<1>4. ASSUME NEW u \in Thread
      PROVE  /\ leave'[u] \in Ways /\ leave'[u].at = leave[u].at /\ leave'[u].by = leave[u].by
             /\ leave'[u].ahead \in Nat
             /\ IF leave[u].ahead > 0 THEN leave'[u].ahead = leave[u].ahead - 1
                                      ELSE leave'[u].ahead = 0
             /\ leave[u] = Stays => leave'[u] = Stays
    <2> DEFINE n == IF leave[u].ahead > 0 THEN leave[u].ahead - 1 ELSE 0
    <2>1. leave[u] \in Ways /\ n \in Nat
        BY <1>1, Values
    <2>2. leave[u] = Stays => leave[u].ahead = n
        BY StaysIs
    <2>3. leave'[u] = [leave[u] EXCEPT !.ahead = n]
        BY <1>1
    <2>4. IF leave[u].ahead > 0 THEN n = leave[u].ahead - 1 ELSE n = 0
        OBVIOUS
    <2> HIDE DEF n
    <2> QED BY <2>1, <2>2, <2>3, <2>4, AheadIs
<1>5. leave' \in [Thread -> Ways] /\ timer' \in BOOLEAN
    <2>1. DOMAIN leave' = Thread /\ leave' = [u \in Thread |-> leave'[u]]
        BY <1>1
    <2>2. timer \in BOOLEAN /\ failed \in BOOLEAN
        BY <1>1, StateTyped
    <2> QED BY <1>1, <1>4, <2>1, <2>2
<1>6. TypeOK'
    BY <1>1, <1>2, <1>5, StateTyped, StateTypedNext
<1>7. ASSUME NEW u \in Thread PROVE Kept(u)'
    <2>1. Saves(u)' \subseteq Saves(u)
        BY <1>1, <1>2, <1>3 DEF Saves
    <2>2. ASSUME NEW k \in DOMAIN batches', k > leave'[u].ahead PROVE k + 1 > leave[u].ahead
        BY <1>1, <1>3, <1>4, <2>2, Values
    <2>3. Late(u)' \subseteq Late(u)
        BY <1>1, <1>2, <1>3, <2>1, <2>2 DEF Late
    <2>4. Kept(u) /\ Same(u) /\ gen <= gen'
        BY <1>1, Values DEF IInv, Same
    <2>5. pending'[u] = NoEntry \/ pending'[u] \in Saves(u)'
        <3>1. pending[u] = NoEntry \/ (pending[u] \in Entries /\ pending[u].id = u)
            BY PendingIs DEF Saves
        <3> QED BY <1>1, <3>1 DEF Saves
    <2>6. leave[u].ahead = 0 => leave'[u].ahead = 0
        BY <1>4
    <2> QED BY <1>1, <1>4, <1>6, <2>1, <2>3, <2>4, <2>5, <2>6, Bystander
<1> QED BY <1>6, <1>7 DEF IInv

-----------------------------------------------------------------------------
(* The start, a crash, and every step.                                      *)

LEMMA NoSaves ==
    ASSUME NEW t \in Thread, pending[t] = NoEntry, batches = <<>>
    PROVE  Saves(t) = {} /\ Late(t) = {}
<1>1. DOMAIN batches = {} /\ NoEntry \notin Entries
    BY StaysIs
<1> QED BY <1>1 DEF Saves, Late

LEMMA NoSavesNext ==
    ASSUME NEW t \in Thread, pending'[t] = NoEntry, batches' = <<>>
    PROVE  Saves(t)' = {} /\ Late(t)' = {}
<1>1. DOMAIN batches' = {} /\ NoEntry \notin Entries
    BY StaysIs
<1> QED BY <1>1 DEF Saves, Late

LEMMA CrashKept ==
    ASSUME IInv, Crash
    PROVE  IInv'
<1>1. /\ TypeOK /\ moves < MaxMoves /\ moves' = moves + 1
      /\ listed' = [t \in Thread |-> file[t] # None]
      /\ ver' = [t \in Thread |-> IF file[t] # None THEN file[t] ELSE ver[t]]
      /\ pending' = [t \in Thread |-> NoEntry]
      /\ written' = [t \in Thread |-> 0]
      /\ gen' = 0 /\ batches' = <<>> /\ step' = "check" /\ failed' = FALSE /\ timer' = FALSE
      /\ leave' = [t \in Thread |-> Stays]
      /\ flaws' = flaws \cup (IF \E t \in Thread : backup[t] # None /\ file[t] # None
                              THEN {"copy"} ELSE {})
      /\ UNCHANGED <<file, shelf, backup, acked, faults>>
    BY DEF IInv, Crash, disk
<1>2. moves' \in 0..MaxMoves
    <2>1. moves \in 0..MaxMoves /\ MaxMoves \in Nat
        BY <1>1, StateTyped, BoundsAssumption
    <2> QED BY <1>1, <2>1
<1>3. ver' \in [Thread -> 1..MaxVersion]
    <2>1. \A t \in Thread : (IF file[t] # None THEN file[t] ELSE ver[t]) \in 1..MaxVersion
        BY <1>1, Values
    <2> QED BY <1>1, <2>1
<1>4. leave' \in [Thread -> Ways] /\ flaws' \subseteq {"retry", "copy"} /\ flaws \subseteq flaws'
    BY <1>1, StateTyped, StaysIs
<1>5. batches' \in Seq(Seq(Entries)) /\ gen' \in 0..(Final - 1) /\ written' \in [Thread -> Nat]
    BY <1>1 DEF Final
<1>6. /\ pending' \in [Thread -> Entries \cup {NoEntry}] /\ listed' \in [Thread -> BOOLEAN]
      /\ step' \in {"check", "write", "failed"} /\ failed' \in BOOLEAN /\ timer' \in BOOLEAN
    BY <1>1
<1>7. TypeOK'
    BY <1>1, <1>2, <1>3, <1>4, <1>5, <1>6, StateTyped, StateTypedNext
<1>8. ASSUME NEW t \in Thread PROVE Kept(t)'
    <2>1. Saves(t)' = {} /\ Late(t)' = {}
        BY <1>1, NoSavesNext
    <2>2. /\ leave'[t] = Stays /\ pending'[t] = NoEntry /\ written'[t] = 0
          /\ listed'[t] <=> file[t] # None
          /\ file[t] # None => ver'[t] = file[t]
          /\ file[t] = None => ver'[t] = ver[t]
        BY <1>1
    <2>3. Way(t)' /\ Saved(t)'
        BY <1>1, <2>1, <2>2 DEF Way, Saved
    <2>4. ASSUME "copy" \notin flaws'
          PROVE  Placed(t) /\ (backup[t] = None \/ file[t] = None)
        BY <1>1, <1>4, <2>4 DEF IInv, Kept
    <2>5. ASSUME "copy" \notin flaws' PROVE Placed(t)'
        <3>1. Placed(t) /\ (backup[t] = None \/ file[t] = None)
            BY <2>4, <2>5
        <3> QED BY <1>1, <2>1, <2>2, <3>1 DEF Placed, Sealed
    <2>6. ASSUME flaws' = {} PROVE OnDisk(t)' /\ InOrder(t)'
        <3>1. OnDisk(t) /\ Placed(t) /\ (backup[t] = None \/ file[t] = None)
            BY <1>1, <1>4, <2>4, <2>6 DEF IInv, Kept
        <3>2. file[t] # None => shelf[t] = None /\ backup[t] = None
            BY <3>1 DEF Placed
        <3>3. file[t] <= ver'[t] /\ acked[t] <= ver'[t]
            BY <1>1, <2>2, <3>1, Values DEF OnDisk
        <3>4. OnDisk(t)'
            BY <1>1, <2>2, <3>1, <3>2, <3>3, StaysIs DEF OnDisk
        <3>5. InOrder(t)'
            BY <1>1, <2>1, <2>2 DEF InOrder, Fits, Ordered, LastWords, Known
        <3> QED BY <3>4, <3>5
    <2> QED BY <2>3, <2>5, <2>6 DEF Kept
<1> QED BY <1>7, <1>8 DEF IInv

LEMMA InitKept ==
    ASSUME Init
    PROVE  IInv
<1>1. TypeOK
    <2>1. /\ 1 \in 1..MaxVersion /\ 1 \in 0..MaxVersion /\ None \in 0..MaxVersion
          /\ 0 \in 0..MaxFaults /\ 0 \in 0..MaxMoves /\ 0 \in 0..(Final - 1) /\ 0 \in Nat
        BY BoundsAssumption DEF None, Final
    <2>2. batches \in Seq(Seq(Entries))
        BY DEF Init
    <2>3. /\ leave \in [Thread -> Ways] /\ pending \in [Thread -> Entries \cup {NoEntry}]
          /\ listed \in [Thread -> BOOLEAN] /\ step \in {"check", "write", "failed"}
          /\ failed \in BOOLEAN /\ timer \in BOOLEAN /\ flaws \subseteq {"retry", "copy"}
        BY StaysIs DEF Init
    <2>4. /\ ver \in [Thread -> 1..MaxVersion] /\ written \in [Thread -> Nat]
          /\ gen \in 0..(Final - 1) /\ faults \in 0..MaxFaults /\ moves \in 0..MaxMoves
          /\ file \in [Thread -> 0..MaxVersion] /\ shelf \in [Thread -> 0..MaxVersion]
          /\ backup \in [Thread -> 0..MaxVersion] /\ acked \in [Thread -> 0..MaxVersion]
        BY <2>1 DEF Init
    <2> QED BY <2>2, <2>3, <2>4, StateTyped
<1>2. ASSUME NEW t \in Thread PROVE Kept(t)
    <2>1. Saves(t) = {} /\ Late(t) = {}
        BY NoSaves DEF Init
    <2>2. /\ leave[t] = Stays /\ pending[t] = NoEntry /\ written[t] = 0 /\ gen = 0
          /\ listed[t] /\ file[t] = 1 /\ ver[t] = 1 /\ acked[t] = 1
          /\ shelf[t] = None /\ backup[t] = None /\ file[t] # None
        BY DEF Init, None
    <2>3. Way(t) /\ Saved(t) /\ Placed(t)
        BY <2>1, <2>2 DEF Way, Saved, Placed
    <2>4. OnDisk(t) /\ InOrder(t)
        BY <2>1, <2>2, StaysIs DEF OnDisk, InOrder, Fits, Ordered, LastWords, Known
    <2> QED BY <2>3, <2>4 DEF Kept
<1> QED BY <1>1, <1>2 DEF IInv

LEMMA StutterKept ==
    ASSUME IInv, UNCHANGED vars
    PROVE  IInv'
<1>1. /\ UNCHANGED <<listed, ver, pending, written, gen, batches, step, failed, timer, leave, file,
                    shelf, backup, acked, flaws, faults, moves>>
    BY DEF vars, store, disk, bounds
<1>2. TypeOK'
    BY <1>1 DEF IInv, TypeOK
<1>3. ASSUME NEW u \in Thread PROVE Kept(u)'
    <2>1. Saves(u)' = Saves(u) /\ Late(u)' = Late(u)
        BY <1>1, SavesSame
    <2>2. Kept(u) /\ Same(u) /\ leave'[u] = leave[u] /\ pending'[u] = pending[u] /\ gen <= gen'
        BY <1>1, Values DEF IInv, Same
    <2> QED BY <1>1, <1>2, <2>1, <2>2, PendingIs, Bystander DEF IInv
<1> QED BY <1>2, <1>3 DEF IInv

LEMMA NextKept ==
    ASSUME IInv, [Next]_vars
    PROVE  IInv'
<1>1. ASSUME NEW t \in Thread, Change(t) \/ ChangeNow(t) PROVE IInv'
    BY <1>1, ChangeKept, ChangeNowKept
<1>2. ASSUME NEW t \in Thread, NEW by \in Leavings, Release(t, by) PROVE IInv'
    BY <1>2, ReleaseKept
<1>3. ASSUME NEW t \in Thread, Unarchive(t) \/ UndoBin(t) \/ Expires(t) PROVE IInv'
    BY <1>3, UnarchiveKept, UndoBinKept, ExpiresKept
<1>4. ASSUME NEW t \in Thread, Mover(t) PROVE IInv'
    BY <1>4, FinalWrittenKept, ArchivedKept, BackedUpKept, BinnedKept, UnarchivedKept, RestoredKept
       DEF Mover
<1>5. CASE Writer
    BY <1>5, FlushKept, BatchChecksKept, BatchWritesKept, BatchRequeuesKept, BatchEndsKept
       DEF Writer
<1>6. CASE Crash
    BY <1>6, CrashKept
<1>7. CASE UNCHANGED vars
    BY <1>7, StutterKept
<1> QED BY <1>1, <1>2, <1>3, <1>4, <1>5, <1>6, <1>7 DEF Next

LEMMA AlwaysKept == Spec => []IInv
<1>1. Init => IInv
    BY InitKept
<1>2. IInv /\ [Next]_vars => IInv'
    BY NextKept
<1> QED BY <1>1, <1>2, PTL DEF Spec

-----------------------------------------------------------------------------
(* What the invariant gives.                                                *)

LEMMA InvGives ==
    ASSUME IInv
    PROVE  OnePlace /\ SavedIsKept
<1>1. TypeOK
    BY DEF IInv
<1>2. OnePlace
    BY <1>1 DEF OnePlace, IInv, Kept, Placed
<1>3. ASSUME flaws = {}, NEW t \in Thread
      PROVE  file[t] >= acked[t] \/ shelf[t] >= acked[t] \/ backup[t] >= acked[t]
    <2>1. OnDisk(t)
        BY <1>3 DEF IInv, Kept
    <2>2. /\ file[t] \in Nat /\ acked[t] \in Nat /\ ver[t] \in Nat
          /\ None = 0
        BY <1>1, Values
    <2>3. CASE file[t] # None
        BY <2>1, <2>2, <2>3 DEF OnDisk
    <2>4. CASE file[t] = None /\ acked[t] = None
        BY <2>2, <2>4
    <2>5. CASE shelf[t] # None \/ backup[t] # None
        <3>1. (shelf[t] = ver[t] \/ backup[t] = ver[t]) /\ acked[t] <= ver[t]
            BY <2>1, <2>5 DEF OnDisk
        <3> QED BY <2>2, <3>1
    <2> QED BY <2>1, <2>3, <2>4, <2>5 DEF OnDisk
<1> QED BY <1>2, <1>3 DEF SavedIsKept

(* The actions that give a thread's file new contents.                      *)
Writes(t) == ChangeNow(t) \/ FinalWritten(t) \/ Archived(t) \/ Binned(t) \/ Unarchived(t)
             \/ UndoBin(t)

LEMMA OthersKeepFiles ==
    ASSUME IInv, [Next]_vars, NEW t \in Thread, file'[t] # file[t]
    PROVE  Writes(t) \/ BatchWrites
<1>1. file \in [Thread -> 0..MaxVersion]
    BY StateTyped DEF IInv
<1>2. ASSUME NEW u \in Thread, Change(u) PROVE FALSE
    BY <1>2 DEF Change, disk
<1>3. ASSUME NEW u \in Thread, ChangeNow(u) PROVE Writes(t)
    <2>1. CASE u = t
        BY <1>3, <2>1 DEF Writes
    <2>2. CASE u # t
        BY <1>1, <1>3, <2>2 DEF ChangeNow
    <2> QED BY <2>1, <2>2
<1>4. ASSUME NEW u \in Thread, NEW by \in Leavings, Release(u, by) PROVE FALSE
    BY <1>4 DEF Release, disk
<1>5. ASSUME NEW u \in Thread, Unarchive(u) \/ Expires(u) \/ Restored(u) \/ BackedUp(u)
      PROVE  FALSE
    BY <1>5 DEF Unarchive, Expires, Restored, BackedUp, disk
<1>6. ASSUME NEW u \in Thread,
             UndoBin(u) \/ FinalWritten(u) \/ Archived(u) \/ Binned(u) \/ Unarchived(u)
      PROVE  Writes(t)
    <2>1. CASE u = t
        BY <1>6, <2>1 DEF Writes
    <2>2. CASE u # t
        BY <1>1, <1>6, <2>2 DEF UndoBin, FinalWritten, Archived, Binned, Unarchived
    <2> QED BY <2>1, <2>2
<1>7. ASSUME Flush \/ BatchChecks \/ BatchRequeues \/ BatchEnds \/ Crash \/ UNCHANGED vars
      PROVE  FALSE
    BY <1>7 DEF Flush, BatchChecks, BatchRequeues, BatchEnds, Crash, vars, disk
<1> QED BY <1>2, <1>3, <1>4, <1>5, <1>6, <1>7 DEF Next, Mover, Writer

LEMMA NoOlderFile ==
    ASSUME IInv, [Next]_vars, flaws = {}, NEW t \in Thread
    PROVE  ~Replaced(t)
<1> SUFFICES ASSUME file[t] # None, file'[t] # None PROVE file[t] <= file'[t]
    <2>1. file[t] \in Nat /\ file'[t] \in Nat
        <3>1. TypeOK /\ TypeOK' /\ MaxVersion \in Nat
            BY NextKept, BoundsAssumption DEF IInv
        <3> QED BY <3>1, StateTyped, StateTypedNext
    <2> QED BY <2>1 DEF Replaced
<1>1. /\ TypeOK /\ file \in [Thread -> 0..MaxVersion] /\ Kept(t) /\ OnDisk(t) /\ Placed(t)
      /\ file[t] \in Nat /\ ver[t] \in Nat /\ file[t] <= ver[t]
    <2>1. TypeOK /\ Kept(t) /\ OnDisk(t) /\ Placed(t)
        BY DEF IInv, Kept
    <2> QED BY <2>1, StateTyped, Values DEF OnDisk
<1>2. CASE file'[t] = file[t]
    BY <1>1, <1>2
<1>3. ASSUME Archived(t) \/ Binned(t), file'[t] # file[t] PROVE FALSE
    BY <1>1, <1>3 DEF Archived, Binned
<1>4. ASSUME Unarchived(t), file'[t] # file[t] PROVE FALSE
    BY <1>1, <1>4, OnTheWay DEF Unarchived, Leaving, Placed
<1>5. ASSUME UndoBin(t) PROVE FALSE
    BY <1>5 DEF UndoBin
<1>6. ASSUME ChangeNow(t) \/ FinalWritten(t), file'[t] # file[t] PROVE file[t] <= file'[t]
    <2>1. file'[t] = ver[t] + 1 \/ file'[t] = ver[t]
        BY <1>1, <1>6 DEF ChangeNow, FinalWritten
    <2> QED BY <1>1, <2>1
<1>7. ASSUME BatchWrites, file'[t] # file[t] PROVE file[t] <= file'[t]
    <2>1. batches # <<>> /\ Head(batches) # <<>> /\ Renamed(Entry)
        BY <1>7 DEF BatchWrites, Working
    <2>2. PICK e \in Entries : e = Entry /\ e \in Queued(1) /\ 1 \in DOMAIN batches
        BY <1>1, <2>1, EntryIs
    <2>3. file' = [file EXCEPT ![e.id] = e.ver] /\ ~(written[e.id] > e.gen)
        BY <1>7, <2>1, <2>2 DEF Renamed, Superseded
    <2>4. e.id = t /\ file'[t] = e.ver
        BY <1>1, <1>7, <2>3
    <2>5. e \in Saves(t)
        BY <2>2, <2>4 DEF Saves
    <2> QED BY <2>3, <2>4, <2>5, WriteFits
<1> QED BY <1>2, <1>3, <1>4, <1>5, <1>6, <1>7, OthersKeepFiles DEF Writes

-----------------------------------------------------------------------------
(* A thread is in one place (archive(), unarchive(), thread.bin.actions.ts): *)
(* while it is in archive/ it has no file in the list folder and is not in  *)
(* the list, whatever saves of it were pending or being written when it     *)
(* left; but for a recovery copy that a crash left behind.  Every variable  *)
(* has its type.                                                            *)
THEOREM InOnePlace == Spec => []OnePlace
<1>1. IInv => OnePlace
    BY InvGives
<1> QED BY <1>1, AlwaysKept, PTL

(* What saveNow(), archive() and the move to the Bin have reported as saved *)
(* stays on disk, in the file, the archive or the recovery copy, whatever   *)
(* write fails and whenever the app crashes; but for the retry of a failed  *)
(* write that its thread has overtaken (flush()'s requeue) and that copy.   *)
THEOREM SavesAreKept == Spec => []SavedIsKept
<1>1. IInv => SavedIsKept
    BY InvGives
<1> QED BY <1>1, AlwaysKept, PTL

(* No write of flush(), saveNow(), writeFinal() or a way back replaces a    *)
(* file by an older state of its thread, in whatever order they end; but    *)
(* after such a retry or such a crash.                                      *)
THEOREM FilesGetNewer == Spec => NeverOlder
<1>1. IInv /\ [Next]_vars => [flaws # {} \/ \A t \in Thread : ~Replaced(t)]_vars
    BY NoOlderFile
<1> QED BY <1>1, AlwaysKept, PTL DEF Spec, NeverOlder

=============================================================================
