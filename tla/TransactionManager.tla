------------------------- MODULE TransactionManager -------------------------
(* The edit transactions of /tx (src/src/core/transaction.manager.ts) with  *)
(* the tools that call trackEdit() before they write, the person who edits  *)
(* the same files, and a disk that can fail.  Every await of the code is a  *)
(* step boundary here.  A file is its text and its mode; every file counts  *)
(* one unit of the snapshot budget.  Symbolic links, the copies kept under  *)
(* .breakglass/transactions and the wording of receipts are left out.       *)
EXTENDS Naturals, Sequences, FiniteSets, SequencesExt

CONSTANTS
    Path,        \* the files
    Tool,        \* the tool calls that may run at once
    Draft,       \* the texts the tools write
    Existing,    \* the paths that hold a file at first
    MaxTx,       \* bound: transactions begun, each with an id of its own
    MaxHeld,     \* maxTotalSnapshotBytes, in files
    MaxOps,      \* bound: tool calls started
    MaxEdits,    \* bound: edits by the person
    Absent, Unreadable, None

ASSUME BudgetAssumption == {MaxHeld, MaxTx, MaxOps, MaxEdits} \subseteq Nat

ASSUME PathsAssumption ==
    /\ IsFiniteSet(Path) /\ IsFiniteSet(Tool) /\ Existing \subseteq Path
    /\ {"old", "human", "torn"} \cap Draft = {}
    /\ \A x \in {Absent, Unreadable, None} :
        /\ x \notin Draft \cup {"old", "human", "torn"} \cup Path
        /\ x \notin 1..MaxTx
    /\ Absent # Unreadable /\ Absent # None /\ Unreadable # None

VARIABLES
    disk,        \* what each path holds
    tx,          \* openTx, or None
    snap,        \* openTx.snapshots: how far the capture of each path is
    op,          \* the tool calls
    restoring,   \* the rollback or recovery under way (rollingBack), or None
    retained,    \* retained: the records kept of each transaction
    held,        \* heldSnapshotBytes
    begins,      \* the transactions begun so far (ids are random and new)
    ops, edits,  \* counters of the bounds
    begun,       \* history: the disk when the last transaction began
    spoiled,     \* history: what disturbed it since
    undone       \* history: it was rolled back and nothing was written since

vars == <<disk, tx, snap, op, restoring, retained, held, begins, ops, edits,
          begun, spoiled, undone>>

TxId == 1..MaxTx
Text == Draft \cup {"old", "human", "torn"}
Mode == {"default", "changed"}
File == [text : Text, mode : Mode]
OnDisk == File \cup {Absent}

(* What was at a path before the transaction wrote there: bytes, nothing,   *)
(* or something that could not be read.                                     *)
Baseline == OnDisk \cup {Unreadable}
EditRecord == [path : Path, base : Baseline, expected : SUBSET (Text \cup {Absent})]

Transaction == [id : TxId, edits : Seq(EditRecord), pending : Nat]
Undoing ==
    [id : TxId, force : BOOLEAN, todo : Seq(EditRecord), keep : Seq(EditRecord),
     done : Seq(EditRecord), step : {"read", "write", "check"},
     saw : Baseline \cup {None}, later : SUBSET TxId]

(* What stands for nothing is no file, no transaction and no restoration.   *)
ASSUME NothingAssumption ==
    /\ \A x \in {Absent, Unreadable, None} : x \notin File
    /\ None \notin Transaction /\ None \notin Undoing

contentToken(f) == IF f = Absent THEN Absent ELSE f.text
Bytes(records) == Cardinality({i \in DOMAIN records : records[i].base \in File})

NoSnapshot == [at |-> "none", seen |-> None]
NoOp == [at |-> "idle", path |-> None, draft |-> None, tx |-> None]

Open == tx # None
Rolling == restoring # None
CurrentId == IF Open THEN tx.id ELSE None

Init ==
    /\ disk = [p \in Path |-> IF p \in Existing THEN [text |-> "old", mode |-> "default"]
                              ELSE Absent]
    /\ tx = None
    /\ snap = [p \in Path |-> NoSnapshot]
    /\ op = [t \in Tool |-> NoOp]
    /\ restoring = None
    /\ retained = [i \in TxId |-> <<>>]
    /\ held = 0 /\ begins = 0 /\ ops = 0 /\ edits = 0
    /\ begun = disk /\ spoiled = {} /\ undone = FALSE

-----------------------------------------------------------------------------
(* The lifecycle of a transaction.                                          *)

(* begin(): refused during a restoration, while one is open, and under an   *)
(* id that still has recovery records.                                      *)
Begin(i) ==
    /\ i = begins + 1 /\ begins' = i
    /\ ~Rolling /\ ~Open /\ retained[i] = <<>>
    /\ tx' = [id |-> i, edits |-> <<>>, pending |-> 0]
    /\ begun' = disk /\ spoiled' = {} /\ undone' = FALSE
    /\ UNCHANGED <<disk, snap, op, restoring, retained, held, ops, edits>>

(* commit(): the edits stay and the baselines are let go.                   *)
Commit ==
    /\ Open /\ tx.pending = 0
    /\ held' = held - Bytes(tx.edits)
    /\ tx' = None /\ snap' = [p \in Path |-> NoSnapshot]
    /\ UNCHANGED <<begins, disk, op, restoring, retained, ops, edits, begun, spoiled, undone>>

(* A restoration of one transaction: records still to put back, those that  *)
(* must be kept, those that are settled, and the transactions to recover    *)
(* after this one.                                                          *)
Restoration(i, records, force, later) ==
    [id |-> i, force |-> force, todo |-> records, keep |-> <<>>, done |-> <<>>,
     step |-> "read", saw |-> None, later |-> later]

MayRollBack == ~Rolling /\ Open /\ tx.pending = 0

(* rollbackDetailed(): the transaction is closed first, so that nothing is  *)
(* tracked into it while it is undone, last edit first.                     *)
RollbackStarts(force) ==
    /\ MayRollBack
    /\ restoring' = Restoration(tx.id, Reverse(tx.edits), force, {})
    /\ tx' = None /\ snap' = [p \in Path |-> NoSnapshot]

Rollback(force) ==
    /\ RollbackStarts(force)
    /\ UNCHANGED <<begins, disk, op, retained, held, ops, edits, begun, spoiled, undone>>

Retained == {i \in TxId : retained[i] # <<>>}
Oldest(ids) == CHOOSE i \in ids : \A j \in ids : i <= j

(* recover(): every transaction with records left, the oldest first, never  *)
(* forced.                                                                  *)
Recover ==
    /\ ~Rolling /\ ~Open /\ Retained # {}
    /\ LET i == Oldest(Retained)
       IN restoring' = Restoration(i, retained[i], FALSE, Retained \ {i})
    /\ spoiled' = spoiled \cup {"recovery"}
    /\ UNCHANGED <<begins, disk, tx, snap, op, retained, held, ops, edits, begun, undone>>

-----------------------------------------------------------------------------
(* trackEdit(): called by a tool before it writes.                          *)

(* Mutation: every caller captures a baseline of its own.                   *)
RegisteredAgain(p) ==
    /\ snap' = [snap EXCEPT ![p] = [at |-> "open", seen |-> None]]
    /\ tx' = [tx EXCEPT !.pending = @ + 2,
                        !.edits = SelectSeq(@, LAMBDA r : r.path # p)]

(* Mutation: a caller that waits for someone else's capture is not counted. *)
RegisteredUncounted(p) ==
    IF snap[p].at = "none"
    THEN /\ snap' = [snap EXCEPT ![p] = [at |-> "open", seen |-> None]]
         /\ tx' = [tx EXCEPT !.pending = @ + 1]
    ELSE UNCHANGED <<snap, tx>>

(* Callers of a path share its first baseline; the capture and every caller *)
(* that waits for it count as pending.                                      *)
Registered(p) ==
    IF snap[p].at = "none"
    THEN /\ snap' = [snap EXCEPT ![p] = [at |-> "open", seen |-> None]]
         /\ tx' = [tx EXCEPT !.pending = @ + 2]
    ELSE /\ tx' = [tx EXCEPT !.pending = @ + 1]
         /\ UNCHANGED snap

(* A tool is about to leave d at p.  Without a transaction nothing is       *)
(* tracked.  During a restoration trackEdit() throws: a write is given up   *)
(* (no step), but a delete swallows the error and goes on untracked.        *)
ToolStarts(t, p, d) ==
    /\ op[t].at = "idle" /\ ops < MaxOps
    /\ Rolling => d = Absent
    /\ d = Absent => disk[p] # Absent
    /\ ops' = ops + 1
    /\ op' = [op EXCEPT ![t] = [at |-> IF Open THEN "waiting" ELSE "ready",
                                path |-> p, draft |-> d, tx |-> CurrentId]]
    /\ IF Open THEN Registered(p) ELSE UNCHANGED <<snap, tx>>
    /\ UNCHANGED <<begins, disk, restoring, retained, held, edits, begun, spoiled, undone>>

(* The capture of p has its answer: the record is filed.                    *)
Filed(p, base) ==
    /\ tx' = [tx EXCEPT !.pending = @ - 1,
                        !.edits = Append(@, [path |-> p, base |-> base, expected |-> {}])]
    /\ snap' = [snap EXCEPT ![p] = [at |-> "done", seen |-> None]]
    /\ spoiled' = IF base = Unreadable THEN spoiled \cup {"fault"} ELSE spoiled

(* open() and stat(): the size is known, and reserved if the budget has     *)
(* room for it.                                                             *)
Reserved(p) ==
    /\ disk[p] # Absent /\ held < MaxHeld
    /\ snap' = [snap EXCEPT ![p] = [at |-> "read", seen |-> disk[p]]]
    /\ held' = held + 1
    /\ UNCHANGED <<tx, spoiled>>

NothingThere(p) == disk[p] = Absent /\ Filed(p, Absent) /\ UNCHANGED held
(* The budget is exhausted, or the disk fails.                              *)
CannotOpen(p) == Filed(p, Unreadable) /\ UNCHANGED held

CaptureOpens(p) ==
    /\ Open /\ snap[p].at = "open"
    /\ NothingThere(p) \/ Reserved(p) \/ CannotOpen(p)
    /\ UNCHANGED <<begins, disk, op, restoring, retained, ops, edits, begun, undone>>

(* Mutation: a refused capture keeps its reservation.                       *)
ReadKeepsReservation(p) ==
    /\ UNCHANGED held
    /\ (disk[p] = snap[p].seen /\ Filed(p, disk[p])) \/ Filed(p, Unreadable)

(* The bytes are read and the file checked again: changed or unreadable, it *)
(* has no baseline and the reservation is given back.                       *)
ReadBack(p) ==
    \/ disk[p] = snap[p].seen /\ Filed(p, disk[p]) /\ UNCHANGED held
    \/ Filed(p, Unreadable) /\ held' = held - 1

CaptureReads(p) ==
    /\ Open /\ snap[p].at = "read"
    /\ ReadBack(p)
    /\ UNCHANGED <<begins, disk, op, restoring, retained, ops, edits, begun, undone>>

(* What the caller is about to leave becomes one of the expected states.    *)
Declared(t, r) ==
    IF r.path = op[t].path
    THEN [r EXCEPT !.expected = @ \cup {op[t].draft}] ELSE r

(* The caller continues once the record of its path is there.               *)
ToolTracked(t) ==
    /\ Open /\ op[t].at = "waiting" /\ snap[op[t].path].at = "done"
    /\ tx' = [tx EXCEPT !.pending = @ - 1,
                        !.edits = [i \in DOMAIN @ |-> Declared(t, @[i])]]
    /\ op' = [op EXCEPT ![t].at = "ready"]
    /\ UNCHANGED <<begins, disk, snap, restoring, retained, held, ops, edits,
                   begun, spoiled, undone>>

-----------------------------------------------------------------------------
(* The writes of the tools and of the person.                               *)

Written(p, text) ==
    [text |-> text, mode |-> IF disk[p] = Absent THEN "default" ELSE disk[p].mode]

(* A write that was tracked in a transaction that has closed since, or that *)
(* lands while one is undone, is late; one that was not tracked although a  *)
(* transaction is open now comes from outside.                              *)
Disturbs(t) ==
    IF op[t].tx = CurrentId /\ ~Rolling THEN {}
    ELSE IF op[t].tx = None THEN {"outside"} ELSE {"late"}

(* A file that had a mode of its own is written anew after a delete: it has *)
(* the default mode now.                                                    *)
Remakes(p, d) ==
    IF d # Absent /\ disk[p] = Absent /\ begun[p] \in File /\ begun[p].mode # "default"
    THEN {"remade"} ELSE {}

(* The tool writes, or deletes.                                             *)
ToolWrites(t) ==
    /\ op[t].at = "ready"
    /\ LET p == op[t].path
       IN disk' = [disk EXCEPT ![p] = IF op[t].draft = Absent THEN Absent
                                      ELSE Written(p, op[t].draft)]
    /\ op' = [op EXCEPT ![t] = NoOp]
    /\ spoiled' = spoiled \cup Disturbs(t) \cup Remakes(op[t].path, op[t].draft)
    /\ undone' = (undone /\ op[t].tx # CurrentId)
    /\ UNCHANGED <<begins, tx, snap, restoring, retained, held, ops, edits, begun>>

(* The write fails, perhaps half way; autoRollback() undoes the open        *)
(* transaction if it may.  A delete, or a write of SymbolEdit, that fails   *)
(* is only reported.                                                        *)
ToolFails(t) ==
    /\ op[t].at = "ready"
    /\ \E f \in {disk[op[t].path]} \cup
               (IF op[t].draft = Absent THEN {} ELSE {Written(op[t].path, "torn")}) :
        /\ disk' = [disk EXCEPT ![op[t].path] = f]
        /\ spoiled' = spoiled \cup (IF f = disk[op[t].path] THEN {} ELSE {"fault"})
        /\ undone' = (undone /\ f = disk[op[t].path])
    /\ op' = [op EXCEPT ![t] = NoOp]
    /\ \/ op[t].draft # Absent /\ RollbackStarts(FALSE)
       \/ UNCHANGED <<tx, snap, restoring>>
    /\ UNCHANGED <<begins, retained, held, ops, edits, begun>>

(* The person edits, deletes or changes the permissions of a file.          *)
PersonEdits(p) ==
    /\ edits < MaxEdits
    /\ edits' = edits + 1
    /\ \/ disk' = [disk EXCEPT ![p] = Written(p, "human")]
       \/ disk[p] # Absent /\ disk' = [disk EXCEPT ![p] = Absent]
       \/ disk[p] # Absent /\ disk' = [disk EXCEPT ![p].mode = "changed"]
    /\ spoiled' = spoiled \cup {"person"} /\ undone' = FALSE
    /\ UNCHANGED <<begins, tx, snap, op, restoring, retained, held, ops, begun>>

-----------------------------------------------------------------------------
(* restoreOne(): read what is there, decide, write, read it back.           *)

Now == Head(restoring.todo)
Busy(step) == Rolling /\ restoring.todo # <<>> /\ restoring.step = step

(* The record is settled: kept for a later recovery, or let go.             *)
Settled(kept, causes) ==
    /\ restoring' = [restoring EXCEPT !.todo = Tail(@), !.step = "read", !.saw = None,
                                      !.keep = IF kept THEN Append(@, Now) ELSE @,
                                      !.done = IF kept THEN @ ELSE Append(@, Now)]
    /\ spoiled' = spoiled \cup causes

SameMode(f, g) == f \in File /\ g \in File => f.mode = g.mode

(* Mutation: a mode that someone changed is not noticed.                    *)
OwnWhateverMode(f) == contentToken(f) \in Now.expected

(* What is there was left by this transaction.                              *)
Own(f) == contentToken(f) \in Now.expected /\ SameMode(f, Now.base)

Reads(f) ==
    \/ /\ Now.base = Unreadable
       /\ Settled(FALSE, {})
    \/ /\ Now.base # Unreadable /\ f = Unreadable /\ ~restoring.force
       /\ Settled(TRUE, {"fault"})
    \/ /\ Now.base # Unreadable /\ f = Now.base
       /\ Settled(FALSE, {})
    \/ /\ Now.base # Unreadable /\ f \notin {Unreadable, Now.base}
       /\ ~Own(f) /\ ~restoring.force
       /\ Settled(TRUE, {})
    \/ /\ Now.base # Unreadable /\ f # Now.base
       /\ restoring.force \/ (f # Unreadable /\ Own(f))
       /\ restoring' = [restoring EXCEPT !.step = "write", !.saw = f]
       /\ UNCHANGED spoiled

RestoreReads ==
    /\ Busy("read")
    /\ \E f \in {disk[Now.path], Unreadable} : Reads(f)
    /\ UNCHANGED <<begins, disk, tx, snap, op, retained, held, ops, edits, begun, undone>>

(* rm(), or a temporary file renamed over the path; either can fail.        *)
RestoreWrites ==
    /\ Busy("write")
    /\ \/ /\ disk' = [disk EXCEPT ![Now.path] = Now.base]
          /\ restoring' = [restoring EXCEPT !.step = "check"]
          /\ UNCHANGED spoiled
       \/ /\ Settled(TRUE, {"fault"})
          /\ UNCHANGED disk
    /\ UNCHANGED <<begins, tx, snap, op, retained, held, ops, edits, begun, undone>>

(* Mutation: what was written is not read back.                             *)
CheckedBlindly(f) == Settled(FALSE, {})

Checked(f) ==
    IF f = Now.base THEN Settled(FALSE, {})
    ELSE Settled(TRUE, IF f = Unreadable THEN {"fault"} ELSE {})

RestoreChecks ==
    /\ Busy("check")
    /\ \E f \in {disk[Now.path], Unreadable} : Checked(f)
    /\ UNCHANGED <<begins, disk, tx, snap, op, retained, held, ops, edits, begun, undone>>

Released == held' = held - Bytes(restoring.done)

(* The last record of a transaction is settled: what was not put back is    *)
(* retained and the rest released; a recovery goes on with the next one.    *)
RestoreEnds ==
    /\ Rolling /\ restoring.todo = <<>>
    /\ retained' = [retained EXCEPT ![restoring.id] = restoring.keep]
    /\ Released
    /\ restoring' = IF restoring.later = {} THEN None
                    ELSE LET i == Oldest(restoring.later)
                         IN Restoration(i, retained[i], FALSE, restoring.later \ {i})
    /\ undone' = TRUE
    /\ UNCHANGED <<begins, disk, tx, snap, op, ops, edits, begun, spoiled>>

-----------------------------------------------------------------------------
Snapshots == \E p \in Path : CaptureOpens(p) \/ CaptureReads(p)
Restores == RestoreReads \/ RestoreWrites \/ RestoreChecks \/ RestoreEnds
Tools == \E t \in Tool : ToolTracked(t) \/ ToolWrites(t) \/ ToolFails(t)

Next ==
    \/ \E i \in TxId : Begin(i)
    \/ Commit
    \/ \E force \in BOOLEAN : Rollback(force)
    \/ Recover
    \/ \E t \in Tool, p \in Path, d \in Draft \cup {Absent} : ToolStarts(t, p, d)
    \/ \E p \in Path : PersonEdits(p)
    \/ Snapshots
    \/ Tools
    \/ Restores

Spec == Init /\ [][Next]_vars

(* Every variable has its type.                                             *)
TypeOK ==
    /\ disk \in [Path -> OnDisk]
    /\ tx \in {None} \cup Transaction
    /\ snap \in [Path -> [at : {"none", "open", "read", "done"},
                          seen : OnDisk \cup {None}]]
    /\ op \in [Tool -> [at : {"idle", "waiting", "ready"}, path : Path \cup {None},
                        draft : Draft \cup {Absent, None}, tx : TxId \cup {None}]]
    /\ restoring \in {None} \cup Undoing
    /\ retained \in [TxId -> Seq(EditRecord)]
    /\ held \in Nat /\ begins \in 0..MaxTx /\ ops \in 0..MaxOps /\ edits \in 0..MaxEdits
    /\ begun \in [Path -> OnDisk] /\ undone \in BOOLEAN
    /\ spoiled \subseteq {"fault", "late", "outside", "person", "recovery", "remade"}

(* The records a transaction still answers for.                             *)
Records(i) ==
    IF CurrentId = i THEN tx.edits
    ELSE IF Rolling /\ restoring.id = i THEN restoring.todo \o restoring.keep
    ELSE retained[i]
HeldBy(i) ==
    Bytes(Records(i)) + (IF Rolling /\ restoring.id = i THEN Bytes(restoring.done) ELSE 0)
Reading == {p \in Path : snap[p].at = "read"}

(* The snapshot budget is counted exactly: what is held is what the open    *)
(* transaction, the one being undone, the retained ones and the reads under *)
(* way hold, and never more than the limit, over captures that are refused, *)
(* rollbacks that keep some baselines and recoveries that retry them; and   *)
(* everything keeps its type, the count of callers included.                *)
HeldExact ==
    /\ TypeOK
    /\ held = FoldSet(LAMBDA i, n : n + HeldBy(i), Cardinality(Reading), TxId)
    /\ held <= MaxHeld

(* No transaction closes while a tool still waits for a capture of it: the  *)
(* tool would declare its write to records nobody consults.                 *)
CallersFenced ==
    \A t \in Tool : op[t].at = "waiting" => Open /\ tx.id = op[t].tx

(* A baseline is let go only by a commit, or when the file was seen to hold *)
(* it again: conflicts, failures and read-back mismatches are retained,     *)
(* over any number of recoveries.                                           *)
NothingForgotten ==
    [][\A i \in TxId : \A k \in DOMAIN Records(i) :
          LET r == Records(i)[k]
          IN r.base = Unreadable \/ disk[r.path] = r.base
             \/ (CurrentId = i /\ ~Rolling')
             \/ \E j \in DOMAIN Records(i)' :
                  Records(i)'[j].path = r.path /\ Records(i)'[j].base = r.base]_vars

(* Unless it is forced, a restoration never writes over what the person     *)
(* wrote, nor over a file whose permissions someone changed, except one     *)
(* changed between its last read and its write.                             *)
ForeignKept ==
    [][(Busy("write") /\ ~restoring.force /\ disk[Now.path] = restoring.saw
        /\ disk' # disk /\ restoring' # restoring)
       => ~\/ contentToken(disk[Now.path]) = "human"
           \/ ~SameMode(disk[Now.path], Now.base)]_vars

(* A rollback that nothing disturbed (no edit by the person, no failure of  *)
(* the disk, no write in flight when it began) leaves every file as it was  *)
(* when the transaction began, whatever tools wrote, deleted, shared        *)
(* baselines or failed in between; except a file with permissions of its    *)
(* own that the transaction both deleted and wrote anew.                    *)
UndoneExactly == undone /\ spoiled = {} => disk = begun

=============================================================================
