--------------------------- MODULE ThreadStorage ----------------------------
(* The files of the threads (src/app/src/main/thread.storage.ts): coalesced *)
(* saves with generations, immediate saves, the final write of a thread     *)
(* that leaves the list for the archive or the Bin and its way back, with   *)
(* the callers in index.ts, thread.manager.ts, thread.bin.actions.ts and    *)
(* thread.bin.recovery.ts.  Any write can fail and the app can crash before *)
(* every await.  A thread's contents are a version number.                  *)
EXTENDS Naturals, Sequences, FiniteSets, SequencesExt

CONSTANTS
    Thread,
    MaxVersion,   \* bound: versions of a thread
    MaxFaults,    \* bound: writes that fail
    MaxMoves,     \* bound: archivings, Bin moves and crashes
    Leavings      \* the ways out of the list: subset of {"archive", "room", "bin"}

ASSUME BoundsAssumption ==
    /\ IsFiniteSet(Thread)
    /\ MaxVersion \in Nat \ {0} /\ {MaxFaults, MaxMoves} \subseteq Nat
    /\ Leavings \subseteq {"archive", "room", "bin"}

VARIABLES
    listed,      \* the threads in the list
    ver,         \* what the app holds of each thread
    pending,     \* pending: the coalesced save of each thread, or NoEntry
    written,     \* written: the newest generation in each file
    gen,         \* generation
    batches,     \* writes: the batches flushed and not finished, oldest first
    step,        \* how far the first entry of the first batch is
    failed,      \* a write of the first batch failed
    timer,       \* a flush is scheduled
    leave,       \* the thread's way out of the list or back, or Stays
    file, shelf, backup,   \* disk: the list folder, archive/ and .bin-recovery
    acked,       \* history: the newest version that was reported as saved
    flaws,       \* history: "retry", a failed write of what its thread no longer
                 \* is went back to pending; "copy", a crash left a recovery copy
                 \* beside the file it was made of
    faults, moves          \* counters of the bounds

store == <<pending, written, gen, batches, step, failed, timer>>
disk == <<file, shelf, backup>>
bounds == <<faults, moves>>
vars == <<listed, ver, store, leave, disk, acked, flaws, bounds>>

None == 0
NoEntry == [id |-> None, ver |-> 0, gen |-> 0]
Stays == [by |-> "none", at |-> "", ahead |-> 0]
Entries == [id : Thread, ver : 1..MaxVersion, gen : Nat]

(* Number.MAX_SAFE_INTEGER, as a generation: the others stay below it       *)
(* (bound, in SavedLater and ChangeNow).                                    *)
Final == 100

Init ==
    /\ listed = [t \in Thread |-> TRUE]
    /\ ver = [t \in Thread |-> 1]
    /\ pending = [t \in Thread |-> NoEntry]
    /\ written = [t \in Thread |-> 0]
    /\ gen = 0 /\ batches = <<>> /\ step = "check" /\ failed = FALSE /\ timer = FALSE
    /\ leave = [t \in Thread |-> Stays]
    /\ file = [t \in Thread |-> 1]
    /\ shelf = [t \in Thread |-> None] /\ backup = [t \in Thread |-> None]
    /\ acked = [t \in Thread |-> 1]
    /\ flaws = {} /\ faults = 0 /\ moves = 0

Fault == faults < MaxFaults /\ faults' = faults + 1
NoFault == UNCHANGED faults

-----------------------------------------------------------------------------
(* Saves.                                                                   *)

(* save(): the newest value replaces the pending one.                       *)
SavedLater(t, v, g) ==
    /\ g < Final
    /\ pending' = [pending EXCEPT ![t] = [id |-> t, ver |-> v, gen |-> g]]
    /\ gen' = g /\ timer' = TRUE

(* A change of the thread that can wait.                                    *)
Change(t) ==
    /\ listed[t] /\ ver[t] < MaxVersion
    /\ ver' = [ver EXCEPT ![t] = @ + 1]
    /\ SavedLater(t, ver[t] + 1, gen + 1)
    /\ UNCHANGED <<flaws, listed, written, batches, step, failed, leave, disk, acked, bounds>>

(* saveNow(): written at once, and the pending save superseded; or it fails *)
(* and the manager asks for a coalesced save.                               *)
ChangeNow(t) ==
    /\ listed[t] /\ ver[t] < MaxVersion
    /\ ver' = [ver EXCEPT ![t] = @ + 1]
    /\ \/ /\ NoFault /\ gen + 1 < Final
          /\ file' = [file EXCEPT ![t] = ver[t] + 1]
          /\ acked' = [acked EXCEPT ![t] = ver[t] + 1]
          /\ written' = [written EXCEPT ![t] = gen + 1]
          /\ pending' = [pending EXCEPT ![t] = NoEntry]
          /\ gen' = gen + 1 /\ UNCHANGED timer
       \/ /\ Fault
          /\ SavedLater(t, ver[t] + 1, gen + 2)
          /\ UNCHANGED <<file, acked, written>>
    /\ UNCHANGED <<flaws, listed, batches, step, failed, leave, shelf, backup, moves>>

(* flush(): what is pending becomes a batch at the end of the chain.        *)
Flush ==
    /\ timer /\ timer' = FALSE
    /\ batches' = Append(batches, SetToSeq({pending[t] : t \in Thread} \ {NoEntry}))
    /\ pending' = [t \in Thread |-> NoEntry]
    /\ UNCHANGED <<flaws, listed, ver, written, gen, step, failed, leave, disk, acked, bounds>>

Entry == Head(Head(batches))
Working(s) == batches # <<>> /\ Head(batches) # <<>> /\ step = s
EntryDone == batches' = [batches EXCEPT ![1] = Tail(@)] /\ step' = "check"

(* Mutation: generations are not compared.                                  *)
SupersededNever(e) == FALSE

(* An entry that something newer has overtaken is skipped.                  *)
Superseded(e) == written[e.id] > e.gen

BatchChecks ==
    /\ Working("check")
    /\ IF Superseded(Entry) THEN EntryDone ELSE step' = "write" /\ UNCHANGED batches
    /\ UNCHANGED <<flaws, listed, ver, pending, written, gen, failed, timer, leave, disk, acked, bounds>>

(* Mutation: the generation is compared only before the write.              *)
RenamedUnchecked(e) ==
    /\ file' = [file EXCEPT ![e.id] = e.ver]
    /\ written' = [written EXCEPT ![e.id] = e.gen]

(* The temporary file is written; the generation is compared again in the   *)
(* turn that renames it over the file.                                      *)
Renamed(e) ==
    IF Superseded(e) THEN UNCHANGED <<file, written>>
    ELSE /\ file' = [file EXCEPT ![e.id] = e.ver]
         /\ written' = [written EXCEPT ![e.id] = e.gen]

BatchWrites ==
    /\ Working("write")
    /\ \/ NoFault /\ Renamed(Entry) /\ EntryDone
       \/ Fault /\ step' = "failed" /\ UNCHANGED <<file, written, batches>>
    /\ UNCHANGED <<flaws, listed, ver, pending, gen, failed, timer, leave, shelf, backup, acked, moves>>

(* Mutation: a failed entry is given up.                                    *)
RequeuedNever(e) == UNCHANGED pending

(* The failed entry goes back to pending unless a newer one is there.       *)
Requeued(e) ==
    pending' = IF pending[e.id].gen < e.gen THEN [pending EXCEPT ![e.id] = e] ELSE pending

BatchRequeues ==
    /\ Working("failed")
    /\ Requeued(Entry) /\ EntryDone /\ failed' = TRUE
    /\ flaws' = flaws \cup (IF Entry.ver < ver[Entry.id] /\ pending[Entry.id].gen < Entry.gen
                            THEN {"retry"} ELSE {})
    /\ UNCHANGED <<listed, ver, written, gen, timer, leave, disk, acked, bounds>>

(* The batch ends; settle() schedules a retry after a failure.              *)
BatchEnds ==
    /\ batches # <<>> /\ Head(batches) = <<>>
    /\ batches' = Tail(batches)
    /\ failed' = FALSE /\ timer' = (timer \/ failed)
    /\ leave' = [t \in Thread |-> [leave[t] EXCEPT !.ahead = IF @ > 0 THEN @ - 1 ELSE 0]]
    /\ UNCHANGED <<flaws, listed, ver, pending, written, gen, step, disk, acked, bounds>>

-----------------------------------------------------------------------------
(* Out of the list.                                                         *)

(* Mutation: saves of a thread that leaves are still written.               *)
ReleaseUnmarked(t, by) ==
    /\ listed[t] /\ leave[t] = Stays /\ moves < MaxMoves
    /\ moves' = moves + 1
    /\ listed' = [listed EXCEPT ![t] = FALSE]
    /\ leave' = [leave EXCEPT ![t] = [by |-> by, at |-> "write", ahead |-> Len(batches)]]
    /\ UNCHANGED <<flaws, ver, store, disk, acked, faults>>

(* release() and writeFinal(): from here no save of the thread is written,  *)
(* and the batches under way are awaited.                                   *)
Release(t, by) ==
    /\ listed[t] /\ leave[t] = Stays /\ moves < MaxMoves
    /\ moves' = moves + 1
    /\ listed' = [listed EXCEPT ![t] = FALSE]
    /\ written' = [written EXCEPT ![t] = Final]
    /\ leave' = [leave EXCEPT ![t] = [by |-> by, at |-> "write", ahead |-> Len(batches)]]
    /\ UNCHANGED <<flaws, ver, pending, gen, batches, step, failed, timer, disk, acked, faults>>

Leaving(t, at) == leave[t].at = at /\ leave[t].ahead = 0
GoesOn(t, at) == leave' = [leave EXCEPT ![t].at = at]

(* The way out failed: saves are written again (readmit), and the callers   *)
(* but ensureRoom() put the thread back in the list (restore), as it is.    *)
Readmitted(t, v) ==
    /\ leave' = [leave EXCEPT ![t] = Stays]
    /\ written' = [written EXCEPT ![t] = 0]
    /\ IF leave[t].by = "room" THEN UNCHANGED <<listed, pending, gen, timer>>
       ELSE /\ listed' = [listed EXCEPT ![t] = TRUE]
            /\ SavedLater(t, v, gen + 1)

(* The final state is written to a temporary file and renamed.              *)
FinalWritten(t) ==
    /\ Leaving(t, "write")
    /\ \/ /\ NoFault /\ GoesOn(t, "move")
          /\ file' = [file EXCEPT ![t] = ver[t]]
          /\ UNCHANGED <<listed, pending, written, gen, timer>>
       \/ Fault /\ Readmitted(t, ver[t]) /\ UNCHANGED file
    /\ UNCHANGED <<flaws, ver, batches, step, failed, shelf, backup, acked, moves>>

(* archive(): the file is renamed into the archive.                         *)
Archived(t) ==
    /\ Leaving(t, "move") /\ leave[t].by \in {"archive", "room"}
    /\ \/ /\ NoFault /\ leave' = [leave EXCEPT ![t] = Stays]
          /\ shelf' = [shelf EXCEPT ![t] = file[t]]
          /\ file' = [file EXCEPT ![t] = None]
          /\ acked' = [acked EXCEPT ![t] = ver[t]]
          /\ UNCHANGED <<listed, pending, written, gen, timer>>
       \/ Fault /\ Readmitted(t, ver[t]) /\ UNCHANGED <<file, shelf, acked>>
    /\ UNCHANGED <<flaws, ver, batches, step, failed, backup, moves>>

(* The Bin: a recovery copy first, then the move; a move that fails takes   *)
(* the copy away again.                                                     *)
BackedUp(t) ==
    /\ Leaving(t, "move") /\ leave[t].by = "bin"
    /\ \/ /\ NoFault /\ GoesOn(t, "bin")
          /\ backup' = [backup EXCEPT ![t] = file[t]]
          /\ UNCHANGED <<listed, pending, written, gen, timer>>
       \/ Fault /\ Readmitted(t, ver[t]) /\ backup' = [backup EXCEPT ![t] = None]
    /\ UNCHANGED <<flaws, ver, batches, step, failed, file, shelf, acked, moves>>

Binned(t) ==
    /\ Leaving(t, "bin")
    /\ \/ /\ NoFault /\ leave' = [leave EXCEPT ![t] = Stays]
          /\ file' = [file EXCEPT ![t] = None]
          /\ acked' = [acked EXCEPT ![t] = ver[t]]
          /\ UNCHANGED <<listed, pending, written, gen, timer, backup>>
       \/ /\ Fault /\ Readmitted(t, ver[t])
          /\ backup' = [backup EXCEPT ![t] = None]
          /\ UNCHANGED <<file, acked>>
    /\ UNCHANGED <<flaws, ver, batches, step, failed, shelf, moves>>

(* And back.                                                                *)

Unarchive(t) ==
    /\ shelf[t] # None /\ leave[t] = Stays /\ ~listed[t] /\ file[t] = None
    /\ leave' = [leave EXCEPT ![t] = [by |-> "back", at |-> "rename", ahead |-> 0]]
    /\ UNCHANGED <<flaws, listed, ver, store, disk, acked, bounds>>

Unarchived(t) ==
    /\ Leaving(t, "rename")
    /\ \/ /\ NoFault /\ GoesOn(t, "restore")
          /\ file' = [file EXCEPT ![t] = shelf[t]]
          /\ shelf' = [shelf EXCEPT ![t] = None]
       \/ Fault /\ leave' = [leave EXCEPT ![t] = Stays] /\ UNCHANGED <<file, shelf>>
    /\ UNCHANGED <<flaws, listed, ver, store, backup, acked, moves>>

Restored(t) ==
    /\ Leaving(t, "restore")
    /\ ver' = [ver EXCEPT ![t] = file[t]]
    /\ Readmitted(t, file[t])
    /\ UNCHANGED <<flaws, batches, step, failed, disk, acked, bounds>>

(* Undo of a Bin move, while its recovery copy is kept.                     *)
UndoBin(t) ==
    /\ backup[t] # None /\ leave[t] = Stays /\ file[t] = None
    /\ file' = [file EXCEPT ![t] = backup[t]]
    /\ backup' = [backup EXCEPT ![t] = None]
    /\ ver' = [ver EXCEPT ![t] = backup[t]]
    /\ Readmitted(t, backup[t])
    /\ UNCHANGED <<flaws, batches, step, failed, shelf, acked, bounds>>

(* The recovery copy expires: the thread is left to the system's Bin.       *)
Expires(t) ==
    /\ backup[t] # None /\ leave[t] = Stays
    /\ backup' = [backup EXCEPT ![t] = None]
    /\ acked' = IF file[t] = None THEN [acked EXCEPT ![t] = None] ELSE acked
    /\ UNCHANGED <<flaws, listed, ver, store, leave, file, shelf, bounds>>

(* The app crashes and opens again: what is in the list folder is the list. *)
Crash ==
    /\ moves < MaxMoves /\ moves' = moves + 1
    /\ listed' = [t \in Thread |-> file[t] # None]
    /\ ver' = [t \in Thread |-> IF file[t] # None THEN file[t] ELSE ver[t]]
    /\ pending' = [t \in Thread |-> NoEntry]
    /\ written' = [t \in Thread |-> 0]
    /\ gen' = 0 /\ batches' = <<>> /\ step' = "check" /\ failed' = FALSE /\ timer' = FALSE
    /\ leave' = [t \in Thread |-> Stays]
    /\ flaws' = flaws \cup (IF \E t \in Thread : backup[t] # None /\ file[t] # None
                            THEN {"copy"} ELSE {})
    /\ UNCHANGED <<disk, acked, faults>>

-----------------------------------------------------------------------------
Writer == Flush \/ BatchChecks \/ BatchWrites \/ BatchRequeues \/ BatchEnds
Mover(t) == FinalWritten(t) \/ Archived(t) \/ BackedUp(t) \/ Binned(t)
            \/ Unarchived(t) \/ Restored(t)

Next ==
    \/ \E t \in Thread : Change(t) \/ ChangeNow(t)
    \/ \E t \in Thread, by \in Leavings : Release(t, by)
    \/ \E t \in Thread : Unarchive(t) \/ UndoBin(t) \/ Expires(t) \/ Mover(t)
    \/ Writer \/ Crash

Spec == Init /\ [][Next]_vars

(* Timers fire and writes end, well or badly.                               *)
FairSpec == Spec /\ WF_vars(Writer) /\ \A t \in Thread : WF_vars(Mover(t))

-----------------------------------------------------------------------------
(* Every variable has its type.                                             *)
TypeOK ==
    /\ listed \in [Thread -> BOOLEAN] /\ ver \in [Thread -> 1..MaxVersion]
    /\ pending \in [Thread -> Entries \cup {NoEntry}]
    /\ written \in [Thread -> Nat] /\ gen \in 0..(Final - 1)
    /\ batches \in Seq(Seq(Entries)) /\ step \in {"check", "write", "failed"}
    /\ failed \in BOOLEAN /\ timer \in BOOLEAN
    /\ leave \in [Thread -> [by : {"none", "archive", "room", "bin", "back"},
                             at : {"", "write", "move", "bin", "rename", "restore"},
                             ahead : Nat]]
    /\ {file, shelf, backup, acked} \subseteq [Thread -> 0..MaxVersion]
    /\ flaws \subseteq {"retry", "copy"}
    /\ faults \in 0..MaxFaults /\ moves \in 0..MaxMoves

(* A file is never replaced by an older state of its thread, whichever of   *)
(* the coalesced saves, the immediate ones, the final write and the retries *)
(* ends first; but once a failed write that a newer save had overtaken      *)
(* waits to be retried (StaleRetryNeverWrites below), and once a crash in   *)
(* the middle of a move to the Bin left a recovery copy that is undone.     *)
Replaced(t) == file[t] # None /\ file'[t] # None /\ file'[t] < file[t]
NeverOlder == [][flaws # {} \/ \A t \in Thread : ~Replaced(t)]_vars

(* What was reported as saved is on disk, where the list, the archive or    *)
(* the undo of the Bin finds it, whatever fails and crashes later; but for  *)
(* that retry, and for that copy, which undoes a move that never was.       *)
SavedIsKept == flaws # {} \/ \A t \in Thread :
    file[t] >= acked[t] \/ shelf[t] >= acked[t] \/ backup[t] >= acked[t]

(* thread.storage.ts says of a thread that left the list: "A save still     *)
(* pending or in flight, or a failed write retried later, can then never    *)
(* write its file again".                                                   *)
StaleRetryNeverWrites == [][\A t \in Thread : ~Replaced(t)]_vars

(* A thread that has left is nowhere else: no late save brings its file     *)
(* back beside the archived one; with the second exception.                 *)
OnePlace ==
    /\ TypeOK
    /\ "copy" \in flaws \/ \A t \in Thread : shelf[t] # None => file[t] = None /\ ~listed[t]

(* Every change of a listed thread reaches the disk in the end, however     *)
(* many writes failed on the way; except one of a thread whose automatic    *)
(* archiving failed, which is in no list until the app opens again.         *)
Abandoned(t) == ~listed[t] /\ leave[t] = Stays /\ file[t] # None
EventuallySaved == \A t \in Thread, v \in 1..MaxVersion :
    (listed[t] /\ ver[t] = v)
        ~> (file[t] >= v \/ shelf[t] >= v \/ backup[t] >= v \/ ver[t] < v
            \/ acked[t] = None \/ Abandoned(t))

=============================================================================
