--------------------------- MODULE JournalledSave ---------------------------
(***************************************************************************)
(* The journalled save behind `kb apply` for the two operation kinds that  *)
(* change knowledge: source capture (kb-app/src/source_apply.rs) and       *)
(* knowledge save (kb-app/src/knowledge_apply.rs).                         *)
(*                                                                         *)
(* A reviewed plan lists the writes.  An apply holds the Vault's exclusive *)
(* lock, publishes an empty journal and then a pending marker, journals    *)
(* and performs one write after the other, persists a receipt - the commit *)
(* point - and takes the marker and the journal away.  Any error inside    *)
(* the loop, and any later apply that finds the journal without a receipt, *)
(* puts the journalled files back.                                         *)
(*                                                                         *)
(* The process may die between any two steps.  People, editors and         *)
(* synchronisation tools change files at any time: they take no lock.      *)
(* Reads, hashes and the writing of a file's bytes are atomic here (the    *)
(* code writes a temporary file and renames it); a comparison and the      *)
(* write that follows it are two steps.                                    *)
(***************************************************************************)
EXTENDS Integers, Sequences

CONSTANTS
  Ops,          \* operation identifiers with a persisted plan for this Vault
  KindOf,       \* the kind of each operation, "source" or "knowledge"
  Files,        \* paths of the Vault
  Contents,     \* what a file can hold, Absent included
  Absent,       \* the content of a path that does not exist
  Plan,         \* [Ops -> Seq(Write)]: the reviewed writes, in order
  Needs,        \* [Ops -> SUBSET (Files \X Contents)]: inputs that must be as reviewed
  Conflicts,    \* contents with unresolved synchronisation conflict markers
  InitialFile,  \* [Files -> Contents]
  EditTo,       \* [Files -> SUBSET Contents]: what other writers put in a file
  NoOp,         \* "no operation"
  QuietWindow,  \* TRUE: no other writer edits a file while the edit goes unseen
  MaxEdits,     \* bound on the edits of other writers
  MaxFaults     \* bound on process deaths and IO errors

Kinds == {"source", "knowledge"}

Write == [path : Files, before : Contents, after : Contents, object : BOOLEAN]

\* The plan validators reject two writes to one path; an object file is only created.
ASSUME PlanAssumption ==
  /\ NoOp \notin Ops
  /\ Absent \in Contents
  /\ KindOf \in [Ops -> Kinds]
  /\ Plan \in [Ops -> Seq(Write)]
  /\ InitialFile \in [Files -> Contents]
  /\ EditTo \in [Files -> SUBSET Contents]
  /\ QuietWindow \in BOOLEAN
  /\ \A o \in Ops : \A i, j \in DOMAIN Plan[o] :
       Plan[o][i].path = Plan[o][j].path => i = j
  /\ \A o \in Ops : \A i \in DOMAIN Plan[o] :
       Plan[o][i].object => Plan[o][i].before = Absent

VARIABLES
  file,       \* the Vault's files
  marker,     \* [Kinds -> Ops or NoOp]: the pending marker of each kind
  journalled, \* operations whose progress file exists
  entries,    \* [Ops -> set of plan indices]: its entries
  receipts,   \* operations whose result.json exists
  fresh,      \* operations whose plan is not expired and whose admission and
              \* configuration hashes still match
  barred,     \* interrupted operations whose apply fails before it recovers anything:
              \* their event log is full, the configuration does not load, the Vault's
              \* schema or identity is another, this release rejects the plan
  runner,     \* the operation whose apply holds the exclusive lock, or NoOp
  pc,         \* where that apply is
  todo,       \* plan indices still to write, or still to put back
  at,         \* the index between its check and its write
  goal,       \* "recover", or the error to report once everything is put back
  outcome,    \* [Ops -> how the last apply of the operation ended]
  placed,     \* history: indices whose file holds the operation's uncommitted bytes
  edited,     \* history: files other writers changed since the last preflight
  edits,      \* number of edits so far
  faults      \* number of deaths and IO errors so far

disk == <<marker, journalled, entries, receipts>>
proc == <<runner, pc, todo, at, goal, outcome>>
env  == <<fresh, barred, edited, edits, faults>>
vars == <<file, disk, proc, placed, env>>

Running == {"restore", "restorePut", "dropMarker", "preflight", "openMarker",
            "save", "put", "receipt", "closeMarker", "closeJournal"}

\* How an apply ends: by what its preflight or its loop found, by what stands in the way
\* of restoring, before it looks at its journal, or in the middle of a step.
Clean == {"stale", "failed", "changed", "sync_conflict", "integrity"}
Unrestored == {"needs_recovery", "restore_failed"}
Outcomes == Clean \cup Unrestored \cup {"none", "running", "turned_away", "interrupted", "applied"}
Goals == {"none", "recover"} \cup Clean

Steps(o) == DOMAIN Plan[o]
W(o, i) == Plan[o][i]

TypeOK ==
  /\ file \in [Files -> Contents]
  /\ marker \in [Kinds -> Ops \cup {NoOp}]
  /\ journalled \subseteq Ops
  /\ entries \in [Ops -> SUBSET Int]
  /\ \A o \in Ops : entries[o] \subseteq Steps(o)
  /\ receipts \subseteq Ops
  /\ fresh \subseteq Ops
  /\ barred \subseteq Ops
  /\ runner \in Ops \cup {NoOp}
  /\ pc \in Running \cup {"idle"}
  /\ pc = "idle" <=> runner = NoOp
  /\ todo \subseteq Int
  /\ runner # NoOp => todo \subseteq Steps(runner)
  /\ at \in Int
  /\ pc \in {"put", "restorePut"} => at \in todo
  /\ goal \in Goals
  /\ outcome \in [Ops -> Outcomes]
  /\ placed \in [Ops -> SUBSET Int]
  /\ \A o \in Ops : placed[o] \subseteq Steps(o)
  /\ edited \subseteq Files
  /\ edits \in Nat
  /\ faults \in Nat

Init ==
  /\ file = InitialFile
  /\ marker = [k \in Kinds |-> NoOp]
  /\ journalled = {}
  /\ entries = [o \in Ops |-> {}]
  /\ receipts = {}
  /\ fresh = Ops
  /\ barred = {}
  /\ runner = NoOp
  /\ pc = "idle"
  /\ todo = {}
  /\ at = 0
  /\ goal = "none"
  /\ outcome = [o \in Ops |-> "none"]
  /\ placed = [o \in Ops |-> {}]
  /\ edited = {}
  /\ edits = 0
  /\ faults = 0

-----------------------------------------------------------------------------
(* Faulty variants: plausible mistakes in the operators that carry their   *)
(* name.  No specification uses them; each shows that a property would     *)
(* notice.                                                                 *)

\* Looks for markers of its own kind only.
FaultyMarkersAllow(o) == marker[KindOf[o]] \in {NoOp, o}

\* An early return that leaks the lock.
FaultyReturn(how) ==
  /\ pc' = "idle"
  /\ outcome' = [outcome EXCEPT ![runner] = how]
  /\ UNCHANGED <<runner, todo, at, goal>>

\* Looks at the journal before it looks at the receipt.
FaultyAcquire(o) ==
  /\ pc = "idle"
  /\ o \notin barred
  /\ marker[KindOf[o]] \in {NoOp, o}
  /\ runner' = o
  /\ outcome' = [outcome EXCEPT ![o] = "running"]
  /\ pc' = IF o \in journalled THEN "restore"
           ELSE IF o \in receipts THEN "closeMarker" ELSE "preflight"
  /\ todo' = IF o \in journalled THEN entries[o] ELSE {}
  /\ goal' = IF o \in journalled THEN "recover" ELSE "none"
  /\ at' = 0
  /\ UNCHANGED <<file, disk, placed, env>>

\* Puts the old bytes back without looking at what the file holds.
FaultyRestoreDecide ==
  /\ pc = "restore"
  /\ \E i \in todo :
       /\ \A j \in todo : j <= i
       /\ file[Plan[runner][i].path] # Plan[runner][i].before
       /\ at' = i
  /\ pc' = "restorePut"
  /\ UNCHANGED <<file, disk, runner, outcome, todo, goal, placed, env>>

\* Gives the Vault free although a file could not be put back.
FaultyRestoreRefused ==
  /\ pc = "restore"
  /\ \E i \in todo :
       /\ \A j \in todo : j <= i
       /\ file[Plan[runner][i].path] \notin {Plan[runner][i].before, Plan[runner][i].after}
  /\ runner' = NoOp
  /\ pc' = "idle"
  /\ todo' = {}
  /\ at' = 0
  /\ goal' = "none"
  /\ outcome' = [outcome EXCEPT ![runner] = "needs_recovery"]
  /\ marker' = [marker EXCEPT ![KindOf[runner]] = NoOp]
  /\ UNCHANGED <<file, journalled, entries, receipts, placed, env>>

\* Writes the file first and means to journal it afterwards.
FaultyJournalEntry ==
  /\ pc = "save"
  /\ \E i \in todo :
       /\ \A j \in todo : i <= j
       /\ file[Plan[runner][i].path] = Plan[runner][i].before
       /\ at' = i
  /\ pc' = "put"
  /\ UNCHANGED <<file, disk, runner, outcome, todo, goal, placed, env>>

\* Ends the loop one write early.
FaultyWritesDone ==
  /\ pc = "save"
  /\ \A i, j \in todo : i = j
  /\ pc' = "receipt"
  /\ UNCHANGED <<file, disk, runner, outcome, todo, at, goal, placed, env>>

\* Leaves the marker to the next apply.
FaultyCloseMarker ==
  /\ pc = "closeMarker"
  /\ pc' = "closeJournal"
  /\ UNCHANGED <<file, disk, runner, outcome, todo, at, goal, placed, env>>

-----------------------------------------------------------------------------
(* Locks, markers and how an apply ends                                    *)

\* No marker of the other kind, and none of another operation of this kind.
MarkersAllow(o) ==
  \A k \in Kinds : marker[k] \in {NoOp} \cup (IF k = KindOf[o] THEN {o} ELSE {})

\* The call returns: the lock is released and what it knew in memory is gone.
Return(how) ==
  /\ runner' = NoOp
  /\ pc' = "idle"
  /\ todo' = {}
  /\ at' = 0
  /\ goal' = "none"
  /\ outcome' = [outcome EXCEPT ![runner] = how]

Goto(label) ==
  /\ pc' = label
  /\ UNCHANGED <<runner, outcome>>

\* Faulty variant of RollBack: reports the error at once.
FaultyRollBack(error) ==
  /\ Return(error)
  /\ UNCHANGED <<file, disk, placed>>

\* An error inside the save loop: put every journalled file back, then report it.
RollBack(error) ==
  /\ Goto("restore")
  /\ todo' = entries[runner]
  /\ at' = 0
  /\ goal' = error
  /\ UNCHANGED <<file, disk, placed>>

\* A receipt means that only housekeeping remains.  Without one the operation must pass
\* its first checks; a journal then means that an earlier apply was interrupted.
Acquire(o) ==
  /\ pc = "idle"
  /\ MarkersAllow(o)
  /\ runner' = o
  /\ at' = 0
  /\ outcome' = [outcome EXCEPT ![o] = "running"]
  /\ \/ /\ o \in receipts
        /\ pc' = "closeMarker"
        /\ todo' = {}
        /\ goal' = "none"
     \/ /\ o \notin receipts \cup barred
        /\ o \in journalled
        /\ pc' = "restore"
        /\ todo' = entries[o]
        /\ goal' = "recover"
     \/ /\ o \notin receipts \cup barred
        /\ o \notin journalled
        /\ pc' = "preflight"
        /\ todo' = {}
        /\ goal' = "none"
  /\ UNCHANGED <<file, disk, placed, env>>

\* Another operation is pending: the call returns at once.
Refuse(o) ==
  /\ pc = "idle"
  /\ ~MarkersAllow(o)
  /\ outcome' = [outcome EXCEPT ![o] = "turned_away"]
  /\ UNCHANGED <<file, disk, runner, pc, todo, at, goal, placed, env>>

\* One of the first checks fails, as it may for any operation: nothing is recovered, and a
\* half save stays with its marker and journal.
TurnAway(o) ==
  /\ pc = "idle"
  /\ MarkersAllow(o)
  /\ o \notin receipts
  /\ o \in journalled => o \in barred
  /\ outcome' = [outcome EXCEPT ![o] = "turned_away"]
  /\ UNCHANGED <<file, disk, runner, pc, todo, at, goal, placed, env>>

-----------------------------------------------------------------------------
(* Putting files back, last entry first                                    *)

\* Already as it was: nothing to do for this entry.
RestoreSkip ==
  /\ pc = "restore"
  /\ \E i \in todo :
       /\ \A j \in todo : j <= i
       /\ file[W(runner, i).path] = W(runner, i).before
       /\ todo' = todo \ {i}
       /\ placed' = [placed EXCEPT ![runner] = @ \ {i}]
  /\ UNCHANGED <<file, disk, runner, pc, at, goal, outcome, env>>

\* It holds this operation's bytes: decide to put the old ones back.
RestoreDecide ==
  /\ pc = "restore"
  /\ \E i \in todo :
       /\ \A j \in todo : j <= i
       /\ file[W(runner, i).path] # W(runner, i).before
       /\ file[W(runner, i).path] = W(runner, i).after
       /\ at' = i
  /\ Goto("restorePut")
  /\ UNCHANGED <<file, disk, todo, goal, placed, env>>

\* It holds something else: preserve it, keep marker and journal.
RestoreRefused ==
  /\ pc = "restore"
  /\ \E i \in todo :
       /\ \A j \in todo : j <= i
       /\ file[W(runner, i).path] \notin {W(runner, i).before, W(runner, i).after}
  /\ Return("needs_recovery")
  /\ UNCHANGED <<file, disk, placed, env>>

\* Replace the file, or remove one that did not exist.
RestorePut ==
  LET w == W(runner, at) IN
  /\ pc = "restorePut"
  /\ w.before = Absent => file[w.path] # Absent
  /\ file' = [file EXCEPT ![w.path] = w.before]
  /\ placed' = [placed EXCEPT ![runner] = @ \ {at}]
  /\ todo' = todo \ {at}
  /\ at' = 0
  /\ Goto("restore")
  /\ UNCHANGED <<disk, goal, env>>

\* The file to remove has gone meanwhile: the removal is an IO error.
RestoreGone ==
  LET w == W(runner, at) IN
  /\ pc = "restorePut"
  /\ w.before = Absent
  /\ file[w.path] = Absent
  /\ Return("restore_failed")
  /\ UNCHANGED <<file, disk, placed, env>>

\* Everything is back: first the journal goes ...
DropJournal ==
  /\ pc = "restore"
  /\ todo = {}
  /\ journalled' = journalled \ {runner}
  /\ entries' = [entries EXCEPT ![runner] = {}]
  /\ Goto("dropMarker")
  /\ UNCHANGED <<file, marker, receipts, todo, at, goal, placed, env>>

\* ... then the marker.  A recovery continues with a new attempt, a failed
\* attempt reports its error.
DropMarker ==
  /\ pc = "dropMarker"
  /\ marker' = [marker EXCEPT ![KindOf[runner]] = NoOp]
  /\ \/ /\ goal = "recover"
        /\ Goto("preflight")
        /\ goal' = "none"
        /\ UNCHANGED <<todo, at>>
     \/ /\ goal # "recover"
        /\ Return(goal)
  /\ UNCHANGED <<file, journalled, entries, receipts, placed, env>>

-----------------------------------------------------------------------------
(* A new attempt                                                           *)

SyncSafe == \A f \in Files : file[f] \notin Conflicts

\* A captured object that is there already is not written again.
ObjectPresent(o, i) == W(o, i).object /\ file[W(o, i).path] # Absent

PlanCurrent(o) ==
  /\ o \in fresh
  /\ \A need \in Needs[o] : file[need[1]] = need[2]
  /\ \A i \in Steps(o) : ~W(o, i).object => file[W(o, i).path] = W(o, i).before

ObjectsIntact(o) ==
  \A i \in Steps(o) : ObjectPresent(o, i) => file[W(o, i).path] = W(o, i).after

\* The plan still fits: the empty journal is published before the marker.
OpenJournal ==
  /\ pc = "preflight"
  /\ SyncSafe
  /\ PlanCurrent(runner)
  /\ ObjectsIntact(runner)
  /\ journalled' = journalled \cup {runner}
  /\ entries' = [entries EXCEPT ![runner] = {}]
  /\ todo' = {i \in Steps(runner) : ~ObjectPresent(runner, i)}
  /\ edited' = {}
  /\ Goto("openMarker")
  /\ UNCHANGED <<file, marker, receipts, at, goal, placed, fresh, barred, edits, faults>>

\* It does not: the call returns and touches nothing, a marker included.
PreflightRefused ==
  /\ pc = "preflight"
  /\ \/ ~SyncSafe /\ Return("sync_conflict")
     \/ SyncSafe /\ ~PlanCurrent(runner) /\ Return("stale")
     \/ SyncSafe /\ PlanCurrent(runner) /\ ~ObjectsIntact(runner) /\ Return("integrity")
  /\ UNCHANGED <<file, disk, placed, env>>

OpenMarker ==
  /\ pc = "openMarker"
  /\ marker' = [marker EXCEPT ![KindOf[runner]] = runner]
  /\ Goto("save")
  /\ UNCHANGED <<file, journalled, entries, receipts, todo, at, goal, placed, env>>

\* The next file is still as reviewed: journal the write, then do it.
JournalEntry ==
  /\ pc = "save"
  /\ \E i \in todo :
       /\ \A j \in todo : i <= j
       /\ file[W(runner, i).path] = W(runner, i).before
       /\ entries' = [entries EXCEPT ![runner] = @ \cup {i}]
       /\ at' = i
  /\ Goto("put")
  /\ UNCHANGED <<file, marker, journalled, receipts, todo, goal, placed, env>>

\* The next file changed since the preflight.
JournalRefused ==
  /\ pc = "save"
  /\ \E i \in todo :
       /\ \A j \in todo : i <= j
       /\ file[W(runner, i).path] # W(runner, i).before
  /\ RollBack("stale")
  /\ UNCHANGED env

\* create_new never replaces a file and remove_file needs one; atomic_replace
\* replaces whatever is there.
CanPut(w) ==
  /\ w.before = Absent => file[w.path] = Absent
  /\ w.after = Absent => file[w.path] # Absent

Put ==
  LET w == W(runner, at) IN
  /\ pc = "put"
  /\ CanPut(w)
  /\ file' = [file EXCEPT ![w.path] = w.after]
  /\ placed' = [placed EXCEPT ![runner] = @ \cup {at}]
  /\ todo' = todo \ {at}
  /\ at' = 0
  /\ Goto("save")
  /\ UNCHANGED <<disk, goal, env>>

PutRefused ==
  /\ pc = "put"
  /\ ~CanPut(W(runner, at))
  /\ RollBack("failed")
  /\ UNCHANGED env

\* Any other IO error in the loop: a directory, the journal, a file, the event log.
LoopFault ==
  /\ pc \in {"save", "put"}
  /\ faults < MaxFaults
  /\ faults' = faults + 1
  /\ RollBack("failed")
  /\ UNCHANGED <<fresh, barred, edited, edits>>

\* Source capture hashes every file it wrote before it commits; a knowledge
\* save does not.
Unchanged(o) == \A i \in entries[o] : file[W(o, i).path] = W(o, i).after

WritesDone ==
  /\ pc = "save"
  /\ todo = {}
  /\ KindOf[runner] = "source" => Unchanged(runner)
  /\ Goto("receipt")
  /\ UNCHANGED <<file, disk, todo, at, goal, placed, env>>

VerifyRefused ==
  /\ pc = "save"
  /\ todo = {}
  /\ KindOf[runner] = "source"
  /\ ~Unchanged(runner)
  /\ RollBack("changed")
  /\ UNCHANGED env

\* The receipt is the commit point.
Commit ==
  /\ pc = "receipt"
  /\ receipts' = receipts \cup {runner}
  /\ placed' = [placed EXCEPT ![runner] = {}]
  /\ Goto("closeMarker")
  /\ UNCHANGED <<file, marker, journalled, entries, todo, at, goal, env>>

CloseMarker ==
  /\ pc = "closeMarker"
  /\ marker' = [marker EXCEPT ![KindOf[runner]] = NoOp]
  /\ Goto("closeJournal")
  /\ UNCHANGED <<file, journalled, entries, receipts, todo, at, goal, placed, env>>

CloseJournal ==
  /\ pc = "closeJournal"
  /\ journalled' = journalled \ {runner}
  /\ entries' = [entries EXCEPT ![runner] = {}]
  /\ Return("applied")
  /\ UNCHANGED <<file, marker, receipts, placed, env>>

-----------------------------------------------------------------------------
(* What happens to the program                                             *)

\* The process dies; or a step outside the loop - restoring a file, writing the receipt or
\* the marker, recording `applied`, removing marker or journal - meets an IO error, and
\* the call reports it.  Either way the lock goes and the disk stays as it is.
Interrupt ==
  /\ runner # NoOp
  /\ faults < MaxFaults
  /\ faults' = faults + 1
  /\ Return("interrupted")
  /\ UNCHANGED <<file, disk, placed, fresh, barred, edited, edits>>

\* The moments at which an edit goes unseen: the file lies between its check and its
\* write, or it has just been put back and receives the operation's bytes again
\* before the journal is gone.
Unseen(f, c) ==
  \/ pc \in {"put", "restorePut"} /\ W(runner, at).path = f
  \/ /\ pc \in {"restore", "restorePut"}
     /\ \E i \in entries[runner] \ todo : W(runner, i).path = f /\ W(runner, i).after = c

\* Bytes equal to those an interrupted save has journalled for the file cannot
\* be told from its own.
TakenForOwn(o, f, c) ==
  {i \in entries[o] :
     /\ o \notin receipts
     /\ runner = o /\ pc \in {"restore", "restorePut"} => i \in todo
     /\ W(o, i).path = f
     /\ W(o, i).after = c}

Edit(f, c) ==
  /\ edits < MaxEdits
  /\ QuietWindow => ~Unseen(f, c)
  /\ file[f] # c
  /\ file' = [file EXCEPT ![f] = c]
  /\ placed' = [o \in Ops |->
       {i \in placed[o] : W(o, i).path # f} \cup TakenForOwn(o, f, c)]
  /\ edited' = edited \cup {f}
  /\ edits' = edits + 1
  /\ UNCHANGED <<disk, proc, fresh, barred, faults>>

\* The plan expires, or the configuration or admission it was made under changes.
Expire(o) ==
  /\ o \in fresh
  /\ fresh' = fresh \ {o}
  /\ UNCHANGED <<file, disk, proc, placed, barred, edited, edits, faults>>

\* The first checks of an interrupted operation come to fail, or to pass again.  They are
\* made at the beginning of an apply: it is enough that they change between two.
Bar(o) ==
  /\ runner = NoOp
  /\ o \in journalled \ receipts
  /\ \/ o \notin barred /\ barred' = barred \cup {o}
     \/ o \in barred /\ barred' = barred \ {o}
  /\ UNCHANGED <<file, disk, proc, placed, fresh, edited, edits, faults>>

-----------------------------------------------------------------------------
Step ==
  \/ RestoreSkip \/ RestoreDecide \/ RestoreRefused \/ RestorePut \/ RestoreGone
  \/ DropJournal \/ DropMarker
  \/ OpenJournal \/ PreflightRefused \/ OpenMarker
  \/ JournalEntry \/ JournalRefused \/ Put \/ PutRefused
  \/ WritesDone \/ VerifyRefused
  \/ Commit \/ CloseMarker \/ CloseJournal

Next ==
  \/ \E o \in Ops : Acquire(o) \/ Refuse(o) \/ TurnAway(o) \/ Expire(o) \/ Bar(o)
  \/ Step
  \/ LoopFault
  \/ Interrupt
  \/ \E f \in Files : \E c \in EditTo[f] : Edit(f, c)

Spec == Init /\ [][Next]_vars

\* A running call goes on, and whoever started an interrupted operation retries it,
\* as every recovery error tells them to.
Fairness ==
  /\ WF_vars(Step)
  /\ \A o \in Ops : WF_vars(Acquire(o))

FairSpec == Spec /\ Fairness

-----------------------------------------------------------------------------
(* Properties                                                              *)

\* ensure_no_pending passes under the lock.  Queries, index builds, reviews, lint, source
\* verification, backups, plans and changes of configuration ask it; `kb read`, `kb status`
\* and `kb config show` take the lock and ask nothing (app.rs:349-369).
NothingPending == runner = NoOp /\ \A k \in Kinds : marker[k] = NoOp

\* What a query, a review or a backup is let to see never contains a part of a
\* save that has not committed, whatever died, was retried or was edited before.
ReadersSeeNoPartialSave == NothingPending => \A o \in Ops : placed[o] = {}

\* Bytes of an uncommitted save are always covered by its journal and its marker, so
\* that a retry can find them and nobody else starts a save on top of them.
PartialSaveIsJournalled ==
  \A o \in Ops : placed[o] # {} =>
    /\ o \notin receipts
    /\ o \in journalled
    /\ placed[o] \subseteq entries[o]
    /\ marker[KindOf[o]] = o

\* Two operations are never in the middle of a save together, of one kind or of both.
OneSaveAtATime ==
  \A o, q \in Ops :
    o \notin receipts /\ q \notin receipts /\ entries[o] # {} /\ entries[q] # {} => o = q

\* An apply whose preflight refused the plan, or whose loop met an error, has left neither
\* bytes nor a journal behind: what an earlier attempt left is restored before the plan is
\* judged, and the attempt's own writes before the error is reported.  Errors that come
\* before the recovery, interrupt a step outside the loop or stop the restoring end
\* otherwise (turned_away, interrupted, Unrestored) and may leave both, which
\* PartialSaveIsJournalled is about.
FailedApplyLeavesNothing ==
  \A o \in Ops : outcome[o] \in Clean => placed[o] = {} /\ o \notin journalled

\* The tool overwrites a file only while it holds the bytes the plan was reviewed
\* against or the bytes the operation itself wrote.
OnlyKnownBytesReplaced ==
  [][edits' = edits =>
       \A f \in Files : file'[f] # file[f] => \E i \in Steps(runner) :
         /\ W(runner, i).path = f
         /\ {file[f], file'[f]} = {W(runner, i).before, W(runner, i).after}]_vars

\* A commit leaves no reviewed write out: each file holds what the plan says,
\* or another writer changed it after the preflight.
CommitIsComplete ==
  [][\A o \in receipts' \ receipts : \A i \in Steps(o) :
       (file[W(o, i).path] = W(o, i).after) \/ (W(o, i).path \in edited)]_vars

\* The retry of an interrupted save whose plan went stale meanwhile gives the Vault
\* free, as interruption_before_first_file_does_not_strand_a_stale_plan expects.
StaleRetryReleasesVault ==
  \A o \in Ops : outcome[o] = "stale" => marker[KindOf[o]] # o

\* A pending marker nobody can work off: no journal, no receipt, and a plan that
\* no longer fits.
Stranded(o) ==
  /\ marker[KindOf[o]] = o
  /\ o \notin journalled
  /\ o \notin receipts

\* Another writer's change stands where the interrupted save would be put back.
Obstructed(o) ==
  \E i \in entries[o] : file[W(o, i).path] \notin {W(o, i).before, W(o, i).after}

\* Retries work an interrupted save off, if its first checks pass again some day for good,
\* unless another writer's change must be preserved or the marker lost its journal.
InterruptionsAreWorkedOff ==
  \A o \in Ops :
    <>[](o \notin barred) =>
      ((marker[KindOf[o]] = o) ~> (marker[KindOf[o]] # o \/ Obstructed(o) \/ Stranded(o)))

\* What the Vault holds once an uncommitted save is taken back.
Visible ==
  [f \in Files |->
     IF \E o \in Ops : \E i \in placed[o] : W(o, i).path = f
     THEN LET o == CHOOSE p \in Ops : \E i \in placed[p] : W(p, i).path = f
          IN  W(o, CHOOSE i \in placed[o] : W(o, i).path = f).before
     ELSE file[f]]

\* Seen through Visible, the journalled save is a save that happens at one instant.
SaveIsAtomic ==
  INSTANCE AtomicSave WITH content <- Visible, saved <- receipts, Overwrites <- FALSE
SaveImplementsAtomicSave == SaveIsAtomic!Spec
=============================================================================
