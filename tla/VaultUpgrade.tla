---------------------------- MODULE VaultUpgrade ----------------------------
(***************************************************************************)
(* `kb vault upgrade`: replacing the product-managed template files of a   *)
(* Vault under an exact preview (kb-app/src/vault_upgrade.rs).             *)
(*                                                                         *)
(* The mechanism resembles the journalled save (module JournalledSave) and *)
(* differs where it matters: the journal keeps the bytes found when a file *)
(* is written, not the reviewed ones; nothing is compared again between    *)
(* the preflight and a write; a completed operation is replayed without a  *)
(* look at the marker's owner; a retry needs the marker AND the journal;   *)
(* and a plan of another application version is refused before anything    *)
(* else.  Knowledge saves share the Vault and its lock: here, only whether *)
(* one is pending.                                                         *)
(***************************************************************************)
EXTENDS Integers, Sequences

CONSTANTS
  Ops,          \* operation identifiers with a persisted, conflict-free preview
  Files,        \* product-managed files
  Contents,     \* what such a file can hold, Absent included
  Absent,
  Plan,         \* [Ops -> Seq([path, before, after])]
  Conflicts,    \* contents with synchronisation conflict markers
  InitialFile,
  EditTo,       \* [Files -> SUBSET Contents]: what other writers put in a file
  NoOp,
  MaxEdits,     \* bound on the edits of other writers
  MaxFaults     \* bound on process deaths and IO errors

Write == [path : Files, before : Contents, after : Contents]

ASSUME UpgradePlanAssumption ==
  /\ NoOp \notin Ops
  /\ Absent \in Contents
  /\ Plan \in [Ops -> Seq(Write)]
  /\ InitialFile \in [Files -> Contents]
  /\ EditTo \in [Files -> SUBSET Contents]
  /\ \A o \in Ops : \A i, j \in DOMAIN Plan[o] :
       Plan[o][i].path = Plan[o][j].path => i = j

VARIABLES
  file,        \* the template files
  marker,      \* the upgrade whose pending marker exists, or NoOp
  savePending, \* a knowledge save or source capture left its marker
  journalled,  \* operations whose progress file exists
  entries,     \* [Ops -> function from journalled plan indices to the bytes found]
  receipts,    \* operations whose upgrade-result.json exists
  appCurrent,  \* the installed application is the one that made the previews
  runner, pc, todo, goal, outcome, \* as in JournalledSave
  others,      \* history: what each file held when the last other writer left it
  placed,      \* history: indices whose file holds uncommitted template bytes
  edited,      \* history: files other writers changed since the last preflight
  edits, faults

disk == <<marker, journalled, entries, receipts>>
proc == <<runner, pc, todo, goal, outcome>>
vars == <<file, disk, savePending, appCurrent, proc, others, placed, edited, edits, faults>>

Running == {"restore", "dropMarker", "preflight", "openMarker",
            "write", "put", "closeMarker", "closeJournal"}
Outcomes == {"none", "running", "crashed", "applied", "stale", "failed",
             "needs_recovery", "sync_conflict", "invalid"}

Steps(o) == DOMAIN Plan[o]
W(o, i) == Plan[o][i]

TypeOK ==
  /\ file \in [Files -> Contents]
  /\ others \in [Files -> Contents]
  /\ marker \in Ops \cup {NoOp}
  /\ savePending \in BOOLEAN
  /\ appCurrent \in BOOLEAN
  /\ journalled \in SUBSET Ops
  /\ \A o \in Ops : DOMAIN entries[o] \subseteq Steps(o)
  /\ \A o \in Ops : \A i \in DOMAIN entries[o] : entries[o][i] \in Contents
  /\ receipts \in SUBSET Ops
  /\ runner \in Ops \cup {NoOp}
  /\ pc \in Running \cup {"idle"}
  /\ pc = "idle" <=> runner = NoOp
  /\ runner # NoOp => todo \subseteq Steps(runner)
  /\ goal \in {"none", "recover", "failed"}
  /\ outcome \in [Ops -> Outcomes]
  /\ \A o \in Ops : placed[o] \subseteq Steps(o)
  /\ edited \subseteq Files

NoEntries == [i \in {} |-> Absent]

Init ==
  /\ file = InitialFile
  /\ others = InitialFile
  /\ marker = NoOp
  /\ savePending = FALSE
  /\ appCurrent = TRUE
  /\ journalled = {}
  /\ entries = [o \in Ops |-> NoEntries]
  /\ receipts = {}
  /\ runner = NoOp
  /\ pc = "idle"
  /\ todo = {}
  /\ goal = "none"
  /\ outcome = [o \in Ops |-> "none"]
  /\ placed = [o \in Ops |-> {}]
  /\ edited = {}
  /\ edits = 0
  /\ faults = 0

-----------------------------------------------------------------------------
(* Faulty variants, for showing that a property would notice.              *)

\* Starts although a knowledge save is pending.
FaultyPreflightPasses(o) ==
  \A i \in Steps(o) : file[W(o, i).path] = W(o, i).before

\* Puts back the reviewed bytes instead of the bytes that were found.
FaultyFound(o, i) == W(o, i).before

\* A receipt that still leaves the marker to somebody else.
FaultyCloseMarker ==
  /\ pc = "closeMarker"
  /\ pc' = "closeJournal"
  /\ UNCHANGED <<file, disk, savePending, appCurrent, runner, todo, goal, outcome,
                 others, placed, edited, edits, faults>>

\* The receipt comes before the last file.
FaultyCommit ==
  /\ pc = "write"
  /\ \A i, j \in todo : i = j
  /\ receipts' = receipts \cup {runner}
  /\ placed' = [placed EXCEPT ![runner] = {}]
  /\ others' = [f \in Files |->
       IF \E i \in placed[runner] : W(runner, i).path = f THEN file[f] ELSE others[f]]
  /\ pc' = "closeMarker"
  /\ UNCHANGED <<file, marker, journalled, entries, savePending, appCurrent, runner, todo,
                 goal, outcome, edited, edits, faults>>

\* An error path that forgets the lock.
FaultyReturn(how) ==
  /\ pc' = "idle"
  /\ outcome' = [outcome EXCEPT ![runner] = how]
  /\ UNCHANGED <<runner, todo, goal>>

-----------------------------------------------------------------------------
Return(how) ==
  /\ runner' = NoOp
  /\ pc' = "idle"
  /\ todo' = {}
  /\ goal' = "none"
  /\ outcome' = [outcome EXCEPT ![runner] = how]

Goto(label) ==
  /\ pc' = label
  /\ UNCHANGED <<runner, outcome>>

RollBack ==
  /\ Goto("restore")
  /\ todo' = DOMAIN entries[runner]
  /\ goal' = "failed"

\* Whether a retry finds what it reads: both files, and the marker its own.
Recoverable(o) == marker = o /\ o \in journalled

\* A preview made by this application version is taken up under the lock.
Acquire(o) ==
  /\ pc = "idle"
  /\ appCurrent
  /\ runner' = o
  /\ outcome' = [outcome EXCEPT ![o] = "running"]
  /\ \/ /\ o \in receipts
        /\ pc' = "closeMarker"
        /\ todo' = {}
        /\ goal' = "none"
     \/ /\ o \notin receipts
        /\ marker = NoOp
        /\ o \notin journalled
        /\ pc' = "preflight"
        /\ todo' = {}
        /\ goal' = "none"
     \/ /\ o \notin receipts
        /\ Recoverable(o)
        /\ pc' = "restore"
        /\ todo' = DOMAIN entries[o]
        /\ goal' = "recover"
  /\ UNCHANGED <<file, disk, savePending, appCurrent,
                 others, placed, edited, edits, faults>>

\* Another application version, another upgrade's marker, or one of the two
\* recovery files missing: the call returns at once.
Refuse(o) ==
  /\ pc = "idle"
  /\ \/ /\ ~appCurrent
        /\ outcome' = [outcome EXCEPT ![o] = "invalid"]
     \/ /\ appCurrent
        /\ o \notin receipts
        /\ marker \notin {o, NoOp}
        /\ outcome' = [outcome EXCEPT ![o] = "needs_recovery"]
     \/ /\ appCurrent
        /\ o \notin receipts
        /\ marker \in {o, NoOp}
        /\ ~Recoverable(o)
        /\ marker = o \/ o \in journalled
        /\ outcome' = [outcome EXCEPT ![o] = "failed"]
  /\ UNCHANGED <<file, disk, savePending, appCurrent, runner, pc, todo, goal,
                 others, placed, edited, edits, faults>>

-----------------------------------------------------------------------------
(* Recovery and rollback.  Comparing a file and replacing it are one step: *)
(* what falls between them is studied in JournalledSave.                   *)

RestoreFile ==
  /\ pc = "restore"
  /\ \E i \in todo :
       LET f == W(runner, i).path
           found == entries[runner][i]
       IN  /\ \A j \in todo : j <= i
           /\ file[f] \in {found, W(runner, i).after}
           /\ file' = [file EXCEPT ![f] = found]
           /\ placed' = [placed EXCEPT ![runner] = @ \ {i}]
           /\ todo' = todo \ {i}
  /\ UNCHANGED <<disk, savePending, appCurrent, runner, pc, goal, outcome,
                 others, edited, edits, faults>>

RestoreRefused ==
  /\ pc = "restore"
  /\ \E i \in todo :
       /\ \A j \in todo : j <= i
       /\ file[W(runner, i).path] \notin {entries[runner][i], W(runner, i).after}
  /\ Return("needs_recovery")
  /\ UNCHANGED <<file, disk, savePending, appCurrent,
                 others, placed, edited, edits, faults>>

DropJournal ==
  /\ pc = "restore"
  /\ todo = {}
  /\ journalled' = journalled \ {runner}
  /\ entries' = [entries EXCEPT ![runner] = NoEntries]
  /\ Goto("dropMarker")
  /\ UNCHANGED <<file, marker, receipts, savePending, appCurrent, todo, goal,
                 others, placed, edited, edits, faults>>

DropMarker ==
  /\ pc = "dropMarker"
  /\ marker' = NoOp
  /\ \/ /\ goal = "recover"
        /\ Goto("preflight")
        /\ goal' = "none"
        /\ UNCHANGED todo
     \/ /\ goal # "recover"
        /\ Return(goal)
  /\ UNCHANGED <<file, journalled, entries, receipts, savePending, appCurrent,
                 others, placed, edited, edits, faults>>

-----------------------------------------------------------------------------
SyncSafe == \A f \in Files : file[f] \notin Conflicts

PreflightPasses(o) ==
  /\ ~savePending
  /\ SyncSafe
  /\ \A i \in Steps(o) : file[W(o, i).path] = W(o, i).before

OpenJournal ==
  /\ pc = "preflight"
  /\ PreflightPasses(runner)
  /\ journalled' = journalled \cup {runner}
  /\ entries' = [entries EXCEPT ![runner] = NoEntries]
  /\ todo' = Steps(runner)
  /\ edited' = {}
  /\ Goto("openMarker")
  /\ UNCHANGED <<file, marker, receipts, savePending, appCurrent, goal,
                 others, placed, edits, faults>>

PreflightRefused ==
  /\ pc = "preflight"
  /\ \/ savePending /\ Return("needs_recovery")
     \/ ~savePending /\ ~SyncSafe /\ Return("sync_conflict")
     \/ ~savePending /\ SyncSafe /\ ~PreflightPasses(runner) /\ Return("stale")
  /\ UNCHANGED <<file, disk, savePending, appCurrent,
                 others, placed, edited, edits, faults>>

OpenMarker ==
  /\ pc = "openMarker"
  /\ marker' = runner
  /\ Goto("write")
  /\ UNCHANGED <<file, journalled, entries, receipts, savePending, appCurrent, todo,
                 goal, others, placed, edited, edits, faults>>

\* The bytes the journal keeps for a file: whatever is there now.
Found(o, i) == file[W(o, i).path]

JournalEntry ==
  /\ pc = "write"
  /\ \E i \in todo :
       /\ \A j \in todo : i <= j
       /\ entries' = [entries EXCEPT ![runner] =
            [j \in DOMAIN @ \cup {i} |-> IF j = i THEN Found(runner, i) ELSE @[j]]]
  /\ Goto("put")
  /\ UNCHANGED <<file, marker, journalled, receipts, savePending, appCurrent, todo,
                 goal, others, placed, edited, edits, faults>>

\* A reviewed update replaces whatever is there, a creation nothing.
Put ==
  /\ pc = "put"
  /\ \E i \in todo \cap DOMAIN entries[runner] :
       LET f == W(runner, i).path IN
       /\ W(runner, i).before = Absent => file[f] = Absent
       /\ file' = [file EXCEPT ![f] = W(runner, i).after]
       /\ placed' = [placed EXCEPT ![runner] = @ \cup {i}]
       /\ todo' = todo \ {i}
  /\ Goto("write")
  /\ UNCHANGED <<disk, savePending, appCurrent, goal, others, edited, edits, faults>>

PutRefused ==
  /\ pc = "put"
  /\ \E i \in todo \cap DOMAIN entries[runner] :
       /\ W(runner, i).before = Absent
       /\ file[W(runner, i).path] # Absent
  /\ RollBack
  /\ UNCHANGED <<file, disk, savePending, appCurrent,
                 others, placed, edited, edits, faults>>

LoopFault ==
  /\ pc \in {"write", "put"}
  /\ todo # {}
  /\ faults < MaxFaults
  /\ faults' = faults + 1
  /\ RollBack
  /\ UNCHANGED <<file, disk, savePending, appCurrent, others, placed, edited, edits>>

Commit ==
  /\ pc = "write"
  /\ todo = {}
  /\ receipts' = receipts \cup {runner}
  /\ placed' = [placed EXCEPT ![runner] = {}]
  /\ others' = [f \in Files |->
       IF \E i \in placed[runner] : W(runner, i).path = f THEN file[f] ELSE others[f]]
  /\ Goto("closeMarker")
  /\ UNCHANGED <<file, marker, journalled, entries, savePending, appCurrent, todo,
                 goal, edited, edits, faults>>

\* Whoever's marker it is.
CloseMarker ==
  /\ pc = "closeMarker"
  /\ marker' = NoOp
  /\ Goto("closeJournal")
  /\ UNCHANGED <<file, journalled, entries, receipts, savePending, appCurrent, todo,
                 goal, others, placed, edited, edits, faults>>

CloseJournal ==
  /\ pc = "closeJournal"
  /\ journalled' = journalled \ {runner}
  /\ entries' = [entries EXCEPT ![runner] = NoEntries]
  /\ Return("applied")
  /\ UNCHANGED <<file, marker, receipts, savePending, appCurrent,
                 others, placed, edited, edits, faults>>

-----------------------------------------------------------------------------
Crash ==
  /\ runner # NoOp
  /\ faults < MaxFaults
  /\ faults' = faults + 1
  /\ Return("crashed")
  /\ UNCHANGED <<file, disk, savePending, appCurrent, others, placed, edited, edits>>

\* Not the file between its check and its write, and not the very bytes an upgrade
\* would write, which it takes for its own: JournalledSave looks into both.
Edit(f, c) ==
  /\ edits < MaxEdits
  /\ edits' = edits + 1
  /\ file[f] # c
  /\ pc = "put" => \A i \in todo \cap DOMAIN entries[runner] : W(runner, i).path # f
  /\ \A o \in Ops : \A i \in Steps(o) : W(o, i).path = f => c # W(o, i).after
  /\ file' = [file EXCEPT ![f] = c]
  /\ others' = [others EXCEPT ![f] = c]
  /\ placed' = [o \in Ops |-> {i \in placed[o] : W(o, i).path # f}]
  /\ edited' = edited \cup {f}
  /\ UNCHANGED <<disk, savePending, appCurrent, proc, faults>>

\* A knowledge save takes the same lock, and starts only without any marker.
SaveInterrupted ==
  /\ pc = "idle"
  /\ marker = NoOp
  /\ ~savePending
  /\ savePending' = TRUE
  /\ UNCHANGED <<file, disk, appCurrent, proc, others, placed, edited, edits, faults>>

SaveRecovered ==
  /\ pc = "idle"
  /\ marker = NoOp
  /\ savePending
  /\ savePending' = FALSE
  /\ UNCHANGED <<file, disk, appCurrent, proc, others, placed, edited, edits, faults>>

\* `kb update` installs another version, or the old one comes back.
SwitchVersion ==
  /\ pc = "idle"
  /\ appCurrent' = ~appCurrent
  /\ UNCHANGED <<file, disk, savePending, proc, others, placed, edited, edits, faults>>

Step ==
  \/ RestoreFile \/ RestoreRefused \/ DropJournal \/ DropMarker
  \/ OpenJournal \/ PreflightRefused \/ OpenMarker
  \/ JournalEntry \/ Put \/ PutRefused \/ Commit \/ CloseMarker \/ CloseJournal

Next ==
  \/ \E o \in Ops : Acquire(o) \/ Refuse(o)
  \/ Step
  \/ LoopFault
  \/ Crash
  \/ SaveInterrupted
  \/ SaveRecovered
  \/ SwitchVersion
  \/ \E f \in Files : \E c \in EditTo[f] : Edit(f, c)

Spec == Init /\ [][Next]_vars

\* A running call goes on; an interrupted upgrade is retried by its owner.
Fairness ==
  /\ WF_vars(Step)
  /\ \A o \in Ops : WF_vars(Acquire(o))

FairSpec == Spec /\ Fairness

-----------------------------------------------------------------------------
\* ensure_no_pending passes under the lock, as a backup, a review, a save or another upgrade
\* ask.  `kb read` and `kb status` ask nothing: between a death and the recovery, `kb read`
\* of KB.md can show half an upgrade (app.rs:360-369).
NothingPending == pc = "idle" /\ marker = NoOp /\ ~savePending

\* A command that has asked for pending operations and found none - a backup that archives
\* the template files, a save or an upgrade that builds on them - sees each of them as its
\* last other writer left it, or as a completed upgrade made it: no half of an upgrade,
\* and nothing an undone upgrade failed to give back.  Commands that do not ask are not meant.
ReadersSeeNoPartialUpgrade == NothingPending => file = others

\* An upgrade and a knowledge save are never both half done.
NotBothHalfDone == savePending => \A o \in Ops : placed[o] = {}

\* Retrying works an interrupted upgrade off unless another writer's change stands
\* in its way, the application version moved on, or its journal is gone.
UpgradesAreWorkedOff ==
  \A o \in Ops :
    (marker = o) ~>
      \/ marker # o
      \/ ~appCurrent
      \/ o \notin journalled \cup receipts
      \/ \E i \in DOMAIN entries[o] :
           file[W(o, i).path] \notin {entries[o][i], W(o, i).after}

\* Where the bytes of an unfinished upgrade stand, what its progress file gives back.
GivesBack(o, i, f) ==
  /\ o \notin receipts /\ i \in DOMAIN entries[o]
  /\ W(o, i).path = f /\ file[f] = W(o, i).after

\* The template files as they are on disk once an unfinished upgrade is undone.
Undone ==
  [f \in Files |->
     IF \E o \in Ops : \E i \in Steps(o) : GivesBack(o, i, f)
     THEN LET o == CHOOSE p \in Ops : \E i \in Steps(p) : GivesBack(p, i, f)
          IN  entries[o][CHOOSE i \in Steps(o) : GivesBack(o, i, f)]
     ELSE file[f]]

\* Seen like this, an upgrade happens at one instant, with its receipt, and replaces only
\* what it was reviewed against or what was edited after its preflight.
UpgradeIsAtomic ==
  INSTANCE AtomicSave WITH content <- Undone, saved <- receipts, Overwrites <- TRUE
UpgradeImplementsAtomicSave == UpgradeIsAtomic!Spec
=============================================================================
