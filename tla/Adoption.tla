------------------------------ MODULE Adoption ------------------------------
(***************************************************************************)
(* `kb adopt` and `kb apply`: adding the framework of a Vault to a         *)
(* directory that already holds notes (kb-app/src/adopt.rs).               *)
(*                                                                         *)
(* A plan is a snapshot of the whole target, taken without a lock.         *)
(* Applying it takes the machine's operation lock, compares the snapshot,  *)
(* writes every file into a private stage inside the target, creates the   *)
(* missing directories, then links the files one by one, noting each step  *)
(* in progress.json.  Creating a directory comes BEFORE its note, linking  *)
(* a file AFTER it.  An error rolls back in memory and leaves progress and *)
(* plan for a retry, which first removes what progress names.  Completion  *)
(* is recorded in the target (the receipt), then in the user's state (the  *)
(* result).  Note writers know nothing of the lock.                        *)
(*                                                                         *)
(* A stage either exists or not; that it is filled and emptied file by     *)
(* file shows only in `foreign`, an entry in it that the plan does not own.*)
(***************************************************************************)
EXTENDS Integers, Sequences, FiniteSets

CONSTANTS
  Ops,          \* identifiers of adoptions of the one target
  Dirs, Files,  \* directories and files of the framework
  Notes,        \* other entries of the target
  Order,        \* Dirs by depth, then Files: the order of installation
  Parent,       \* [Dirs \cup Files \cup Notes -> Dirs \cup {Root}]
  Root,
  Owned,        \* paths whose presence makes a plan impossible
  EmptyDirs,    \* directories that completeness asks for by name
  ReceiptPath,  \* the directories the receipt lies under
  Contents,     \* what a file can hold
  Absent, Directory,
  Generated,    \* [Ops -> [Files -> Contents]]; the configuration holds a fresh id
  InitialNode,
  EditTo,       \* what other writers may make of a path
  NoOp, NoPlan,
  MaxFaults,    \* bound on process deaths and IO errors
  MaxTrouble    \* bound on those and the steps of other writers together

Paths == Dirs \cup Files \cup Notes
Nodes == Contents \cup {Absent, Directory}

ASSUME AdoptionAssumption ==
  /\ NoOp \notin Ops
  /\ Absent \notin Contents /\ Directory \notin Contents /\ Absent # Directory
  /\ Files # {}
  /\ Dirs \cap Files = {}
  /\ Parent \in [Paths -> Dirs \cup {Root}]
  /\ Root \notin Paths
  /\ Order \in Seq(Dirs \cup Files)
  /\ \A p \in Dirs \cup Files : \E i \in DOMAIN Order : Order[i] = p
  /\ \A i, j \in DOMAIN Order :
       /\ Order[i] = Order[j] => i = j
       /\ i < j /\ Order[i] \in Files => Order[j] \in Files
       /\ Order[i] = Parent[Order[j]] => i < j
  /\ Owned \subseteq Dirs \cup Files
  /\ EmptyDirs \subseteq Dirs
  /\ ReceiptPath \subseteq Dirs
  /\ Generated \in [Ops -> [Files -> Contents]]
  /\ InitialNode \in [Paths -> Nodes]
  /\ EditTo \in [Paths -> SUBSET Nodes]
  /\ \A d \in ReceiptPath : EditTo[d] \subseteq {Absent, Directory}

VARIABLES
  node,       \* what each path of the target is
  staged,     \* operations whose stage directory exists
  foreign,    \* those with an entry the plan does not own
  receipt,    \* operations whose receipt lies in the target
  planning,   \* plans whose target passed the collision check
  observed,   \* the snapshot of each plan, or NoPlan
  recorded,   \* operations whose progress.json exists
  recDirs, recFiles, \* ... and what it names
  result,     \* operations whose result is in the user's state
  registered, \* the target is in the registry of Vaults
  runner, pc, \* the operation that holds the lock, and where it is
  next,       \* the position in Order it has reached
  dirs, files,\* what it holds itself for undoing: InstallState, or the progress read
  broken,     \* undoing met an obstacle
  outcome,
  own,        \* history: the paths an operation created and that are still its own
  taken,      \* history: what other writers changed since the operation made it
  edits, faults

target == <<node, staged, foreign, receipt>>
progress == <<recorded, recDirs, recFiles>>
store == <<planning, observed, progress, result, registered>>
work == <<next, dirs, files, broken>>
proc == <<runner, pc, work, outcome>>
vars == <<target, store, proc, own, taken, edits, faults>>

Recovering == {"recoverStage", "recoverFiles", "recoverDirs"}
Installing == {"dirs", "noteDir", "record", "link", "unstage", "tracked", "dropStage"}
Finishing == {"check", "verify", "register", "receipt", "result", "forget"}
Running == Recovering \cup Installing \cup Finishing
             \cup {"review", "stage", "populate", "undo"}
Outcomes == {"none", "running", "crashed", "adopted", "stale", "failed",
             "needs_recovery", "unsafe_path"}

Snapshots == [node : [Paths -> Nodes], staged : SUBSET Ops, foreign : SUBSET Ops,
              receipt : SUBSET Ops]

TargetTyped ==
  /\ node \in [Paths -> Nodes]
  /\ staged \in SUBSET Ops
  /\ foreign \in SUBSET staged
  /\ receipt \in SUBSET Ops

StoreTyped ==
  /\ planning \in SUBSET Ops
  /\ \A o \in Ops : observed[o] # NoPlan =>
       /\ observed[o].node \in [Paths -> Nodes]
       /\ observed[o].staged \cup observed[o].foreign \cup observed[o].receipt \subseteq Ops
  /\ recorded \in SUBSET Ops
  /\ recDirs \in [Ops -> SUBSET Dirs]
  /\ recFiles \in [Ops -> SUBSET Files]
  /\ result \in SUBSET Ops
  /\ registered \in BOOLEAN

CallTyped ==
  /\ runner \in Ops \cup {NoOp}
  /\ pc \in Running \cup {"idle"}
  /\ pc = "idle" <=> runner = NoOp
  /\ next \in 1..Len(Order) + 1
  /\ dirs \subseteq Dirs /\ files \subseteq Files
  /\ broken \in BOOLEAN
  /\ outcome \in [Ops -> Outcomes]

HistoryTyped ==
  /\ own \in [Ops -> SUBSET Paths] /\ taken \in [Ops -> SUBSET Paths]
  /\ edits \in Nat /\ faults \in Nat

TypeOK ==
  /\ TargetTyped
  /\ StoreTyped
  /\ CallTyped
  /\ HistoryTyped

Init ==
  /\ node = InitialNode
  /\ staged = {} /\ foreign = {} /\ receipt = {}
  /\ planning = {}
  /\ observed = [o \in Ops |-> NoPlan]
  /\ recorded = {}
  /\ recDirs = [o \in Ops |-> {}]
  /\ recFiles = [o \in Ops |-> {}]
  /\ result = {}
  /\ registered = FALSE
  /\ runner = NoOp
  /\ pc = "idle"
  /\ next = 1
  /\ dirs = {} /\ files = {}
  /\ broken = FALSE
  /\ outcome = [o \in Ops |-> "none"]
  /\ own = [o \in Ops |-> {}] /\ taken = [o \in Ops |-> {}]
  /\ edits = 0 /\ faults = 0

-----------------------------------------------------------------------------
(* Faulty variants, for showing that a property would notice.              *)

\* A way out that keeps the lock.
FaultyReturn(how) ==
  /\ pc' = "idle"
  /\ outcome' = [outcome EXCEPT ![runner] = how]
  /\ UNCHANGED <<runner, work>>

\* Takes any file under a generated path for a generated file.
FaultyMatches(f) == node[f] # Absent

\* Asks only for the files the progress names.
FaultyComplete(o) ==
  /\ \A f \in recFiles[o] : node[f] = Generated[o][f]
  /\ \A d \in EmptyDirs : node[d] = Directory

-----------------------------------------------------------------------------
(* The target, and how a running operation moves.                          *)

Position(p) == CHOOSE i \in DOMAIN Order : Order[i] = p
First(S) == CHOOSE p \in S : \A q \in S : Position(p) <= Position(q)
\* Deepest directory first.  Directories of one depth may go in any order: none of
\* them lies in another.
Last(S) == CHOOSE p \in S : \A q \in S : Position(q) <= Position(p)

IsDirectory(d) == d \in Dirs => node[d] = Directory
Holds(d) == (\E p \in Paths : Parent[p] = d /\ node[p] # Absent)
              \/ (d \in ReceiptPath /\ receipt # {})

Create(p, c) ==
  /\ node' = [node EXCEPT ![p] = c]
  /\ own' = [own EXCEPT ![runner] = @ \cup {p}]
  /\ taken' = [taken EXCEPT ![runner] = @ \ {p}]

Remove(p) ==
  /\ node' = [node EXCEPT ![p] = Absent]
  /\ own' = [o \in Ops |-> own[o] \ {p}]
  /\ UNCHANGED taken

Return(how) ==
  /\ runner' = NoOp
  /\ pc' = "idle"
  /\ next' = 1
  /\ dirs' = {} /\ files' = {}
  /\ broken' = FALSE
  /\ outcome' = [outcome EXCEPT ![runner] = how]

Goto(label) == pc' = label /\ UNCHANGED <<runner, outcome>>

\* rollback_or_recovery with what InstallState holds.
RollBack(obstacle) ==
  /\ Goto("undo")
  /\ broken' = obstacle
  /\ UNCHANGED <<next, dirs, files>>

Fault ==
  /\ faults < MaxFaults
  /\ faults + edits < MaxTrouble
  /\ faults' = faults + 1
  /\ UNCHANGED edits
NoFault == UNCHANGED <<edits, faults>>

\* The bytes are exactly those this operation would install.
Matches(f) == node[f] = Generated[runner][f]

Complete(o) ==
  /\ \A f \in Files : node[f] = Generated[o][f]
  /\ \A d \in EmptyDirs : node[d] = Directory

Snapshot == [node |-> node, staged |-> staged, foreign |-> foreign, receipt |-> receipt]

\* Every reviewed entry is still there; one of them is not what it was.
StillThere(o) ==
  /\ \A p \in Paths : observed[o].node[p] # Absent => node[p] # Absent
  /\ observed[o].staged \subseteq staged
  /\ observed[o].foreign \subseteq foreign
  /\ observed[o].receipt \subseteq receipt
Changed(o) ==
  \E p \in Paths : observed[o].node[p] # Absent /\ node[p] \notin {Absent, observed[o].node[p]}

\* A recovery that insists on finding the stage.
FaultyRecoverStage ==
  /\ pc = "recoverStage"
  /\ \/ /\ runner \notin staged \ foreign
        /\ Return("needs_recovery")
        /\ UNCHANGED staged
     \/ /\ runner \in staged \ foreign
        /\ staged' = staged \ {runner}
        /\ Goto("recoverFiles")
        /\ UNCHANGED work
  /\ UNCHANGED <<node, foreign, receipt, store, own, taken>>
  /\ NoFault

\* A directory known to the rollback alone.
FaultyNoteDir ==
  /\ pc = "noteDir"
  /\ next' = next + 1
  /\ Goto("dirs")
  /\ UNCHANGED <<target, store, dirs, files, broken, own, taken>>
  /\ NoFault

-----------------------------------------------------------------------------
(* Planning: no lock is taken, so another adoption may be under way between *)
(* the collision check and the snapshot.                                    *)

Collides == \E p \in Owned : node[p] # Absent

CheckTarget(o) ==
  /\ observed[o] = NoPlan
  /\ o \notin planning
  /\ \/ /\ ~Collides
        /\ planning' = planning \cup {o}
        /\ UNCHANGED outcome
     \/ /\ Collides
        /\ outcome' = [outcome EXCEPT ![o] = "unsafe_path"]
        /\ UNCHANGED planning
  /\ UNCHANGED <<target, observed, progress, result, registered, runner, pc, work,
                 own, taken, edits, faults>>

SavePlan(o) ==
  /\ o \in planning
  /\ planning' = planning \ {o}
  /\ observed' = [observed EXCEPT ![o] = Snapshot]
  /\ UNCHANGED <<target, progress, result, registered, proc, own, taken, edits, faults>>

-----------------------------------------------------------------------------
(* Taking up an operation.  A caller waits for the lock.                    *)

Replay(o) ==
  /\ pc = "idle"
  /\ o \in result
  /\ outcome' = [outcome EXCEPT ![o] = "adopted"]
  /\ UNCHANGED <<target, store, runner, pc, work, own, taken, edits, faults>>

Start(o) ==
  /\ pc = "idle"
  /\ observed[o] # NoPlan
  /\ o \notin result
  /\ runner' = o
  /\ outcome' = [outcome EXCEPT ![o] = "running"]
  /\ LET recover == o \notin receipt /\ o \in recorded /\ ~Complete(o)
     IN  /\ pc' = IF o \in receipt THEN "result"
                  ELSE IF recover THEN "recoverStage"
                  ELSE IF o \in recorded THEN "verify"
                  ELSE "review"
         /\ dirs' = IF recover THEN recDirs[o] ELSE {}
         /\ files' = IF recover THEN recFiles[o] ELSE {}
  /\ UNCHANGED <<target, store, next, broken, own, taken, edits, faults>>

-----------------------------------------------------------------------------
(* recover_interrupted_apply: remove what progress names.                   *)

RecoverStage ==
  /\ pc = "recoverStage"
  /\ \/ /\ runner \in foreign
        /\ Return("needs_recovery")
        /\ UNCHANGED staged
     \/ /\ runner \notin foreign
        /\ staged' = staged \ {runner}
        /\ Goto("recoverFiles")
        /\ UNCHANGED work
  /\ UNCHANGED <<node, foreign, receipt, store, own, taken>>
  /\ NoFault

\* Files in the order they were installed; the first changed one ends the retry.
RecoverFile ==
  /\ pc = "recoverFiles"
  /\ files # {}
  /\ LET f == First(files) IN
     /\ \/ /\ node[f] = Absent
           /\ UNCHANGED <<node, own, taken>>
        \/ /\ Matches(f)
           /\ Remove(f)
     /\ files' = files \ {f}
  /\ Goto("recoverFiles")
  /\ UNCHANGED <<staged, foreign, receipt, store, next, dirs, broken>>
  /\ NoFault

RecoverFileRefused ==
  /\ pc = "recoverFiles"
  /\ files # {}
  /\ node[First(files)] # Absent
  /\ ~Matches(First(files))
  /\ Return("needs_recovery")
  /\ UNCHANGED <<target, store, own, taken>>
  /\ NoFault

FilesRecovered ==
  /\ pc = "recoverFiles"
  /\ files = {}
  /\ Goto("recoverDirs")
  /\ UNCHANGED <<target, store, work, own, taken>>
  /\ NoFault

Reviewed(d) == observed[runner].node[d] = Directory

\* A directory of the reviewed target stays, whatever progress says.
RecoverDir ==
  /\ pc = "recoverDirs"
  /\ dirs # {}
  /\ LET d == Last(dirs) IN
     /\ \/ /\ Reviewed(d) \/ node[d] = Absent
           /\ UNCHANGED <<node, own, taken>>
        \/ /\ ~Reviewed(d)
           /\ node[d] = Directory
           /\ ~Holds(d)
           /\ Remove(d)
     /\ dirs' = dirs \ {d}
  /\ Goto("recoverDirs")
  /\ UNCHANGED <<staged, foreign, receipt, store, next, files, broken>>
  /\ NoFault

RecoverDirRefused ==
  /\ pc = "recoverDirs"
  /\ dirs # {}
  /\ LET d == Last(dirs) IN
     /\ ~Reviewed(d)
     /\ node[d] # Absent
     /\ node[d] = Directory => Holds(d)
  /\ Return("needs_recovery")
  /\ UNCHANGED <<target, store, own, taken>>
  /\ NoFault

ForgetProgress(o) ==
  /\ recorded' = recorded \ {o}
  /\ recDirs' = [recDirs EXCEPT ![o] = {}]
  /\ recFiles' = [recFiles EXCEPT ![o] = {}]

Recovered ==
  /\ pc = "recoverDirs"
  /\ dirs = {}
  /\ ForgetProgress(runner)
  /\ Goto("review")
  /\ UNCHANGED <<target, planning, observed, result, registered, work, own, taken>>
  /\ NoFault

-----------------------------------------------------------------------------
(* Review and stage.                                                        *)

\* An empty progress file announces the installation before the target changes.
Review ==
  /\ pc = "review"
  /\ Snapshot = observed[runner]
  /\ recorded' = recorded \cup {runner}
  /\ Goto("stage")
  /\ UNCHANGED <<target, planning, observed, recDirs, recFiles, result, registered,
                 work, own, taken>>
  /\ NoFault

ReviewRefused ==
  /\ pc = "review"
  /\ Snapshot # observed[runner]
  /\ Return("stale")
  /\ UNCHANGED <<target, store, own, taken>>
  /\ NoFault

MakeStage ==
  /\ pc = "stage"
  /\ staged' = staged \cup {runner}
  /\ Goto("populate")
  /\ UNCHANGED <<node, foreign, receipt, store, work, own, taken>>
  /\ NoFault

Populate ==
  /\ pc = "populate"
  /\ Goto("dirs")
  /\ UNCHANGED <<target, store, work, own, taken>>
  /\ NoFault

\* The stage goes, if it is all the plan's; whether it went nobody learns.
PopulateFails ==
  /\ pc = "populate"
  /\ staged' = IF runner \in foreign THEN staged ELSE staged \ {runner}
  /\ Return("failed")
  /\ UNCHANGED <<node, foreign, receipt, store, own, taken>>
  /\ Fault

-----------------------------------------------------------------------------
(* install_generated.                                                       *)

Current == Order[next]
Proceed == next' = next + 1

\* A directory is created first and noted second.
MakeDir ==
  /\ pc = "dirs"
  /\ Current \in Dirs
  /\ \/ /\ node[Current] = Absent
        /\ IsDirectory(Parent[Current])
        /\ Create(Current, Directory)
        /\ dirs' = dirs \cup {Current}
        /\ Goto("noteDir")
        /\ UNCHANGED next
     \/ /\ node[Current] = Directory
        /\ Proceed
        /\ Goto("dirs")
        /\ UNCHANGED <<node, own, taken, dirs>>
  /\ UNCHANGED <<staged, foreign, receipt, store, files, broken>>
  /\ NoFault

DirRefused ==
  /\ pc = "dirs"
  /\ Current \in Dirs
  /\ node[Current] # Directory
  /\ node[Current] = Absent => ~IsDirectory(Parent[Current])
  /\ RollBack(node[Current] # Absent)
  /\ UNCHANGED <<target, store, own, taken>>
  /\ NoFault

NoteDir ==
  /\ pc = "noteDir"
  /\ recDirs' = [recDirs EXCEPT ![runner] = @ \cup {Current}]
  /\ Proceed
  /\ Goto("dirs")
  /\ UNCHANGED <<target, planning, observed, recorded, recFiles, result, registered,
                 dirs, files, broken, own, taken>>
  /\ NoFault

\* A file is noted first and linked second.
RecordFile ==
  /\ pc \in {"dirs", "record"}
  /\ Current \in Files
  /\ recFiles' = [recFiles EXCEPT ![runner] = @ \cup {Current}]
  /\ Goto("link")
  /\ UNCHANGED <<target, planning, observed, recorded, recDirs, result, registered,
                 work, own, taken>>
  /\ NoFault

\* A hard link never replaces anything.
LinkFile ==
  /\ pc = "link"
  /\ node[Current] = Absent
  /\ IsDirectory(Parent[Current])
  /\ Create(Current, Generated[runner][Current])
  /\ Goto("unstage")
  /\ UNCHANGED <<staged, foreign, receipt, store, work>>
  /\ NoFault

LinkRefused ==
  /\ pc = "link"
  /\ node[Current] # Absent \/ ~IsDirectory(Parent[Current])
  /\ RollBack(FALSE)
  /\ UNCHANGED <<target, store, own, taken>>
  /\ NoFault

\* Only after its staged twin is gone is the file known to a rollback.
UnstageFile ==
  /\ pc = "unstage"
  /\ files' = files \cup {Current}
  /\ Goto("tracked")
  /\ UNCHANGED <<target, store, next, dirs, broken, own, taken>>
  /\ NoFault

\* The progress event is recorded.
FileTracked ==
  /\ pc = "tracked"
  /\ Proceed
  /\ Goto(IF next = Len(Order) THEN "dropStage" ELSE "record")
  /\ UNCHANGED <<target, store, dirs, files, broken, own, taken>>
  /\ NoFault

DropStage ==
  /\ pc = "dropStage"
  /\ \/ /\ runner \in foreign
        /\ RollBack(FALSE)
        /\ UNCHANGED staged
     \/ /\ runner \notin foreign
        /\ staged' = staged \ {runner}
        /\ Goto("check")
        /\ UNCHANGED work
  /\ UNCHANGED <<node, foreign, receipt, store, own, taken>>
  /\ NoFault

-----------------------------------------------------------------------------
(* rollback_or_recovery: every obstacle is passed over and remembered, and  *)
(* progress stays.                                                          *)

UndoFile ==
  /\ pc = "undo"
  /\ files # {}
  /\ LET f == Last(files) IN
     /\ \/ Matches(f) /\ Remove(f) /\ UNCHANGED broken
        \/ ~Matches(f) /\ broken' = TRUE /\ UNCHANGED <<node, own, taken>>
     /\ files' = files \ {f}
  /\ Goto("undo")
  /\ UNCHANGED <<staged, foreign, receipt, store, next, dirs>>
  /\ NoFault

UndoDir ==
  /\ pc = "undo"
  /\ files = {}
  /\ dirs # {}
  /\ LET d == Last(dirs) IN
     /\ \/ node[d] = Directory /\ ~Holds(d) /\ Remove(d) /\ UNCHANGED broken
        \/ node[d] = Absent /\ UNCHANGED <<broken, node, own, taken>>
        \/ /\ node[d] # Absent
           /\ node[d] = Directory => Holds(d)
           /\ broken' = TRUE
           /\ UNCHANGED <<node, own, taken>>
     /\ dirs' = dirs \ {d}
  /\ Goto("undo")
  /\ UNCHANGED <<staged, foreign, receipt, store, next, files>>
  /\ NoFault

\* An entry that cannot be removed is passed over.
UndoFails ==
  /\ pc = "undo"
  /\ \/ /\ files # {}
        /\ files' = files \ {Last(files)}
        /\ UNCHANGED dirs
     \/ /\ files = {}
        /\ dirs # {}
        /\ dirs' = dirs \ {Last(dirs)}
        /\ UNCHANGED files
  /\ broken' = TRUE
  /\ Goto("undo")
  /\ UNCHANGED <<target, store, next, own, taken>>
  /\ Fault

UndoStage ==
  /\ pc = "undo"
  /\ files = {} /\ dirs = {}
  /\ staged' = IF runner \in foreign THEN staged ELSE staged \ {runner}
  /\ Return(IF broken \/ runner \in foreign THEN "needs_recovery" ELSE "failed")
  /\ UNCHANGED <<node, foreign, receipt, store, own, taken>>
  /\ NoFault

-----------------------------------------------------------------------------
(* Final verification and finish_adoption.  A refusal here undoes nothing.  *)

CheckComplete ==
  /\ pc = "check"
  /\ \/ /\ Complete(runner)
        /\ Goto("verify")
        /\ UNCHANGED work
     \/ /\ ~Complete(runner)
        /\ Return("needs_recovery")
  /\ UNCHANGED <<target, store, own, taken>>
  /\ NoFault

Verify ==
  /\ pc = "verify"
  /\ StillThere(runner)
  /\ ~Changed(runner)
  /\ Goto("register")
  /\ UNCHANGED <<target, store, work, own, taken>>
  /\ NoFault

\* The first entry that differs decides which error it is.
VerifyRefused ==
  /\ pc = "verify"
  /\ \/ ~StillThere(runner) /\ Return("failed")
     \/ Changed(runner) /\ Return("stale")
  /\ UNCHANGED <<target, store, own, taken>>
  /\ NoFault

\* A registration that fails is a warning in the result.
Register ==
  /\ pc = "register"
  /\ \/ registered' = TRUE /\ NoFault
     \/ UNCHANGED registered /\ Fault
  /\ Goto("receipt")
  /\ UNCHANGED <<target, planning, observed, progress, result, work, own, taken>>

WriteReceipt ==
  /\ pc = "receipt"
  /\ node' = [p \in Paths |->
       IF p \in ReceiptPath /\ node[p] = Absent THEN Directory ELSE node[p]]
  /\ receipt' = receipt \cup {runner}
  /\ Goto("result")
  /\ UNCHANGED <<staged, foreign, store, work, own, taken>>
  /\ NoFault

WriteResult ==
  /\ pc = "result"
  /\ result' = result \cup {runner}
  /\ Goto("forget")
  /\ UNCHANGED <<target, planning, observed, progress, registered, work, own, taken>>
  /\ NoFault

Forget ==
  /\ pc = "forget"
  /\ ForgetProgress(runner)
  /\ Return("adopted")
  /\ UNCHANGED <<target, planning, observed, result, registered, own, taken>>
  /\ NoFault

-----------------------------------------------------------------------------
(* Failures and other writers.                                              *)

\* An IO error where the code returns at once ...
StepFails ==
  /\ pc \in (Recovering \cup Finishing \cup {"review", "stage"}) \ {"register"}
  /\ Return("failed")
  /\ UNCHANGED <<target, store, own, taken>>
  /\ Fault

\* ... and where it rolls back.
InstallFails ==
  /\ pc \in Installing
  /\ RollBack(FALSE)
  /\ UNCHANGED <<target, store, own, taken>>
  /\ Fault

\* A death while a staged file is written may leave its temporary file.
Crash ==
  /\ runner # NoOp
  /\ Return("crashed")
  /\ \/ UNCHANGED foreign
     \/ pc = "populate" /\ foreign' = foreign \cup {runner}
  /\ UNCHANGED <<node, staged, receipt, store, own, taken>>
  /\ Fault

OthersStep == faults + edits < MaxTrouble /\ edits' = edits + 1 /\ UNCHANGED faults

Edit(p, c) ==
  /\ OthersStep
  /\ node[p] # c
  /\ IsDirectory(Parent[p])
  /\ node[p] = Directory => ~Holds(p)
  /\ node' = [node EXCEPT ![p] = c]
  /\ own' = [o \in Ops |-> own[o] \ {p}]
  /\ taken' = [o \in Ops |-> taken[o] \cup {p}]
  /\ UNCHANGED <<staged, foreign, receipt, store, proc>>

\* A synchroniser or a desktop leaves a file in the stage.
Clutter(o) ==
  /\ OthersStep
  /\ o \in staged
  /\ o \notin foreign
  /\ foreign' = foreign \cup {o}
  /\ UNCHANGED <<node, staged, receipt, store, proc, own, taken>>

Step ==
  \/ RecoverStage \/ RecoverFile \/ RecoverFileRefused \/ FilesRecovered
  \/ RecoverDir \/ RecoverDirRefused \/ Recovered
  \/ Review \/ ReviewRefused \/ MakeStage \/ Populate
  \/ MakeDir \/ DirRefused \/ NoteDir \/ RecordFile \/ LinkFile \/ LinkRefused
  \/ UnstageFile \/ FileTracked \/ DropStage
  \/ UndoFile \/ UndoDir \/ UndoStage
  \/ CheckComplete \/ Verify \/ VerifyRefused
  \/ Register \/ WriteReceipt \/ WriteResult \/ Forget

Next ==
  \/ \E o \in Ops : CheckTarget(o) \/ SavePlan(o) \/ Replay(o) \/ Start(o)
  \/ Step
  \/ PopulateFails \/ UndoFails \/ StepFails \/ InstallFails \/ Crash
  \/ \E p \in Paths : \E c \in EditTo[p] : Edit(p, c)
  \/ \E o \in Ops : Clutter(o)

Spec == Init /\ [][Next]_vars

\* A running call goes on.  An unfinished adoption is called again, and its caller,
\* who waits for the lock, gets it now and then although others take it too.
Fairness ==
  /\ WF_vars(Step)
  /\ \A o \in Ops : SF_vars(Start(o))

FairSpec == Spec /\ Fairness

-----------------------------------------------------------------------------
\* What a call takes away, it may take away: a file whose bytes are those its plan
\* generates, or an empty directory that its plan had not seen, that it made, or that
\* others made again in the place of one that it made and holds for undoing (it cannot
\* tell them apart); and what it adds it adds where nothing was.  So no directory of the
\* reviewed notes goes that the call did not find missing.  Notes change by the hand of
\* others only.
OnlyGeneratedIsTaken ==
  [][edits' = edits =>
       \A p \in Paths : node'[p] # node[p] =>
         \/ /\ node[p] = Absent
            /\ p \in Dirs \cup Files
         \/ /\ node'[p] = Absent
            /\ runner # NoOp
            /\ p \in Files => node[p] = Generated[runner][p]
            /\ p \in Dirs =>
                 /\ ~Holds(p)
                 /\ \/ observed[runner].node[p] # Directory
                    \/ p \in own[runner] \cup (taken[runner] \cap dirs)]_vars

\* Whatever an unfinished adoption has left in the target, its progress names, so
\* that a retry finds it: all but one directory, created when the process died or
\* the note failed.
Loose(o) == own[o] \ (recFiles[o] \cup recDirs[o] \cup
              {d \in Dirs : observed[o] # NoPlan /\ observed[o].node[d] = Directory})
ResidueIsRecorded ==
  \A o \in Ops \ (receipt \cup result) :
    /\ Loose(o) \cap Files = {}
    /\ Cardinality(Loose(o)) <= 1

\* A completed adoption has its whole framework, less what others changed.  Another
\* adoption may take what is not its own only where both generate the same bytes: it
\* then finds the file under a path that its progress names (see below).
Contested(o, f) ==
  \E p \in Ops \ {o} : /\ Generated[p][f] = Generated[o][f]
                       /\ outcome[p] \notin {"none", "unsafe_path"}
AdoptedIsWhole ==
  \A o \in receipt \cup result : \A f \in Files :
    f \in own[o] \cup taken[o] \/ Contested(o, f)

\* An adoption that was interrupted is completed by calling it again, unless
\* somebody else worked in the target (another adoption that completed, or that was
\* reviewed while the first one's stage lay there, included), or a process died in
\* one of the two windows that leave something nobody owns.
Stranded == \E o \in Ops : o \in foreign \/ (o # runner /\ Loose(o) # {} /\ o \notin receipt)
Disturbed(o) ==
  \/ edits > 0
  \/ \E p \in Ops \ {o} : p \in receipt
  \/ \E p \in Ops : observed[p] # NoPlan /\ observed[p].staged # {}
InterruptedAdoptionsComplete ==
  \A o \in Ops : o \in recorded ~> (o \in result \/ Stranded \/ Disturbed(o))
=============================================================================
