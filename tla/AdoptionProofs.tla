--------------------------- MODULE AdoptionProofs ---------------------------
(***************************************************************************)
(* What holds of the adoption of a directory for every set of operations,  *)
(* directories and files, every order of installation, and any number of   *)
(* faults and edits.                                                       *)
(*                                                                         *)
(* The inductive invariant IInv says, of the operation that runs, how its  *)
(* journal (recFiles, recDirs) and what it holds in memory (files, dirs)   *)
(* cover what it has made (own).  While it installs, one directory may be  *)
(* made and not yet noted; a recovery begins with everything recorded and  *)
(* drops a path once it is gone or no longer the operation's.  Between     *)
(* calls that leaves the one directory of ResidueIsRecorded.               *)
(*                                                                         *)
(* One theorem is about a target that held no generated file before, and   *)
(* names it: FreshTarget, for what a completed adoption contains.          *)
(***************************************************************************)
EXTENDS Adoption, FiniteSetTheorems, WellFoundedInduction, TLAPS

\* Where no file of the call is in place, and where one is being put.
Undone == {"idle", "review", "stage", "populate"} \cup Recovering
Placing == {"dirs", "noteDir", "record", "link", "unstage", "tracked"}

\* Where a call has got to in the order of installation, and what it works on there.
Located ==
  /\ DOMAIN observed = Ops
  /\ \A o \in planning : observed[o] = NoPlan
  /\ \A o \in Ops : observed[o] = NoPlan => outcome[o] \in {"none", "unsafe_path"} /\ o \notin result
  /\ pc \in Undone => next = 1
  /\ pc \in Placing => next <= Len(Order)
  /\ pc = "noteDir" => Current \in Dirs
  /\ pc = "populate" => runner \in staged
  /\ pc \in {"recoverDirs", "review", "stage", "populate"} => files = {}
  /\ pc \in {"review", "stage", "populate"} => dirs = {}
  /\ pc \in {"link", "unstage", "tracked"} => Current \in Files
  /\ runner # NoOp => observed[runner] # NoPlan /\ outcome[runner] = "running"

Typed == TypeOK /\ Located

\* What an operation owns is as it made it, and it has run.
Intact ==
  \A o \in Ops :
    /\ \A p \in own[o] : p \in Dirs \cup Files /\ node[p] = (IF p \in Dirs THEN Directory ELSE Generated[o][p])
    /\ observed[o] = NoPlan \/ outcome[o] \in {"none", "unsafe_path"} => own[o] = {}

\* Every file of the framework is an operation's own, or others had a hand in it, or
\* another operation generates the same.
Whole(o) == \A f \in Files : f \in own[o] \cup taken[o] \/ Contested(o, f)

\* Where a call installs or undoes, the directories it holds are its own, or others
\* have changed them.
DirsMine == pc \in Installing \cup {"undo"} => dirs \subseteq own[runner] \cup taken[runner]

\* The directories the plan of an operation was reviewed with.
SeenDirs(o) == {d \in Dirs : observed[o] # NoPlan /\ observed[o].node[d] = Directory}

\* The files an unfinished operation owns are recorded, and all directories but one.
Recorded ==
  \A o \in Ops \ (receipt \cup result) :
    /\ own[o] \cap Files \subseteq recFiles[o]
    /\ \E d \in Paths : Loose(o) \subseteq {d}

\* A call runs on until its receipt and its result are both written.
Unfinished ==
  /\ runner # NoOp /\ pc \notin {"result", "forget"} => runner \notin receipt \cup result
  /\ pc = "result" => runner \in receipt
  /\ pc = "forget" => runner \in result

\* A recovery has everything before it that it has not yet removed.
Recovers ==
  /\ pc = "recoverStage" => files = recFiles[runner] /\ dirs = recDirs[runner]
  /\ pc \in Recovering => own[runner] \cap Files \subseteq files
  /\ pc \in Recovering => own[runner] \cap recDirs[runner] \subseteq dirs \cup SeenDirs(runner)

\* An installation leaves nothing out but the directory it has just made.
Follows ==
  /\ pc \in (Installing \ {"noteDir"}) \cup {"stage", "populate"} => Loose(runner) = {}
  /\ pc = "noteDir" => Loose(runner) \subseteq {Current}
  /\ pc = "link" => Current \in recFiles[runner]

\* A generated file that exists is some operation's own, or others had a hand in it.
Provenance ==
  \A f \in Files : node[f] # Absent =>
    (\A o \in Ops : f \in taken[o]) \/ \E q \in Ops : f \in own[q]

\* From the last check on
CheckedIsWhole ==
  pc \in {"verify", "register", "receipt"} => Whole(runner)

\* What OnlyGeneratedIsTaken says of a step.
Takes ==
  edits' = edits =>
    \A p \in Paths : node'[p] # node[p] =>
      \/ /\ node[p] = Absent
         /\ p \in Dirs \cup Files
      \/ /\ node'[p] = Absent
         /\ runner # NoOp
         /\ p \in Files => node[p] = Generated[runner][p]
         /\ p \in Dirs =>
              /\ ~Holds(p)
              /\ \/ observed[runner].node[p] # Directory
                 \/ p \in own[runner] \cup (taken[runner] \cap dirs)

\* The target has no generated file in the beginning.
FreshTarget == \A f \in Files : InitialNode[f] = Absent

-----------------------------------------------------------------------------
(* The order of installation                                               *)

\* A set of natural numbers that is not empty has a smallest one.
LEMMA SmallestNumber ==
  ASSUME NEW T \in SUBSET Nat, T # {}
  PROVE  \E x \in T : \A y \in T : x <= y
<1>1. OpToRel(<, Nat) = {ss \in Nat \X Nat : ss[1] < ss[2]}
  BY DEF OpToRel
<1>2. \E x \in T : \A y \in T : ~(<<y, x>> \in OpToRel(<, Nat))
  BY NatLessThanWellFounded, WFMin
<1>3. PICK x \in T : \A y \in T : ~(<<y, x>> \in {ss \in Nat \X Nat : ss[1] < ss[2]})
  BY <1>1, <1>2
<1>4. ASSUME NEW y \in T PROVE x <= y
  <2>1. <<y, x>> \in Nat \X Nat /\ <<y, x>>[1] = y /\ <<y, x>>[2] = x
    OBVIOUS
  <2> QED
    BY <1>3, <2>1
<1> QED
  BY <1>4

\* The framework has a file, and no directory comes after the last position.
LEMMA OrderTyped ==
  /\ Len(Order) \in Nat /\ Len(Order) >= 1
  /\ \A i \in 1..Len(Order) : Order[i] \in Dirs \cup Files
  /\ \A i \in 1..Len(Order) : Order[i] \in Dirs => i + 1 <= Len(Order)
<1>1. Order \in Seq(Dirs \cup Files)
  BY AdoptionAssumption
<1>2. PICK f \in Files : TRUE
  BY AdoptionAssumption
<1>3. PICK j \in DOMAIN Order : Order[j] = f
  BY AdoptionAssumption
<1>4. Len(Order) \in Nat /\ DOMAIN Order = 1..Len(Order)
  BY <1>1
<1>5. ASSUME NEW i \in 1..Len(Order), Order[i] \in Dirs PROVE i + 1 <= Len(Order)
  <2>1. ~(j < i)
    BY <1>3, <1>4, <1>5, AdoptionAssumption
  <2>2. i # j
    BY <1>3, <1>5, AdoptionAssumption
  <2> QED
    BY <1>3, <1>4, <2>1, <2>2
<1> QED
  BY <1>1, <1>3, <1>4, <1>5

\* What the constants are, apart from the order.
LEMMA ConstantsTyped ==
  /\ NoOp \notin Ops /\ Absent # Directory /\ Absent \notin Contents /\ Directory \notin Contents
  /\ Generated \in [Ops -> [Files -> Contents]]
  /\ InitialNode \in [Paths -> Nodes]
  /\ EditTo \in [Paths -> SUBSET Nodes]
  /\ ReceiptPath \subseteq Dirs /\ Dirs \cap Files = {}
BY AdoptionAssumption

\* Every path of the framework has a position.
LEMMA PositionTyped == \A p \in Dirs \cup Files : Position(p) \in 1..Len(Order)
BY AdoptionAssumption DEF Position

\* The first and the last of some paths are among them.
LEMMA FirstAndLast ==
  \A S \in SUBSET (Dirs \cup Files) : S # {} => First(S) \in S /\ Last(S) \in S
<1> SUFFICES ASSUME NEW S \in SUBSET (Dirs \cup Files), S # {}
    PROVE  First(S) \in S /\ Last(S) \in S
  OBVIOUS
<1>1. \E p \in S : \A q \in S : Position(p) <= Position(q)
  <2> DEFINE T == {Position(p) : p \in S}
  <2>1. T \in SUBSET Nat /\ T # {}
    BY PositionTyped, OrderTyped
  <2>2. PICK x \in T : \A y \in T : x <= y
    BY <2>1, SmallestNumber
  <2> QED
    BY <2>2
<1>2. \E p \in S : \A q \in S : Position(q) <= Position(p)
  <2> DEFINE T == {Len(Order) - Position(p) : p \in S}
  <2>1. T \in SUBSET Nat /\ T # {}
    BY PositionTyped, OrderTyped
  <2>2. PICK x \in T : \A y \in T : x <= y
    BY <2>1, SmallestNumber
  <2>3. PICK p \in S : x = Len(Order) - Position(p)
    BY <2>2
  <2>4. ASSUME NEW q \in S PROVE Position(q) <= Position(p)
    <3>1. Position(p) \in Nat /\ Position(q) \in Nat /\ Len(Order) \in Nat
      BY PositionTyped, OrderTyped
    <3>2. Len(Order) - Position(p) <= Len(Order) - Position(q)
      BY <2>2, <2>3
    <3> QED
      BY <3>1, <3>2
  <2> QED
    BY <2>4
<1> QED
  BY <1>1, <1>2 DEF First, Last

-----------------------------------------------------------------------------
(* Types and places                                                        *)


\* Nothing is under way in the beginning.
LEMMA InitTyped == Init => Typed
<1> SUFFICES ASSUME Init PROVE Typed
  OBVIOUS
<1> USE ConstantsTyped, OrderTyped DEF Init
<1>1. TargetTyped
  BY DEF TargetTyped
<1>2. StoreTyped
  <2>1. registered \in BOOLEAN
    BY Zenon
  <2> QED
    BY <2>1 DEF StoreTyped
<1>3. CallTyped
  <2>1. broken \in BOOLEAN
    BY Zenon
  <2> QED
    BY <2>1 DEF CallTyped, Outcomes
<1>4. HistoryTyped
  BY DEF HistoryTyped
<1>5. Located
  BY DEF Located, Undone, Placing, Recovering
<1> QED
  BY <1>1, <1>2, <1>3, <1>4, <1>5 DEF Typed, TypeOK

\* A call that returns leaves everything in order for the next.
LEMMA Returned ==
  ASSUME CallTyped, runner \in Ops, NEW how \in Outcomes, Return(how)
  PROVE  CallTyped'
<1>1. broken' \in BOOLEAN
  BY Zenon DEF Return
<1>2. Len(Order) \in Nat /\ NoOp \notin Ops
  BY OrderTyped, ConstantsTyped
<1> QED
  BY <1>1, <1>2 DEF Return, CallTyped, Running

\* Every step keeps the types of the target.
LEMMA NextTargetTyped == TypeOK /\ Located /\ [Next]_vars => TargetTyped'
<1> SUFFICES ASSUME TypeOK, Located, [Next]_vars PROVE TargetTyped'
  OBVIOUS
<1> USE ConstantsTyped, FirstAndLast DEF TypeOK, TargetTyped, CallTyped, target, progress,
   store, work, proc, Goto, Return, RollBack, NoFault, Fault, OthersStep
<1>1. ASSUME NEW o \in Ops, CheckTarget(o) PROVE TargetTyped'
  BY <1>1 DEF CheckTarget, Create, Remove, Nodes, Paths
<1>2. ASSUME NEW o \in Ops, SavePlan(o) PROVE TargetTyped'
  BY <1>2 DEF SavePlan, Create, Remove, Nodes, Paths
<1>3. ASSUME NEW o \in Ops, Replay(o) PROVE TargetTyped'
  BY <1>3 DEF Replay, Create, Remove, Nodes, Paths
<1>4. ASSUME NEW o \in Ops, Start(o) PROVE TargetTyped'
  BY <1>4 DEF Start, Create, Remove, Nodes, Paths
<1>5. CASE RecoverFile
  BY <1>5 DEF RecoverFile, Create, Remove, Nodes, Paths
<1>6. CASE RecoverDir
  BY <1>6 DEF RecoverDir, Create, Remove, Nodes, Paths
<1>7. CASE RecoverStage \/ RecoverFileRefused \/ FilesRecovered \/ RecoverDirRefused
           \/ Recovered \/ Review \/ ReviewRefused \/ MakeStage \/ Populate
  BY <1>7 DEF RecoverStage, RecoverFileRefused, FilesRecovered, RecoverDirRefused,
     Recovered, Review, ReviewRefused, MakeStage, Populate, Create, Remove, Nodes, Paths
<1>8. CASE MakeDir
  BY <1>8 DEF MakeDir, Create, Nodes, Paths, Located, Current, Placing
<1>9. CASE LinkFile
  BY <1>9 DEF LinkFile, Create, Nodes, Paths, Located, Current, Placing
<1>10. CASE UndoFile
  BY <1>10 DEF UndoFile, Create, Remove, Nodes, Paths
<1>11. CASE UndoDir
  BY <1>11 DEF UndoDir, Create, Remove, Nodes, Paths
<1>12. CASE PopulateFails \/ DirRefused \/ NoteDir \/ RecordFile \/ LinkRefused
            \/ UnstageFile \/ FileTracked \/ DropStage \/ UndoStage
  BY <1>12 DEF PopulateFails, DirRefused, NoteDir, RecordFile, LinkRefused, UnstageFile,
     FileTracked, DropStage, UndoStage, Create, Remove, Nodes, Paths
<1>13. CASE WriteReceipt
  BY <1>13 DEF WriteReceipt, Create, Remove, Nodes, Paths
<1>14. CASE UndoFails \/ CheckComplete \/ Verify \/ VerifyRefused \/ Register
            \/ WriteResult \/ Forget \/ StepFails \/ InstallFails
  BY <1>14 DEF UndoFails, CheckComplete, Verify, VerifyRefused, Register, WriteResult,
     Forget, StepFails, InstallFails, Create, Remove, Nodes, Paths
<1>15. CASE Crash
  BY <1>15 DEF Crash, Create, Nodes, Paths, Located, Current, Placing
<1>16. CASE UNCHANGED vars
  BY <1>16 DEF vars, Create, Remove, Nodes, Paths
<1>17. ASSUME NEW p \in Paths, NEW c \in EditTo[p], Edit(p, c) PROVE TargetTyped'
  BY <1>17 DEF Edit, Create, Remove, Nodes, Paths
<1>18. ASSUME NEW o \in Ops, Clutter(o) PROVE TargetTyped'
  BY <1>18 DEF Clutter, Create, Remove, Nodes, Paths
<1> QED
  BY <1>1, <1>2, <1>3, <1>4, <1>5, <1>6, <1>7, <1>8, <1>9, <1>10, <1>11, <1>12, <1>13,
     <1>14, <1>15, <1>16, <1>17, <1>18 DEF Next, Step, vars

\* Every step keeps the types of what is stored.
LEMMA NextStoreTyped == TypeOK /\ Located /\ [Next]_vars => StoreTyped'
<1> SUFFICES ASSUME TypeOK, Located, [Next]_vars PROVE StoreTyped'
  OBVIOUS
<1> USE DEF TypeOK, StoreTyped, CallTyped, Located, target, progress, store, work, proc,
   Goto, Return, RollBack, NoFault, Fault, OthersStep
<1>1. ASSUME NEW o \in Ops, CheckTarget(o) PROVE StoreTyped'
  BY OrderTyped, <1>1 DEF CheckTarget, TargetTyped, Snapshot, ForgetProgress, Current,
     Placing
<1>2. ASSUME NEW o \in Ops, SavePlan(o) PROVE StoreTyped'
  BY OrderTyped, <1>2 DEF SavePlan, TargetTyped, Snapshot, ForgetProgress, Current, Placing
<1>3. ASSUME NEW o \in Ops, Replay(o) PROVE StoreTyped'
  BY OrderTyped, <1>3 DEF Replay, TargetTyped, Snapshot, ForgetProgress, Current, Placing
<1>4. ASSUME NEW o \in Ops, Start(o) PROVE StoreTyped'
  BY OrderTyped, <1>4 DEF Start, TargetTyped, Snapshot, ForgetProgress, Current, Placing
<1>5. CASE Recovered
  BY OrderTyped, <1>5 DEF Recovered, TargetTyped, Snapshot, ForgetProgress, Current, Placing
<1>6. CASE RecoverStage \/ RecoverFile \/ RecoverFileRefused \/ FilesRecovered
           \/ RecoverDir \/ RecoverDirRefused \/ Review \/ ReviewRefused \/ MakeStage
  BY OrderTyped, <1>6 DEF RecoverStage, RecoverFile, RecoverFileRefused, FilesRecovered,
     RecoverDir, RecoverDirRefused, Review, ReviewRefused, MakeStage, TargetTyped,
     Snapshot, ForgetProgress, Current, Placing
<1>7. CASE NoteDir
  BY OrderTyped, <1>7 DEF NoteDir, TargetTyped, Snapshot, ForgetProgress, Current, Placing
<1>8. CASE RecordFile
  BY OrderTyped, <1>8 DEF RecordFile, TargetTyped, Snapshot, ForgetProgress, Current,
     Placing
<1>9. CASE Populate \/ PopulateFails \/ MakeDir \/ DirRefused \/ LinkFile \/ LinkRefused
           \/ UnstageFile \/ FileTracked \/ DropStage
  BY OrderTyped, <1>9 DEF Populate, PopulateFails, MakeDir, DirRefused, LinkFile,
     LinkRefused, UnstageFile, FileTracked, DropStage, TargetTyped, Snapshot,
     ForgetProgress, Current, Placing
<1>10. CASE UndoFile \/ UndoDir \/ UndoStage \/ UndoFails \/ CheckComplete \/ Verify
            \/ VerifyRefused \/ Register \/ WriteReceipt
  BY OrderTyped, <1>10 DEF UndoFile, UndoDir, UndoStage, UndoFails, CheckComplete, Verify,
     VerifyRefused, Register, WriteReceipt, TargetTyped, Snapshot, ForgetProgress, Current,
     Placing
<1>11. CASE Forget
  BY OrderTyped, <1>11 DEF Forget, TargetTyped, Snapshot, ForgetProgress, Current, Placing
<1>12. CASE WriteResult \/ StepFails \/ InstallFails \/ Crash \/ UNCHANGED vars
  BY OrderTyped, <1>12 DEF WriteResult, StepFails, InstallFails, Crash, vars, TargetTyped,
     Snapshot, ForgetProgress, Current, Placing
<1>13. ASSUME NEW p \in Paths, NEW c \in EditTo[p], Edit(p, c) PROVE StoreTyped'
  BY OrderTyped, <1>13 DEF Edit, TargetTyped, Snapshot, ForgetProgress, Current, Placing
<1>14. ASSUME NEW o \in Ops, Clutter(o) PROVE StoreTyped'
  BY OrderTyped, <1>14 DEF Clutter, TargetTyped, Snapshot, ForgetProgress, Current, Placing
<1> QED
  BY <1>1, <1>2, <1>3, <1>4, <1>5, <1>6, <1>7, <1>8, <1>9, <1>10, <1>11, <1>12, <1>13,
     <1>14 DEF Next, Step, vars

\* Every step keeps the types of the call.
LEMMA NextCallTyped == TypeOK /\ Located /\ [Next]_vars => CallTyped'
<1> SUFFICES ASSUME TypeOK, Located, [Next]_vars PROVE CallTyped'
  OBVIOUS
<1> USE ConstantsTyped DEF TypeOK, CallTyped, Located, target, progress, store, work, proc,
   Goto, Return, RollBack, NoFault, Fault, OthersStep
<1>1. ASSUME NEW o \in Ops, CheckTarget(o) PROVE CallTyped'
  BY OrderTyped, <1>1 DEF CheckTarget, Undone, Placing, Recovering, Installing, Finishing,
     Running, Outcomes, StoreTyped, Current, Proceed
<1>2. ASSUME NEW o \in Ops, SavePlan(o) PROVE CallTyped'
  BY OrderTyped, <1>2 DEF SavePlan, Undone, Placing, Recovering, Installing, Finishing,
     Running, Outcomes, StoreTyped, Current, Proceed
<1>3. ASSUME NEW o \in Ops, Replay(o) PROVE CallTyped'
  BY OrderTyped, <1>3 DEF Replay, Undone, Placing, Recovering, Installing, Finishing,
     Running, Outcomes, StoreTyped, Current, Proceed
<1>4. ASSUME NEW o \in Ops, Start(o) PROVE CallTyped'
  BY OrderTyped, <1>4 DEF Start, Undone, Placing, Recovering, Installing, Finishing,
     Running, Outcomes, StoreTyped, Current, Proceed
<1>5. CASE RecoverStage
  <2>1. CASE Return("needs_recovery")
    BY <1>5, <2>1, Returned DEF RecoverStage, Outcomes
  <2>2. CASE Goto("recoverFiles") /\ UNCHANGED work
    BY <1>5, <2>2 DEF RecoverStage, Running, Recovering
  <2> QED
    BY <1>5, <2>1, <2>2 DEF RecoverStage
<1>6. CASE RecoverFileRefused
  <2>1. runner \in Ops /\ \E how \in Outcomes : Return(how)
    BY <1>6 DEF RecoverFileRefused, Recovering, Finishing, Outcomes
  <2> QED
    BY <2>1, Returned
<1>7. CASE RecoverDirRefused
  <2>1. runner \in Ops /\ \E how \in Outcomes : Return(how)
    BY <1>7 DEF RecoverDirRefused, Recovering, Finishing, Outcomes
  <2> QED
    BY <2>1, Returned
<1>8. CASE RecoverFile \/ FilesRecovered \/ RecoverDir \/ Recovered \/ Review
  BY OrderTyped, <1>8 DEF RecoverFile, FilesRecovered, RecoverDir, Recovered, Review,
     Undone, Placing, Recovering, Installing, Finishing, Running, Outcomes, StoreTyped,
     Current, Proceed
<1>9. CASE ReviewRefused
  <2>1. runner \in Ops /\ \E how \in Outcomes : Return(how)
    BY <1>9 DEF ReviewRefused, Recovering, Finishing, Outcomes
  <2> QED
    BY <2>1, Returned
<1>10. CASE PopulateFails
  <2>1. runner \in Ops /\ \E how \in Outcomes : Return(how)
    BY <1>10 DEF PopulateFails, Recovering, Finishing, Outcomes
  <2> QED
    BY <2>1, Returned
<1>11. CASE MakeDir
  BY OrderTyped, <1>11 DEF MakeDir, Undone, Placing, Recovering, Installing, Finishing,
     Running, Outcomes, StoreTyped, Current, Proceed
<1>12. CASE NoteDir
  BY OrderTyped, <1>12 DEF NoteDir, Undone, Placing, Recovering, Installing, Finishing,
     Running, Outcomes, StoreTyped, Current, Proceed
<1>13. CASE MakeStage \/ Populate \/ DirRefused \/ RecordFile \/ LinkFile
  BY OrderTyped, <1>13 DEF MakeStage, Populate, DirRefused, RecordFile, LinkFile, Undone,
     Placing, Recovering, Installing, Finishing, Running, Outcomes, StoreTyped, Current,
     Proceed
<1>14. CASE UnstageFile
  BY OrderTyped, <1>14 DEF UnstageFile, Undone, Placing, Recovering, Installing, Finishing,
     Running, Outcomes, StoreTyped, Current, Proceed
<1>15. CASE FileTracked
  BY OrderTyped, <1>15 DEF FileTracked, Undone, Placing, Recovering, Installing, Finishing,
     Running, Outcomes, StoreTyped, Current, Proceed
<1>16. CASE UndoStage
  <2>1. runner \in Ops /\ \E how \in Outcomes : Return(how)
    BY <1>16 DEF UndoStage, Recovering, Finishing, Outcomes
  <2> QED
    BY <2>1, Returned
<1>17. CASE LinkRefused \/ DropStage \/ UndoFile \/ UndoDir \/ UndoFails
  BY OrderTyped, <1>17 DEF LinkRefused, DropStage, UndoFile, UndoDir, UndoFails, Undone,
     Placing, Recovering, Installing, Finishing, Running, Outcomes, StoreTyped, Current,
     Proceed
<1>18. CASE CheckComplete
  <2>1. CASE Return("needs_recovery")
    BY <1>18, <2>1, Returned DEF CheckComplete, Outcomes
  <2>2. CASE Goto("verify") /\ UNCHANGED work
    BY <1>18, <2>2 DEF CheckComplete, Running, Finishing
  <2> QED
    BY <1>18, <2>1, <2>2 DEF CheckComplete
<1>19. CASE VerifyRefused
  <2>1. runner \in Ops /\ \E how \in Outcomes : Return(how)
    BY <1>19 DEF VerifyRefused, Recovering, Finishing, Outcomes
  <2> QED
    BY <2>1, Returned
<1>20. CASE Forget
  <2>1. runner \in Ops /\ \E how \in Outcomes : Return(how)
    BY <1>20 DEF Forget, Recovering, Finishing, Outcomes
  <2> QED
    BY <2>1, Returned
<1>21. CASE StepFails
  <2>1. runner \in Ops /\ \E how \in Outcomes : Return(how)
    BY <1>21 DEF StepFails, Recovering, Finishing, Outcomes
  <2> QED
    BY <2>1, Returned
<1>22. CASE Verify \/ Register \/ WriteReceipt \/ WriteResult \/ InstallFails
  BY OrderTyped, <1>22 DEF Verify, Register, WriteReceipt, WriteResult, InstallFails,
     Undone, Placing, Recovering, Installing, Finishing, Running, Outcomes, StoreTyped,
     Current, Proceed
<1>23. CASE Crash
  <2>1. runner \in Ops /\ \E how \in Outcomes : Return(how)
    BY <1>23 DEF Crash, Recovering, Finishing, Outcomes
  <2> QED
    BY <2>1, Returned
<1>24. CASE UNCHANGED vars
  BY OrderTyped, <1>24 DEF vars, Undone, Placing, Recovering, Installing, Finishing,
     Running, Outcomes, StoreTyped, Current, Proceed
<1>25. ASSUME NEW p \in Paths, NEW c \in EditTo[p], Edit(p, c) PROVE CallTyped'
  BY OrderTyped, <1>25 DEF Edit, Undone, Placing, Recovering, Installing, Finishing,
     Running, Outcomes, StoreTyped, Current, Proceed
<1>26. ASSUME NEW o \in Ops, Clutter(o) PROVE CallTyped'
  BY OrderTyped, <1>26 DEF Clutter, Undone, Placing, Recovering, Installing, Finishing,
     Running, Outcomes, StoreTyped, Current, Proceed
<1> QED
  BY <1>1, <1>2, <1>3, <1>4, <1>5, <1>6, <1>7, <1>8, <1>9, <1>10, <1>11, <1>12, <1>13,
     <1>14, <1>15, <1>16, <1>17, <1>18, <1>19, <1>20, <1>21, <1>22, <1>23, <1>24, <1>25,
     <1>26 DEF Next, Step, vars

\* Every step keeps the types of the histories.
LEMMA NextHistoryTyped == TypeOK /\ Located /\ [Next]_vars => HistoryTyped'
<1> SUFFICES ASSUME TypeOK, Located, [Next]_vars PROVE HistoryTyped'
  OBVIOUS
<1> USE DEF TypeOK, CallTyped, HistoryTyped, target, progress, store, work, proc, Goto,
   Return, RollBack, NoFault, Fault, OthersStep
<1>1. ASSUME NEW o \in Ops, CheckTarget(o) PROVE HistoryTyped'
  BY <1>1 DEF CheckTarget, Create, Remove, Current, Located, Placing, Paths
<1>2. ASSUME NEW o \in Ops, SavePlan(o) PROVE HistoryTyped'
  BY <1>2 DEF SavePlan, Create, Remove, Current, Located, Placing, Paths
<1>3. ASSUME NEW o \in Ops, Replay(o) PROVE HistoryTyped'
  BY <1>3 DEF Replay, Create, Remove, Current, Located, Placing, Paths
<1>4. ASSUME NEW o \in Ops, Start(o) PROVE HistoryTyped'
  BY <1>4 DEF Start, Create, Remove, Current, Located, Placing, Paths
<1>5. CASE RecoverStage \/ RecoverFile \/ RecoverFileRefused \/ FilesRecovered
           \/ RecoverDir \/ RecoverDirRefused \/ Recovered \/ Review \/ ReviewRefused
  BY <1>5 DEF RecoverStage, RecoverFile, RecoverFileRefused, FilesRecovered, RecoverDir,
     RecoverDirRefused, Recovered, Review, ReviewRefused, Create, Remove, Current, Located,
     Placing, Paths
<1>6. CASE MakeDir
  BY <1>6 DEF MakeDir, Create, Remove, Current, Located, Placing, Paths
<1>7. CASE LinkFile
  BY <1>7 DEF LinkFile, Create, Remove, Current, Located, Placing, Paths
<1>8. CASE MakeStage \/ Populate \/ PopulateFails \/ DirRefused \/ NoteDir \/ RecordFile
           \/ LinkRefused \/ UnstageFile \/ FileTracked
  BY <1>8 DEF MakeStage, Populate, PopulateFails, DirRefused, NoteDir, RecordFile,
     LinkRefused, UnstageFile, FileTracked, Create, Remove, Current, Located, Placing, Paths
<1>9. CASE DropStage \/ UndoFile \/ UndoDir \/ UndoStage \/ UndoFails \/ CheckComplete
           \/ Verify \/ VerifyRefused \/ Register
  BY <1>9 DEF DropStage, UndoFile, UndoDir, UndoStage, UndoFails, CheckComplete, Verify,
     VerifyRefused, Register, Create, Remove, Current, Located, Placing, Paths
<1>10. CASE WriteReceipt \/ WriteResult \/ Forget \/ StepFails \/ InstallFails \/ Crash
            \/ UNCHANGED vars
  BY <1>10 DEF WriteReceipt, WriteResult, Forget, StepFails, InstallFails, Crash, vars,
     Create, Remove, Current, Located, Placing, Paths
<1>11. ASSUME NEW p \in Paths, NEW c \in EditTo[p], Edit(p, c) PROVE HistoryTyped'
  BY <1>11 DEF Edit, Create, Remove, Current, Located, Placing, Paths
<1>12. ASSUME NEW o \in Ops, Clutter(o) PROVE HistoryTyped'
  BY <1>12 DEF Clutter, Create, Remove, Current, Located, Placing, Paths
<1> QED
  BY <1>1, <1>2, <1>3, <1>4, <1>5, <1>6, <1>7, <1>8, <1>9, <1>10, <1>11, <1>12 DEF Next,
     Step, vars

\* Every step keeps the place of a call.
LEMMA NextLocated == TypeOK /\ Located /\ [Next]_vars => Located'
<1> SUFFICES ASSUME TypeOK, Located, [Next]_vars PROVE Located'
  OBVIOUS
<1> USE DEF TypeOK, CallTyped, StoreTyped, Located, target, progress, store, work, proc,
   Goto, Return, RollBack, NoFault, Fault, OthersStep
<1>1. ASSUME NEW o \in Ops, CheckTarget(o) PROVE Located'
  BY OrderTyped, <1>1 DEF CheckTarget, Undone, Placing, Recovering, Installing, Finishing,
     Running, Outcomes, Current, Proceed, ForgetProgress
<1>2. ASSUME NEW o \in Ops, SavePlan(o) PROVE Located'
  BY OrderTyped, <1>2 DEF SavePlan, Undone, Placing, Recovering, Installing, Finishing,
     Running, Outcomes, Current, Proceed, ForgetProgress
<1>3. ASSUME NEW o \in Ops, Replay(o) PROVE Located'
  BY OrderTyped, <1>3 DEF Replay, Undone, Placing, Recovering, Installing, Finishing,
     Running, Outcomes, Current, Proceed, ForgetProgress
<1>4. ASSUME NEW o \in Ops, Start(o) PROVE Located'
  BY OrderTyped, <1>4 DEF Start, Undone, Placing, Recovering, Installing, Finishing,
     Running, Outcomes, Current, Proceed, ForgetProgress
<1>5. CASE RecoverStage \/ RecoverFileRefused \/ FilesRecovered \/ RecoverDirRefused
  BY OrderTyped, <1>5 DEF RecoverStage, RecoverFileRefused, FilesRecovered,
     RecoverDirRefused, Undone, Placing, Recovering, Installing, Finishing, Running,
     Outcomes, Current, Proceed, ForgetProgress
<1>6. CASE RecoverFile
  BY OrderTyped, <1>6 DEF RecoverFile, Undone, Placing, Recovering, Installing, Finishing,
     Running, Outcomes, Current, Proceed, ForgetProgress
<1>7. CASE RecoverDir
  BY OrderTyped, <1>7 DEF RecoverDir, Undone, Placing, Recovering, Installing, Finishing,
     Running, Outcomes, Current, Proceed, ForgetProgress
<1>8. CASE Recovered
  BY OrderTyped, <1>8 DEF Recovered, Undone, Placing, Recovering, Installing, Finishing,
     Running, Outcomes, Current, Proceed, ForgetProgress
<1>9. CASE Review \/ ReviewRefused
  BY OrderTyped, <1>9 DEF Review, ReviewRefused, Undone, Placing, Recovering, Installing,
     Finishing, Running, Outcomes, Current, Proceed, ForgetProgress
<1>10. CASE MakeStage \/ Populate \/ PopulateFails
  BY OrderTyped, <1>10 DEF MakeStage, Populate, PopulateFails, Undone, Placing, Recovering,
     Installing, Finishing, Running, Outcomes, Current, Proceed, ForgetProgress
<1>11. CASE MakeDir
  BY OrderTyped, <1>11 DEF MakeDir, Undone, Placing, Recovering, Installing, Finishing,
     Running, Outcomes, Current, Proceed, ForgetProgress
<1>12. CASE DirRefused \/ LinkRefused
  BY OrderTyped, <1>12 DEF DirRefused, LinkRefused, Undone, Placing, Recovering,
     Installing, Finishing, Running, Outcomes, Current, Proceed, ForgetProgress
<1>13. CASE NoteDir
  BY OrderTyped, <1>13 DEF NoteDir, Undone, Placing, Recovering, Installing, Finishing,
     Running, Outcomes, Current, Proceed, ForgetProgress
<1>14. CASE RecordFile
  BY OrderTyped, <1>14 DEF RecordFile, Undone, Placing, Recovering, Installing, Finishing,
     Running, Outcomes, Current, Proceed, ForgetProgress
<1>15. CASE LinkFile
  BY OrderTyped, <1>15 DEF LinkFile, Undone, Placing, Recovering, Installing, Finishing,
     Running, Outcomes, Current, Proceed, ForgetProgress
<1>16. CASE UnstageFile
  BY OrderTyped, <1>16 DEF UnstageFile, Undone, Placing, Recovering, Installing, Finishing,
     Running, Outcomes, Current, Proceed, ForgetProgress
<1>17. CASE FileTracked
  BY OrderTyped, <1>17 DEF FileTracked, Undone, Placing, Recovering, Installing, Finishing,
     Running, Outcomes, Current, Proceed, ForgetProgress
<1>18. CASE DropStage
  BY OrderTyped, <1>18 DEF DropStage, Undone, Placing, Recovering, Installing, Finishing,
     Running, Outcomes, Current, Proceed, ForgetProgress
<1>19. CASE UndoFile
  BY OrderTyped, <1>19 DEF UndoFile, Undone, Placing, Recovering, Installing, Finishing,
     Running, Outcomes, Current, Proceed, ForgetProgress
<1>20. CASE UndoDir
  BY OrderTyped, <1>20 DEF UndoDir, Undone, Placing, Recovering, Installing, Finishing,
     Running, Outcomes, Current, Proceed, ForgetProgress
<1>21. CASE UndoStage
  BY OrderTyped, <1>21 DEF UndoStage, Undone, Placing, Recovering, Installing, Finishing,
     Running, Outcomes, Current, Proceed, ForgetProgress
<1>22. CASE UndoFails
  BY OrderTyped, <1>22 DEF UndoFails, Undone, Placing, Recovering, Installing, Finishing,
     Running, Outcomes, Current, Proceed, ForgetProgress
<1>23. CASE CheckComplete \/ Verify \/ VerifyRefused
  BY OrderTyped, <1>23 DEF CheckComplete, Verify, VerifyRefused, Undone, Placing,
     Recovering, Installing, Finishing, Running, Outcomes, Current, Proceed, ForgetProgress
<1>24. CASE Register
  BY OrderTyped, <1>24 DEF Register, Undone, Placing, Recovering, Installing, Finishing,
     Running, Outcomes, Current, Proceed, ForgetProgress
<1>25. CASE WriteReceipt
  BY OrderTyped, <1>25 DEF WriteReceipt, Undone, Placing, Recovering, Installing,
     Finishing, Running, Outcomes, Current, Proceed, ForgetProgress
<1>26. CASE WriteResult
  BY OrderTyped, <1>26 DEF WriteResult, Undone, Placing, Recovering, Installing, Finishing,
     Running, Outcomes, Current, Proceed, ForgetProgress
<1>27. CASE Forget
  BY OrderTyped, <1>27 DEF Forget, Undone, Placing, Recovering, Installing, Finishing,
     Running, Outcomes, Current, Proceed, ForgetProgress
<1>28. CASE StepFails
  BY OrderTyped, <1>28 DEF StepFails, Undone, Placing, Recovering, Installing, Finishing,
     Running, Outcomes, Current, Proceed, ForgetProgress
<1>29. CASE InstallFails
  BY OrderTyped, <1>29 DEF InstallFails, Undone, Placing, Recovering, Installing,
     Finishing, Running, Outcomes, Current, Proceed, ForgetProgress
<1>30. CASE Crash
  BY OrderTyped, <1>30 DEF Crash, Undone, Placing, Recovering, Installing, Finishing,
     Running, Outcomes, Current, Proceed, ForgetProgress
<1>31. ASSUME NEW p \in Paths, NEW c \in EditTo[p], Edit(p, c) PROVE Located'
  BY OrderTyped, <1>31 DEF Edit, Undone, Placing, Recovering, Installing, Finishing,
     Running, Outcomes, Current, Proceed, ForgetProgress
<1>32. ASSUME NEW o \in Ops, Clutter(o) PROVE Located'
  BY OrderTyped, <1>32 DEF Clutter, Undone, Placing, Recovering, Installing, Finishing,
     Running, Outcomes, Current, Proceed, ForgetProgress
<1>33. CASE UNCHANGED vars
  BY OrderTyped, <1>33 DEF vars, Undone, Placing, Recovering, Installing, Finishing,
     Running, Outcomes, Current, Proceed, ForgetProgress
<1> QED
  BY <1>1, <1>2, <1>3, <1>4, <1>5, <1>6, <1>7, <1>8, <1>9, <1>10, <1>11, <1>12, <1>13,
     <1>14, <1>15, <1>16, <1>17, <1>18, <1>19, <1>20, <1>21, <1>22, <1>23, <1>24, <1>25,
     <1>26, <1>27, <1>28, <1>29, <1>30, <1>31, <1>32, <1>33 DEF Next, Step, vars

\* Every step keeps types and places.
LEMMA NextTyped == Typed /\ [Next]_vars => Typed'
BY NextTargetTyped, NextStoreTyped, NextCallTyped, NextHistoryTyped, NextLocated DEF Typed, TypeOK

\* Types and places hold in every reachable state.
THEOREM AdoptionTyped == Spec => []Typed
<1>1. Init => Typed
  BY InitTyped
<1>2. Typed /\ [Next]_vars => Typed'
  BY NextTyped
<1> QED
  BY <1>1, <1>2, PTL DEF Spec

\* Type correctness.
THEOREM AdoptionTypeCorrect == Spec => []TypeOK
<1>1. Typed => TypeOK
  BY DEF Typed
<1> QED
  BY AdoptionTyped, <1>1, PTL

-----------------------------------------------------------------------------
(* What an operation owns                                                  *)

\* Creating and removing touch one path.
LEMMA CreateEffect ==
  ASSUME Typed, NEW p \in Paths, NEW c, Create(p, c), runner \in Ops
  PROVE  /\ \A q \in Paths : node'[q] = IF q = p THEN c ELSE node[q]
         /\ \A o \in Ops : own'[o] = IF o = runner THEN own[o] \cup {p} ELSE own[o]
         /\ \A o \in Ops : taken'[o] = IF o = runner THEN taken[o] \ {p} ELSE taken[o]
BY DEF Create, Typed, TypeOK, TargetTyped, HistoryTyped

\* Removing ends the ownership of a path and marks nothing as taken.
LEMMA RemoveEffect ==
  ASSUME Typed, NEW p \in Paths, Remove(p)
  PROVE  /\ \A q \in Paths : node'[q] = IF q = p THEN Absent ELSE node[q]
         /\ \A o \in Ops : own'[o] = own[o] \ {p}
         /\ taken' = taken
BY DEF Remove, Typed, TypeOK, TargetTyped

\* Every step keeps intact what an operation owns.
LEMMA NextIntact == Typed /\ Intact /\ [Next]_vars => Intact'
<1> SUFFICES ASSUME Typed, Intact, [Next]_vars PROVE Intact'
  OBVIOUS
<1> USE FirstAndLast, ConstantsTyped DEF Typed, TypeOK, HistoryTyped, TargetTyped,
   CallTyped, Located, Intact, target, progress, store, work, proc, Goto, Return, RollBack,
   NoFault, Fault, OthersStep
<1>1. ASSUME NEW o \in Ops, CheckTarget(o) PROVE Intact'
  BY <1>1 DEF CheckTarget, Create, Remove, Current, Placing, Paths
<1>2. ASSUME NEW o \in Ops, SavePlan(o) PROVE Intact'
  BY <1>2 DEF SavePlan, Create, Remove, Current, Placing, Paths
<1>3. ASSUME NEW o \in Ops, Replay(o) PROVE Intact'
  BY <1>3 DEF Replay, Create, Remove, Current, Placing, Paths
<1>4. ASSUME NEW o \in Ops, Start(o) PROVE Intact'
  BY <1>4 DEF Start, Create, Remove, Current, Placing, Paths
<1>5. CASE RecoverFile
  BY <1>5 DEF RecoverFile, Create, Remove, Current, Placing, Paths
<1>6. CASE RecoverDir
  BY <1>6 DEF RecoverDir, Create, Remove, Current, Placing, Paths
<1>7. CASE RecoverStage \/ RecoverFileRefused \/ FilesRecovered \/ RecoverDirRefused
           \/ Recovered \/ Review
  BY <1>7 DEF RecoverStage, RecoverFileRefused, FilesRecovered, RecoverDirRefused,
     Recovered, Review, Create, Remove, Current, Placing, Paths
<1>8. CASE MakeDir
  <2>1. CASE node' = node /\ own' = own
    BY <1>8, <2>1 DEF MakeDir
  <2>2. CASE node[Current] = Absent /\ Create(Current, Directory)
    <3>1. \A o \in Ops : Current \notin own[o]
      BY <2>2, ConstantsTyped DEF Intact, TypeOK
    <3>2. runner \in Ops /\ Current \in Dirs
      BY <1>8 DEF MakeDir, Typed, TypeOK, CallTyped
    <3>3. \A o \in Ops : \A p \in own'[o] : p \in own[o] \/ (o = runner /\ p = Current)
      BY <2>2 DEF Create, TypeOK, Typed
    <3>4. \A p \in Paths : node'[p] = IF p = Current THEN Directory ELSE node[p]
      BY <2>2 DEF Create, TypeOK, TargetTyped, Typed
    <3>5. UNCHANGED <<observed, outcome>>
      BY <1>8 DEF MakeDir
    <3> QED
      BY <3>1, <3>2, <3>3, <3>4, <3>5 DEF Intact, Paths, Located, Typed, Installing, TypeOK
  <2> QED
    BY <1>8, <2>1, <2>2 DEF MakeDir
<1>9. CASE ReviewRefused \/ MakeStage \/ Populate \/ PopulateFails \/ DirRefused \/ NoteDir
  BY <1>9 DEF ReviewRefused, MakeStage, Populate, PopulateFails, DirRefused, NoteDir,
     Create, Remove, Current, Placing, Paths
<1>10. CASE LinkFile
  BY <1>10 DEF LinkFile, Create, Remove, Current, Placing, Paths
<1>11. CASE UndoFile
  BY <1>11 DEF UndoFile, Create, Remove, Current, Placing, Paths
<1>12. CASE UndoDir
  BY <1>12 DEF UndoDir, Create, Remove, Current, Placing, Paths
<1>13. CASE RecordFile \/ LinkRefused \/ UnstageFile \/ FileTracked \/ DropStage
            \/ UndoStage
  BY <1>13 DEF RecordFile, LinkRefused, UnstageFile, FileTracked, DropStage, UndoStage,
     Create, Remove, Current, Placing, Paths
<1>14. CASE WriteReceipt
  BY <1>14 DEF WriteReceipt, Create, Remove, Current, Placing, Paths
<1>15. CASE UndoFails \/ CheckComplete \/ Verify \/ VerifyRefused \/ Register \/ WriteResult
  BY <1>15 DEF UndoFails, CheckComplete, Verify, VerifyRefused, Register, WriteResult,
     Create, Remove, Current, Placing, Paths
<1>16. CASE Forget \/ StepFails \/ InstallFails \/ Crash \/ UNCHANGED vars
  BY <1>16 DEF Forget, StepFails, InstallFails, Crash, vars, Create, Remove, Current,
     Placing, Paths
<1>17. ASSUME NEW p \in Paths, NEW c \in EditTo[p], Edit(p, c) PROVE Intact'
  BY <1>17 DEF Edit, Create, Remove, Current, Placing, Paths
<1>18. ASSUME NEW o \in Ops, Clutter(o) PROVE Intact'
  BY <1>18 DEF Clutter, Create, Remove, Current, Placing, Paths
<1> QED
  BY <1>1, <1>2, <1>3, <1>4, <1>5, <1>6, <1>7, <1>8, <1>9, <1>10, <1>11, <1>12, <1>13,
     <1>14, <1>15, <1>16, <1>17, <1>18 DEF Next, Step, vars

\* Every step keeps who is not finished.
LEMMA NextUnfinished == Typed /\ Unfinished /\ [Next]_vars => Unfinished'
<1> SUFFICES ASSUME Typed, Unfinished, [Next]_vars PROVE Unfinished'
  OBVIOUS
<1> USE DEF Typed, TypeOK, HistoryTyped, CallTyped, Unfinished, target, progress, store,
   work, proc, Goto, Return, RollBack, NoFault, Fault, OthersStep
<1>1. ASSUME NEW o \in Ops, CheckTarget(o) PROVE Unfinished'
  BY <1>1 DEF CheckTarget, Undone, Placing, Recovering, Installing, Finishing, Running,
     ForgetProgress
<1>2. ASSUME NEW o \in Ops, SavePlan(o) PROVE Unfinished'
  BY <1>2 DEF SavePlan, Undone, Placing, Recovering, Installing, Finishing, Running,
     ForgetProgress
<1>3. ASSUME NEW o \in Ops, Replay(o) PROVE Unfinished'
  BY <1>3 DEF Replay, Undone, Placing, Recovering, Installing, Finishing, Running,
     ForgetProgress
<1>4. ASSUME NEW o \in Ops, Start(o) PROVE Unfinished'
  BY <1>4 DEF Start, Undone, Placing, Recovering, Installing, Finishing, Running,
     ForgetProgress
<1>5. CASE RecoverStage \/ RecoverFile \/ RecoverFileRefused \/ FilesRecovered
           \/ RecoverDir \/ RecoverDirRefused
  BY <1>5 DEF RecoverStage, RecoverFile, RecoverFileRefused, FilesRecovered, RecoverDir,
     RecoverDirRefused, Undone, Placing, Recovering, Installing, Finishing, Running,
     ForgetProgress
<1>6. CASE Recovered \/ Review \/ ReviewRefused \/ MakeStage \/ Populate \/ PopulateFails
  BY <1>6 DEF Recovered, Review, ReviewRefused, MakeStage, Populate, PopulateFails, Undone,
     Placing, Recovering, Installing, Finishing, Running, ForgetProgress
<1>7. CASE MakeDir \/ DirRefused \/ NoteDir \/ RecordFile \/ LinkFile \/ LinkRefused
  BY <1>7 DEF MakeDir, DirRefused, NoteDir, RecordFile, LinkFile, LinkRefused, Undone,
     Placing, Recovering, Installing, Finishing, Running, ForgetProgress
<1>8. CASE UnstageFile \/ FileTracked \/ DropStage \/ UndoFile \/ UndoDir \/ UndoStage
  BY <1>8 DEF UnstageFile, FileTracked, DropStage, UndoFile, UndoDir, UndoStage, Undone,
     Placing, Recovering, Installing, Finishing, Running, ForgetProgress
<1>9. CASE UndoFails \/ CheckComplete \/ Verify \/ VerifyRefused \/ Register \/ WriteReceipt
  BY <1>9 DEF UndoFails, CheckComplete, Verify, VerifyRefused, Register, WriteReceipt,
     Undone, Placing, Recovering, Installing, Finishing, Running, ForgetProgress
<1>10. CASE WriteResult \/ Forget \/ StepFails \/ InstallFails \/ Crash \/ UNCHANGED vars
  BY <1>10 DEF WriteResult, Forget, StepFails, InstallFails, Crash, vars, Undone, Placing,
     Recovering, Installing, Finishing, Running, ForgetProgress
<1>11. ASSUME NEW p \in Paths, NEW c \in EditTo[p], Edit(p, c) PROVE Unfinished'
  BY <1>11 DEF Edit, Undone, Placing, Recovering, Installing, Finishing, Running,
     ForgetProgress
<1>12. ASSUME NEW o \in Ops, Clutter(o) PROVE Unfinished'
  BY <1>12 DEF Clutter, Undone, Placing, Recovering, Installing, Finishing, Running,
     ForgetProgress
<1> QED
  BY <1>1, <1>2, <1>3, <1>4, <1>5, <1>6, <1>7, <1>8, <1>9, <1>10, <1>11, <1>12 DEF Next,
     Step, vars

\* Every step of an installation keeps its directories its own.
LEMMA NextDirsMine == Typed /\ DirsMine /\ [Next]_vars => DirsMine'
<1> SUFFICES ASSUME Typed, DirsMine, [Next]_vars PROVE DirsMine'
  OBVIOUS
<1> USE DEF Typed, TypeOK, HistoryTyped, CallTyped, Located, DirsMine, target, progress,
   store, work, proc, Goto, Return, RollBack, NoFault, Fault, OthersStep
<1>1. ASSUME NEW o \in Ops, CheckTarget(o) PROVE DirsMine'
  BY FirstAndLast, ConstantsTyped, <1>1 DEF CheckTarget, Undone, Placing, Recovering,
     Installing, Finishing, Create, Remove, Current
<1>2. ASSUME NEW o \in Ops, SavePlan(o) PROVE DirsMine'
  BY FirstAndLast, ConstantsTyped, <1>2 DEF SavePlan, Undone, Placing, Recovering,
     Installing, Finishing, Create, Remove, Current
<1>3. ASSUME NEW o \in Ops, Replay(o) PROVE DirsMine'
  BY FirstAndLast, ConstantsTyped, <1>3 DEF Replay, Undone, Placing, Recovering,
     Installing, Finishing, Create, Remove, Current
<1>4. ASSUME NEW o \in Ops, Start(o) PROVE DirsMine'
  BY FirstAndLast, ConstantsTyped, <1>4 DEF Start, Undone, Placing, Recovering, Installing,
     Finishing, Create, Remove, Current
<1>5. CASE RecoverStage \/ RecoverFile \/ RecoverFileRefused \/ FilesRecovered
           \/ RecoverDir \/ RecoverDirRefused
  BY FirstAndLast, ConstantsTyped, <1>5 DEF RecoverStage, RecoverFile, RecoverFileRefused,
     FilesRecovered, RecoverDir, RecoverDirRefused, Undone, Placing, Recovering,
     Installing, Finishing, Create, Remove, Current
<1>6. CASE Recovered \/ Review \/ ReviewRefused \/ MakeStage \/ Populate \/ PopulateFails
  BY FirstAndLast, ConstantsTyped, <1>6 DEF Recovered, Review, ReviewRefused, MakeStage,
     Populate, PopulateFails, Undone, Placing, Recovering, Installing, Finishing, Create,
     Remove, Current
<1>7. CASE MakeDir
  BY FirstAndLast, ConstantsTyped, <1>7 DEF MakeDir, Undone, Placing, Recovering,
     Installing, Finishing, Create, Remove, Current
<1>8. CASE LinkFile
  BY FirstAndLast, ConstantsTyped, <1>8 DEF LinkFile, Undone, Placing, Recovering,
     Installing, Finishing, Create, Remove, Current
<1>9. CASE DirRefused \/ NoteDir \/ RecordFile \/ LinkRefused \/ UnstageFile \/ FileTracked
  BY FirstAndLast, ConstantsTyped, <1>9 DEF DirRefused, NoteDir, RecordFile, LinkRefused,
     UnstageFile, FileTracked, Undone, Placing, Recovering, Installing, Finishing, Create,
     Remove, Current
<1>10. CASE UndoFile
  BY FirstAndLast, ConstantsTyped, <1>10 DEF UndoFile, Undone, Placing, Recovering,
     Installing, Finishing, Create, Remove, Current
<1>11. CASE UndoDir
  BY FirstAndLast, ConstantsTyped, <1>11 DEF UndoDir, Undone, Placing, Recovering,
     Installing, Finishing, Create, Remove, Current
<1>12. CASE UndoFails
  BY FirstAndLast, ConstantsTyped, <1>12 DEF UndoFails, Undone, Placing, Recovering,
     Installing, Finishing, Create, Remove, Current
<1>13. CASE DropStage \/ UndoStage \/ CheckComplete \/ Verify \/ VerifyRefused \/ Register
  BY FirstAndLast, ConstantsTyped, <1>13 DEF DropStage, UndoStage, CheckComplete, Verify,
     VerifyRefused, Register, Undone, Placing, Recovering, Installing, Finishing, Create,
     Remove, Current
<1>14. CASE WriteReceipt \/ WriteResult \/ Forget \/ StepFails \/ InstallFails \/ Crash
  BY FirstAndLast, ConstantsTyped, <1>14 DEF WriteReceipt, WriteResult, Forget, StepFails,
     InstallFails, Crash, Undone, Placing, Recovering, Installing, Finishing, Create,
     Remove, Current
<1>15. CASE UNCHANGED vars
  BY FirstAndLast, ConstantsTyped, <1>15 DEF vars, Undone, Placing, Recovering, Installing,
     Finishing, Create, Remove, Current
<1>16. ASSUME NEW p \in Paths, NEW c \in EditTo[p], Edit(p, c) PROVE DirsMine'
  BY FirstAndLast, ConstantsTyped, <1>16 DEF Edit, Undone, Placing, Recovering, Installing,
     Finishing, Create, Remove, Current
<1>17. ASSUME NEW o \in Ops, Clutter(o) PROVE DirsMine'
  BY FirstAndLast, ConstantsTyped, <1>17 DEF Clutter, Undone, Placing, Recovering,
     Installing, Finishing, Create, Remove, Current
<1> QED
  BY <1>1, <1>2, <1>3, <1>4, <1>5, <1>6, <1>7, <1>8, <1>9, <1>10, <1>11, <1>12, <1>13,
     <1>14, <1>15, <1>16, <1>17 DEF Next, Step, vars

\* Every step of a recovery keeps before it what it has not removed.
LEMMA NextRecovers ==
  Typed /\ Unfinished /\ Intact /\ Recorded /\ Recovers /\ [Next]_vars => Recovers'
<1> SUFFICES ASSUME Typed, Unfinished, Intact, Recorded, Recovers, [Next]_vars PROVE Recovers'
  OBVIOUS
<1> USE DEF Typed, TypeOK, HistoryTyped, CallTyped, TargetTyped, Located, Intact, Recovers,
   target, progress, store, work, proc, Goto, Return, RollBack, NoFault, Fault, OthersStep
<1>1. ASSUME NEW o \in Ops, CheckTarget(o) PROVE Recovers'
  BY FirstAndLast, ConstantsTyped, <1>1 DEF CheckTarget, Undone, Placing, Recovering,
     Installing, Finishing, Create, Remove, Current, SeenDirs, Reviewed, Recorded,
     Unfinished
<1>2. ASSUME NEW o \in Ops, SavePlan(o) PROVE Recovers'
  BY FirstAndLast, ConstantsTyped, <1>2 DEF SavePlan, Undone, Placing, Recovering,
     Installing, Finishing, Create, Remove, Current, SeenDirs, Reviewed, Recorded,
     Unfinished
<1>3. ASSUME NEW o \in Ops, Replay(o) PROVE Recovers'
  BY FirstAndLast, ConstantsTyped, <1>3 DEF Replay, Undone, Placing, Recovering,
     Installing, Finishing, Create, Remove, Current, SeenDirs, Reviewed, Recorded,
     Unfinished
<1>4. ASSUME NEW o \in Ops, Start(o) PROVE Recovers'
  BY FirstAndLast, ConstantsTyped, <1>4 DEF Start, Undone, Placing, Recovering, Installing,
     Finishing, Create, Remove, Current, SeenDirs, Reviewed, Recorded, Unfinished
<1>5. CASE RecoverStage
  BY FirstAndLast, ConstantsTyped, <1>5 DEF RecoverStage, Undone, Placing, Recovering,
     Installing, Finishing, Create, Remove, Current, SeenDirs, Reviewed, Recorded,
     Unfinished
<1>6. CASE RecoverFile
  BY FirstAndLast, ConstantsTyped, <1>6 DEF RecoverFile, Undone, Placing, Recovering,
     Installing, Finishing, Create, Remove, Current, SeenDirs, Reviewed, Recorded,
     Unfinished
<1>7. CASE FilesRecovered
  BY FirstAndLast, ConstantsTyped, <1>7 DEF FilesRecovered, Undone, Placing, Recovering,
     Installing, Finishing, Create, Remove, Current, SeenDirs, Reviewed, Recorded,
     Unfinished
<1>8. CASE RecoverDir
  BY FirstAndLast, ConstantsTyped, <1>8 DEF RecoverDir, Undone, Placing, Recovering,
     Installing, Finishing, Create, Remove, Current, SeenDirs, Reviewed, Recorded,
     Unfinished
<1>9. CASE Recovered
  BY FirstAndLast, ConstantsTyped, <1>9 DEF Recovered, Undone, Placing, Recovering,
     Installing, Finishing, Create, Remove, Current, SeenDirs, Reviewed, Recorded,
     Unfinished
<1>10. CASE RecoverFileRefused \/ RecoverDirRefused \/ Review \/ ReviewRefused
            \/ MakeStage \/ Populate
  BY FirstAndLast, ConstantsTyped, <1>10 DEF RecoverFileRefused, RecoverDirRefused, Review,
     ReviewRefused, MakeStage, Populate, Undone, Placing, Recovering, Installing,
     Finishing, Create, Remove, Current, SeenDirs, Reviewed, Recorded, Unfinished
<1>11. CASE PopulateFails \/ MakeDir \/ DirRefused \/ NoteDir \/ RecordFile \/ LinkFile
  BY FirstAndLast, ConstantsTyped, <1>11 DEF PopulateFails, MakeDir, DirRefused, NoteDir,
     RecordFile, LinkFile, Undone, Placing, Recovering, Installing, Finishing, Create,
     Remove, Current, SeenDirs, Reviewed, Recorded, Unfinished
<1>12. CASE LinkRefused \/ UnstageFile \/ FileTracked \/ DropStage \/ UndoFile \/ UndoDir
  BY FirstAndLast, ConstantsTyped, <1>12 DEF LinkRefused, UnstageFile, FileTracked,
     DropStage, UndoFile, UndoDir, Undone, Placing, Recovering, Installing, Finishing,
     Create, Remove, Current, SeenDirs, Reviewed, Recorded, Unfinished
<1>13. CASE UndoStage \/ UndoFails \/ CheckComplete \/ Verify \/ VerifyRefused \/ Register
  BY FirstAndLast, ConstantsTyped, <1>13 DEF UndoStage, UndoFails, CheckComplete, Verify,
     VerifyRefused, Register, Undone, Placing, Recovering, Installing, Finishing, Create,
     Remove, Current, SeenDirs, Reviewed, Recorded, Unfinished
<1>14. CASE WriteReceipt \/ WriteResult \/ Forget \/ StepFails \/ InstallFails \/ Crash
  BY FirstAndLast, ConstantsTyped, <1>14 DEF WriteReceipt, WriteResult, Forget, StepFails,
     InstallFails, Crash, Undone, Placing, Recovering, Installing, Finishing, Create,
     Remove, Current, SeenDirs, Reviewed, Recorded, Unfinished
<1>15. CASE UNCHANGED vars
  BY FirstAndLast, ConstantsTyped, <1>15 DEF vars, Undone, Placing, Recovering, Installing,
     Finishing, Create, Remove, Current, SeenDirs, Reviewed, Recorded, Unfinished
<1>16. ASSUME NEW p \in Paths, NEW c \in EditTo[p], Edit(p, c) PROVE Recovers'
  BY FirstAndLast, ConstantsTyped, <1>16 DEF Edit, Undone, Placing, Recovering, Installing,
     Finishing, Create, Remove, Current, SeenDirs, Reviewed, Recorded, Unfinished
<1>17. ASSUME NEW o \in Ops, Clutter(o) PROVE Recovers'
  BY FirstAndLast, ConstantsTyped, <1>17 DEF Clutter, Undone, Placing, Recovering,
     Installing, Finishing, Create, Remove, Current, SeenDirs, Reviewed, Recorded,
     Unfinished
<1> QED
  BY <1>1, <1>2, <1>3, <1>4, <1>5, <1>6, <1>7, <1>8, <1>9, <1>10, <1>11, <1>12, <1>13,
     <1>14, <1>15, <1>16, <1>17 DEF Next, Step, vars

\* Every step of an installation keeps the record up with the target.
LEMMA NextFollows ==
  Typed /\ Unfinished /\ Intact /\ Recorded /\ Follows /\ [Next]_vars => Follows'
<1> SUFFICES ASSUME Typed, Unfinished, Intact, Recorded, Follows, [Next]_vars PROVE Follows'
  OBVIOUS
<1> USE DEF Typed, TypeOK, HistoryTyped, CallTyped, TargetTyped, Located, Intact, Follows,
   target, progress, store, work, proc, Goto, Return, RollBack, NoFault, Fault, OthersStep
<1>1. ASSUME NEW o \in Ops, CheckTarget(o) PROVE Follows'
  BY FirstAndLast, ConstantsTyped, <1>1 DEF CheckTarget, Undone, Placing, Recovering,
     Installing, Finishing, Create, Remove, Current, Loose, Recorded, Unfinished, Placing
<1>2. ASSUME NEW o \in Ops, SavePlan(o) PROVE Follows'
  BY FirstAndLast, ConstantsTyped, <1>2 DEF SavePlan, Undone, Placing, Recovering,
     Installing, Finishing, Create, Remove, Current, Loose, Recorded, Unfinished, Placing
<1>3. ASSUME NEW o \in Ops, Replay(o) PROVE Follows'
  BY FirstAndLast, ConstantsTyped, <1>3 DEF Replay, Undone, Placing, Recovering,
     Installing, Finishing, Create, Remove, Current, Loose, Recorded, Unfinished, Placing
<1>4. ASSUME NEW o \in Ops, Start(o) PROVE Follows'
  BY FirstAndLast, ConstantsTyped, <1>4 DEF Start, Undone, Placing, Recovering, Installing,
     Finishing, Create, Remove, Current, Loose, Recorded, Unfinished, Placing
<1>5. CASE RecoverStage \/ RecoverFile \/ RecoverFileRefused \/ FilesRecovered
           \/ RecoverDir \/ RecoverDirRefused
  BY FirstAndLast, ConstantsTyped, <1>5 DEF RecoverStage, RecoverFile, RecoverFileRefused,
     FilesRecovered, RecoverDir, RecoverDirRefused, Undone, Placing, Recovering,
     Installing, Finishing, Create, Remove, Current, Loose, Recorded, Unfinished, Placing
<1>6. CASE Review
  <2>1. observed[runner].node = node
    BY <1>6 DEF Review, Snapshot
  <2>2. runner \in Ops /\ runner \notin receipt \cup result /\ observed[runner] # NoPlan
    BY <1>6 DEF Review, Unfinished
  <2>3. Loose(runner) = {}
    BY <2>1, <2>2 DEF Recorded, Loose
  <2> QED
    BY <1>6, <2>3 DEF Review, Loose
<1>7. CASE MakeDir
  BY FirstAndLast, ConstantsTyped, <1>7 DEF MakeDir, Undone, Placing, Recovering,
     Installing, Finishing, Create, Remove, Current, Loose, Recorded, Unfinished, Placing
<1>8. CASE Recovered \/ ReviewRefused \/ MakeStage \/ Populate \/ PopulateFails
           \/ DirRefused
  BY FirstAndLast, ConstantsTyped, <1>8 DEF Recovered, ReviewRefused, MakeStage, Populate,
     PopulateFails, DirRefused, Undone, Placing, Recovering, Installing, Finishing, Create,
     Remove, Current, Loose, Recorded, Unfinished, Placing
<1>9. CASE NoteDir
  <2>1. runner \in Ops /\ Loose(runner) \subseteq {Current} /\ Current \in Dirs
    BY <1>9 DEF NoteDir
  <2>2. Loose(runner)' = {}
    BY <1>9, <2>1 DEF NoteDir, Loose, StoreTyped
  <2> QED
    BY <1>9, <2>2 DEF NoteDir
<1>10. CASE RecordFile
  <2>1. runner \in Ops /\ Loose(runner) = {} /\ Current' = Current
    BY <1>10 DEF RecordFile, Installing, Current
  <2>2. Loose(runner)' = {} /\ Current' \in recFiles'[runner]
    BY <1>10, <2>1 DEF RecordFile, Loose, StoreTyped
  <2> QED
    BY <1>10, <2>2 DEF RecordFile
<1>11. CASE LinkFile
  BY FirstAndLast, ConstantsTyped, <1>11 DEF LinkFile, Undone, Placing, Recovering,
     Installing, Finishing, Create, Remove, Current, Loose, Recorded, Unfinished, Placing
<1>12. CASE UnstageFile
  BY FirstAndLast, ConstantsTyped, <1>12 DEF UnstageFile, Undone, Placing, Recovering,
     Installing, Finishing, Create, Remove, Current, Loose, Recorded, Unfinished, Placing
<1>13. CASE FileTracked
  BY FirstAndLast, ConstantsTyped, <1>13 DEF FileTracked, Undone, Placing, Recovering,
     Installing, Finishing, Create, Remove, Current, Loose, Recorded, Unfinished, Placing
<1>14. CASE LinkRefused \/ DropStage \/ UndoFile \/ UndoDir \/ UndoStage \/ UndoFails
  BY FirstAndLast, ConstantsTyped, <1>14 DEF LinkRefused, DropStage, UndoFile, UndoDir,
     UndoStage, UndoFails, Undone, Placing, Recovering, Installing, Finishing, Create,
     Remove, Current, Loose, Recorded, Unfinished, Placing
<1>15. CASE CheckComplete \/ Verify \/ VerifyRefused \/ Register \/ WriteReceipt
            \/ WriteResult
  BY FirstAndLast, ConstantsTyped, <1>15 DEF CheckComplete, Verify, VerifyRefused,
     Register, WriteReceipt, WriteResult, Undone, Placing, Recovering, Installing,
     Finishing, Create, Remove, Current, Loose, Recorded, Unfinished, Placing
<1>16. CASE Forget \/ StepFails \/ InstallFails \/ Crash \/ UNCHANGED vars
  BY FirstAndLast, ConstantsTyped, <1>16 DEF Forget, StepFails, InstallFails, Crash, vars,
     Undone, Placing, Recovering, Installing, Finishing, Create, Remove, Current, Loose,
     Recorded, Unfinished, Placing
<1>17. ASSUME NEW p \in Paths, NEW c \in EditTo[p], Edit(p, c) PROVE Follows'
  BY FirstAndLast, ConstantsTyped, <1>17 DEF Edit, Undone, Placing, Recovering, Installing,
     Finishing, Create, Remove, Current, Loose, Recorded, Unfinished, Placing
<1>18. ASSUME NEW o \in Ops, Clutter(o) PROVE Follows'
  BY FirstAndLast, ConstantsTyped, <1>18 DEF Clutter, Undone, Placing, Recovering,
     Installing, Finishing, Create, Remove, Current, Loose, Recorded, Unfinished, Placing
<1> QED
  BY <1>1, <1>2, <1>3, <1>4, <1>5, <1>6, <1>7, <1>8, <1>9, <1>10, <1>11, <1>12, <1>13,
     <1>14, <1>15, <1>16, <1>17, <1>18 DEF Next, Step, vars

\* Every step keeps recorded what is in the target.
LEMMA NextRecorded ==
  Typed /\ Unfinished /\ Intact /\ Recorded /\ Recovers /\ Follows /\ [Next]_vars => Recorded'
<1> SUFFICES ASSUME Typed, Unfinished, Intact, Recorded, Recovers, Follows, [Next]_vars PROVE Recorded'
  OBVIOUS
<1> USE DEF Typed, TypeOK, HistoryTyped, CallTyped, TargetTyped, StoreTyped, Located,
   Recorded, target, progress, store, work, proc, Goto, Return, RollBack, NoFault, Fault,
   OthersStep
<1>1. ASSUME NEW o \in Ops, CheckTarget(o) PROVE Recorded'
  BY FirstAndLast, ConstantsTyped, <1>1 DEF CheckTarget, Create, Remove, Current, Loose,
     Unfinished, Placing
<1>2. ASSUME NEW o \in Ops, SavePlan(o) PROVE Recorded'
  BY FirstAndLast, ConstantsTyped, <1>2 DEF SavePlan, Create, Remove, Current, Loose,
     Unfinished, Placing
<1>3. ASSUME NEW o \in Ops, Replay(o) PROVE Recorded'
  BY FirstAndLast, ConstantsTyped, <1>3 DEF Replay, Create, Remove, Current, Loose,
     Unfinished, Placing
<1>4. ASSUME NEW o \in Ops, Start(o) PROVE Recorded'
  BY FirstAndLast, ConstantsTyped, <1>4 DEF Start, Create, Remove, Current, Loose,
     Unfinished, Placing
<1>5. CASE RecoverFile
  BY FirstAndLast, ConstantsTyped, <1>5 DEF RecoverFile, Create, Remove, Current, Loose,
     Unfinished, Placing
<1>6. CASE RecoverDir
  BY FirstAndLast, ConstantsTyped, <1>6 DEF RecoverDir, Create, Remove, Current, Loose,
     Unfinished, Placing
<1>7. CASE Recovered
  <2>1. runner \in Ops /\ own[runner] \cap Files = {} /\ own[runner] \cap recDirs[runner] \subseteq SeenDirs(runner)
    BY <1>7 DEF Recovered, Recovers, Recovering
  <2>2. UNCHANGED <<runner, receipt, result, observed, own>>
    BY <1>7 DEF Recovered
  <2>3. Loose(runner)' \subseteq Loose(runner)
    BY <1>7, <2>1, <2>2 DEF Recovered, ForgetProgress, Loose, SeenDirs
  <2>4. ASSUME NEW o \in Ops, o # runner PROVE recFiles'[o] = recFiles[o] /\ Loose(o)' = Loose(o)
    BY <1>7, <2>1, <2>2, <2>4 DEF Recovered, ForgetProgress, Loose
  <2> QED
    BY <2>1, <2>2, <2>3, <2>4 DEF Loose
<1>8. CASE RecoverStage \/ RecoverFileRefused \/ FilesRecovered \/ RecoverDirRefused
           \/ Review \/ ReviewRefused
  BY FirstAndLast, ConstantsTyped, <1>8 DEF RecoverStage, RecoverFileRefused,
     FilesRecovered, RecoverDirRefused, Review, ReviewRefused, Create, Remove, Current,
     Loose, Unfinished, Placing
<1>9. CASE MakeDir
  <2>1. CASE own' = own
    BY <1>9, <2>1 DEF MakeDir, Loose
  <2>2. CASE Create(Current, Directory)
    <3>1. runner \in Ops /\ Loose(runner) = {} /\ Current \in Dirs /\ Current \notin Files
      BY <1>9, ConstantsTyped DEF MakeDir, Follows, Installing
    <3>2. own' = [own EXCEPT ![runner] = @ \cup {Current}]
      BY <2>2 DEF Create
    <3>3. UNCHANGED <<runner, receipt, result, observed, recDirs, recFiles>>
      BY <1>9 DEF MakeDir
    <3>4. ASSUME NEW p \in Loose(runner)' PROVE p = Current
      <4>1. p \in own[runner] \/ p = Current
        BY <3>1, <3>2, <3>3, <3>4 DEF Loose
      <4>2. p \in own[runner] => p \in Loose(runner)
        BY <3>3, <3>4 DEF Loose
      <4> QED
        BY <3>1, <4>1, <4>2
    <3>5. ASSUME NEW o \in Ops, o # runner PROVE Loose(o)' = Loose(o) /\ own'[o] = own[o]
      BY <3>2, <3>3, <3>5 DEF Loose
    <3>6. own'[runner] \cap Files = own[runner] \cap Files
      BY <3>1, <3>2
    <3>7. Current \in Paths
      BY <3>1 DEF Paths
    <3> QED
      BY <3>1, <3>3, <3>4, <3>5, <3>6, <3>7 DEF Loose
  <2> QED
    BY <1>9, <2>1, <2>2 DEF MakeDir
<1>10. CASE NoteDir
  BY FirstAndLast, ConstantsTyped, <1>10 DEF NoteDir, Create, Remove, Current, Loose,
     Unfinished, Placing
<1>11. CASE RecordFile
  BY FirstAndLast, ConstantsTyped, <1>11 DEF RecordFile, Create, Remove, Current, Loose,
     Unfinished, Placing
<1>12. CASE LinkFile
  <2>1. runner \in Ops /\ Current \in Files /\ Current \in recFiles[runner]
    BY <1>12 DEF LinkFile, Follows
  <2>2. own' = [own EXCEPT ![runner] = @ \cup {Current}]
    BY <1>12 DEF LinkFile, Create
  <2>3. UNCHANGED <<receipt, result, observed, recDirs, recFiles>>
    BY <1>12 DEF LinkFile
  <2>4. ASSUME NEW o \in Ops PROVE Loose(o)' \subseteq Loose(o)
    BY <2>1, <2>2, <2>3 DEF Loose
  <2>5. ASSUME NEW o \in Ops \ (receipt \cup result) PROVE own'[o] \cap Files \subseteq recFiles[o]
    BY <2>1, <2>2
  <2> QED
    BY <2>3, <2>4, <2>5
<1>13. CASE MakeStage \/ Populate \/ PopulateFails \/ DirRefused \/ LinkRefused
            \/ UnstageFile
  BY FirstAndLast, ConstantsTyped, <1>13 DEF MakeStage, Populate, PopulateFails,
     DirRefused, LinkRefused, UnstageFile, Create, Remove, Current, Loose, Unfinished,
     Placing
<1>14. CASE UndoFile
  BY FirstAndLast, ConstantsTyped, <1>14 DEF UndoFile, Create, Remove, Current, Loose,
     Unfinished, Placing
<1>15. CASE UndoDir
  BY FirstAndLast, ConstantsTyped, <1>15 DEF UndoDir, Create, Remove, Current, Loose,
     Unfinished, Placing
<1>16. CASE FileTracked \/ DropStage \/ UndoStage \/ UndoFails \/ CheckComplete \/ Verify
  BY FirstAndLast, ConstantsTyped, <1>16 DEF FileTracked, DropStage, UndoStage, UndoFails,
     CheckComplete, Verify, Create, Remove, Current, Loose, Unfinished, Placing
<1>17. CASE WriteReceipt
  BY FirstAndLast, ConstantsTyped, <1>17 DEF WriteReceipt, Create, Remove, Current, Loose,
     Unfinished, Placing
<1>18. CASE Forget
  <2>1. runner \in Ops /\ runner \in result
    BY <1>18 DEF Forget, Unfinished
  <2>2. UNCHANGED <<receipt, result, observed, own>>
    BY <1>18 DEF Forget
  <2>3. ASSUME NEW o \in Ops, o # runner PROVE recFiles'[o] = recFiles[o] /\ Loose(o)' = Loose(o)
    BY <1>18, <2>1, <2>2, <2>3 DEF Forget, ForgetProgress, Loose
  <2> QED
    BY <2>1, <2>2, <2>3
<1>19. CASE VerifyRefused \/ Register \/ WriteResult \/ StepFails \/ InstallFails \/ Crash
  BY FirstAndLast, ConstantsTyped, <1>19 DEF VerifyRefused, Register, WriteResult,
     StepFails, InstallFails, Crash, Create, Remove, Current, Loose, Unfinished, Placing
<1>20. CASE UNCHANGED vars
  BY FirstAndLast, ConstantsTyped, <1>20 DEF vars, Create, Remove, Current, Loose,
     Unfinished, Placing
<1>21. ASSUME NEW p \in Paths, NEW c \in EditTo[p], Edit(p, c) PROVE Recorded'
  BY FirstAndLast, ConstantsTyped, <1>21 DEF Edit, Create, Remove, Current, Loose,
     Unfinished, Placing
<1>22. ASSUME NEW o \in Ops, Clutter(o) PROVE Recorded'
  BY FirstAndLast, ConstantsTyped, <1>22 DEF Clutter, Create, Remove, Current, Loose,
     Unfinished, Placing
<1> QED
  BY <1>1, <1>2, <1>3, <1>4, <1>5, <1>6, <1>7, <1>8, <1>9, <1>10, <1>11, <1>12, <1>13,
     <1>14, <1>15, <1>16, <1>17, <1>18, <1>19, <1>20, <1>21, <1>22 DEF Next, Step, vars

-----------------------------------------------------------------------------
(* What a call takes away                                                  *)

\* A call takes away only what it may.
LEMMA NextTakes == Typed /\ DirsMine /\ [Next]_vars => Takes
<1> SUFFICES ASSUME Typed, DirsMine, [Next]_vars PROVE Takes
  OBVIOUS
<1> USE FirstAndLast, ConstantsTyped DEF Typed, TypeOK, HistoryTyped, CallTyped, Takes,
   target, progress, store, work, proc, Goto, Return, RollBack, NoFault, Fault, OthersStep
<1>1. ASSUME NEW o \in Ops, CheckTarget(o) PROVE Takes
  BY <1>1 DEF CheckTarget, Create, Remove, Current
<1>2. ASSUME NEW o \in Ops, SavePlan(o) PROVE Takes
  BY <1>2 DEF SavePlan, Create, Remove, Current
<1>3. ASSUME NEW o \in Ops, Replay(o) PROVE Takes
  BY <1>3 DEF Replay, Create, Remove, Current
<1>4. ASSUME NEW o \in Ops, Start(o) PROVE Takes
  BY <1>4 DEF Start, Create, Remove, Current
<1>5. CASE RecoverFile
  <2>1. PICK f \in Files : node' = node \/ (Matches(f) /\ Remove(f))
    BY <1>5 DEF RecoverFile
  <2> QED
    BY <1>5, <2>1, RemoveEffect DEF RecoverFile, Matches, Paths
<1>6. CASE RecoverDir
  <2>1. PICK d \in Dirs : node' = node \/ (~Reviewed(d) /\ ~Holds(d) /\ Remove(d))
    BY <1>6 DEF RecoverDir
  <2> QED
    BY <1>6, <2>1, RemoveEffect DEF RecoverDir, Reviewed, Paths
<1>7. CASE RecoverStage \/ RecoverFileRefused \/ FilesRecovered \/ RecoverDirRefused
           \/ Recovered \/ Review \/ ReviewRefused \/ MakeStage \/ Populate
  BY <1>7 DEF RecoverStage, RecoverFileRefused, FilesRecovered, RecoverDirRefused,
     Recovered, Review, ReviewRefused, MakeStage, Populate, Create, Remove, Current
<1>8. CASE MakeDir
  <2>1. runner \in Ops /\ Current \in Dirs
    BY <1>8 DEF MakeDir
  <2> QED
    BY <1>8, <2>1, CreateEffect DEF MakeDir, Paths
<1>9. CASE LinkFile
  <2>1. runner \in Ops /\ Current \in Files
    BY <1>9 DEF LinkFile, Located
  <2> QED
    BY <1>9, <2>1, CreateEffect DEF LinkFile, Paths
<1>10. CASE UndoFile
  <2>1. PICK f \in Files : node' = node \/ (Matches(f) /\ Remove(f))
    BY <1>10 DEF UndoFile
  <2> QED
    BY <1>10, <2>1, RemoveEffect DEF UndoFile, Matches, Paths
<1>11. CASE UndoDir
  <2>1. PICK d \in dirs : node' = node \/ (~Holds(d) /\ Remove(d))
    BY <1>11 DEF UndoDir
  <2> QED
    BY <1>11, <2>1, RemoveEffect DEF UndoDir, DirsMine, Paths
<1>12. CASE PopulateFails \/ DirRefused \/ NoteDir \/ RecordFile \/ LinkRefused
            \/ UnstageFile \/ FileTracked \/ DropStage \/ UndoStage
  BY <1>12 DEF PopulateFails, DirRefused, NoteDir, RecordFile, LinkRefused, UnstageFile,
     FileTracked, DropStage, UndoStage, Create, Remove, Current
<1>13. CASE WriteReceipt
  BY <1>13 DEF WriteReceipt, Create, Remove, Current
<1>14. CASE UndoFails \/ CheckComplete \/ Verify \/ VerifyRefused \/ Register
            \/ WriteResult \/ Forget \/ StepFails \/ InstallFails
  BY <1>14 DEF UndoFails, CheckComplete, Verify, VerifyRefused, Register, WriteResult,
     Forget, StepFails, InstallFails, Create, Remove, Current
<1>15. CASE Crash \/ UNCHANGED vars
  BY <1>15 DEF Crash, vars, Create, Remove, Current
<1>16. ASSUME NEW p \in Paths, NEW c \in EditTo[p], Edit(p, c) PROVE Takes
  BY <1>16 DEF Edit
<1>17. ASSUME NEW o \in Ops, Clutter(o) PROVE Takes
  BY <1>17 DEF Clutter, Create, Remove, Current
<1> QED
  BY <1>1, <1>2, <1>3, <1>4, <1>5, <1>6, <1>7, <1>8, <1>9, <1>10, <1>11, <1>12, <1>13,
     <1>14, <1>15, <1>16, <1>17 DEF Next, Step, vars

\* Every step keeps where the files come from.
LEMMA NextProvenance == Typed /\ Intact /\ Provenance /\ [Next]_vars => Provenance'
<1> SUFFICES ASSUME Typed, Intact, Provenance, [Next]_vars PROVE Provenance'
  OBVIOUS
<1> USE FirstAndLast, ConstantsTyped DEF Typed, TypeOK, HistoryTyped, TargetTyped,
   CallTyped, Provenance, target, progress, store, work, proc, Goto, Return, RollBack,
   NoFault, Fault, OthersStep
<1>1. ASSUME NEW o \in Ops, CheckTarget(o) PROVE Provenance'
  BY <1>1 DEF CheckTarget, Create, Remove, Current
<1>2. ASSUME NEW o \in Ops, SavePlan(o) PROVE Provenance'
  BY <1>2 DEF SavePlan, Create, Remove, Current
<1>3. ASSUME NEW o \in Ops, Replay(o) PROVE Provenance'
  BY <1>3 DEF Replay, Create, Remove, Current
<1>4. ASSUME NEW o \in Ops, Start(o) PROVE Provenance'
  BY <1>4 DEF Start, Create, Remove, Current
<1>5. CASE RecoverFile
  <2>1. PICK f \in Files : (node' = node /\ own' = own /\ taken' = taken) \/ Remove(f)
    BY <1>5 DEF RecoverFile
  <2> QED
    BY <2>1, RemoveEffect DEF Paths
<1>6. CASE RecoverDir
  <2>1. PICK d \in Dirs : (node' = node /\ own' = own /\ taken' = taken) \/ Remove(d)
    BY <1>6 DEF RecoverDir
  <2> QED
    BY <2>1, RemoveEffect DEF Paths
<1>7. CASE RecoverStage \/ RecoverFileRefused \/ FilesRecovered \/ RecoverDirRefused
           \/ Recovered \/ Review \/ ReviewRefused \/ MakeStage \/ Populate
  BY <1>7 DEF RecoverStage, RecoverFileRefused, FilesRecovered, RecoverDirRefused,
     Recovered, Review, ReviewRefused, MakeStage, Populate, Create, Remove, Current
<1>8. CASE MakeDir
  <2>1. runner \in Ops /\ Current \in Dirs
    BY <1>8 DEF MakeDir
  <2>2. (node' = node /\ own' = own /\ taken' = taken) \/ Create(Current, Directory)
    BY <1>8 DEF MakeDir
  <2>3. ASSUME NEW f \in Files, node'[f] # Absent
        PROVE  (\A o \in Ops : f \in taken'[o]) \/ \E q \in Ops : f \in own'[q]
    <3>1. CASE Create(Current, Directory)
      <4>0. /\ \A q \in Paths : node'[q] = IF q = Current THEN Directory ELSE node[q]
            /\ \A q \in Ops : own'[q] = IF q = runner THEN own[q] \cup {Current} ELSE own[q]
            /\ \A q \in Ops : taken'[q] = IF q = runner THEN taken[q] \ {Current} ELSE taken[q]
        BY <2>1, <3>1, CreateEffect DEF Paths
      <4>1. CASE f = Current
        BY <2>1, <3>1, <4>0, <4>1 DEF Paths
      <4>2. CASE f # Current
        <5>1. node[f] # Absent /\ Current \in Paths
          BY <2>1, <2>3, <3>1, <4>0, <4>2 DEF Paths
        <5>2. CASE \A o \in Ops : f \in taken[o]
          BY <2>1, <3>1, <4>2, <4>0, <5>1, <5>2
        <5>3. ASSUME NEW q \in Ops, f \in own[q] PROVE f \in own'[q]
          BY <2>1, <3>1, <4>0, <5>1, <5>3
        <5> QED
          BY <5>1, <5>2, <5>3
      <4> QED
        BY <4>1, <4>2
    <3>2. CASE node' = node /\ own' = own /\ taken' = taken
      BY <2>3, <3>2
    <3> QED
      BY <2>2, <3>1, <3>2
  <2> QED
    BY <2>3
<1>9. CASE LinkFile
  <2>1. runner \in Ops /\ Current \in Files
    BY <1>9 DEF LinkFile, Located
  <2>2. Create(Current, Generated[runner][Current])
    BY <1>9 DEF LinkFile
  <2>3. ASSUME NEW f \in Files, node'[f] # Absent
        PROVE  (\A o \in Ops : f \in taken'[o]) \/ \E q \in Ops : f \in own'[q]
    <3>1. CASE Create(Current, Generated[runner][Current])
      <4>0. /\ \A q \in Paths : node'[q] = IF q = Current THEN Generated[runner][Current] ELSE node[q]
            /\ \A q \in Ops : own'[q] = IF q = runner THEN own[q] \cup {Current} ELSE own[q]
            /\ \A q \in Ops : taken'[q] = IF q = runner THEN taken[q] \ {Current} ELSE taken[q]
        BY <2>1, <3>1, CreateEffect DEF Paths
      <4>1. CASE f = Current
        BY <2>1, <3>1, <4>0, <4>1 DEF Paths
      <4>2. CASE f # Current
        <5>1. node[f] # Absent /\ Current \in Paths
          BY <2>1, <2>3, <3>1, <4>0, <4>2 DEF Paths
        <5>2. CASE \A o \in Ops : f \in taken[o]
          BY <2>1, <3>1, <4>2, <4>0, <5>1, <5>2
        <5>3. ASSUME NEW q \in Ops, f \in own[q] PROVE f \in own'[q]
          BY <2>1, <3>1, <4>0, <5>1, <5>3
        <5> QED
          BY <5>1, <5>2, <5>3
      <4> QED
        BY <4>1, <4>2
    <3>2. CASE node' = node /\ own' = own /\ taken' = taken
      BY <2>3, <3>2
    <3> QED
      BY <2>2, <3>1, <3>2
  <2> QED
    BY <2>3
<1>10. CASE UndoFile
  <2>1. PICK f \in Files : (node' = node /\ own' = own /\ taken' = taken) \/ Remove(f)
    BY <1>10 DEF UndoFile
  <2> QED
    BY <2>1, RemoveEffect DEF Paths
<1>11. CASE UndoDir
  <2>1. PICK d \in Dirs : (node' = node /\ own' = own /\ taken' = taken) \/ Remove(d)
    BY <1>11 DEF UndoDir
  <2> QED
    BY <2>1, RemoveEffect DEF Paths
<1>12. CASE PopulateFails \/ DirRefused \/ NoteDir \/ RecordFile \/ LinkRefused
            \/ UnstageFile \/ FileTracked \/ DropStage \/ UndoStage
  BY <1>12 DEF PopulateFails, DirRefused, NoteDir, RecordFile, LinkRefused, UnstageFile,
     FileTracked, DropStage, UndoStage, Create, Remove, Current
<1>13. CASE WriteReceipt
  <2>1. \A f \in Files : node'[f] = node[f]
    BY <1>13 DEF WriteReceipt, Paths
  <2> QED
    BY <1>13, <2>1 DEF WriteReceipt
<1>14. CASE UndoFails \/ CheckComplete \/ Verify \/ VerifyRefused \/ Register
            \/ WriteResult \/ Forget \/ StepFails \/ InstallFails
  BY <1>14 DEF UndoFails, CheckComplete, Verify, VerifyRefused, Register, WriteResult,
     Forget, StepFails, InstallFails, Create, Remove, Current
<1>15. CASE Crash \/ UNCHANGED vars
  BY <1>15 DEF Crash, vars, Create, Remove, Current
<1>16. ASSUME NEW p \in Paths, NEW c \in EditTo[p], Edit(p, c) PROVE Provenance'
  BY <1>16 DEF Edit, Create, Remove, Current
<1>17. ASSUME NEW o \in Ops, Clutter(o) PROVE Provenance'
  BY <1>17 DEF Clutter, Create, Remove, Current
<1> QED
  BY <1>1, <1>2, <1>3, <1>4, <1>5, <1>6, <1>7, <1>8, <1>9, <1>10, <1>11, <1>12, <1>13,
     <1>14, <1>15, <1>16, <1>17 DEF Next, Step, vars

\* What is whole stays whole, unless its own call takes it back.
LEMMA WholeStays ==
  ASSUME Typed, Intact, [Next]_vars, NEW o \in Ops, Whole(o), o = runner => pc \notin {"recoverFiles", "undo"}
  PROVE  Whole(o)'
<1> USE FirstAndLast, ConstantsTyped DEF Typed, TypeOK, HistoryTyped, CallTyped, Whole,
   Contested, target, progress, store, work, proc, Goto, Return, RollBack, NoFault, Fault,
   OthersStep
<1>1. ASSUME NEW r \in Ops, CheckTarget(r) PROVE Whole(o)'
  <2>1. \A q \in Ops : outcome[q] \notin {"none", "unsafe_path"} => outcome'[q] = outcome[q]
    BY <1>1 DEF CheckTarget, Located
  <2> QED
    BY <1>1, <2>1 DEF CheckTarget
<1>2. ASSUME NEW r \in Ops, SavePlan(r) PROVE Whole(o)'
  BY <1>2 DEF SavePlan
<1>3. ASSUME NEW r \in Ops, Replay(r) PROVE Whole(o)'
  BY <1>3 DEF Replay
<1>4. ASSUME NEW r \in Ops, Start(r) PROVE Whole(o)'
  BY <1>4 DEF Start
<1>5. CASE RecoverFile
  <2>1. PICK f \in Files : (own' = own /\ taken' = taken) \/ (Matches(f) /\ Remove(f))
    BY <1>5 DEF RecoverFile
  <2>2. runner \in Ops /\ runner # o /\ outcome' = outcome /\ outcome[runner] = "running"
    BY <1>5 DEF RecoverFile, Located
  <2>3. ASSUME NEW g \in Files, Matches(f), Remove(f) PROVE g \in own'[o] \cup taken'[o] \/ Contested(o, g)'
    <3>1. CASE g = f /\ f \in own[o]
      <4>1. Generated[runner][f] = Generated[o][f]
        BY <2>3, <3>1 DEF Matches, Intact
      <4> QED
        BY <2>2, <3>1, <4>1
    <3>2. CASE g # f \/ f \notin own[o]
      BY <2>2, <2>3, <3>2, RemoveEffect DEF Paths
    <3> QED
      BY <3>1, <3>2
  <2> QED
    BY <2>1, <2>2, <2>3
<1>6. CASE RecoverDir
  <2>1. PICK d \in Dirs : (own' = own /\ taken' = taken) \/ Remove(d)
    BY <1>6 DEF RecoverDir
  <2>2. outcome' = outcome
    BY <1>6 DEF RecoverDir
  <2> QED
    BY <2>1, <2>2, RemoveEffect DEF Paths
<1>7. CASE RecoverStage \/ RecoverFileRefused \/ FilesRecovered \/ RecoverDirRefused
           \/ Recovered \/ Review
  BY <1>7 DEF RecoverStage, RecoverFileRefused, FilesRecovered, RecoverDirRefused,
     Recovered, Review
<1>8. CASE MakeDir
  <2>1. runner \in Ops /\ Current \in Dirs /\ outcome' = outcome
    BY <1>8 DEF MakeDir
  <2>2. (own' = own /\ taken' = taken) \/ Create(Current, Directory)
    BY <1>8 DEF MakeDir
  <2>3. ASSUME Create(Current, Directory)
        PROVE  /\ \A q \in Ops : own'[q] = IF q = runner THEN own[q] \cup {Current} ELSE own[q]
               /\ \A q \in Ops : taken'[q] = IF q = runner THEN taken[q] \ {Current} ELSE taken[q]
    BY <2>1, <2>3, CreateEffect DEF Paths
  <2>4. ASSUME NEW f \in Files PROVE f \in own[o] \cup taken[o] => f \in own'[o] \cup taken'[o]
    BY <2>2, <2>3
  <2> QED
    BY <2>1, <2>4
<1>9. CASE ReviewRefused \/ MakeStage \/ Populate \/ PopulateFails \/ DirRefused \/ NoteDir
  BY <1>9 DEF ReviewRefused, MakeStage, Populate, PopulateFails, DirRefused, NoteDir
<1>10. CASE LinkFile
  <2>1. runner \in Ops /\ Current \in Files /\ outcome' = outcome
    BY <1>10 DEF LinkFile, Located
  <2>2. Create(Current, Generated[runner][Current])
    BY <1>10 DEF LinkFile
  <2>3. ASSUME Create(Current, Generated[runner][Current])
        PROVE  /\ \A q \in Ops : own'[q] = IF q = runner THEN own[q] \cup {Current} ELSE own[q]
               /\ \A q \in Ops : taken'[q] = IF q = runner THEN taken[q] \ {Current} ELSE taken[q]
    BY <2>1, <2>3, CreateEffect DEF Paths
  <2>4. ASSUME NEW f \in Files PROVE f \in own[o] \cup taken[o] => f \in own'[o] \cup taken'[o]
    BY <2>2, <2>3
  <2> QED
    BY <2>1, <2>4
<1>11. CASE UndoFile
  <2>1. PICK f \in Files : (own' = own /\ taken' = taken) \/ (Matches(f) /\ Remove(f))
    BY <1>11 DEF UndoFile
  <2>2. runner \in Ops /\ runner # o /\ outcome' = outcome /\ outcome[runner] = "running"
    BY <1>11 DEF UndoFile, Located
  <2>3. ASSUME NEW g \in Files, Matches(f), Remove(f) PROVE g \in own'[o] \cup taken'[o] \/ Contested(o, g)'
    <3>1. CASE g = f /\ f \in own[o]
      <4>1. Generated[runner][f] = Generated[o][f]
        BY <2>3, <3>1 DEF Matches, Intact
      <4> QED
        BY <2>2, <3>1, <4>1
    <3>2. CASE g # f \/ f \notin own[o]
      BY <2>2, <2>3, <3>2, RemoveEffect DEF Paths
    <3> QED
      BY <3>1, <3>2
  <2> QED
    BY <2>1, <2>2, <2>3
<1>12. CASE UndoDir
  <2>1. PICK d \in Dirs : (own' = own /\ taken' = taken) \/ Remove(d)
    BY <1>12 DEF UndoDir
  <2>2. outcome' = outcome
    BY <1>12 DEF UndoDir
  <2> QED
    BY <2>1, <2>2, RemoveEffect DEF Paths
<1>13. CASE RecordFile \/ LinkRefused \/ UnstageFile \/ FileTracked \/ DropStage
            \/ UndoStage
  BY <1>13 DEF RecordFile, LinkRefused, UnstageFile, FileTracked, DropStage, UndoStage
<1>14. CASE UndoFails \/ CheckComplete \/ Verify \/ VerifyRefused \/ Register
            \/ WriteReceipt
  BY <1>14 DEF UndoFails, CheckComplete, Verify, VerifyRefused, Register, WriteReceipt
<1>15. CASE WriteResult \/ Forget \/ StepFails \/ InstallFails \/ Crash \/ UNCHANGED vars
  BY <1>15 DEF WriteResult, Forget, StepFails, InstallFails, Crash, vars
<1>16. ASSUME NEW p \in Paths, NEW c \in EditTo[p], Edit(p, c) PROVE Whole(o)'
  BY <1>16 DEF Edit
<1>17. ASSUME NEW r \in Ops, Clutter(r) PROVE Whole(o)'
  BY <1>17 DEF Clutter
<1> QED
  BY <1>1, <1>2, <1>3, <1>4, <1>5, <1>6, <1>7, <1>8, <1>9, <1>10, <1>11, <1>12, <1>13,
     <1>14, <1>15, <1>16, <1>17 DEF Next, Step, vars

\* What is complete is whole.
LEMMA CompleteIsWhole ==
  ASSUME Typed, Intact, Provenance, NEW o \in Ops, Complete(o)
  PROVE  Whole(o)
<1> SUFFICES ASSUME NEW f \in Files PROVE f \in own[o] \cup taken[o] \/ Contested(o, f)
  BY DEF Whole
<1>1. node[f] = Generated[o][f] /\ node[f] # Absent
  BY ConstantsTyped DEF Complete
<1>2. CASE \A q \in Ops : f \in taken[q]
  BY <1>2
<1>3. ASSUME NEW q \in Ops, f \in own[q], q # o PROVE Contested(o, f)
  BY <1>1, <1>3, ConstantsTyped DEF Intact, Contested
<1> QED
  BY <1>1, <1>2, <1>3 DEF Provenance

\* What passed the last check stays whole.
LEMMA NextCheckedIsWhole ==
  Typed /\ Intact /\ Provenance /\ CheckedIsWhole /\ [Next]_vars => CheckedIsWhole'
<1> SUFFICES ASSUME Typed, Intact, Provenance, CheckedIsWhole, [Next]_vars PROVE CheckedIsWhole'
  OBVIOUS
<1> USE DEF Typed, TypeOK, CallTyped, CheckedIsWhole, target, progress, store, work, proc,
   Goto, Return, RollBack, NoFault, Fault, OthersStep
<1>1. ASSUME NEW o \in Ops, CheckTarget(o) PROVE CheckedIsWhole'
  <2>1. runner' = runner /\ (pc' \in {"verify", "register", "receipt"} => pc \in {"verify", "register", "receipt"})
    BY <1>1 DEF CheckTarget
  <2>2. pc \in {"verify", "register", "receipt"} => runner \in Ops
    OBVIOUS
  <2> QED
    BY <2>1, <2>2, WholeStays DEF CheckedIsWhole
<1>2. ASSUME NEW o \in Ops, SavePlan(o) PROVE CheckedIsWhole'
  <2>1. runner' = runner /\ (pc' \in {"verify", "register", "receipt"} => pc \in {"verify", "register", "receipt"})
    BY <1>2 DEF SavePlan
  <2>2. pc \in {"verify", "register", "receipt"} => runner \in Ops
    OBVIOUS
  <2> QED
    BY <2>1, <2>2, WholeStays DEF CheckedIsWhole
<1>3. ASSUME NEW o \in Ops, Replay(o) PROVE CheckedIsWhole'
  <2>1. runner' = runner /\ (pc' \in {"verify", "register", "receipt"} => pc \in {"verify", "register", "receipt"})
    BY <1>3 DEF Replay
  <2>2. pc \in {"verify", "register", "receipt"} => runner \in Ops
    OBVIOUS
  <2> QED
    BY <2>1, <2>2, WholeStays DEF CheckedIsWhole
<1>4. ASSUME NEW o \in Ops, Start(o) PROVE CheckedIsWhole'
  <2>1. CASE pc' = "verify"
    <3>1. Complete(o) /\ runner' = o /\ UNCHANGED <<own, taken>>
      BY <1>4, <2>1 DEF Start
    <3>2. o = runner => pc \notin {"recoverFiles", "undo"}
      BY <1>4 DEF Start
    <3> QED
      BY <3>1, <3>2, CompleteIsWhole, WholeStays
  <2>2. CASE pc' # "verify"
    BY <1>4, <2>2 DEF Start
  <2> QED
    BY <2>1, <2>2
<1>5. CASE RecoverStage \/ RecoverFile \/ RecoverFileRefused \/ FilesRecovered
           \/ RecoverDir \/ RecoverDirRefused
  BY <1>5 DEF RecoverStage, RecoverFile, RecoverFileRefused, FilesRecovered, RecoverDir,
     RecoverDirRefused
<1>6. CASE Recovered \/ Review \/ ReviewRefused \/ MakeStage \/ Populate \/ PopulateFails
  BY <1>6 DEF Recovered, Review, ReviewRefused, MakeStage, Populate, PopulateFails
<1>7. CASE MakeDir \/ DirRefused \/ NoteDir \/ RecordFile \/ LinkFile \/ LinkRefused
  BY <1>7 DEF MakeDir, DirRefused, NoteDir, RecordFile, LinkFile, LinkRefused
<1>8. CASE UnstageFile \/ FileTracked \/ DropStage \/ UndoFile \/ UndoDir \/ UndoStage
  BY <1>8 DEF UnstageFile, FileTracked, DropStage, UndoFile, UndoDir, UndoStage
<1>9. CASE CheckComplete
  <2>1. runner \in Ops /\ UNCHANGED <<own, taken>>
    BY <1>9 DEF CheckComplete
  <2>2. CASE Complete(runner)
    <3>1. Whole(runner)
      BY <2>1, <2>2, CompleteIsWhole
    <3>2. runner' = runner /\ pc = "check"
      BY <1>9, <2>2 DEF CheckComplete
    <3>3. Whole(runner)'
      BY <2>1, <3>1, <3>2, WholeStays
    <3> QED
      BY <3>3
  <2>3. CASE pc' = "idle"
    BY <2>3
  <2> QED
    BY <1>9, <2>2, <2>3 DEF CheckComplete
<1>10. CASE Verify
  <2>1. runner' = runner /\ (pc' \in {"verify", "register", "receipt"} => pc \in {"verify", "register", "receipt"})
    BY <1>10 DEF Verify
  <2>2. pc \in {"verify", "register", "receipt"} => runner \in Ops
    OBVIOUS
  <2> QED
    BY <2>1, <2>2, WholeStays DEF CheckedIsWhole
<1>11. CASE Register
  <2>1. runner' = runner /\ (pc' \in {"verify", "register", "receipt"} => pc \in {"verify", "register", "receipt"})
    BY <1>11 DEF Register
  <2>2. pc \in {"verify", "register", "receipt"} => runner \in Ops
    OBVIOUS
  <2> QED
    BY <2>1, <2>2, WholeStays DEF CheckedIsWhole
<1>12. CASE UndoFails \/ VerifyRefused \/ WriteReceipt \/ WriteResult \/ Forget \/ StepFails
  BY <1>12 DEF UndoFails, VerifyRefused, WriteReceipt, WriteResult, Forget, StepFails
<1>13. CASE UNCHANGED vars
  BY <1>13 DEF vars, Whole, Contested
<1>14. CASE InstallFails \/ Crash
  BY <1>14 DEF InstallFails, Crash
<1>15. ASSUME NEW p \in Paths, NEW c \in EditTo[p], Edit(p, c) PROVE CheckedIsWhole'
  <2>1. runner' = runner /\ (pc' \in {"verify", "register", "receipt"} => pc \in {"verify", "register", "receipt"})
    BY <1>15 DEF Edit
  <2>2. pc \in {"verify", "register", "receipt"} => runner \in Ops
    OBVIOUS
  <2> QED
    BY <2>1, <2>2, WholeStays DEF CheckedIsWhole
<1>16. ASSUME NEW o \in Ops, Clutter(o) PROVE CheckedIsWhole'
  <2>1. runner' = runner /\ (pc' \in {"verify", "register", "receipt"} => pc \in {"verify", "register", "receipt"})
    BY <1>16 DEF Clutter
  <2>2. pc \in {"verify", "register", "receipt"} => runner \in Ops
    OBVIOUS
  <2> QED
    BY <2>1, <2>2, WholeStays DEF CheckedIsWhole
<1> QED
  BY <1>1, <1>2, <1>3, <1>4, <1>5, <1>6, <1>7, <1>8, <1>9, <1>10, <1>11, <1>12, <1>13,
     <1>14, <1>15, <1>16 DEF Next, Step, vars

\* Only two steps complete an adoption.
LEMMA OnlyTwoComplete ==
  [Next]_vars => UNCHANGED <<receipt, result>> \/ WriteReceipt \/ WriteResult
<1> SUFFICES ASSUME [Next]_vars
    PROVE  UNCHANGED <<receipt, result>> \/ WriteReceipt \/ WriteResult
  OBVIOUS
<1> USE DEF target, progress, store, work, proc, Goto, Return, RollBack, NoFault, Fault,
   OthersStep
<1>1. ASSUME NEW o \in Ops, CheckTarget(o) PROVE UNCHANGED <<receipt, result>> \/ WriteReceipt \/ WriteResult
  BY <1>1 DEF CheckTarget
<1>2. ASSUME NEW o \in Ops, SavePlan(o) PROVE UNCHANGED <<receipt, result>> \/ WriteReceipt \/ WriteResult
  BY <1>2 DEF SavePlan
<1>3. ASSUME NEW o \in Ops, Replay(o) PROVE UNCHANGED <<receipt, result>> \/ WriteReceipt \/ WriteResult
  BY <1>3 DEF Replay
<1>4. ASSUME NEW o \in Ops, Start(o) PROVE UNCHANGED <<receipt, result>> \/ WriteReceipt \/ WriteResult
  BY <1>4 DEF Start
<1>5. CASE RecoverStage \/ RecoverFile \/ RecoverFileRefused \/ FilesRecovered
           \/ RecoverDir \/ RecoverDirRefused
  BY <1>5 DEF RecoverStage, RecoverFile, RecoverFileRefused, FilesRecovered, RecoverDir,
     RecoverDirRefused
<1>6. CASE Recovered \/ Review \/ ReviewRefused \/ MakeStage \/ Populate \/ PopulateFails
  BY <1>6 DEF Recovered, Review, ReviewRefused, MakeStage, Populate, PopulateFails
<1>7. CASE MakeDir \/ DirRefused \/ NoteDir \/ RecordFile \/ LinkFile \/ LinkRefused
  BY <1>7 DEF MakeDir, DirRefused, NoteDir, RecordFile, LinkFile, LinkRefused
<1>8. CASE UnstageFile \/ FileTracked \/ DropStage \/ UndoFile \/ UndoDir \/ UndoStage
  BY <1>8 DEF UnstageFile, FileTracked, DropStage, UndoFile, UndoDir, UndoStage
<1>9. CASE UndoFails \/ CheckComplete \/ Verify \/ VerifyRefused \/ Register \/ WriteReceipt
  BY <1>9 DEF UndoFails, CheckComplete, Verify, VerifyRefused, Register, WriteReceipt
<1>10. CASE WriteResult \/ Forget \/ StepFails \/ InstallFails \/ Crash \/ UNCHANGED vars
  BY <1>10 DEF WriteResult, Forget, StepFails, InstallFails, Crash, vars
<1>11. ASSUME NEW p \in Paths, NEW c \in EditTo[p], Edit(p, c) PROVE UNCHANGED <<receipt, result>> \/ WriteReceipt \/ WriteResult
  BY <1>11 DEF Edit
<1>12. ASSUME NEW o \in Ops, Clutter(o) PROVE UNCHANGED <<receipt, result>> \/ WriteReceipt \/ WriteResult
  BY <1>12 DEF Clutter
<1> QED
  BY <1>1, <1>2, <1>3, <1>4, <1>5, <1>6, <1>7, <1>8, <1>9, <1>10, <1>11, <1>12 DEF Next,
     Step, vars

\* What is adopted stays whole.
LEMMA NextAdoptedIsWhole ==
  Typed /\ Intact /\ Unfinished /\ CheckedIsWhole /\ AdoptedIsWhole /\ [Next]_vars => AdoptedIsWhole'
<1> SUFFICES ASSUME Typed, Intact, Unfinished, CheckedIsWhole, AdoptedIsWhole, [Next]_vars,
                    NEW o \in (receipt \cup result)'
    PROVE  Whole(o)'
  BY DEF AdoptedIsWhole, Whole

<1>1. o \in receipt \cup result \/ (o = runner /\ pc \in {"receipt", "result"})
  <2>1. ASSUME UNCHANGED <<receipt, result>> PROVE o \in receipt \cup result
    BY <2>1
  <2>2. CASE WriteReceipt
    BY <2>2 DEF WriteReceipt, store
  <2>3. CASE WriteResult
    BY <2>3 DEF WriteResult, target
  <2>4. UNCHANGED <<receipt, result>> \/ WriteReceipt \/ WriteResult
    BY OnlyTwoComplete
  <2> QED
    BY <2>1, <2>2, <2>3, <2>4
<1>2. o \in Ops
  BY <1>1 DEF Typed, TypeOK, TargetTyped, StoreTyped, CallTyped
<1>3. Whole(o)
  BY <1>1 DEF Unfinished, AdoptedIsWhole, CheckedIsWhole, Whole
<1>4. o = runner => pc \notin {"recoverFiles", "undo"}
  <2>1. o = runner => runner # NoOp
    BY <1>2, ConstantsTyped
  <2> QED
    BY <1>1, <2>1 DEF Unfinished
<1> QED
  BY <1>2, <1>3, <1>4, WholeStays

-----------------------------------------------------------------------------
(* The theorems                                                            *)

\* The inductive invariant.
IInv == Typed /\ Intact /\ Unfinished /\ DirsMine /\ Recovers /\ Follows /\ Recorded

\* The inductive invariant holds in every reachable state.
THEOREM AdoptionInvariant == Spec => []IInv
<1>1. Init => IInv
  <2> SUFFICES ASSUME Init PROVE IInv
    OBVIOUS
  <2>1. Typed
    BY InitTyped
  <2>2. \A o \in Ops : Loose(o) = {}
    BY DEF Init, Loose
  <2>3. \E d : d \in Paths
    BY AdoptionAssumption DEF Paths
  <2>4. Recorded
    BY <2>2, <2>3 DEF Init, Recorded
  <2> QED
    BY <2>1, <2>4 DEF IInv, Init, Intact, Unfinished, DirsMine, Recovers, Follows, Recovering, Installing
<1>2. IInv /\ [Next]_vars => IInv'
  BY NextTyped, NextIntact, NextUnfinished, NextDirsMine, NextRecovers, NextFollows, NextRecorded DEF IInv
<1> QED
  BY <1>1, <1>2, PTL DEF Spec

\* Whatever an unfinished adoption has left in the target, its progress names, all but
\* one directory.
THEOREM ResidueOfAnAdoption == Spec => []ResidueIsRecorded
<1>1. IInv => ResidueIsRecorded
  <2> SUFFICES ASSUME IInv, NEW o \in Ops \ (receipt \cup result)
      PROVE  Loose(o) \cap Files = {} /\ Cardinality(Loose(o)) <= 1
    BY DEF ResidueIsRecorded
  <2>1. own[o] \cap Files \subseteq recFiles[o]
    BY DEF IInv, Recorded
  <2>2. PICK d \in Paths : Loose(o) \subseteq {d}
    BY DEF IInv, Recorded
  <2>3. Loose(o) \cap Files = {}
    BY <2>1 DEF Loose
  <2>4. IsFiniteSet({d}) /\ Cardinality({d}) = 1
    BY FS_Singleton
  <2>5. Cardinality(Loose(o)) <= Cardinality({d})
    BY <2>2, <2>4, FS_Subset
  <2> QED
    BY <2>3, <2>4, <2>5
<1> QED
  BY AdoptionInvariant, <1>1, PTL

\* A call takes away a file only if it has the bytes that its plan generates, and an empty
\* directory only if the plan had not seen it or the call made it (or others, where it had);
\* it adds where nothing was: for whatever others do to the target.
THEOREM OnlyGeneratedTaken == Spec => OnlyGeneratedIsTaken
<1>1. IInv /\ [Next]_vars => [Takes]_vars
  BY NextTakes DEF IInv
<1>2. Spec => [][Takes]_vars
  BY AdoptionInvariant, <1>1, PTL DEF Spec
<1> QED
  BY <1>2 DEF Takes, OnlyGeneratedIsTaken

\* A completed adoption has its whole framework, less what others changed, if the
\* target had none of the generated files before.
THEOREM AdoptionIsWhole == ASSUME FreshTarget PROVE Spec => []AdoptedIsWhole
<1>1. Init => Provenance /\ CheckedIsWhole /\ AdoptedIsWhole
  BY DEF FreshTarget, Init, Provenance, CheckedIsWhole, AdoptedIsWhole, Paths
<1>2. IInv /\ Provenance /\ CheckedIsWhole /\ AdoptedIsWhole /\ [Next]_vars
        => (Provenance /\ CheckedIsWhole /\ AdoptedIsWhole)'
  BY NextProvenance, NextCheckedIsWhole, NextAdoptedIsWhole DEF IInv
<1> QED
  BY AdoptionInvariant, <1>1, <1>2, PTL DEF Spec

=============================================================================
