----------------------- MODULE JournalledSaveRefinement -----------------------
(***************************************************************************)
(* The journalled save implements the save at one instant of AtomicSave.   *)
(*                                                                         *)
(* The abstract content of a file is what it holds, or what the plan was   *)
(* reviewed against while it holds bytes of an uncommitted save (Visible). *)
(* Putting a file and putting it back stutter, the receipt is the abstract *)
(* save of everything that was put, the preflight is the abstract check.   *)
(* The simulation needs that `placed` says which files hold such bytes     *)
(* (PlacedAsPlanned, OwnBytesArePlaced), except in files that were edited  *)
(* since the preflight.  An edit that falls between a comparison and its   *)
(* write is overwritten unseen: the abstract save sees one more edit of    *)
(* that file, as if its author had taken the first one back.               *)
(***************************************************************************)
EXTENDS JournalledSaveProofs

\* A placed file holds the planned bytes; a journalled one that holds them is placed, or
\* another writer put them there after the preflight.
PlacedAsPlanned ==
  \A o \in Ops : \A i \in placed[o] : file[W(o, i).path] = W(o, i).after

OwnBytesArePlaced ==
  \A o \in Ops : o \notin receipts => \A i \in entries[o] :
    file[W(o, i).path] = W(o, i).after /\ W(o, i).before # W(o, i).after =>
      i \in placed[o] \/ W(o, i).path \in edited

\* What is replaced is as reviewed, or own bytes, or was edited since.
PutsOverReviewed ==
  pc = "put" =>
    file[W(runner, at).path] = W(runner, at).before \/ W(runner, at).path \in edited

PutsBackOwn ==
  pc = "restorePut" =>
    at \in placed[runner] \/ W(runner, at).path \in edited

RInv ==
  /\ IInv /\ Written /\ AsCompared
  /\ PlacedAsPlanned /\ OwnBytesArePlaced /\ PutsOverReviewed /\ PutsBackOwn

-----------------------------------------------------------------------------
(* Own bytes                                                               *)

\* An uncommitted operation with journalled bytes is the only one, and the one at work
\* if any is; placed bytes are journalled.
LEMMA OnlyOneJournalled ==
  IInv => /\ \A o, q \in Ops : \A i \in entries[o], j \in entries[q] :
               o \notin receipts /\ q \notin receipts => o = q
          /\ \A o \in Ops : \A i \in entries[o] :
               o \notin receipts /\ runner # NoOp => o = runner
          /\ \A o \in Ops : \A i \in placed[o] : i \in entries[o] /\ o \notin receipts
<1> SUFFICES ASSUME IInv
    PROVE  /\ \A o, q \in Ops : \A i \in entries[o], j \in entries[q] :
                o \notin receipts /\ q \notin receipts => o = q
           /\ \A o \in Ops : \A i \in entries[o] :
                o \notin receipts /\ runner # NoOp => o = runner
           /\ \A o \in Ops : \A i \in placed[o] : i \in entries[o] /\ o \notin receipts
  OBVIOUS
<1>1. ASSUME NEW o \in Ops, NEW i \in entries[o], o \notin receipts
      PROVE  KindOf[o] \in Kinds /\ marker[KindOf[o]] = o /\ o # NoOp
  BY <1>1, KindsTyped, PlanAssumption DEF IInv, Pending, PendingOf
<1>2. ASSUME NEW o \in Ops, NEW i \in placed[o] PROVE i \in entries[o] /\ o \notin receipts
  BY <1>2 DEF IInv, Pending, PendingOf
<1>3. ASSUME NEW o \in Ops, NEW q \in Ops, NEW i \in entries[o], NEW j \in entries[q],
             o \notin receipts, q \notin receipts
      PROVE  o = q
  BY <1>1, <1>3 DEF IInv, MarkersAgree
<1>4. ASSUME NEW o \in Ops, NEW i \in entries[o], o \notin receipts, runner # NoOp
      PROVE  o = runner
  BY <1>1, <1>4 DEF IInv, AtWork
<1> QED
  BY <1>2, <1>3, <1>4

\* The types and the distinct paths that the steps below count on.
LEMMA RunnerTyped ==
  IInv /\ runner # NoOp =>
    /\ runner \in Ops
    /\ file \in [Files -> Contents]
    /\ placed \in [Ops -> SUBSET Int] /\ entries \in [Ops -> SUBSET Int]
    /\ \A i, j \in Steps(runner) : W(runner, i).path = W(runner, j).path => i = j
    /\ \A i \in Steps(runner) : W(runner, i).path \in Files
    /\ todo \subseteq Steps(runner) /\ entries[runner] \subseteq Steps(runner)
    /\ placed[runner] \subseteq Steps(runner)
BY PathsDiffer, PlanTyped DEF IInv, TypeOK

\* Every step keeps placed exactly the files that hold bytes of an uncommitted save.
LEMMA NextRInv == RInv /\ [Next]_vars => RInv'
<1> SUFFICES ASSUME RInv, [Next]_vars PROVE RInv'
  OBVIOUS
<1>0. IInv' /\ Written' /\ AsCompared'
  BY NextIInv, NextWritten DEF RInv
<1> USE PlanAssumption DEF RInv, disk, proc, env, Goto, Return
<1>1. ASSUME NEW o \in Ops, Acquire(o) PROVE RInv'
  <2>1. PlacedAsPlanned'
    BY <1>1 DEF Acquire, PlacedAsPlanned, IInv, TypeOK
  <2>2. OwnBytesArePlaced'
    BY <1>1 DEF Acquire, OwnBytesArePlaced, IInv, TypeOK
  <2>3. PutsBackOwn'
    BY <1>1 DEF Acquire, PutsBackOwn, IInv, TypeOK, AtWork, Running
  <2>4. PutsOverReviewed'
    BY <1>1 DEF Acquire, PutsOverReviewed, IInv, TypeOK, AtWork, Running
  <2> QED
    BY <1>0, <2>1, <2>2, <2>3, <2>4
<1>2. ASSUME NEW o \in Ops, (Refuse(o) \/ TurnAway(o)) PROVE RInv'
  <2>1. PlacedAsPlanned'
    BY <1>2 DEF Refuse, TurnAway, PlacedAsPlanned, IInv, TypeOK
  <2>2. OwnBytesArePlaced'
    BY <1>2 DEF Refuse, TurnAway, OwnBytesArePlaced, IInv, TypeOK
  <2>3. PutsBackOwn'
    BY <1>2 DEF Refuse, TurnAway, PutsBackOwn, IInv, TypeOK, AtWork, Running
  <2>4. PutsOverReviewed'
    BY <1>2 DEF Refuse, TurnAway, PutsOverReviewed, IInv, TypeOK, AtWork, Running
  <2> QED
    BY <1>0, <2>1, <2>2, <2>3, <2>4
<1>3. ASSUME NEW o \in Ops, (Expire(o) \/ Bar(o)) PROVE RInv'
  <2>1. PlacedAsPlanned'
    BY <1>3 DEF Expire, Bar, PlacedAsPlanned, IInv, TypeOK
  <2>2. OwnBytesArePlaced'
    BY <1>3 DEF Expire, Bar, OwnBytesArePlaced, IInv, TypeOK
  <2>3. PutsBackOwn'
    BY <1>3 DEF Expire, Bar, PutsBackOwn, IInv, TypeOK, AtWork, Running
  <2>4. PutsOverReviewed'
    BY <1>3 DEF Expire, Bar, PutsOverReviewed, IInv, TypeOK, AtWork, Running
  <2> QED
    BY <1>0, <2>1, <2>2, <2>3, <2>4
<1>4. CASE RestoreSkip
  <2>1. PlacedAsPlanned'
    BY <1>4 DEF RestoreSkip, PlacedAsPlanned, IInv, TypeOK
  <2>2. OwnBytesArePlaced'
    <3>1. PICK k \in todo : /\ file[W(runner, k).path] = W(runner, k).before
                            /\ placed' = [placed EXCEPT ![runner] = @ \ {k}]
      BY <1>4 DEF RestoreSkip
    <3>2. runner # NoOp /\ UNCHANGED <<file, entries, receipts, edited>>
      BY <1>4 DEF RestoreSkip, IInv, TypeOK
    <3> QED
      BY <3>1, <3>2, RunnerTyped DEF OwnBytesArePlaced
  <2>3. PutsBackOwn'
    BY <1>4 DEF RestoreSkip, PutsBackOwn, IInv, TypeOK, AtWork, Running
  <2>4. PutsOverReviewed'
    BY <1>4 DEF RestoreSkip, PutsOverReviewed, IInv, TypeOK, AtWork, Running
  <2> QED
    BY <1>0, <2>1, <2>2, <2>3, <2>4
<1>5. CASE RestoreDecide
  <2>1. PlacedAsPlanned'
    BY <1>5 DEF RestoreDecide, PlacedAsPlanned, IInv, TypeOK
  <2>2. OwnBytesArePlaced'
    BY <1>5 DEF RestoreDecide, OwnBytesArePlaced, IInv, TypeOK
  <2>3. PutsBackOwn'
    <3>1. /\ at' \in entries[runner] /\ runner \in Ops /\ runner \notin receipts
          /\ file[W(runner, at').path] = W(runner, at').after
          /\ W(runner, at').before # W(runner, at').after
          /\ UNCHANGED <<runner, placed, edited>>
      BY <1>5 DEF RestoreDecide, IInv, TypeOK, AtWork
    <3> QED
      BY <3>1 DEF OwnBytesArePlaced, PutsBackOwn
  <2>4. PutsOverReviewed'
    BY <1>5 DEF RestoreDecide, PutsOverReviewed, IInv, TypeOK, AtWork, Running
  <2> QED
    BY <1>0, <2>1, <2>2, <2>3, <2>4
<1>6. CASE RestoreRefused
  <2>1. PlacedAsPlanned'
    BY <1>6 DEF RestoreRefused, PlacedAsPlanned, IInv, TypeOK
  <2>2. OwnBytesArePlaced'
    BY <1>6 DEF RestoreRefused, OwnBytesArePlaced, IInv, TypeOK
  <2>3. PutsBackOwn'
    BY <1>6 DEF RestoreRefused, PutsBackOwn, IInv, TypeOK, AtWork, Running
  <2>4. PutsOverReviewed'
    BY <1>6 DEF RestoreRefused, PutsOverReviewed, IInv, TypeOK, AtWork, Running
  <2> QED
    BY <1>0, <2>1, <2>2, <2>3, <2>4
<1>7. CASE RestorePut
  <2>1. PlacedAsPlanned'
    <3>1. /\ file' = [file EXCEPT ![W(runner, at).path] = W(runner, at).before]
          /\ placed' = [placed EXCEPT ![runner] = @ \ {at}]
          /\ runner # NoOp /\ at \in todo
      BY <1>7 DEF RestorePut, IInv, TypeOK
    <3>2. \A o \in Ops : \A i \in placed[o] : o = runner
      BY <3>1, OnlyOneJournalled
    <3> QED
      BY <3>1, <3>2, RunnerTyped DEF PlacedAsPlanned
  <2>2. OwnBytesArePlaced'
    <3>1. /\ file' = [file EXCEPT ![W(runner, at).path] = W(runner, at).before]
          /\ placed' = [placed EXCEPT ![runner] = @ \ {at}]
          /\ runner # NoOp /\ at \in todo /\ UNCHANGED <<entries, receipts, edited>>
      BY <1>7 DEF RestorePut, IInv, TypeOK
    <3>2. \A o \in Ops : \A i \in entries[o] : o \notin receipts => o = runner
      BY <3>1, OnlyOneJournalled
    <3> QED
      BY <3>1, <3>2, RunnerTyped DEF OwnBytesArePlaced
  <2>3. PutsBackOwn'
    BY <1>7 DEF RestorePut, PutsBackOwn, IInv, TypeOK, AtWork, Running
  <2>4. PutsOverReviewed'
    BY <1>7 DEF RestorePut, PutsOverReviewed, IInv, TypeOK, AtWork, Running
  <2> QED
    BY <1>0, <2>1, <2>2, <2>3, <2>4
<1>8. CASE RestoreGone
  <2>1. PlacedAsPlanned'
    BY <1>8 DEF RestoreGone, PlacedAsPlanned, IInv, TypeOK
  <2>2. OwnBytesArePlaced'
    BY <1>8 DEF RestoreGone, OwnBytesArePlaced, IInv, TypeOK
  <2>3. PutsBackOwn'
    BY <1>8 DEF RestoreGone, PutsBackOwn, IInv, TypeOK, AtWork, Running
  <2>4. PutsOverReviewed'
    BY <1>8 DEF RestoreGone, PutsOverReviewed, IInv, TypeOK, AtWork, Running
  <2> QED
    BY <1>0, <2>1, <2>2, <2>3, <2>4
<1>9. CASE DropJournal
  <2>1. PlacedAsPlanned'
    BY <1>9 DEF DropJournal, PlacedAsPlanned, IInv, TypeOK
  <2>2. OwnBytesArePlaced'
    BY <1>9 DEF DropJournal, OwnBytesArePlaced, IInv, TypeOK
  <2>3. PutsBackOwn'
    BY <1>9 DEF DropJournal, PutsBackOwn, IInv, TypeOK, AtWork, Running
  <2>4. PutsOverReviewed'
    BY <1>9 DEF DropJournal, PutsOverReviewed, IInv, TypeOK, AtWork, Running
  <2> QED
    BY <1>0, <2>1, <2>2, <2>3, <2>4
<1>10. CASE DropMarker
  <2>1. PlacedAsPlanned'
    BY <1>10 DEF DropMarker, PlacedAsPlanned, IInv, TypeOK
  <2>2. OwnBytesArePlaced'
    BY <1>10 DEF DropMarker, OwnBytesArePlaced, IInv, TypeOK
  <2>3. PutsBackOwn'
    BY <1>10 DEF DropMarker, PutsBackOwn, IInv, TypeOK, AtWork, Running
  <2>4. PutsOverReviewed'
    BY <1>10 DEF DropMarker, PutsOverReviewed, IInv, TypeOK, AtWork, Running
  <2> QED
    BY <1>0, <2>1, <2>2, <2>3, <2>4
<1>11. CASE OpenJournal
  <2>1. PlacedAsPlanned'
    BY <1>11 DEF OpenJournal, PlacedAsPlanned, IInv, TypeOK
  <2>2. OwnBytesArePlaced'
    <3>1. runner # NoOp /\ entries' = [entries EXCEPT ![runner] = {}] /\ receipts' = receipts
      BY <1>11 DEF OpenJournal, IInv, TypeOK
    <3>2. \A o \in Ops : \A i \in entries[o] : o \notin receipts => o = runner
      BY <3>1, OnlyOneJournalled
    <3> QED
      BY <3>1, <3>2, RunnerTyped DEF OwnBytesArePlaced
  <2>3. PutsBackOwn'
    BY <1>11 DEF OpenJournal, PutsBackOwn, IInv, TypeOK, AtWork, Running
  <2>4. PutsOverReviewed'
    BY <1>11 DEF OpenJournal, PutsOverReviewed, IInv, TypeOK, AtWork, Running
  <2> QED
    BY <1>0, <2>1, <2>2, <2>3, <2>4
<1>12. CASE PreflightRefused
  <2>1. PlacedAsPlanned'
    BY <1>12 DEF PreflightRefused, PlacedAsPlanned, IInv, TypeOK
  <2>2. OwnBytesArePlaced'
    BY <1>12 DEF PreflightRefused, OwnBytesArePlaced, IInv, TypeOK
  <2>3. PutsBackOwn'
    BY <1>12 DEF PreflightRefused, PutsBackOwn, IInv, TypeOK, AtWork, Running
  <2>4. PutsOverReviewed'
    BY <1>12 DEF PreflightRefused, PutsOverReviewed, IInv, TypeOK, AtWork, Running
  <2> QED
    BY <1>0, <2>1, <2>2, <2>3, <2>4
<1>13. CASE OpenMarker
  <2>1. PlacedAsPlanned'
    BY <1>13 DEF OpenMarker, PlacedAsPlanned, IInv, TypeOK
  <2>2. OwnBytesArePlaced'
    BY <1>13 DEF OpenMarker, OwnBytesArePlaced, IInv, TypeOK
  <2>3. PutsBackOwn'
    BY <1>13 DEF OpenMarker, PutsBackOwn, IInv, TypeOK, AtWork, Running
  <2>4. PutsOverReviewed'
    BY <1>13 DEF OpenMarker, PutsOverReviewed, IInv, TypeOK, AtWork, Running
  <2> QED
    BY <1>0, <2>1, <2>2, <2>3, <2>4
<1>14. CASE JournalEntry
  <2>1. PlacedAsPlanned'
    BY <1>14 DEF JournalEntry, PlacedAsPlanned, IInv, TypeOK
  <2>2. OwnBytesArePlaced'
    <3>1. PICK k \in todo : /\ file[W(runner, k).path] = W(runner, k).before
                            /\ entries' = [entries EXCEPT ![runner] = @ \cup {k}]
      BY <1>14 DEF JournalEntry
    <3>2. runner # NoOp /\ UNCHANGED <<file, placed, receipts, edited>>
      BY <1>14 DEF JournalEntry, IInv, TypeOK
    <3> QED
      BY <3>1, <3>2, RunnerTyped DEF OwnBytesArePlaced
  <2>3. PutsBackOwn'
    BY <1>14 DEF JournalEntry, PutsBackOwn, IInv, TypeOK, AtWork, Running
  <2>4. PutsOverReviewed'
    BY <1>14 DEF JournalEntry, PutsOverReviewed, IInv, TypeOK, AtWork, Running
  <2> QED
    BY <1>0, <2>1, <2>2, <2>3, <2>4
<1>15. CASE JournalRefused
  <2>1. PlacedAsPlanned'
    BY <1>15 DEF JournalRefused, RollBack, PlacedAsPlanned, IInv, TypeOK
  <2>2. OwnBytesArePlaced'
    BY <1>15 DEF JournalRefused, RollBack, OwnBytesArePlaced, IInv, TypeOK
  <2>3. PutsBackOwn'
    BY <1>15 DEF JournalRefused, RollBack, PutsBackOwn, IInv, TypeOK, AtWork, Running
  <2>4. PutsOverReviewed'
    BY <1>15 DEF JournalRefused, RollBack, PutsOverReviewed, IInv, TypeOK, AtWork, Running
  <2> QED
    BY <1>0, <2>1, <2>2, <2>3, <2>4
<1>16. CASE Put
  <2>1. PlacedAsPlanned'
    <3>1. /\ file' = [file EXCEPT ![W(runner, at).path] = W(runner, at).after]
          /\ placed' = [placed EXCEPT ![runner] = @ \cup {at}]
          /\ runner # NoOp /\ at \in todo
      BY <1>16 DEF Put, IInv, TypeOK
    <3>2. \A o \in Ops : \A i \in placed[o] : o = runner
      BY <3>1, OnlyOneJournalled
    <3> QED
      BY <3>1, <3>2, RunnerTyped DEF PlacedAsPlanned
  <2>2. OwnBytesArePlaced'
    <3>1. /\ file' = [file EXCEPT ![W(runner, at).path] = W(runner, at).after]
          /\ placed' = [placed EXCEPT ![runner] = @ \cup {at}]
          /\ runner # NoOp /\ at \in todo /\ UNCHANGED <<entries, receipts, edited>>
      BY <1>16 DEF Put, IInv, TypeOK
    <3>2. \A o \in Ops : \A i \in entries[o] : o \notin receipts => o = runner
      BY <3>1, OnlyOneJournalled
    <3> QED
      BY <3>1, <3>2, RunnerTyped DEF OwnBytesArePlaced
  <2>3. PutsBackOwn'
    BY <1>16 DEF Put, PutsBackOwn, IInv, TypeOK, AtWork, Running
  <2>4. PutsOverReviewed'
    BY <1>16 DEF Put, PutsOverReviewed, IInv, TypeOK, AtWork, Running
  <2> QED
    BY <1>0, <2>1, <2>2, <2>3, <2>4
<1>17. CASE PutRefused
  <2>1. PlacedAsPlanned'
    BY <1>17 DEF PutRefused, RollBack, PlacedAsPlanned, IInv, TypeOK
  <2>2. OwnBytesArePlaced'
    BY <1>17 DEF PutRefused, RollBack, OwnBytesArePlaced, IInv, TypeOK
  <2>3. PutsBackOwn'
    BY <1>17 DEF PutRefused, RollBack, PutsBackOwn, IInv, TypeOK, AtWork, Running
  <2>4. PutsOverReviewed'
    BY <1>17 DEF PutRefused, RollBack, PutsOverReviewed, IInv, TypeOK, AtWork, Running
  <2> QED
    BY <1>0, <2>1, <2>2, <2>3, <2>4
<1>18. CASE WritesDone
  <2>1. PlacedAsPlanned'
    BY <1>18 DEF WritesDone, PlacedAsPlanned, IInv, TypeOK
  <2>2. OwnBytesArePlaced'
    BY <1>18 DEF WritesDone, OwnBytesArePlaced, IInv, TypeOK
  <2>3. PutsBackOwn'
    BY <1>18 DEF WritesDone, PutsBackOwn, IInv, TypeOK, AtWork, Running
  <2>4. PutsOverReviewed'
    BY <1>18 DEF WritesDone, PutsOverReviewed, IInv, TypeOK, AtWork, Running
  <2> QED
    BY <1>0, <2>1, <2>2, <2>3, <2>4
<1>19. CASE VerifyRefused
  <2>1. PlacedAsPlanned'
    BY <1>19 DEF VerifyRefused, RollBack, PlacedAsPlanned, IInv, TypeOK
  <2>2. OwnBytesArePlaced'
    BY <1>19 DEF VerifyRefused, RollBack, OwnBytesArePlaced, IInv, TypeOK
  <2>3. PutsBackOwn'
    BY <1>19 DEF VerifyRefused, RollBack, PutsBackOwn, IInv, TypeOK, AtWork, Running
  <2>4. PutsOverReviewed'
    BY <1>19 DEF VerifyRefused, RollBack, PutsOverReviewed, IInv, TypeOK, AtWork, Running
  <2> QED
    BY <1>0, <2>1, <2>2, <2>3, <2>4
<1>20. CASE Commit
  <2>1. PlacedAsPlanned'
    BY <1>20 DEF Commit, PlacedAsPlanned, IInv, TypeOK
  <2>2. OwnBytesArePlaced'
    BY <1>20 DEF Commit, OwnBytesArePlaced, IInv, TypeOK
  <2>3. PutsBackOwn'
    BY <1>20 DEF Commit, PutsBackOwn, IInv, TypeOK, AtWork, Running
  <2>4. PutsOverReviewed'
    BY <1>20 DEF Commit, PutsOverReviewed, IInv, TypeOK, AtWork, Running
  <2> QED
    BY <1>0, <2>1, <2>2, <2>3, <2>4
<1>21. CASE CloseMarker
  <2>1. PlacedAsPlanned'
    BY <1>21 DEF CloseMarker, PlacedAsPlanned, IInv, TypeOK
  <2>2. OwnBytesArePlaced'
    BY <1>21 DEF CloseMarker, OwnBytesArePlaced, IInv, TypeOK
  <2>3. PutsBackOwn'
    BY <1>21 DEF CloseMarker, PutsBackOwn, IInv, TypeOK, AtWork, Running
  <2>4. PutsOverReviewed'
    BY <1>21 DEF CloseMarker, PutsOverReviewed, IInv, TypeOK, AtWork, Running
  <2> QED
    BY <1>0, <2>1, <2>2, <2>3, <2>4
<1>22. CASE CloseJournal
  <2>1. PlacedAsPlanned'
    BY <1>22 DEF CloseJournal, PlacedAsPlanned, IInv, TypeOK
  <2>2. OwnBytesArePlaced'
    BY <1>22 DEF CloseJournal, OwnBytesArePlaced, IInv, TypeOK
  <2>3. PutsBackOwn'
    BY <1>22 DEF CloseJournal, PutsBackOwn, IInv, TypeOK, AtWork, Running
  <2>4. PutsOverReviewed'
    BY <1>22 DEF CloseJournal, PutsOverReviewed, IInv, TypeOK, AtWork, Running
  <2> QED
    BY <1>0, <2>1, <2>2, <2>3, <2>4
<1>23. CASE LoopFault
  <2>1. PlacedAsPlanned'
    BY <1>23 DEF LoopFault, RollBack, PlacedAsPlanned, IInv, TypeOK
  <2>2. OwnBytesArePlaced'
    BY <1>23 DEF LoopFault, RollBack, OwnBytesArePlaced, IInv, TypeOK
  <2>3. PutsBackOwn'
    BY <1>23 DEF LoopFault, RollBack, PutsBackOwn, IInv, TypeOK, AtWork, Running
  <2>4. PutsOverReviewed'
    BY <1>23 DEF LoopFault, RollBack, PutsOverReviewed, IInv, TypeOK, AtWork, Running
  <2> QED
    BY <1>0, <2>1, <2>2, <2>3, <2>4
<1>24. CASE Interrupt
  <2>1. PlacedAsPlanned'
    BY <1>24 DEF Interrupt, PlacedAsPlanned, IInv, TypeOK
  <2>2. OwnBytesArePlaced'
    BY <1>24 DEF Interrupt, OwnBytesArePlaced, IInv, TypeOK
  <2>3. PutsBackOwn'
    BY <1>24 DEF Interrupt, PutsBackOwn, IInv, TypeOK, AtWork, Running
  <2>4. PutsOverReviewed'
    BY <1>24 DEF Interrupt, PutsOverReviewed, IInv, TypeOK, AtWork, Running
  <2> QED
    BY <1>0, <2>1, <2>2, <2>3, <2>4
<1>25. ASSUME NEW f \in Files, NEW c \in EditTo[f], Edit(f, c) PROVE RInv'
  <2>1. PlacedAsPlanned'
    BY <1>25 DEF Edit, TakenForOwn, Unseen, PlacedAsPlanned, IInv, TypeOK
  <2>2. OwnBytesArePlaced'
    BY <1>25 DEF Edit, TakenForOwn, Unseen, OwnBytesArePlaced, IInv, TypeOK
  <2>3. PutsBackOwn'
    BY <1>25 DEF Edit, TakenForOwn, Unseen, PutsBackOwn, IInv, TypeOK, AtWork, Running
  <2>4. PutsOverReviewed'
    BY <1>25 DEF Edit, TakenForOwn, Unseen, PutsOverReviewed, IInv, TypeOK, AtWork, Running
  <2> QED
    BY <1>0, <2>1, <2>2, <2>3, <2>4
<1>26. CASE UNCHANGED vars
  <2>1. PlacedAsPlanned'
    BY <1>26 DEF vars, PlacedAsPlanned, IInv, TypeOK
  <2>2. OwnBytesArePlaced'
    BY <1>26 DEF vars, OwnBytesArePlaced, IInv, TypeOK
  <2>3. PutsBackOwn'
    BY <1>26 DEF vars, PutsBackOwn, IInv, TypeOK, AtWork, Running
  <2>4. PutsOverReviewed'
    BY <1>26 DEF vars, PutsOverReviewed, IInv, TypeOK, AtWork, Running
  <2> QED
    BY <1>0, <2>1, <2>2, <2>3, <2>4
<1> QED
  BY <1>1, <1>2, <1>3, <1>4, <1>5, <1>6, <1>7, <1>8, <1>9, <1>10, <1>11, <1>12, <1>13,
     <1>14, <1>15, <1>16, <1>17, <1>18, <1>19, <1>20, <1>21, <1>22, <1>23, <1>24, <1>25,
     <1>26 DEF Next, Step

\* Nothing is placed in the beginning.
LEMMA InitRInv == Init => RInv
BY InitIInv
   DEF Init, RInv, Written, AsCompared, PlacedAsPlanned, OwnBytesArePlaced, PutsOverReviewed, PutsBackOwn

-----------------------------------------------------------------------------
(* The abstract content                                                    *)

\* A file some write is placed in counts as reviewed, any other one as it is.
SeenAsReviewed ==
  /\ \A o \in Ops : \A i \in placed[o] : Visible[W(o, i).path] = W(o, i).before
  /\ \A f \in Files :
       (\A o \in Ops : \A i \in placed[o] : W(o, i).path # f) => Visible[f] = file[f]

\* The abstract content is what was reviewed where a write is placed.
LEMMA VisibleAt == IInv => SeenAsReviewed
<1> SUFFICES ASSUME IInv PROVE SeenAsReviewed
  OBVIOUS
<1>1. ASSUME NEW o \in Ops, NEW i \in placed[o]
      PROVE  Visible[W(o, i).path] = W(o, i).before
  <2> DEFINE f == W(o, i).path
             p == CHOOSE q \in Ops : \E j \in placed[q] : W(q, j).path = f
             k == CHOOSE j \in placed[p] : W(p, j).path = f
  <2>1. i \in Steps(o) /\ f \in Files
    BY PlanTyped DEF IInv, TypeOK
  <2>2. p \in Ops /\ \E j \in placed[p] : W(p, j).path = f
    BY <1>1
  <2>3. p = o
    BY <2>2, OnlyOneJournalled
  <2>4. k \in placed[o] /\ W(o, k).path = f
    BY <2>2, <2>3
  <2>5. k = i
    BY <2>1, <2>4, PathsDiffer DEF IInv, TypeOK
  <2>6. Visible[f] = W(p, k).before
    BY <2>1, <1>1 DEF Visible
  <2> QED
    BY <2>3, <2>5, <2>6
<1>2. ASSUME NEW f \in Files, \A o \in Ops : \A i \in placed[o] : W(o, i).path # f
      PROVE  Visible[f] = file[f]
  BY <1>2 DEF Visible
<1> QED
  BY <1>1, <1>2 DEF SeenAsReviewed

SeenAsVault == Visible \in [Files -> Contents]

\* The abstract content is a Vault.
LEMMA VisibleTyped == IInv => SeenAsVault
<1> SUFFICES ASSUME IInv PROVE Visible \in [Files -> Contents]
  BY DEF SeenAsVault
<1>1. Visible = [f \in Files |-> Visible[f]]
  BY DEF Visible
<1>2. ASSUME NEW f \in Files PROVE Visible[f] \in Contents
  <2>1. CASE \E o \in Ops : \E i \in placed[o] : W(o, i).path = f
    <3>1. PICK o \in Ops : \E i \in placed[o] : W(o, i).path = f
      BY <2>1
    <3>2. PICK i \in placed[o] : W(o, i).path = f
      BY <3>1
    <3>3. Visible[f] = W(o, i).before /\ i \in Steps(o)
      BY <3>2, VisibleAt DEF SeenAsReviewed, IInv, TypeOK
    <3> QED
      BY <3>3, PlanTyped
  <2>2. CASE \A o \in Ops : \A i \in placed[o] : W(o, i).path # f
    BY <2>2, VisibleAt DEF SeenAsReviewed, IInv, TypeOK
  <2> QED
    BY <2>1, <2>2
<1> QED
  BY <1>1, <1>2

-----------------------------------------------------------------------------
(* The simulation                                                          *)

\* A step that leaves files and placed writes alone does not show.
LEMMA Unseeable == UNCHANGED <<file, placed>> => Visible' = Visible
BY DEF Visible

\* What changes one file of the abstract content that was edited is an abstract edit.
LEMMA OneFileShows ==
  ASSUME IInv, IInv', UNCHANGED <<receipts, edited>>, NEW path \in Files, NEW bytes,
         Visible'[path] = bytes, Visible[path] = bytes \/ path \in edited,
         \A f \in Files : f # path => Visible'[f] = Visible[f]
  PROVE  SaveIsAtomic!Edit \/ UNCHANGED <<Visible, receipts, edited>>
<1>1. SeenAsVault /\ SeenAsVault'
  BY VisibleTyped, PTL
<1>2. CASE Visible[path] = bytes
  BY <1>1, <1>2 DEF SeenAsVault
<1>3. CASE path \in edited
  <2>1. Visible' = [Visible EXCEPT ![path] = bytes] /\ bytes \in Contents
    BY <1>1 DEF SeenAsVault
  <2>2. edited' = edited \cup {path}
    BY <1>3
  <2> QED
    BY <2>1, <2>2 DEF SaveIsAtomic!Edit
<1> QED
  BY <1>2, <1>3

\* Putting a reviewed file does not show: the abstract content keeps the reviewed bytes.
\* Over an edit that went unseen it is as if its author had taken the edit back.
LEMMA PutStutters ==
  RInv /\ IInv' /\ Put => SaveIsAtomic!Edit \/ UNCHANGED <<Visible, receipts, edited>>
<1> SUFFICES ASSUME RInv, IInv', Put
    PROVE  SaveIsAtomic!Edit \/ UNCHANGED <<Visible, receipts, edited>>
  OBVIOUS
<1> DEFINE path == W(runner, at).path
<1>1. /\ file' = [file EXCEPT ![path] = W(runner, at).after]
      /\ placed' = [placed EXCEPT ![runner] = @ \cup {at}]
      /\ runner # NoOp /\ at \in todo
      /\ UNCHANGED <<receipts, edited>>
  BY DEF Put, RInv, IInv, TypeOK, disk, env
<1>2. SeenAsReviewed /\ SeenAsReviewed'
  BY VisibleAt, PTL DEF RInv
<1>3. \A o \in Ops : \A i \in placed[o] : o = runner
  BY <1>1, OnlyOneJournalled DEF RInv
<1>4. Visible'[path] = W(runner, at).before
  BY <1>1, <1>2, RunnerTyped DEF SeenAsReviewed, RInv
<1>5. Visible[path] = W(runner, at).before \/ path \in edited
  <2>1. CASE \E i \in placed[runner] : W(runner, i).path = path
    BY <1>1, <1>2, <2>1, RunnerTyped DEF SeenAsReviewed, RInv
  <2>2. CASE \A i \in placed[runner] : W(runner, i).path # path
    <3>1. \A o \in Ops : \A i \in placed[o] : W(o, i).path # path
      BY <1>3, <2>2
    <3>2. Visible[path] = file[path]
      BY <1>1, <1>2, <3>1, RunnerTyped DEF SeenAsReviewed, RInv
    <3> QED
      BY <3>2 DEF Put, RInv, PutsOverReviewed
  <2> QED
    BY <2>1, <2>2
<1>6. ASSUME NEW f \in Files, f # path PROVE Visible'[f] = Visible[f]
  <2>1. CASE \E i \in placed[runner] : W(runner, i).path = f
    BY <1>1, <1>2, <2>1, RunnerTyped DEF SeenAsReviewed, RInv
  <2>2. CASE \A i \in placed[runner] : W(runner, i).path # f
    BY <1>1, <1>2, <1>3, <1>6, <2>2, RunnerTyped DEF SeenAsReviewed, RInv
  <2> QED
    BY <2>1, <2>2
<1>7. path \in Files
  BY <1>1, RunnerTyped DEF RInv
<1> QED
  BY <1>1, <1>4, <1>5, <1>6, <1>7, OneFileShows DEF RInv

\* Nor does putting a file back.
LEMMA RestorePutStutters ==
  RInv /\ IInv' /\ RestorePut => SaveIsAtomic!Edit \/ UNCHANGED <<Visible, receipts, edited>>
<1> SUFFICES ASSUME RInv, IInv', RestorePut
    PROVE  SaveIsAtomic!Edit \/ UNCHANGED <<Visible, receipts, edited>>
  OBVIOUS
<1> DEFINE path == W(runner, at).path
<1>1. /\ file' = [file EXCEPT ![path] = W(runner, at).before]
      /\ placed' = [placed EXCEPT ![runner] = @ \ {at}]
      /\ runner # NoOp /\ at \in todo
      /\ UNCHANGED <<receipts, edited>>
  BY DEF RestorePut, RInv, IInv, TypeOK, disk, env
<1>2. SeenAsReviewed /\ SeenAsReviewed'
  BY VisibleAt, PTL DEF RInv
<1>3. \A o \in Ops : \A i \in placed[o] : o = runner
  BY <1>1, OnlyOneJournalled DEF RInv
<1>4. Visible'[path] = W(runner, at).before
  <2>1. \A o \in Ops : \A i \in placed'[o] : W(o, i).path # path
    BY <1>1, <1>3, RunnerTyped DEF RInv
  <2> QED
    BY <1>1, <1>2, <2>1, RunnerTyped DEF SeenAsReviewed, RInv
<1>5. Visible[path] = W(runner, at).before \/ path \in edited
  BY <1>1, <1>2, RunnerTyped DEF RestorePut, SeenAsReviewed, RInv, PutsBackOwn
<1>6. ASSUME NEW f \in Files, f # path PROVE Visible'[f] = Visible[f]
  <2>1. CASE \E i \in placed[runner] : W(runner, i).path = f
    BY <1>1, <1>2, <1>6, <2>1, RunnerTyped DEF SeenAsReviewed, RInv
  <2>2. CASE \A i \in placed[runner] : W(runner, i).path # f
    BY <1>1, <1>2, <1>3, <1>6, <2>2, RunnerTyped DEF SeenAsReviewed, RInv
  <2> QED
    BY <2>1, <2>2
<1>7. path \in Files
  BY <1>1, RunnerTyped DEF RInv
<1> QED
  BY <1>1, <1>4, <1>5, <1>6, <1>7, OneFileShows DEF RInv

\* A file that is as reviewed leaves the work to do unnoticed.
LEMMA RestoreSkipStutters ==
  RInv /\ IInv' /\ RestoreSkip => UNCHANGED <<Visible, receipts, edited>>
<1> SUFFICES ASSUME RInv, IInv', RestoreSkip PROVE UNCHANGED <<Visible, receipts, edited>>
  OBVIOUS
<1>1. PICK k \in todo :
        /\ file[W(runner, k).path] = W(runner, k).before
        /\ placed' = [placed EXCEPT ![runner] = @ \ {k}]
  BY DEF RestoreSkip
<1>2. runner # NoOp /\ UNCHANGED <<file, receipts, edited>>
  BY DEF RestoreSkip, RInv, IInv, TypeOK, disk, env
<1>3. SeenAsReviewed /\ SeenAsReviewed'
  BY VisibleAt, PTL DEF RInv
<1>4. \A o \in Ops : \A i \in placed[o] : o = runner
  BY <1>2, OnlyOneJournalled DEF RInv
<1>5. ASSUME NEW f \in Files PROVE Visible'[f] = Visible[f]
  <2>1. CASE f = W(runner, k).path
    <3>1. \A o \in Ops : \A i \in placed'[o] : W(o, i).path # f
      BY <1>1, <1>2, <1>4, <2>1, RunnerTyped DEF RInv
    <3>2. Visible'[f] = W(runner, k).before
      BY <1>1, <1>2, <1>3, <2>1, <3>1 DEF SeenAsReviewed
    <3>3. CASE k \in placed[runner]
      BY <1>2, <1>3, <2>1, <3>2, <3>3, RunnerTyped DEF SeenAsReviewed, RInv
    <3>4. CASE k \notin placed[runner]
      <4>1. \A o \in Ops : \A i \in placed[o] : W(o, i).path # f
        BY <1>2, <1>4, <2>1, <3>4, RunnerTyped DEF RInv
      <4> QED
        BY <1>1, <1>3, <2>1, <3>2, <4>1 DEF SeenAsReviewed
    <3> QED
      BY <3>3, <3>4
  <2>2. CASE f # W(runner, k).path
    <3>1. CASE \E i \in placed[runner] : W(runner, i).path = f
      BY <1>1, <1>2, <1>3, <2>2, <3>1, RunnerTyped DEF SeenAsReviewed, RInv
    <3>2. CASE \A i \in placed[runner] : W(runner, i).path # f
      BY <1>1, <1>2, <1>3, <1>4, <2>2, <3>2, RunnerTyped DEF SeenAsReviewed, RInv
    <3> QED
      BY <3>1, <3>2
  <2> QED
    BY <2>1, <2>2
<1>6. Visible = [f \in Files |-> Visible[f]] /\ Visible' = [f \in Files |-> Visible'[f]]
  BY DEF Visible
<1> QED
  BY <1>2, <1>5, <1>6

\* The receipt makes everything that was put appear at once.
LEMMA CommitSaves == RInv /\ IInv' /\ Commit => SaveIsAtomic!Save(runner)
<1> SUFFICES ASSUME RInv, IInv', Commit PROVE SaveIsAtomic!Save(runner)
  OBVIOUS
<1>1. /\ runner # NoOp /\ runner \notin receipts /\ receipts' = receipts \cup {runner}
      /\ placed' = [placed EXCEPT ![runner] = {}]
      /\ UNCHANGED <<file, edited>>
  BY DEF Commit, RInv, IInv, TypeOK, AtWork, env
<1>2. SeenAsReviewed /\ SeenAsReviewed'
  BY VisibleAt, PTL DEF RInv
<1>3. \A o \in Ops : \A i \in placed[o] : o = runner
  BY <1>1, OnlyOneJournalled DEF RInv
<1>4. \A o \in Ops : placed'[o] = {}
  BY <1>1, <1>3, RunnerTyped DEF RInv
<1>5. \A f \in Files : Visible'[f] = file[f]
  BY <1>1, <1>2, <1>4 DEF SeenAsReviewed
<1>6. placed[runner] \in SUBSET DOMAIN Plan[runner]
  BY <1>1, RunnerTyped DEF RInv, Steps
<1>7. ASSUME NEW i \in placed[runner]
      PROVE  /\ Visible[Plan[runner][i].path] = Plan[runner][i].before
             /\ Visible'[Plan[runner][i].path] = Plan[runner][i].after
  BY <1>1, <1>2, <1>5, RunnerTyped DEF SeenAsReviewed, PlacedAsPlanned, RInv, W
<1>8. ASSUME NEW i \in DOMAIN Plan[runner] \ placed[runner]
      PROVE  \/ Visible[Plan[runner][i].path] = Plan[runner][i].after
             \/ Plan[runner][i].path \in edited
  <2>1. i \in Steps(runner) /\ W(runner, i).path \in Files
    BY <1>1, RunnerTyped DEF RInv, Steps
  <2>2. file[W(runner, i).path] = W(runner, i).after \/ W(runner, i).path \in edited
    BY <2>1 DEF Commit, RInv, Written
  <2>3. \A o \in Ops : \A j \in placed[o] : W(o, j).path # W(runner, i).path
    BY <1>1, <1>3, <2>1, RunnerTyped DEF RInv
  <2> QED
    BY <1>2, <2>1, <2>2, <2>3 DEF SeenAsReviewed, W
<1>9. ASSUME NEW f \in Files, \A i \in placed[runner] : Plan[runner][i].path # f
      PROVE  Visible'[f] = Visible[f]
  BY <1>2, <1>3, <1>5, <1>9 DEF SeenAsReviewed, W
<1>10. SeenAsVault'
  BY VisibleTyped, PTL
<1> QED
  BY <1>1, <1>6, <1>7, <1>8, <1>9, <1>10 DEF SaveIsAtomic!Save, SeenAsVault

\* Another writer's change is an abstract edit: of the file as it is seen, which
\* keeps the reviewed bytes when the change cannot be told from an interrupted save.
LEMMA EditEdits ==
  ASSUME RInv, IInv', NEW f \in Files, NEW c \in EditTo[f], Edit(f, c)
  PROVE  SaveIsAtomic!Edit
<1>1. /\ file' = [file EXCEPT ![f] = c] /\ edited' = edited \cup {f}
      /\ UNCHANGED <<receipts, entries>>
      /\ file \in [Files -> Contents]
  BY DEF Edit, RInv, IInv, TypeOK, disk
<1>2. SeenAsReviewed /\ SeenAsReviewed'
  BY VisibleAt, PTL DEF RInv
<1>3. SeenAsVault /\ SeenAsVault'
  BY VisibleTyped, PTL DEF RInv
<1>4. ASSUME NEW g \in Files, g # f PROVE Visible'[g] = Visible[g]
  <2>1. \A o \in Ops : \A i : W(o, i).path = g => (i \in placed'[o] <=> i \in placed[o])
    BY <1>4 DEF Edit, TakenForOwn
  <2>2. CASE \E o \in Ops : \E i \in placed[o] : W(o, i).path = g
    BY <1>2, <2>1, <2>2 DEF SeenAsReviewed
  <2>3. CASE \A o \in Ops : \A i \in placed[o] : W(o, i).path # g
    BY <1>1, <1>2, <1>4, <2>1, <2>3 DEF SeenAsReviewed
  <2> QED
    BY <2>2, <2>3
<1>5. Visible' = [Visible EXCEPT ![f] = Visible'[f]] /\ Visible'[f] \in Contents
  BY <1>3, <1>4 DEF SeenAsVault
<1> QED
  BY <1>1, <1>5 DEF SaveIsAtomic!Edit

\* Every step of the journalled save is a step of the atomic one, or does not show.
LEMMA NextRefines ==
  RInv /\ IInv' /\ [Next]_vars => [SaveIsAtomic!Next]_(SaveIsAtomic!vars)
<1> SUFFICES ASSUME RInv, IInv', [Next]_vars
    PROVE  SaveIsAtomic!Next \/ UNCHANGED <<Visible, receipts, edited>>
  BY DEF SaveIsAtomic!vars
<1> USE DEF disk, env, RollBack
<1>1. ASSUME NEW o \in Ops, Acquire(o) \/ Refuse(o) \/ TurnAway(o) \/ Expire(o) \/ Bar(o)
      PROVE  UNCHANGED <<Visible, receipts, edited>>
  BY <1>1, Unseeable DEF Acquire, Refuse, TurnAway, Expire, Bar
<1>2. CASE RestoreSkip
  BY <1>2, RestoreSkipStutters
<1>3. CASE RestorePut
  BY <1>3, RestorePutStutters DEF SaveIsAtomic!Next
<1>4. CASE Put
  BY <1>4, PutStutters DEF SaveIsAtomic!Next
<1>5. CASE OpenJournal
  BY <1>5, Unseeable DEF OpenJournal, SaveIsAtomic!Next, SaveIsAtomic!Check
<1>6. CASE Commit
  <2>1. runner \in Ops
    BY <1>6 DEF Commit, RInv, IInv, TypeOK
  <2> QED
    BY <1>6, <2>1, CommitSaves DEF SaveIsAtomic!Next
<1>7. ASSUME NEW f \in Files, NEW c \in EditTo[f], Edit(f, c) PROVE SaveIsAtomic!Next
  BY <1>7, EditEdits DEF SaveIsAtomic!Next
<1>8. CASE RestoreDecide \/ RestoreRefused \/ RestoreGone \/ DropJournal \/ DropMarker
  BY <1>8, Unseeable DEF RestoreDecide, RestoreRefused, RestoreGone, DropJournal, DropMarker
<1>9. CASE PreflightRefused \/ OpenMarker \/ JournalEntry \/ JournalRefused \/ PutRefused
  BY <1>9, Unseeable DEF PreflightRefused, OpenMarker, JournalEntry, JournalRefused, PutRefused
<1>10. CASE WritesDone \/ VerifyRefused \/ CloseMarker \/ CloseJournal \/ LoopFault \/ Interrupt
  BY <1>10, Unseeable DEF WritesDone, VerifyRefused, CloseMarker, CloseJournal, LoopFault, Interrupt
<1>11. CASE UNCHANGED vars
  BY <1>11, Unseeable DEF vars
<1> QED
  BY <1>1, <1>2, <1>3, <1>4, <1>5, <1>6, <1>7, <1>8, <1>9, <1>10, <1>11 DEF Next, Step

\* The save starts as the atomic one does.
LEMMA InitRefines == Init => SaveIsAtomic!Init
<1> SUFFICES ASSUME Init PROVE Visible = InitialFile /\ receipts = {} /\ edited = {}
  BY DEF SaveIsAtomic!Init
<1>1. \A f \in Files : Visible[f] = InitialFile[f]
  BY DEF Init, Visible
<1>2. Visible = [f \in Files |-> Visible[f]]
  BY DEF Visible
<1> QED
  BY <1>1, <1>2, PlanAssumption DEF Init

\* `kb apply` of a plan is one atomic save, whatever dies, is retried or is edited
\* meanwhile: only a file that was edited since the preflight may show anything else.
THEOREM SaveRefinesAtomicSave == Spec => SaveImplementsAtomicSave
<1>1. RInv /\ [Next]_vars => RInv'
  BY NextRInv
<1>2. RInv => IInv
  BY DEF RInv
<1>3. RInv /\ RInv' /\ [Next]_vars => [SaveIsAtomic!Next]_(SaveIsAtomic!vars)
  BY NextRefines DEF RInv
<1> QED
  BY <1>1, <1>3, InitRInv, InitRefines, PTL
     DEF Spec, SaveImplementsAtomicSave, SaveIsAtomic!Spec

\* What the Vault shows of a file changes with the receipt of a plan that was reviewed
\* against what it showed, or another writer touched the file after the preflight.
ShownOnlyByReceipts ==
  [][\A f \in Files : Visible'[f] # Visible[f] =>
       \/ f \in edited'
       \/ \E o \in receipts' \ receipts : \E i \in Steps(o) :
            W(o, i).path = f /\ W(o, i).before = Visible[f] /\ W(o, i).after = Visible'[f]]_vars

\* Whatever dies, fails or is retried, nobody who sees interrupted work taken back sees a
\* file change that no completed plan and no other writer changed.
THEOREM OnlyReceiptsShow == Spec => ShownOnlyByReceipts
<1> DEFINE Shown(f) ==
      \/ f \in edited'
      \/ \E o \in receipts' \ receipts : \E i \in Steps(o) :
           W(o, i).path = f /\ W(o, i).before = Visible[f] /\ W(o, i).after = Visible'[f]
<1>1. RInv /\ [Next]_vars => RInv'
  BY NextRInv
<1>2. ASSUME RInv, RInv', [Next]_vars, NEW f \in Files, Visible'[f] # Visible[f] PROVE Shown(f)
  <2>1. SaveIsAtomic!Next
    BY <1>2, NextRefines DEF RInv, SaveIsAtomic!vars
  <2>2. ~SaveIsAtomic!Check
    BY <1>2 DEF SaveIsAtomic!Check
  <2>3. ASSUME SaveIsAtomic!Edit PROVE Shown(f)
    <3>1. DOMAIN Visible = Files
      BY DEF Visible
    <3> QED
      BY <1>2, <2>3, <3>1 DEF SaveIsAtomic!Edit
  <2>4. ASSUME NEW o \in Ops, SaveIsAtomic!Save(o) PROVE Shown(f)
    <3>1. PICK S \in SUBSET DOMAIN Plan[o] :
            /\ \A i \in S : Visible[Plan[o][i].path] = Plan[o][i].before
            /\ \A i \in S : Visible'[Plan[o][i].path] = Plan[o][i].after
            /\ (\A i \in S : Plan[o][i].path # f) => Visible'[f] = Visible[f]
      BY <2>4 DEF SaveIsAtomic!Save
    <3>2. PICK i \in S : Plan[o][i].path = f
      BY <1>2, <3>1
    <3>3. i \in DOMAIN Plan[o]
      BY <3>1, <3>2
    <3>4. W(o, i).path = f /\ W(o, i).before = Visible[f] /\ W(o, i).after = Visible'[f]
      BY <3>1, <3>2 DEF W
    <3>5. o \in receipts' \ receipts
      BY <2>4 DEF SaveIsAtomic!Save
    <3> QED
      BY <3>3, <3>4, <3>5 DEF Steps
  <2> QED
    BY <2>1, <2>2, <2>3, <2>4 DEF SaveIsAtomic!Next
<1>3. RInv /\ RInv' /\ [Next]_vars =>
        [\A f \in Files : Visible'[f] # Visible[f] => Shown(f)]_vars
  BY <1>2
<1> QED
  BY <1>1, <1>3, InitRInv, PTL DEF Spec, ShownOnlyByReceipts
=============================================================================
