------------------------ MODULE JournalledSaveProofs ------------------------
(***************************************************************************)
(* What holds of the journalled save for every set of operations, plans,   *)
(* files and edits, and without any bound on edits, deaths and IO errors.  *)
(*                                                                         *)
(* The argument: at most one operation is pending, and everything it has   *)
(* put into the Vault is in its journal (module-level invariant Pending);  *)
(* where the running apply is says what its journal holds (AtWork).        *)
(***************************************************************************)
EXTENDS JournalledSave, TLAPS

\* A marker names an operation of its kind, and no two operations have one.
MarkersAgree ==
  /\ \A k \in Kinds : marker[k] # NoOp => KindOf[marker[k]] = k
  /\ \A k, l \in Kinds : marker[k] # NoOp /\ marker[l] # NoOp => marker[k] = marker[l]

\* Uncommitted bytes are journalled, and a journal with entries has its marker.
PendingOf(o) ==
  /\ o \notin journalled => entries[o] = {}
  /\ o \notin receipts /\ entries[o] # {} => marker[KindOf[o]] = o
  /\ placed[o] # {} => placed[o] \subseteq entries[o] /\ o \notin receipts

Pending == \A o \in Ops : PendingOf(o)

\* What the running apply knows from the place it has reached.
AtWork ==
  runner # NoOp =>
    /\ \A k \in Kinds : marker[k] \in {NoOp, runner}
    /\ outcome[runner] = "running"
    /\ pc \in {"closeMarker", "closeJournal"} <=> runner \in receipts
    /\ pc \in {"save", "put", "receipt"} =>
         runner \in journalled /\ marker[KindOf[runner]] = runner
    /\ pc = "put" => at \in entries[runner]
    /\ pc \in {"restore", "restorePut"} =>
         todo \subseteq entries[runner] /\ placed[runner] \subseteq todo
    /\ pc \in {"dropMarker", "preflight", "openMarker"} => entries[runner] = {}
    /\ pc = "openMarker" => runner \in journalled
    /\ pc \in {"dropMarker", "preflight"} => runner \notin journalled

\* An apply that its preflight refused or its loop undid left no journal.
CleanFailures == \A o \in Ops : outcome[o] \in Clean => o \notin journalled

IInv == TypeOK /\ MarkersAgree /\ Pending /\ AtWork /\ CleanFailures

-----------------------------------------------------------------------------
(* The plans                                                               *)

\* Every reviewed write is a write, at an integer position of its plan.
LEMMA PlanTyped ==
  /\ \A o \in Ops : Steps(o) \subseteq Int
  /\ \A o \in Ops : \A i \in Steps(o) :
       W(o, i).path \in Files /\ W(o, i).before \in Contents /\ W(o, i).after \in Contents
<1> SUFFICES ASSUME NEW o \in Ops
    PROVE  /\ Steps(o) \subseteq Int
           /\ \A i \in Steps(o) : W(o, i).path \in Files /\ W(o, i).before \in Contents
                               /\ W(o, i).after \in Contents
  OBVIOUS
<1>1. Plan[o] \in Seq(Write)
  BY PlanAssumption
<1>2. Steps(o) = 1..Len(Plan[o])
  BY <1>1 DEF Steps
<1>3. ASSUME NEW i \in Steps(o) PROVE Plan[o][i] \in Write
  BY <1>1, <1>2, <1>3
<1> QED
  BY <1>2, <1>3 DEF W, Write

\* The kinds of operations are the kinds of markers.
LEMMA KindsTyped == \A o \in Ops : KindOf[o] \in Kinds
BY PlanAssumption

-----------------------------------------------------------------------------
(* Types                                                                   *)

\* Every variable starts with a value of its type.
LEMMA InitTypeOK == Init => TypeOK
BY PlanAssumption DEF Init, TypeOK, Running, Goals, Clean, Outcomes, Unrestored

\* Every step keeps the types: the guards and assignments of each handler fit together.
LEMMA NextTypeOK == TypeOK /\ [Next]_vars => TypeOK'
<1> SUFFICES ASSUME TypeOK, [Next]_vars PROVE TypeOK'
  OBVIOUS
<1> USE PlanAssumption, PlanTyped, KindsTyped DEF TypeOK
<1> USE DEF disk, proc, env, Goto, Return, Running, Goals, Outcomes, Clean, Unrestored
<1>1. ASSUME NEW o \in Ops, Acquire(o) PROVE TypeOK'
  BY <1>1 DEF Acquire
<1>2. ASSUME NEW o \in Ops, (Refuse(o) \/ TurnAway(o)) PROVE TypeOK'
  BY <1>2 DEF Refuse, TurnAway
<1>3. ASSUME NEW o \in Ops, (Expire(o) \/ Bar(o)) PROVE TypeOK'
  BY <1>3 DEF Expire, Bar
<1>4. CASE RestoreSkip
  BY <1>4 DEF RestoreSkip
<1>5. CASE RestoreDecide
  BY <1>5 DEF RestoreDecide
<1>6. CASE RestoreRefused
  BY <1>6 DEF RestoreRefused
<1>7. CASE RestorePut
  BY <1>7 DEF RestorePut
<1>8. CASE RestoreGone
  BY <1>8 DEF RestoreGone
<1>9. CASE DropJournal
  <2>1. runner \in Ops
    BY <1>9 DEF DropJournal
  <2>2. entries' \in [Ops -> SUBSET Int] /\ \A o \in Ops : entries'[o] \subseteq Steps(o)
    BY <1>9, <2>1 DEF DropJournal
  <2>3. journalled' \subseteq Ops
    BY <1>9 DEF DropJournal
  <2> QED
    BY <1>9, <2>1, <2>2, <2>3 DEF DropJournal
<1>10. CASE DropMarker
  <2>1. marker' \in [Kinds -> Ops \cup {NoOp}]
    BY <1>10 DEF DropMarker
  <2>2. UNCHANGED <<file, journalled, entries, receipts, placed, env>> /\ runner \in Ops
    BY <1>10 DEF DropMarker
  <2>3. CASE goal = "recover" /\ Goto("preflight") /\ goal' = "none" /\ UNCHANGED <<todo, at>>
    BY <2>1, <2>2, <2>3
  <2>4. CASE goal # "recover" /\ Return(goal)
    <3>1. outcome' \in [Ops -> Outcomes]
      BY <2>2, <2>4
    <3> QED
      BY <2>1, <2>2, <2>4, <3>1
  <2> QED
    BY <1>10, <2>3, <2>4, Zenon DEF DropMarker
<1>11. CASE OpenJournal
  BY <1>11 DEF OpenJournal
<1>12. CASE PreflightRefused
  <2>1. PICK how \in {"sync_conflict", "stale", "integrity"} : Return(how)
    BY <1>12, Zenon DEF PreflightRefused
  <2>2. UNCHANGED <<file, disk, placed, env>> /\ pc = "preflight"
    BY <1>12 DEF PreflightRefused
  <2> QED
    BY <2>1, <2>2
<1>13. CASE OpenMarker
  BY <1>13 DEF OpenMarker
<1>14. CASE JournalEntry
  BY <1>14 DEF JournalEntry
<1>15. CASE JournalRefused
  BY <1>15 DEF JournalRefused, RollBack
<1>16. CASE Put
  BY <1>16 DEF Put
<1>17. CASE PutRefused
  BY <1>17 DEF PutRefused, RollBack
<1>18. CASE WritesDone
  BY <1>18 DEF WritesDone
<1>19. CASE VerifyRefused
  BY <1>19 DEF VerifyRefused, RollBack
<1>20. CASE Commit
  BY <1>20 DEF Commit
<1>21. CASE CloseMarker
  BY <1>21 DEF CloseMarker
<1>22. CASE CloseJournal
  BY <1>22 DEF CloseJournal
<1>23. CASE LoopFault
  BY <1>23 DEF LoopFault, RollBack
<1>24. CASE Interrupt
  BY <1>24 DEF Interrupt
<1>25. ASSUME NEW f \in Files, NEW c \in EditTo[f], Edit(f, c) PROVE TypeOK'
  BY <1>25 DEF Edit, TakenForOwn
<1>26. CASE UNCHANGED vars
  BY <1>26 DEF vars
<1> QED
  BY <1>1, <1>2, <1>3, <1>4, <1>5, <1>6, <1>7, <1>8, <1>9, <1>10, <1>11, <1>12, <1>13,
     <1>14, <1>15, <1>16, <1>17, <1>18, <1>19, <1>20, <1>21, <1>22, <1>23, <1>24, <1>25,
     <1>26 DEF Next, Step

-----------------------------------------------------------------------------
(* The invariant                                                           *)

\* Nothing is pending in the beginning.
LEMMA InitIInv == Init => IInv
BY InitTypeOK, PlanAssumption
   DEF Init, IInv, MarkersAgree, Pending, PendingOf, AtWork, CleanFailures, Clean

\* Every step of every handler, every death and every edit keeps the invariant.
LEMMA NextIInv == IInv /\ [Next]_vars => IInv'
<1> SUFFICES ASSUME IInv, [Next]_vars PROVE IInv'
  OBVIOUS
<1> USE PlanAssumption, KindsTyped DEF IInv, TypeOK, Running, disk, proc, env, Goto, Return
<1>0. TypeOK'
  BY NextTypeOK
<1>1. ASSUME NEW o \in Ops, Acquire(o) PROVE IInv'
  <2>1. MarkersAgree'
    BY <1>1 DEF Acquire, MarkersAllow, MarkersAgree, AtWork
  <2>2. Pending'
    BY <1>1 DEF Acquire, MarkersAllow, Pending, PendingOf, AtWork
  <2>3. AtWork'
    <3>1. /\ runner' = o /\ o # NoOp /\ outcome'[o] = "running"
          /\ UNCHANGED <<disk, placed>>
          /\ \A k \in Kinds : marker'[k] \in {NoOp, o}
      BY <1>1 DEF Acquire, MarkersAllow
    <3>2. PendingOf(o)
      BY DEF Pending
    <3>3. CASE o \in receipts /\ pc' = "closeMarker" /\ todo' = {} /\ goal' = "none"
      BY <3>1, <3>2, <3>3 DEF AtWork, PendingOf
    <3>4. CASE o \notin receipts /\ o \in journalled /\ pc' = "restore"
                 /\ todo' = entries[o] /\ goal' = "recover"
      BY <3>1, <3>2, <3>4 DEF AtWork, PendingOf
    <3>5. CASE o \notin receipts /\ o \notin journalled /\ pc' = "preflight"
                 /\ todo' = {} /\ goal' = "none"
      BY <3>1, <3>2, <3>5 DEF AtWork, PendingOf
    <3> QED
      BY <1>1, <3>3, <3>4, <3>5 DEF Acquire
  <2>4. CleanFailures'
    BY <1>1 DEF Acquire, MarkersAllow, CleanFailures, AtWork, Clean
  <2> QED
    BY <1>0, <2>1, <2>2, <2>3, <2>4
<1>2. ASSUME NEW o \in Ops, (Refuse(o) \/ TurnAway(o)) PROVE IInv'
  <2>1. MarkersAgree'
    BY <1>2 DEF Refuse, TurnAway, MarkersAgree, AtWork
  <2>2. Pending'
    BY <1>2 DEF Refuse, TurnAway, Pending, PendingOf, AtWork
  <2>3. AtWork'
    BY <1>2 DEF Refuse, TurnAway, AtWork, Pending, PendingOf
  <2>4. CleanFailures'
    BY <1>2 DEF Refuse, TurnAway, CleanFailures, AtWork, Clean
  <2> QED
    BY <1>0, <2>1, <2>2, <2>3, <2>4
<1>3. ASSUME NEW o \in Ops, (Expire(o) \/ Bar(o)) PROVE IInv'
  <2>1. MarkersAgree'
    BY <1>3 DEF Expire, Bar, MarkersAgree, AtWork
  <2>2. Pending'
    BY <1>3 DEF Expire, Bar, Pending, PendingOf, AtWork
  <2>3. AtWork'
    <3>1. UNCHANGED <<disk, proc, placed>>
      BY <1>3 DEF Expire, Bar
    <3> QED
      BY <3>1 DEF AtWork
  <2>4. CleanFailures'
    BY <1>3 DEF Expire, Bar, CleanFailures, AtWork, Clean
  <2> QED
    BY <1>0, <2>1, <2>2, <2>3, <2>4
<1>4. CASE RestoreSkip
  <2>1. MarkersAgree'
    BY <1>4 DEF RestoreSkip, MarkersAgree, AtWork
  <2>2. Pending'
    <3>1. ASSUME NEW o \in Ops, o = runner PROVE PendingOf(o)'
      BY <1>4, <3>1 DEF RestoreSkip, Pending, PendingOf, AtWork
    <3>2. ASSUME NEW o \in Ops, o # runner PROVE PendingOf(o)'
      BY <1>4, <3>2, SMTT(30) DEF RestoreSkip, Pending, PendingOf, AtWork
    <3> QED
      BY <3>1, <3>2 DEF Pending
  <2>3. AtWork'
    BY <1>4 DEF RestoreSkip, AtWork, Pending, PendingOf
  <2>4. CleanFailures'
    BY <1>4 DEF RestoreSkip, CleanFailures, AtWork, Clean
  <2> QED
    BY <1>0, <2>1, <2>2, <2>3, <2>4
<1>5. CASE RestoreDecide
  <2>1. MarkersAgree'
    BY <1>5 DEF RestoreDecide, MarkersAgree, AtWork
  <2>2. Pending'
    BY <1>5 DEF RestoreDecide, Pending, PendingOf, AtWork
  <2>3. AtWork'
    BY <1>5 DEF RestoreDecide, AtWork, Pending, PendingOf
  <2>4. CleanFailures'
    BY <1>5 DEF RestoreDecide, CleanFailures, AtWork, Clean
  <2> QED
    BY <1>0, <2>1, <2>2, <2>3, <2>4
<1>6. CASE RestoreRefused
  <2>1. MarkersAgree'
    BY <1>6 DEF RestoreRefused, MarkersAgree, AtWork
  <2>2. Pending'
    BY <1>6 DEF RestoreRefused, Pending, PendingOf, AtWork
  <2>3. AtWork'
    BY <1>6 DEF RestoreRefused, AtWork, Pending, PendingOf
  <2>4. CleanFailures'
    BY <1>6 DEF RestoreRefused, CleanFailures, AtWork, Clean
  <2> QED
    BY <1>0, <2>1, <2>2, <2>3, <2>4
<1>7. CASE RestorePut
  <2>1. MarkersAgree'
    BY <1>7 DEF RestorePut, MarkersAgree, AtWork
  <2>2. Pending'
    <3>1. ASSUME NEW o \in Ops, o = runner PROVE PendingOf(o)'
      BY <1>7, <3>1 DEF RestorePut, Pending, PendingOf, AtWork
    <3>2. ASSUME NEW o \in Ops, o # runner PROVE PendingOf(o)'
      BY <1>7, <3>2 DEF RestorePut, Pending, PendingOf, AtWork
    <3> QED
      BY <3>1, <3>2 DEF Pending
  <2>3. AtWork'
    BY <1>7 DEF RestorePut, AtWork, Pending, PendingOf
  <2>4. CleanFailures'
    BY <1>7 DEF RestorePut, CleanFailures, AtWork, Clean
  <2> QED
    BY <1>0, <2>1, <2>2, <2>3, <2>4
<1>8. CASE RestoreGone
  <2>1. MarkersAgree'
    BY <1>8 DEF RestoreGone, MarkersAgree, AtWork
  <2>2. Pending'
    BY <1>8 DEF RestoreGone, Pending, PendingOf, AtWork
  <2>3. AtWork'
    BY <1>8 DEF RestoreGone, AtWork, Pending, PendingOf
  <2>4. CleanFailures'
    BY <1>8 DEF RestoreGone, CleanFailures, AtWork, Clean
  <2> QED
    BY <1>0, <2>1, <2>2, <2>3, <2>4
<1>9. CASE DropJournal
  <2>1. MarkersAgree'
    BY <1>9 DEF DropJournal, MarkersAgree, AtWork
  <2>2. Pending'
    <3>1. ASSUME NEW o \in Ops, o = runner PROVE PendingOf(o)'
      BY <1>9, <3>1 DEF DropJournal, Pending, PendingOf, AtWork
    <3>2. ASSUME NEW o \in Ops, o # runner PROVE PendingOf(o)'
      BY <1>9, <3>2 DEF DropJournal, Pending, PendingOf, AtWork
    <3> QED
      BY <3>1, <3>2 DEF Pending
  <2>3. AtWork'
    BY <1>9 DEF DropJournal, AtWork, Pending, PendingOf
  <2>4. CleanFailures'
    BY <1>9 DEF DropJournal, CleanFailures, AtWork, Clean
  <2> QED
    BY <1>0, <2>1, <2>2, <2>3, <2>4
<1>10. CASE DropMarker
  <2>1. MarkersAgree'
    BY <1>10 DEF DropMarker, MarkersAgree, AtWork
  <2>2. Pending'
    BY <1>10 DEF DropMarker, Pending, PendingOf, AtWork
  <2>3. AtWork'
    BY <1>10 DEF DropMarker, AtWork, Pending, PendingOf
  <2>4. CleanFailures'
    BY <1>10 DEF DropMarker, CleanFailures, AtWork, Clean
  <2> QED
    BY <1>0, <2>1, <2>2, <2>3, <2>4
<1>11. CASE OpenJournal
  <2>1. MarkersAgree'
    BY <1>11 DEF OpenJournal, MarkersAgree, AtWork
  <2>2. Pending'
    <3>1. ASSUME NEW o \in Ops, o = runner PROVE PendingOf(o)'
      BY <1>11, <3>1 DEF OpenJournal, Pending, PendingOf, AtWork
    <3>2. ASSUME NEW o \in Ops, o # runner PROVE PendingOf(o)'
      BY <1>11, <3>2 DEF OpenJournal, Pending, PendingOf, AtWork
    <3> QED
      BY <3>1, <3>2 DEF Pending
  <2>3. AtWork'
    BY <1>11 DEF OpenJournal, AtWork, Pending, PendingOf
  <2>4. CleanFailures'
    BY <1>11 DEF OpenJournal, CleanFailures, AtWork, Clean
  <2> QED
    BY <1>0, <2>1, <2>2, <2>3, <2>4
<1>12. CASE PreflightRefused
  <2>1. MarkersAgree'
    BY <1>12 DEF PreflightRefused, MarkersAgree, AtWork
  <2>2. Pending'
    BY <1>12 DEF PreflightRefused, Pending, PendingOf, AtWork
  <2>3. AtWork'
    BY <1>12 DEF PreflightRefused, AtWork, Pending, PendingOf
  <2>4. CleanFailures'
    <3>1. PICK how \in {"sync_conflict", "stale", "integrity"} : Return(how)
      BY <1>12, Zenon DEF PreflightRefused
    <3>2. runner \in Ops /\ runner \notin journalled /\ UNCHANGED journalled
      BY <1>12 DEF PreflightRefused, AtWork
    <3>3. outcome' = [outcome EXCEPT ![runner] = how]
      BY <3>1
    <3> QED
      BY <3>2, <3>3 DEF CleanFailures
  <2> QED
    BY <1>0, <2>1, <2>2, <2>3, <2>4
<1>13. CASE OpenMarker
  <2>1. MarkersAgree'
    BY <1>13 DEF OpenMarker, MarkersAgree, AtWork
  <2>2. Pending'
    <3>1. ASSUME NEW o \in Ops, o = runner PROVE PendingOf(o)'
      BY <1>13, <3>1 DEF OpenMarker, Pending, PendingOf, AtWork
    <3>2. ASSUME NEW o \in Ops, o # runner PROVE PendingOf(o)'
      BY <1>13, <3>2 DEF OpenMarker, Pending, PendingOf, AtWork
    <3> QED
      BY <3>1, <3>2 DEF Pending
  <2>3. AtWork'
    BY <1>13 DEF OpenMarker, AtWork, Pending, PendingOf
  <2>4. CleanFailures'
    BY <1>13 DEF OpenMarker, CleanFailures, AtWork, Clean
  <2> QED
    BY <1>0, <2>1, <2>2, <2>3, <2>4
<1>14. CASE JournalEntry
  <2>1. MarkersAgree'
    BY <1>14 DEF JournalEntry, MarkersAgree, AtWork
  <2>2. Pending'
    <3>1. ASSUME NEW o \in Ops, o = runner PROVE PendingOf(o)'
      <4>1. PICK i \in todo : entries' = [entries EXCEPT ![runner] = @ \cup {i}]
        BY <1>14 DEF JournalEntry
      <4>2. runner \in Ops /\ entries'[runner] = entries[runner] \cup {i}
        BY <1>14, <4>1 DEF JournalEntry
      <4>3. UNCHANGED <<journalled, receipts, marker, placed>> /\ pc = "save"
        BY <1>14 DEF JournalEntry
      <4> QED
        BY <3>1, <4>2, <4>3 DEF Pending, PendingOf, AtWork
    <3>2. ASSUME NEW o \in Ops, o # runner PROVE PendingOf(o)'
      <4>1. entries'[o] = entries[o]
        BY <1>14, <3>2 DEF JournalEntry
      <4>2. UNCHANGED <<journalled, receipts, marker, placed>>
        BY <1>14 DEF JournalEntry
      <4> QED
        BY <4>1, <4>2 DEF Pending, PendingOf
    <3> QED
      BY <3>1, <3>2 DEF Pending
  <2>3. AtWork'
    BY <1>14 DEF JournalEntry, AtWork, Pending, PendingOf
  <2>4. CleanFailures'
    BY <1>14 DEF JournalEntry, CleanFailures, AtWork, Clean
  <2> QED
    BY <1>0, <2>1, <2>2, <2>3, <2>4
<1>15. CASE JournalRefused
  <2>1. MarkersAgree'
    BY <1>15 DEF JournalRefused, RollBack, MarkersAgree, AtWork
  <2>2. Pending'
    BY <1>15 DEF JournalRefused, RollBack, Pending, PendingOf, AtWork
  <2>3. AtWork'
    BY <1>15 DEF JournalRefused, RollBack, AtWork, Pending, PendingOf
  <2>4. CleanFailures'
    BY <1>15 DEF JournalRefused, RollBack, CleanFailures, AtWork, Clean
  <2> QED
    BY <1>0, <2>1, <2>2, <2>3, <2>4
<1>16. CASE Put
  <2>1. MarkersAgree'
    BY <1>16 DEF Put, MarkersAgree, AtWork
  <2>2. Pending'
    BY <1>16 DEF Put, Pending, PendingOf, AtWork
  <2>3. AtWork'
    BY <1>16 DEF Put, AtWork, Pending, PendingOf
  <2>4. CleanFailures'
    BY <1>16 DEF Put, CleanFailures, AtWork, Clean
  <2> QED
    BY <1>0, <2>1, <2>2, <2>3, <2>4
<1>17. CASE PutRefused
  <2>1. MarkersAgree'
    BY <1>17 DEF PutRefused, RollBack, MarkersAgree, AtWork
  <2>2. Pending'
    BY <1>17 DEF PutRefused, RollBack, Pending, PendingOf, AtWork
  <2>3. AtWork'
    BY <1>17 DEF PutRefused, RollBack, AtWork, Pending, PendingOf
  <2>4. CleanFailures'
    BY <1>17 DEF PutRefused, RollBack, CleanFailures, AtWork, Clean
  <2> QED
    BY <1>0, <2>1, <2>2, <2>3, <2>4
<1>18. CASE WritesDone
  <2>1. MarkersAgree'
    BY <1>18 DEF WritesDone, MarkersAgree, AtWork
  <2>2. Pending'
    BY <1>18 DEF WritesDone, Pending, PendingOf, AtWork
  <2>3. AtWork'
    BY <1>18 DEF WritesDone, AtWork, Pending, PendingOf
  <2>4. CleanFailures'
    BY <1>18 DEF WritesDone, CleanFailures, AtWork, Clean
  <2> QED
    BY <1>0, <2>1, <2>2, <2>3, <2>4
<1>19. CASE VerifyRefused
  <2>1. MarkersAgree'
    BY <1>19 DEF VerifyRefused, RollBack, MarkersAgree, AtWork
  <2>2. Pending'
    BY <1>19 DEF VerifyRefused, RollBack, Pending, PendingOf, AtWork
  <2>3. AtWork'
    BY <1>19 DEF VerifyRefused, RollBack, AtWork, Pending, PendingOf
  <2>4. CleanFailures'
    BY <1>19 DEF VerifyRefused, RollBack, CleanFailures, AtWork, Clean
  <2> QED
    BY <1>0, <2>1, <2>2, <2>3, <2>4
<1>20. CASE Commit
  <2>1. MarkersAgree'
    BY <1>20 DEF Commit, MarkersAgree, AtWork
  <2>2. Pending'
    <3>1. ASSUME NEW o \in Ops, o = runner PROVE PendingOf(o)'
      BY <1>20, <3>1 DEF Commit, Pending, PendingOf, AtWork
    <3>2. ASSUME NEW o \in Ops, o # runner PROVE PendingOf(o)'
      BY <1>20, <3>2 DEF Commit, Pending, PendingOf, AtWork
    <3> QED
      BY <3>1, <3>2 DEF Pending
  <2>3. AtWork'
    BY <1>20 DEF Commit, AtWork, Pending, PendingOf
  <2>4. CleanFailures'
    BY <1>20 DEF Commit, CleanFailures, AtWork, Clean
  <2> QED
    BY <1>0, <2>1, <2>2, <2>3, <2>4
<1>21. CASE CloseMarker
  <2>1. MarkersAgree'
    BY <1>21 DEF CloseMarker, MarkersAgree, AtWork
  <2>2. Pending'
    BY <1>21 DEF CloseMarker, Pending, PendingOf, AtWork
  <2>3. AtWork'
    BY <1>21 DEF CloseMarker, AtWork, Pending, PendingOf
  <2>4. CleanFailures'
    BY <1>21 DEF CloseMarker, CleanFailures, AtWork, Clean
  <2> QED
    BY <1>0, <2>1, <2>2, <2>3, <2>4
<1>22. CASE CloseJournal
  <2>1. MarkersAgree'
    BY <1>22 DEF CloseJournal, MarkersAgree, AtWork
  <2>2. Pending'
    <3>1. ASSUME NEW o \in Ops, o = runner PROVE PendingOf(o)'
      BY <1>22, <3>1 DEF CloseJournal, Pending, PendingOf, AtWork
    <3>2. ASSUME NEW o \in Ops, o # runner PROVE PendingOf(o)'
      BY <1>22, <3>2 DEF CloseJournal, Pending, PendingOf, AtWork
    <3> QED
      BY <3>1, <3>2 DEF Pending
  <2>3. AtWork'
    BY <1>22 DEF CloseJournal, AtWork, Pending, PendingOf
  <2>4. CleanFailures'
    BY <1>22 DEF CloseJournal, CleanFailures, AtWork, Clean
  <2> QED
    BY <1>0, <2>1, <2>2, <2>3, <2>4
<1>23. CASE LoopFault
  <2>1. MarkersAgree'
    BY <1>23 DEF LoopFault, RollBack, MarkersAgree, AtWork
  <2>2. Pending'
    BY <1>23 DEF LoopFault, RollBack, Pending, PendingOf, AtWork
  <2>3. AtWork'
    BY <1>23 DEF LoopFault, RollBack, AtWork, Pending, PendingOf
  <2>4. CleanFailures'
    BY <1>23 DEF LoopFault, RollBack, CleanFailures, AtWork, Clean
  <2> QED
    BY <1>0, <2>1, <2>2, <2>3, <2>4
<1>24. CASE Interrupt
  <2>1. MarkersAgree'
    BY <1>24 DEF Interrupt, MarkersAgree, AtWork
  <2>2. Pending'
    BY <1>24 DEF Interrupt, Pending, PendingOf, AtWork
  <2>3. AtWork'
    BY <1>24 DEF Interrupt, AtWork, Pending, PendingOf
  <2>4. CleanFailures'
    BY <1>24 DEF Interrupt, CleanFailures, AtWork, Clean
  <2> QED
    BY <1>0, <2>1, <2>2, <2>3, <2>4
<1>25. ASSUME NEW f \in Files, NEW c \in EditTo[f], Edit(f, c) PROVE IInv'
  <2>1. MarkersAgree'
    BY <1>25 DEF Edit, TakenForOwn, MarkersAgree, AtWork
  <2>2. Pending'
    BY <1>25 DEF Edit, TakenForOwn, Pending, PendingOf, AtWork
  <2>3. AtWork'
    BY <1>25 DEF Edit, TakenForOwn, AtWork, Pending, PendingOf
  <2>4. CleanFailures'
    BY <1>25 DEF Edit, TakenForOwn, CleanFailures, AtWork, Clean
  <2> QED
    BY <1>0, <2>1, <2>2, <2>3, <2>4
<1>26. CASE UNCHANGED vars
  <2>1. MarkersAgree'
    BY <1>26 DEF vars, MarkersAgree, AtWork
  <2>2. Pending'
    BY <1>26 DEF vars, Pending, PendingOf, AtWork
  <2>3. AtWork'
    BY <1>26 DEF vars, AtWork, Pending, PendingOf
  <2>4. CleanFailures'
    BY <1>26 DEF vars, CleanFailures, AtWork, Clean
  <2> QED
    BY <1>0, <2>1, <2>2, <2>3, <2>4
<1> QED
  BY <1>1, <1>2, <1>3, <1>4, <1>5, <1>6, <1>7, <1>8, <1>9, <1>10, <1>11, <1>12, <1>13,
     <1>14, <1>15, <1>16, <1>17, <1>18, <1>19, <1>20, <1>21, <1>22, <1>23, <1>24, <1>25, <1>26
     DEF Next, Step

-----------------------------------------------------------------------------
(* Theorems                                                                *)

\* Type correctness of source_apply.rs and knowledge_apply.rs as modelled: whatever
\* plans, edits, deaths and retries there are, every handler finds the state it expects.
THEOREM TypeCorrect == Spec => []TypeOK
<1> QED
  BY InitTypeOK, NextTypeOK, PTL DEF Spec

\* The inductive invariant holds in every reachable state.
THEOREM InvariantHolds == Spec => []IInv
<1> QED
  BY InitIInv, NextIInv, PTL DEF Spec

\* Bytes of an uncommitted save are always in the journal and under the marker of its
\* operation: `restore` can find every one of them.
THEOREM PartialSavesAreJournalled == Spec => []PartialSaveIsJournalled
<1>1. IInv => PartialSaveIsJournalled
  <2> SUFFICES ASSUME IInv, NEW o \in Ops, placed[o] # {}
      PROVE  /\ o \notin receipts
             /\ o \in journalled
             /\ placed[o] \subseteq entries[o]
             /\ marker[KindOf[o]] = o
    BY DEF PartialSaveIsJournalled
  <2>1. o \notin receipts /\ placed[o] \subseteq entries[o]
    BY DEF IInv, Pending, PendingOf
  <2>2. entries[o] # {}
    BY <2>1
  <2> QED
    BY <2>1, <2>2 DEF IInv, Pending, PendingOf
<1> QED
  BY <1>1, InvariantHolds, PTL

\* A query, review or backup that passed ensure_no_pending under the lock sees no part
\* of a save that has not committed.
THEOREM ReadersAreSafe == Spec => []ReadersSeeNoPartialSave
<1>1. IInv => ReadersSeeNoPartialSave
  <2> SUFFICES ASSUME IInv, NothingPending, NEW o \in Ops, placed[o] # {} PROVE FALSE
    BY DEF ReadersSeeNoPartialSave
  <2>1. entries[o] # {} /\ o \notin receipts
    BY DEF IInv, Pending, PendingOf
  <2>2. marker[KindOf[o]] = o
    BY <2>1 DEF IInv, Pending, PendingOf
  <2>3. marker[KindOf[o]] = NoOp
    BY KindsTyped DEF NothingPending
  <2> QED
    BY <2>2, <2>3, PlanAssumption
<1> QED
  BY <1>1, InvariantHolds, PTL

\* ensure_no_other_pending and the check of the own marker keep two operations from
\* ever being in the middle of a save together.
THEOREM OneSaveOnly == Spec => []OneSaveAtATime
<1>1. IInv => OneSaveAtATime
  <2> SUFFICES ASSUME IInv, NEW o \in Ops, NEW q \in Ops,
                      o \notin receipts, q \notin receipts, entries[o] # {}, entries[q] # {}
      PROVE  o = q
    BY DEF OneSaveAtATime
  <2>1. marker[KindOf[o]] = o /\ marker[KindOf[q]] = q
    BY DEF IInv, Pending, PendingOf
  <2> QED
    BY <2>1, KindsTyped, PlanAssumption DEF IInv, MarkersAgree
<1> QED
  BY <1>1, InvariantHolds, PTL

\* An apply whose preflight refused the plan (`plan_stale`, a conflict, a damaged object) or
\* whose loop met an error and was undone left no bytes and no journal behind, whatever an
\* earlier apply of the operation had left.
THEOREM FailuresAreClean == Spec => []FailedApplyLeavesNothing
<1>1. IInv => FailedApplyLeavesNothing
  <2> SUFFICES ASSUME IInv, NEW o \in Ops, outcome[o] \in Clean
      PROVE  placed[o] = {} /\ o \notin journalled
    BY DEF FailedApplyLeavesNothing
  <2>1. o \notin journalled
    BY DEF IInv, CleanFailures
  <2> QED
    BY <2>1 DEF IInv, Pending, PendingOf
<1> QED
  BY <1>1, InvariantHolds, PTL

\* A committed operation is never taken back: a retry of it changes no file.
CommittedStays ==
  [][(runner \in receipts /\ edits' = edits) => (file' = file)]_vars

\* An apply of an operation whose receipt exists changes no file of the Vault.
THEOREM CommitsAreFinal == Spec => CommittedStays
<1>1. IInv /\ [Next]_vars =>
        [(runner \in receipts /\ edits' = edits) => (file' = file)]_vars
  <2> SUFFICES ASSUME IInv, [Next]_vars, runner \in receipts, edits' = edits
      PROVE  file' = file
    OBVIOUS
  <2>1. runner # NoOp
    BY PlanAssumption DEF IInv, TypeOK
  <2>2. pc \in {"closeMarker", "closeJournal"}
    BY <2>1 DEF IInv, AtWork
  <2>3. ASSUME NEW o \in Ops, Acquire(o) \/ Refuse(o) \/ TurnAway(o) \/ Expire(o) \/ Bar(o)
        PROVE  file' = file
    BY <2>3 DEF Acquire, Refuse, TurnAway, Expire, Bar
  <2>4. CASE Step
    BY <2>2, <2>4 DEF Step, RestoreSkip, RestoreDecide, RestoreRefused, RestorePut,
      RestoreGone, DropJournal, DropMarker, OpenJournal, PreflightRefused, OpenMarker,
      JournalEntry, JournalRefused, Put, PutRefused, WritesDone, VerifyRefused, Commit,
      CloseMarker, CloseJournal
  <2>5. CASE LoopFault \/ Interrupt
    BY <2>2, <2>5 DEF LoopFault, Interrupt
  <2>6. ASSUME NEW f \in Files, NEW c \in EditTo[f], Edit(f, c) PROVE FALSE
    BY <2>6 DEF Edit, IInv, TypeOK
  <2>7. CASE UNCHANGED vars
    BY <2>7 DEF vars
  <2> QED
    BY <2>3, <2>4, <2>5, <2>6, <2>7 DEF Next
<1> QED
  BY <1>1, InvariantHolds, PTL DEF Spec, CommittedStays

-----------------------------------------------------------------------------
(* What a commit has written, and over what                                *)

\* During an attempt every write that is no longer to do has its file as reviewed,
\* unless another writer changed it since the preflight.
Written ==
  /\ pc \in {"openMarker", "save", "put", "receipt"} =>
       \A i \in Steps(runner) \ todo :
         file[W(runner, i).path] = W(runner, i).after \/ W(runner, i).path \in edited
  /\ pc = "receipt" => todo = {}

\* Between a comparison and the write that follows it the file is as compared.
AsCompared ==
  QuietWindow =>
    /\ pc = "put" => file[W(runner, at).path] = W(runner, at).before
    /\ pc = "restorePut" => file[W(runner, at).path] = W(runner, at).after

\* Two writes of one plan never share a path (validate_plan, validate_write_set).
LEMMA PathsDiffer ==
  \A o \in Ops : \A i, j \in Steps(o) : W(o, i).path = W(o, j).path => i = j
BY PlanAssumption DEF Steps, W

\* Every step keeps both: a write changes one file of the plan, and what other writers
\* change is remembered.
LEMMA NextWritten == IInv /\ Written /\ AsCompared /\ [Next]_vars => Written' /\ AsCompared'
<1> SUFFICES ASSUME IInv, Written, AsCompared, [Next]_vars PROVE Written' /\ AsCompared'
  OBVIOUS
<1> USE PlanTyped, PathsDiffer DEF IInv, TypeOK, Running, disk, proc, env, Goto, Return
<1> USE DEF Written, AsCompared
<1>1. ASSUME NEW o \in Ops, Acquire(o) PROVE Written' /\ AsCompared'
  BY <1>1 DEF Acquire
<1>2. ASSUME NEW o \in Ops, (Refuse(o) \/ TurnAway(o)) PROVE Written' /\ AsCompared'
  BY <1>2 DEF Refuse, TurnAway
<1>3. ASSUME NEW o \in Ops, (Expire(o) \/ Bar(o)) PROVE Written' /\ AsCompared'
  BY <1>3 DEF Expire, Bar
<1>4. CASE RestoreSkip
  BY <1>4 DEF RestoreSkip
<1>5. CASE RestoreDecide
  BY <1>5 DEF RestoreDecide
<1>6. CASE RestoreRefused
  BY <1>6 DEF RestoreRefused
<1>7. CASE RestorePut
  BY <1>7 DEF RestorePut
<1>8. CASE RestoreGone
  BY <1>8 DEF RestoreGone
<1>9. CASE DropJournal
  BY <1>9 DEF DropJournal
<1>10. CASE DropMarker
  BY <1>10 DEF DropMarker
<1>11. CASE OpenJournal
  BY <1>11 DEF OpenJournal, ObjectPresent, ObjectsIntact
<1>12. CASE PreflightRefused
  BY <1>12 DEF PreflightRefused
<1>13. CASE OpenMarker
  BY <1>13 DEF OpenMarker
<1>14. CASE JournalEntry
  BY <1>14 DEF JournalEntry
<1>15. CASE JournalRefused
  BY <1>15 DEF JournalRefused, RollBack
<1>16. CASE Put
  BY <1>16 DEF Put
<1>17. CASE PutRefused
  BY <1>17 DEF PutRefused, RollBack
<1>18. CASE WritesDone
  BY <1>18 DEF WritesDone
<1>19. CASE VerifyRefused
  BY <1>19 DEF VerifyRefused, RollBack
<1>20. CASE Commit
  BY <1>20 DEF Commit
<1>21. CASE CloseMarker
  BY <1>21 DEF CloseMarker
<1>22. CASE CloseJournal
  BY <1>22 DEF CloseJournal
<1>23. CASE LoopFault
  BY <1>23 DEF LoopFault, RollBack
<1>24. CASE Interrupt
  BY <1>24 DEF Interrupt
<1>25. ASSUME NEW f \in Files, NEW c \in EditTo[f], Edit(f, c) PROVE Written' /\ AsCompared'
  BY <1>25 DEF Edit, Unseen
<1>26. CASE UNCHANGED vars
  BY <1>26 DEF vars
<1> QED
  BY <1>1, <1>2, <1>3, <1>4, <1>5, <1>6, <1>7, <1>8, <1>9, <1>10, <1>11, <1>12, <1>13,
     <1>14, <1>15, <1>16, <1>17, <1>18, <1>19, <1>20, <1>21, <1>22, <1>23, <1>24, <1>25, <1>26
     DEF Next, Step

\* A receipt is written only when each reviewed file holds what the plan says or was
\* changed by somebody else after the preflight.
THEOREM CommitsAreComplete == Spec => CommitIsComplete
<1>1. Init => Written /\ AsCompared
  BY DEF Init, Written, AsCompared
<1>2. IInv /\ Written /\ [Next]_vars =>
        [\A o \in receipts' \ receipts : \A i \in Steps(o) :
           (file[W(o, i).path] = W(o, i).after) \/ (W(o, i).path \in edited)]_vars
  <2> SUFFICES ASSUME IInv, Written, [Next]_vars, NEW o \in receipts' \ receipts
      PROVE  o = runner /\ pc = "receipt"
    BY DEF Written
  <2> QED
    BY DEF Next, Step, vars, disk, Acquire, Refuse, TurnAway, Expire, Bar, RestoreSkip, RestoreDecide,
      RestoreRefused, RestorePut, RestoreGone, DropJournal, DropMarker, OpenJournal,
      PreflightRefused, OpenMarker, JournalEntry, JournalRefused, Put, PutRefused,
      WritesDone, VerifyRefused, Commit, CloseMarker, CloseJournal, LoopFault, RollBack,
      Interrupt, Edit
<1> QED
  BY <1>1, <1>2, NextWritten, InvariantHolds, PTL DEF Spec, CommitIsComplete

\* If other writers keep out of the moments between a comparison and its write, the
\* tool replaces only reviewed bytes by planned ones, or planned ones by reviewed ones.
THEOREM KnownBytesOnly == ASSUME QuietWindow PROVE Spec => OnlyKnownBytesReplaced
<1>1. Init => Written /\ AsCompared
  BY DEF Init, Written, AsCompared
<1>2. IInv /\ AsCompared /\ [Next]_vars =>
        [edits' = edits =>
           \A f \in Files : file'[f] # file[f] => \E i \in Steps(runner) :
             /\ W(runner, i).path = f
             /\ {file[f], file'[f]} = {W(runner, i).before, W(runner, i).after}]_vars
  <2> SUFFICES ASSUME IInv, AsCompared, [Next]_vars, edits' = edits,
                      NEW f \in Files, file'[f] # file[f]
      PROVE  \E i \in Steps(runner) :
               /\ W(runner, i).path = f
               /\ {file[f], file'[f]} = {W(runner, i).before, W(runner, i).after}
    OBVIOUS
  <2>1. Put \/ RestorePut
    BY DEF Next, Step, vars, disk, Acquire, Refuse, TurnAway, Expire, Bar, RestoreSkip, RestoreDecide,
      RestoreRefused, RestoreGone, DropJournal, DropMarker, OpenJournal,
      PreflightRefused, OpenMarker, JournalEntry, JournalRefused, PutRefused,
      WritesDone, VerifyRefused, Commit, CloseMarker, CloseJournal, LoopFault, RollBack,
      Interrupt, Edit, IInv, TypeOK
  <2>2. at \in Steps(runner) /\ W(runner, at).path = f
    BY <2>1 DEF Put, RestorePut, IInv, TypeOK
  <2>3. {file[f], file'[f]} = {W(runner, at).before, W(runner, at).after}
    BY <2>1, <2>2 DEF Put, RestorePut, AsCompared, IInv, TypeOK
  <2> QED
    BY <2>2, <2>3
<1> QED
  BY <1>1, <1>2, NextWritten, InvariantHolds, PTL DEF Spec, OnlyKnownBytesReplaced
=============================================================================
