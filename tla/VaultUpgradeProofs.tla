------------------------- MODULE VaultUpgradeProofs -------------------------
(***************************************************************************)
(* What holds of the template upgrade for every set of operations, plans,  *)
(* files and edits, and without any bound on edits, deaths and IO errors.  *)
(*                                                                         *)
(* Two layers.  Whatever happens, the bytes an unfinished upgrade has put  *)
(* into the Vault are in its progress file (JournalHolds), and where the   *)
(* call is says what that file and the marker hold (AtWork).  As long as   *)
(* no completed upgrade is replayed over the marker of another one         *)
(* (OwnMarkerOnly, which the code does not guarantee: the run              *)
(* upgrades_replayed) an unfinished upgrade also has its marker (Pending), *)
(* and the files differ from what their last writer left exactly where     *)
(* this upgrade has placed its own (OnlyPlaced, FoundIsKept).              *)
(***************************************************************************)
EXTENDS VaultUpgrade, TLAPS

\* Uncommitted template bytes are in the progress file of an uncommitted upgrade.
JournalOf(o) ==
  /\ o \notin journalled => DOMAIN entries[o] = {}
  /\ placed[o] \subseteq DOMAIN entries[o]
  /\ placed[o] # {} => o \notin receipts

JournalHolds ==
  /\ DOMAIN entries = Ops
  /\ DOMAIN placed = Ops
  /\ \A o \in Ops : JournalOf(o)

\* What the running call knows from the place it has reached.
AtWork ==
  /\ savePending => marker = NoOp
  /\ runner # NoOp =>
       /\ pc \in {"closeMarker", "closeJournal"} <=> runner \in receipts
       /\ pc \in {"restore", "dropMarker", "write", "put"} => marker = runner
       /\ pc \in {"preflight", "openMarker"} => marker = NoOp
       /\ pc \in {"dropMarker", "preflight", "openMarker"} => DOMAIN entries[runner] = {}
       /\ pc \in {"openMarker", "write", "put"} => runner \in journalled /\ ~savePending
       /\ pc = "restore" => todo \subseteq DOMAIN entries[runner] /\ placed[runner] \subseteq todo
       /\ pc = "write" => todo \cap DOMAIN entries[runner] = {}
       /\ pc = "put" => \E i \in todo :
            /\ todo \cap DOMAIN entries[runner] = {i}
            /\ i \notin placed[runner]
            /\ entries[runner][i] = file[W(runner, i).path]

JInv == TypeOK /\ JournalHolds /\ AtWork

\* No completed upgrade is replayed while another one is pending.
OwnMarkerOnly == pc = "closeMarker" => marker \in {runner, NoOp}

\* An uncommitted upgrade with a journalled file has its marker.
Pending == \A o \in Ops : o \notin receipts /\ DOMAIN entries[o] # {} => marker = o

\* A placed file holds the template, and the journal what stood there before; a
\* file that is journalled and not placed is not mistaken for a placed one.
FoundIsKept ==
  \A o \in Ops : o \notin receipts => \A i \in DOMAIN entries[o] :
    /\ i \in placed[o] => /\ file[W(o, i).path] = W(o, i).after
                          /\ others[W(o, i).path] = entries[o][i]
    /\ i \notin placed[o] /\ file[W(o, i).path] = W(o, i).after => entries[o][i] = W(o, i).after

\* A file that is not as its last other writer left it was placed by an upgrade.
OnlyPlaced ==
  \A f \in Files : file[f] # others[f] => \E o \in Ops : \E i \in placed[o] : W(o, i).path = f

IInv == JInv /\ Pending /\ FoundIsKept /\ OnlyPlaced

-----------------------------------------------------------------------------
(* The plans                                                               *)

\* Every reviewed write is a write, at an integer position of its plan.
LEMMA PlanTyped ==
  /\ \A o \in Ops : Steps(o) \subseteq Int
  /\ \A o \in Ops : \A i \in Steps(o) :
       W(o, i).path \in Files /\ W(o, i).before \in Contents /\ W(o, i).after \in Contents
<1> SUFFICES ASSUME NEW o \in Ops
    PROVE  /\ Steps(o) \subseteq Int
           /\ \A i \in Steps(o) : W(o, i).path \in Files /\ W(o, i).before \in Contents
                               /\ W(o, i).after \in Contents
  OBVIOUS
<1>1. Plan[o] \in Seq(Write)
  BY UpgradePlanAssumption
<1>2. Steps(o) = 1..Len(Plan[o])
  BY DEF Steps
<1>3. ASSUME NEW i \in Steps(o) PROVE Plan[o][i] \in Write
  BY <1>1, <1>2
<1> QED
  BY <1>2, <1>3 DEF W, Write

\* No plan writes a file twice.
LEMMA PathsDiffer ==
  \A o \in Ops : \A i, j \in Steps(o) : W(o, i).path = W(o, j).path => i = j
BY UpgradePlanAssumption DEF Steps, W

-----------------------------------------------------------------------------
(* The progress file                                                       *)

\* Nothing is journalled or placed in the beginning.
LEMMA InitJInv == Init => JInv
<1> SUFFICES ASSUME Init PROVE JInv
  OBVIOUS
<1> USE UpgradePlanAssumption DEF Init, NoEntries
<1>1. TypeOK
  BY DEF TypeOK, Outcomes
<1>2. JournalHolds
  BY DEF JournalHolds, JournalOf
<1>3. AtWork
  BY DEF AtWork
<1> QED
  BY <1>1, <1>2, <1>3 DEF JInv

\* Every step keeps the types and the progress files.
LEMMA NextJInv == JInv /\ [Next]_vars => JInv'
<1> SUFFICES ASSUME JInv, [Next]_vars PROVE JInv'
  OBVIOUS
<1> USE UpgradePlanAssumption, PlanTyped DEF JInv, AtWork, disk, proc, Goto, Return
<1>1. ASSUME NEW o \in Ops, Acquire(o) PROVE JInv'
  <2>1. TypeOK'
    BY <1>1 DEF Acquire, TypeOK, Running, Outcomes
  <2>2. JournalHolds'
    BY <1>1 DEF Acquire, JournalHolds, JournalOf
  <2>3. AtWork'
    BY <1>1 DEF Acquire, Recoverable, JournalHolds, JournalOf
  <2> QED
    BY <2>1, <2>2, <2>3
<1>2. ASSUME NEW o \in Ops, Refuse(o) PROVE JInv'
  <2>1. TypeOK'
    BY <1>2 DEF Refuse, TypeOK, Outcomes
  <2>2. JournalHolds'
    BY <1>2 DEF Refuse, JournalHolds, JournalOf
  <2>3. AtWork'
    BY <1>2 DEF Refuse
  <2> QED
    BY <2>1, <2>2, <2>3
<1>3. CASE RestoreFile
  <2>1. TypeOK'
    BY <1>3 DEF RestoreFile, TypeOK
  <2>2. JournalHolds'
    BY <1>3 DEF RestoreFile, JournalHolds, JournalOf
  <2>3. AtWork'
    BY <1>3 DEF RestoreFile, TypeOK, JournalHolds
  <2> QED
    BY <2>1, <2>2, <2>3
<1>4. CASE RestoreRefused
  <2>1. TypeOK'
    BY <1>4 DEF RestoreRefused, TypeOK, Outcomes
  <2>2. JournalHolds'
    BY <1>4 DEF RestoreRefused, JournalHolds, JournalOf
  <2>3. AtWork'
    BY <1>4 DEF RestoreRefused
  <2> QED
    BY <2>1, <2>2, <2>3
<1>5. CASE DropJournal
  <2>1. TypeOK'
    BY <1>5 DEF DropJournal, NoEntries, TypeOK, Running
  <2>2. JournalHolds'
    BY <1>5 DEF DropJournal, NoEntries, JournalHolds, JournalOf
  <2>3. AtWork'
    BY <1>5 DEF DropJournal, NoEntries, TypeOK, JournalHolds
  <2> QED
    BY <2>1, <2>2, <2>3
<1>6. CASE DropMarker
  <2>1. TypeOK'
    BY <1>6 DEF DropMarker, TypeOK, Running, Outcomes
  <2>2. JournalHolds'
    BY <1>6 DEF DropMarker, JournalHolds, JournalOf
  <2>3. AtWork'
    BY <1>6 DEF DropMarker
  <2> QED
    BY <2>1, <2>2, <2>3
<1>7. CASE OpenJournal
  <2>1. TypeOK'
    BY <1>7 DEF OpenJournal, NoEntries, TypeOK, Running
  <2>2. JournalHolds'
    BY <1>7 DEF OpenJournal, JournalHolds, JournalOf
  <2>3. AtWork'
    BY <1>7 DEF OpenJournal, NoEntries, PreflightPasses
  <2> QED
    BY <2>1, <2>2, <2>3
<1>8. CASE PreflightRefused
  <2>1. TypeOK'
    BY <1>8 DEF PreflightRefused, TypeOK, Outcomes
  <2>2. JournalHolds'
    BY <1>8 DEF PreflightRefused, JournalHolds, JournalOf
  <2>3. AtWork'
    BY <1>8 DEF PreflightRefused
  <2> QED
    BY <2>1, <2>2, <2>3
<1>9. CASE OpenMarker
  <2>1. TypeOK'
    BY <1>9 DEF OpenMarker, TypeOK, Running
  <2>2. JournalHolds'
    BY <1>9 DEF OpenMarker, JournalHolds, JournalOf
  <2>3. AtWork'
    BY <1>9 DEF OpenMarker
  <2> QED
    BY <2>1, <2>2, <2>3
<1>10. CASE JournalEntry
  <2>1. TypeOK'
    BY <1>10 DEF JournalEntry, Found, TypeOK, Running
  <2>2. JournalHolds'
    BY <1>10 DEF JournalEntry, JournalHolds, JournalOf
  <2>3. PICK i \in todo : entries' = [entries EXCEPT ![runner] =
              [j \in DOMAIN @ \cup {i} |-> IF j = i THEN Found(runner, i) ELSE @[j]]]
    BY <1>10, Zenon DEF JournalEntry
  <2>4. /\ runner \in Ops /\ marker = runner /\ runner \in journalled /\ runner \notin receipts
        /\ todo \cap DOMAIN entries[runner] = {} /\ ~savePending
        /\ pc' = "put" /\ UNCHANGED <<file, marker, journalled, receipts, savePending, runner, todo, placed>>
    BY <1>10 DEF JournalEntry, TypeOK
  <2>5. todo \cap DOMAIN entries'[runner] = {i} /\ entries'[runner][i] = file[W(runner, i).path]
    BY <2>3, <2>4 DEF JournalHolds, Found
  <2>6. AtWork'
    BY <2>4, <2>5 DEF JournalHolds, JournalOf
  <2> QED
    BY <2>1, <2>2, <2>6
<1>11. CASE Put
  <2>1. TypeOK'
    BY <1>11 DEF Put, TypeOK, Running
  <2>2. JournalHolds'
    BY <1>11 DEF Put, JournalHolds, JournalOf
  <2>3. AtWork'
    BY <1>11 DEF Put
  <2> QED
    BY <2>1, <2>2, <2>3
<1>12. CASE PutRefused
  <2>1. TypeOK'
    BY <1>12 DEF PutRefused, RollBack, TypeOK, Running
  <2>2. JournalHolds'
    BY <1>12 DEF PutRefused, JournalHolds, JournalOf
  <2>3. AtWork'
    BY <1>12 DEF PutRefused, RollBack, TypeOK, JournalHolds, JournalOf
  <2> QED
    BY <2>1, <2>2, <2>3
<1>13. CASE LoopFault
  <2>1. TypeOK'
    BY <1>13 DEF LoopFault, RollBack, TypeOK, Running
  <2>2. JournalHolds'
    BY <1>13 DEF LoopFault, JournalHolds, JournalOf
  <2>3. AtWork'
    BY <1>13 DEF LoopFault, RollBack, TypeOK, JournalHolds, JournalOf
  <2> QED
    BY <2>1, <2>2, <2>3
<1>14. CASE Commit
  <2>1. TypeOK'
    BY <1>14 DEF Commit, TypeOK, Running
  <2>2. JournalHolds'
    BY <1>14 DEF Commit, JournalHolds, JournalOf
  <2>3. AtWork'
    BY <1>14 DEF Commit
  <2> QED
    BY <2>1, <2>2, <2>3
<1>15. CASE CloseMarker
  <2>1. TypeOK'
    BY <1>15 DEF CloseMarker, TypeOK, Running
  <2>2. JournalHolds'
    BY <1>15 DEF CloseMarker, JournalHolds, JournalOf
  <2>3. AtWork'
    BY <1>15 DEF CloseMarker
  <2> QED
    BY <2>1, <2>2, <2>3
<1>16. CASE CloseJournal
  <2>1. TypeOK'
    BY <1>16 DEF CloseJournal, NoEntries, TypeOK, Outcomes
  <2>2. JournalHolds'
    BY <1>16 DEF CloseJournal, NoEntries, JournalHolds, JournalOf
  <2>3. AtWork'
    BY <1>16 DEF CloseJournal
  <2> QED
    BY <2>1, <2>2, <2>3
<1>17. CASE Crash
  <2>1. TypeOK'
    BY <1>17 DEF Crash, TypeOK, Outcomes
  <2>2. JournalHolds'
    BY <1>17 DEF Crash, JournalHolds, JournalOf
  <2>3. AtWork'
    BY <1>17 DEF Crash
  <2> QED
    BY <2>1, <2>2, <2>3
<1>18. ASSUME NEW f \in Files, NEW c \in EditTo[f], Edit(f, c) PROVE JInv'
  <2>1. TypeOK'
    BY <1>18 DEF Edit, TypeOK
  <2>2. JournalHolds'
    BY <1>18 DEF Edit, JournalHolds, JournalOf
  <2>3. AtWork'
    BY <1>18 DEF Edit, TypeOK
  <2> QED
    BY <2>1, <2>2, <2>3
<1>19. CASE SaveInterrupted
  <2>1. TypeOK'
    BY <1>19 DEF SaveInterrupted, TypeOK
  <2>2. JournalHolds'
    BY <1>19 DEF SaveInterrupted, JournalHolds, JournalOf
  <2>3. AtWork'
    BY <1>19 DEF SaveInterrupted
  <2> QED
    BY <2>1, <2>2, <2>3
<1>20. CASE SaveRecovered
  <2>1. TypeOK'
    BY <1>20 DEF SaveRecovered, TypeOK
  <2>2. JournalHolds'
    BY <1>20 DEF SaveRecovered, JournalHolds, JournalOf
  <2>3. AtWork'
    BY <1>20 DEF SaveRecovered
  <2> QED
    BY <2>1, <2>2, <2>3
<1>21. CASE SwitchVersion
  <2>1. TypeOK'
    BY <1>21 DEF SwitchVersion, TypeOK
  <2>2. JournalHolds'
    BY <1>21 DEF SwitchVersion, JournalHolds, JournalOf
  <2>3. AtWork'
    BY <1>21 DEF SwitchVersion
  <2> QED
    BY <2>1, <2>2, <2>3
<1>22. CASE UNCHANGED vars
  <2>1. TypeOK'
    BY <1>22 DEF vars, TypeOK
  <2>2. JournalHolds'
    BY <1>22 DEF vars, JournalHolds, JournalOf
  <2>3. AtWork'
    BY <1>22 DEF vars
  <2> QED
    BY <2>1, <2>2, <2>3
<1> QED
  BY <1>1, <1>2, <1>3, <1>4, <1>5, <1>6, <1>7, <1>8, <1>9, <1>10, <1>11, <1>12, <1>13,
     <1>14, <1>15, <1>16, <1>17, <1>18, <1>19, <1>20, <1>21, <1>22 DEF Next, Step

\* Nothing is pending in the beginning.
LEMMA InitIInv == Init => IInv
BY InitJInv DEF Init, IInv, Pending, FoundIsKept, OnlyPlaced, NoEntries

-----------------------------------------------------------------------------
(* The template files                                                      *)

\* Every step but the replay of a completed upgrade over another one's marker keeps it.
LEMMA NextIInv == IInv /\ OwnMarkerOnly /\ [Next]_vars => IInv'
<1> SUFFICES ASSUME IInv, OwnMarkerOnly, [Next]_vars PROVE IInv'
  OBVIOUS
<1>0. JInv'
  BY NextJInv DEF IInv
<1> USE UpgradePlanAssumption, PlanTyped, PathsDiffer DEF IInv, JInv, AtWork, OwnMarkerOnly, disk, proc, Goto, Return
<1>1. ASSUME NEW o \in Ops, Acquire(o) PROVE IInv'
  <2>1. Pending'
    BY <1>1 DEF Acquire, Pending
  <2>2. FoundIsKept'
    BY <1>1 DEF Acquire, FoundIsKept
  <2>3. OnlyPlaced'
    BY <1>1 DEF Acquire, OnlyPlaced
  <2> QED
    BY <1>0, <2>1, <2>2, <2>3
<1>2. ASSUME NEW o \in Ops, Refuse(o) PROVE IInv'
  <2>1. Pending'
    BY <1>2 DEF Refuse, Pending
  <2>2. FoundIsKept'
    BY <1>2 DEF Refuse, FoundIsKept
  <2>3. OnlyPlaced'
    BY <1>2 DEF Refuse, OnlyPlaced
  <2> QED
    BY <1>0, <2>1, <2>2, <2>3
<1>3. CASE RestoreFile
  <2>1. Pending'
    BY <1>3 DEF RestoreFile, Pending
  <2>2. FoundIsKept'
    BY <1>3 DEF RestoreFile, TypeOK, FoundIsKept, Pending, JournalHolds
  <2>3. PICK i \in todo :
          /\ file[W(runner, i).path] \in {entries[runner][i], W(runner, i).after}
          /\ file' = [file EXCEPT ![W(runner, i).path] = entries[runner][i]]
          /\ placed' = [placed EXCEPT ![runner] = @ \ {i}]
    BY <1>3 DEF RestoreFile
  <2>4. /\ runner \in Ops /\ runner \notin receipts /\ i \in Steps(runner)
        /\ i \in DOMAIN entries[runner] /\ others' = others
    BY <1>3 DEF RestoreFile, TypeOK
  <2>5. \A o \in Ops : placed[o] # {} => o = runner
    BY <2>4 DEF Pending, JournalHolds, JournalOf
  <2>6. ASSUME NEW g \in Files, file'[g] # others[g]
        PROVE  \E k \in placed'[runner] : W(runner, k).path = g
    <3>1. g # W(runner, i).path \/ i \notin placed[runner]
      BY <2>3, <2>4, <2>6 DEF FoundIsKept, TypeOK
    <3>2. file[g] # others[g]
      BY <2>3, <2>4, <2>6 DEF FoundIsKept
    <3>3. PICK k \in placed[runner] : W(runner, k).path = g
      BY <2>5, <3>2 DEF OnlyPlaced
    <3>4. k # i
      BY <3>1, <3>3
    <3> QED
      BY <2>3, <3>3, <3>4
  <2>7. OnlyPlaced'
    BY <2>4, <2>6 DEF OnlyPlaced
  <2> QED
    BY <1>0, <2>1, <2>2, <2>7
<1>4. CASE RestoreRefused
  <2>1. Pending'
    BY <1>4 DEF RestoreRefused, Pending
  <2>2. FoundIsKept'
    BY <1>4 DEF RestoreRefused, FoundIsKept
  <2>3. OnlyPlaced'
    BY <1>4 DEF RestoreRefused, OnlyPlaced
  <2> QED
    BY <1>0, <2>1, <2>2, <2>3
<1>5. CASE DropJournal
  <2>1. Pending'
    BY <1>5 DEF DropJournal, Pending
  <2>2. FoundIsKept'
    BY <1>5 DEF DropJournal, NoEntries, FoundIsKept
  <2>3. OnlyPlaced'
    BY <1>5 DEF DropJournal, OnlyPlaced
  <2> QED
    BY <1>0, <2>1, <2>2, <2>3
<1>6. CASE DropMarker
  <2>1. Pending'
    BY <1>6 DEF DropMarker, TypeOK, Pending
  <2>2. FoundIsKept'
    BY <1>6 DEF DropMarker, FoundIsKept
  <2>3. OnlyPlaced'
    BY <1>6 DEF DropMarker, OnlyPlaced
  <2> QED
    BY <1>0, <2>1, <2>2, <2>3
<1>7. CASE OpenJournal
  <2>1. Pending'
    BY <1>7 DEF OpenJournal, NoEntries, Pending
  <2>2. FoundIsKept'
    BY <1>7 DEF OpenJournal, NoEntries, FoundIsKept
  <2>3. OnlyPlaced'
    BY <1>7 DEF OpenJournal, OnlyPlaced
  <2> QED
    BY <1>0, <2>1, <2>2, <2>3
<1>8. CASE PreflightRefused
  <2>1. Pending'
    BY <1>8 DEF PreflightRefused, Pending
  <2>2. FoundIsKept'
    BY <1>8 DEF PreflightRefused, FoundIsKept
  <2>3. OnlyPlaced'
    BY <1>8 DEF PreflightRefused, OnlyPlaced
  <2> QED
    BY <1>0, <2>1, <2>2, <2>3
<1>9. CASE OpenMarker
  <2>1. Pending'
    BY <1>9 DEF OpenMarker, TypeOK, Pending
  <2>2. FoundIsKept'
    BY <1>9 DEF OpenMarker, FoundIsKept
  <2>3. OnlyPlaced'
    BY <1>9 DEF OpenMarker, OnlyPlaced
  <2> QED
    BY <1>0, <2>1, <2>2, <2>3
<1>10. CASE JournalEntry
  <2>1. Pending'
    BY <1>10 DEF JournalEntry, Pending
  <2>2. FoundIsKept'
    BY <1>10 DEF JournalEntry, Found, FoundIsKept, JournalHolds, JournalOf
  <2>3. OnlyPlaced'
    BY <1>10 DEF JournalEntry, OnlyPlaced
  <2> QED
    BY <1>0, <2>1, <2>2, <2>3
<1>11. CASE Put
  <2>1. Pending'
    BY <1>11 DEF Put, Pending
  <2>4. PICK i \in todo \cap DOMAIN entries[runner] :
          /\ file' = [file EXCEPT ![W(runner, i).path] = W(runner, i).after]
          /\ placed' = [placed EXCEPT ![runner] = @ \cup {i}]
    BY <1>11 DEF Put
  <2>5. /\ runner \in Ops /\ runner \notin receipts /\ marker = runner /\ i \in Steps(runner)
        /\ i \notin placed[runner] /\ entries[runner][i] = file[W(runner, i).path]
        /\ UNCHANGED <<entries, others, receipts>>
    BY <1>11 DEF Put, TypeOK
  <2>6. others[W(runner, i).path] = entries[runner][i]
    <3>1. \A o \in Ops : \A k \in placed[o] : W(o, k).path # W(runner, i).path
      BY <2>5 DEF Pending, JournalHolds, JournalOf, TypeOK
    <3> QED
      BY <2>5, <3>1 DEF OnlyPlaced
  <2>2. FoundIsKept'
    BY <2>4, <2>5, <2>6 DEF TypeOK, FoundIsKept, Pending, JournalHolds
  <2>3. OnlyPlaced'
    BY <1>11 DEF Put, TypeOK, OnlyPlaced, JournalHolds
  <2> QED
    BY <1>0, <2>1, <2>2, <2>3
<1>12. CASE PutRefused
  <2>1. Pending'
    BY <1>12 DEF PutRefused, Pending
  <2>2. FoundIsKept'
    BY <1>12 DEF PutRefused, FoundIsKept
  <2>3. OnlyPlaced'
    BY <1>12 DEF PutRefused, OnlyPlaced
  <2> QED
    BY <1>0, <2>1, <2>2, <2>3
<1>13. CASE LoopFault
  <2>1. Pending'
    BY <1>13 DEF LoopFault, Pending
  <2>2. FoundIsKept'
    BY <1>13 DEF LoopFault, FoundIsKept
  <2>3. OnlyPlaced'
    BY <1>13 DEF LoopFault, OnlyPlaced
  <2> QED
    BY <1>0, <2>1, <2>2, <2>3
<1>14. CASE Commit
  <2>1. Pending'
    BY <1>14 DEF Commit, Pending
  <2>2. FoundIsKept'
    BY <1>14 DEF Commit, TypeOK, FoundIsKept, Pending
  <2>3. OnlyPlaced'
    BY <1>14 DEF Commit, OnlyPlaced, JournalHolds
  <2> QED
    BY <1>0, <2>1, <2>2, <2>3
<1>15. CASE CloseMarker
  <2>1. Pending'
    BY <1>15 DEF CloseMarker, Pending
  <2>2. FoundIsKept'
    BY <1>15 DEF CloseMarker, FoundIsKept
  <2>3. OnlyPlaced'
    BY <1>15 DEF CloseMarker, OnlyPlaced
  <2> QED
    BY <1>0, <2>1, <2>2, <2>3
<1>16. CASE CloseJournal
  <2>1. Pending'
    BY <1>16 DEF CloseJournal, Pending
  <2>2. FoundIsKept'
    BY <1>16 DEF CloseJournal, FoundIsKept
  <2>3. OnlyPlaced'
    BY <1>16 DEF CloseJournal, OnlyPlaced
  <2> QED
    BY <1>0, <2>1, <2>2, <2>3
<1>17. CASE Crash
  <2>1. Pending'
    BY <1>17 DEF Crash, Pending
  <2>2. FoundIsKept'
    BY <1>17 DEF Crash, FoundIsKept
  <2>3. OnlyPlaced'
    BY <1>17 DEF Crash, OnlyPlaced
  <2> QED
    BY <1>0, <2>1, <2>2, <2>3
<1>18. ASSUME NEW f \in Files, NEW c \in EditTo[f], Edit(f, c) PROVE IInv'
  <2>1. Pending'
    BY <1>18 DEF Edit, Pending
  <2>2. FoundIsKept'
    BY <1>18 DEF Edit, TypeOK, FoundIsKept
  <2>4. ASSUME NEW g \in Files, file'[g] # others'[g]
        PROVE  \E o \in Ops : \E i \in placed'[o] : W(o, i).path = g
    <3>1. g # f /\ file[g] # others[g]
      BY <1>18, <2>4 DEF Edit, TypeOK
    <3>2. PICK o \in Ops : \E i \in placed[o] : W(o, i).path = g
      BY <3>1 DEF OnlyPlaced
    <3> QED
      BY <1>18, <3>1, <3>2 DEF Edit
  <2>3. OnlyPlaced'
    BY <2>4 DEF OnlyPlaced
  <2> QED
    BY <1>0, <2>1, <2>2, <2>3
<1>19. CASE SaveInterrupted
  <2>1. Pending'
    BY <1>19 DEF SaveInterrupted, Pending
  <2>2. FoundIsKept'
    BY <1>19 DEF SaveInterrupted, FoundIsKept
  <2>3. OnlyPlaced'
    BY <1>19 DEF SaveInterrupted, OnlyPlaced
  <2> QED
    BY <1>0, <2>1, <2>2, <2>3
<1>20. CASE SaveRecovered
  <2>1. Pending'
    BY <1>20 DEF SaveRecovered, Pending
  <2>2. FoundIsKept'
    BY <1>20 DEF SaveRecovered, FoundIsKept
  <2>3. OnlyPlaced'
    BY <1>20 DEF SaveRecovered, OnlyPlaced
  <2> QED
    BY <1>0, <2>1, <2>2, <2>3
<1>21. CASE SwitchVersion
  <2>1. Pending'
    BY <1>21 DEF SwitchVersion, Pending
  <2>2. FoundIsKept'
    BY <1>21 DEF SwitchVersion, FoundIsKept
  <2>3. OnlyPlaced'
    BY <1>21 DEF SwitchVersion, OnlyPlaced
  <2> QED
    BY <1>0, <2>1, <2>2, <2>3
<1>22. CASE UNCHANGED vars
  <2>1. Pending'
    BY <1>22 DEF vars, Pending
  <2>2. FoundIsKept'
    BY <1>22 DEF vars, FoundIsKept
  <2>3. OnlyPlaced'
    BY <1>22 DEF vars, OnlyPlaced
  <2> QED
    BY <1>0, <2>1, <2>2, <2>3
<1> QED
  BY <1>1, <1>2, <1>3, <1>4, <1>5, <1>6, <1>7, <1>8, <1>9, <1>10, <1>11, <1>12, <1>13,
     <1>14, <1>15, <1>16, <1>17, <1>18, <1>19, <1>20, <1>21, <1>22 DEF Next, Step


-----------------------------------------------------------------------------
(* Theorems                                                                *)

\* Types, progress files and the place of the running call agree in every state.
THEOREM JournalsHold == Spec => []JInv
<1> QED
  BY InitJInv, NextJInv, PTL DEF Spec

\* Type correctness of vault_upgrade.rs as modelled: every handler finds the state it
\* expects, a restore an entry for every file it puts back.
THEOREM UpgradeTypeCorrect == Spec => []TypeOK
<1>1. JInv => TypeOK
  BY DEF JInv
<1> QED
  BY <1>1, JournalsHold, PTL

\* Template bytes of an upgrade without a receipt are in its progress file, even when its
\* marker was removed by the replay of another one: the bytes they replaced are not lost.
UncommittedIsJournalled ==
  \A o \in Ops : placed[o] # {} =>
    o \in journalled \ receipts /\ placed[o] \subseteq DOMAIN entries[o]

\* ... and that is so unconditionally.
THEOREM UncommittedBytesAreJournalled == Spec => []UncommittedIsJournalled
<1>1. JInv => UncommittedIsJournalled
  BY DEF JInv, JournalHolds, JournalOf, UncommittedIsJournalled
<1> QED
  BY <1>1, JournalsHold, PTL

\* The full invariant, as long as no completed upgrade is replayed over another one.
THEOREM UpgradeInvariant == Spec /\ []OwnMarkerOnly => []IInv
<1> QED
  BY InitIInv, NextIInv, PTL DEF Spec

\* A command that asked for pending operations and found none sees each template file as its
\* last other writer or a completed upgrade left it.
THEOREM ReadersAreSafe == Spec /\ []OwnMarkerOnly => []ReadersSeeNoPartialUpgrade
<1>1. IInv => ReadersSeeNoPartialUpgrade
  <2> SUFFICES ASSUME IInv, NothingPending PROVE file = others
    BY DEF ReadersSeeNoPartialUpgrade
  <2>1. \A o \in Ops : placed[o] = {}
    BY UpgradePlanAssumption DEF IInv, JInv, JournalHolds, JournalOf, Pending, NothingPending
  <2>2. \A f \in Files : file[f] = others[f]
    BY <2>1 DEF IInv, OnlyPlaced
  <2> QED
    BY <2>2 DEF IInv, JInv, TypeOK
<1> QED
  BY <1>1, UpgradeInvariant, PTL

\* The lock, the marker and ensure_no_pending keep an upgrade and a knowledge save from
\* being half done together.
THEOREM OneKindAtATime == Spec /\ []OwnMarkerOnly => []NotBothHalfDone
<1>1. IInv => NotBothHalfDone
  BY UpgradePlanAssumption
     DEF IInv, JInv, JournalHolds, JournalOf, AtWork, Pending, NotBothHalfDone
<1> QED
  BY <1>1, UpgradeInvariant, PTL

-----------------------------------------------------------------------------
(* The upgrade as one step                                                 *)

\* From the preflight to the receipt, a file of the plan was last left as reviewed, or it
\* was edited since; and what is written holds the template, or was edited since.
AsReviewed ==
  pc \in {"openMarker", "write", "put"} => \A i \in Steps(runner) :
    others[W(runner, i).path] = W(runner, i).before \/ W(runner, i).path \in edited

Written ==
  pc \in {"openMarker", "write", "put"} => \A i \in Steps(runner) \ todo :
    i \in placed[runner] \/ W(runner, i).path \in edited

RInv == IInv /\ AsReviewed /\ Written

\* Nobody is at work in the beginning.
LEMMA InitRInv == Init => RInv
BY InitIInv DEF Init, RInv, AsReviewed, Written

\* Without a marker nothing is placed.
LEMMA NothingPlaced == IInv /\ marker = NoOp => file = others
<1> SUFFICES ASSUME IInv, marker = NoOp PROVE file = others
  OBVIOUS
<1>1. \A o \in Ops : placed[o] = {}
  BY UpgradePlanAssumption DEF IInv, JInv, JournalHolds, JournalOf, Pending
<1>2. \A f \in Files : file[f] = others[f]
  BY <1>1 DEF IInv, OnlyPlaced
<1> QED
  BY <1>2 DEF IInv, JInv, TypeOK

\* Every step keeps what was reviewed and what was written apart from what was edited.
LEMMA NextRInv == RInv /\ OwnMarkerOnly /\ [Next]_vars => RInv'
<1> SUFFICES ASSUME RInv, OwnMarkerOnly, [Next]_vars PROVE RInv'
  OBVIOUS
<1>0. IInv' /\ TypeOK
  BY NextIInv DEF RInv, IInv, JInv
<1> USE DEF RInv, disk, proc, Goto, Return
<1>1. ASSUME pc' \notin {"openMarker", "write", "put"} PROVE RInv'
  BY <1>0, <1>1 DEF AsReviewed, Written
<1>2. ASSUME UNCHANGED <<proc, others, placed, edited>> PROVE RInv'
  BY <1>0, <1>2 DEF AsReviewed, Written
<1>3. CASE OpenJournal
  <2>1. marker = NoOp
    BY <1>0, <1>3 DEF OpenJournal, IInv, JInv, AtWork, TypeOK
  <2>2. \A i \in Steps(runner) : others[W(runner, i).path] = W(runner, i).before
    BY <1>3, <2>1, NothingPlaced DEF OpenJournal, PreflightPasses
  <2> QED
    BY <1>0, <1>3, <2>2 DEF OpenJournal, AsReviewed, Written
<1>4. CASE OpenMarker
  BY <1>0, <1>4 DEF OpenMarker, AsReviewed, Written
<1>5. CASE JournalEntry
  BY <1>0, <1>5 DEF JournalEntry, AsReviewed, Written
<1>6. CASE Put
  <2>1. PICK i \in todo : todo' = todo \ {i} /\ placed' = [placed EXCEPT ![runner] = @ \cup {i}]
    BY <1>6 DEF Put
  <2>2. runner \in Ops /\ DOMAIN placed = Ops /\ UNCHANGED <<runner, others, edited>> /\ pc = "put"
    BY <1>0, <1>6 DEF Put, TypeOK, IInv, JInv, JournalHolds
  <2> QED
    BY <1>0, <2>1, <2>2 DEF AsReviewed, Written
<1>7. ASSUME NEW f \in Files, NEW c \in EditTo[f], Edit(f, c) PROVE RInv'
  <2>1. /\ others' = [others EXCEPT ![f] = c] /\ edited' = edited \cup {f}
        /\ \A o \in Ops : placed'[o] = {i \in placed[o] : W(o, i).path # f}
        /\ UNCHANGED <<runner, pc, todo>>
    BY <1>7 DEF Edit
  <2>2. pc # "idle" => runner \in Ops
    BY <1>0 DEF TypeOK
  <2>3. AsReviewed'
    BY <1>0, <2>1, PlanTyped DEF AsReviewed, TypeOK
  <2>4. Written'
    BY <2>1, <2>2 DEF Written
  <2> QED
    BY <1>0, <2>3, <2>4
<1>8. ASSUME NEW o \in Ops, Acquire(o) \/ Refuse(o) PROVE RInv'
  BY <1>0, <1>1, <1>8 DEF Acquire, Refuse
<1>9. CASE RestoreFile \/ RestoreRefused \/ DropJournal \/ DropMarker \/ PreflightRefused
  BY <1>1, <1>9 DEF RestoreFile, RestoreRefused, DropJournal, DropMarker, PreflightRefused
<1>10. CASE PutRefused \/ LoopFault \/ Commit \/ CloseMarker \/ CloseJournal \/ Crash
  BY <1>1, <1>10 DEF PutRefused, LoopFault, RollBack, Commit, CloseMarker, CloseJournal, Crash
<1>11. CASE SaveInterrupted \/ SaveRecovered \/ SwitchVersion \/ UNCHANGED vars
  BY <1>2, <1>11 DEF SaveInterrupted, SaveRecovered, SwitchVersion, vars
<1> QED
  BY <1>3, <1>4, <1>5, <1>6, <1>7, <1>8, <1>9, <1>10, <1>11 DEF Next, Step
\* What an unfinished upgrade gives back is what the last other writer left.
GivesOthersBack == Undone = others

\* ... because a file that is not so left is placed, and journalled once.
LEMMA UndoneIsOthers == IInv => GivesOthersBack
<1> SUFFICES ASSUME IInv PROVE Undone = others
  BY DEF GivesOthersBack
<1> USE DEF IInv, JInv
<1>1. ASSUME NEW f \in Files PROVE Undone[f] = others[f]
  <2>1. CASE \A o \in Ops : \A i \in Steps(o) : ~GivesBack(o, i, f)
    <3>1. Undone[f] = file[f]
      BY <2>1 DEF Undone
    <3>2. \A o \in Ops : \A i \in placed[o] : W(o, i).path # f
      BY <2>1 DEF GivesBack, FoundIsKept, JournalHolds, JournalOf, TypeOK
    <3> QED
      BY <3>1, <3>2 DEF OnlyPlaced
  <2>2. ASSUME NEW o \in Ops, NEW i \in Steps(o), GivesBack(o, i, f) PROVE Undone[f] = others[f]
    <3>1. /\ o \notin receipts /\ i \in DOMAIN entries[o]
          /\ W(o, i).path = f /\ file[f] = W(o, i).after
      BY <2>2 DEF GivesBack
    <3>2. ASSUME NEW p \in Ops, NEW j \in Steps(p), GivesBack(p, j, f) PROVE p = o /\ j = i
      <4>1. p \notin receipts /\ DOMAIN entries[p] # {} /\ W(p, j).path = f
        BY <3>2 DEF GivesBack
      <4>2. p = o
        BY <3>1, <4>1 DEF Pending
      <4> QED
        BY <3>1, <4>1, <4>2, PathsDiffer
    <3>3. o = CHOOSE p \in Ops : \E j \in Steps(p) : GivesBack(p, j, f)
      BY <2>2, <3>2
    <3>4. i = CHOOSE j \in Steps(o) : GivesBack(o, j, f)
      BY <2>2, <3>2
    <3>5. Undone[f] = entries[o][i]
      BY <2>2, <3>3, <3>4 DEF Undone
    <3>6. CASE i \in placed[o]
      BY <3>1, <3>5, <3>6 DEF FoundIsKept
    <3>7. CASE i \notin placed[o]
      <4>1. entries[o][i] = file[f]
        BY <3>1, <3>7 DEF FoundIsKept
      <4>2. ASSUME NEW p \in Ops, NEW j \in placed[p], W(p, j).path = f PROVE FALSE
        <5>1. j \in Steps(p) /\ p \notin receipts /\ DOMAIN entries[p] # {}
          BY <4>2 DEF JournalHolds, JournalOf, TypeOK
        <5>2. p = o
          BY <3>1, <5>1 DEF Pending
        <5> QED
          BY <3>1, <3>7, <4>2, <5>1, <5>2, PathsDiffer
      <4> QED
        BY <3>5, <4>1, <4>2 DEF OnlyPlaced
    <3> QED
      BY <3>6, <3>7
  <2> QED
    BY <2>1, <2>2
<1>2. Undone = [f \in Files |-> Undone[f]] /\ others = [f \in Files |-> others[f]]
  BY DEF Undone, TypeOK
<1> QED
  BY <1>1, <1>2

\* The upgrade starts as the atomic one does.
LEMMA InitRefines == Init => UpgradeIsAtomic!Init
BY InitIInv, UndoneIsOthers DEF GivesOthersBack, Init, UpgradeIsAtomic!Init

\* The receipt makes every placed file appear at once; what is not placed was edited.
LEMMA CommitSaves ==
  RInv /\ IInv' /\ Commit => runner \in Ops /\ UpgradeIsAtomic!Save(runner)
<1> SUFFICES ASSUME RInv, IInv', Commit
    PROVE  runner \in Ops /\ UpgradeIsAtomic!Save(runner)
  OBVIOUS
<1>1. Undone = others /\ Undone' = others'
  <2>1. GivesOthersBack /\ GivesOthersBack'
    BY UndoneIsOthers, PTL DEF RInv
  <2> QED
    BY <2>1 DEF GivesOthersBack
<1> USE DEF RInv, IInv, JInv
<1>2. /\ runner \in Ops /\ pc = "write" /\ todo = {}
      /\ receipts' = receipts \cup {runner}
      /\ others' = [f \in Files |->
           IF \E i \in placed[runner] : W(runner, i).path = f THEN file[f] ELSE others[f]]
      /\ edited' = edited
  BY DEF Commit, TypeOK
<1>3. runner \notin receipts
  BY <1>2, UpgradePlanAssumption DEF AtWork
<1>4. placed[runner] \subseteq Steps(runner) /\ placed[runner] \subseteq DOMAIN entries[runner]
  BY <1>2 DEF TypeOK, JournalHolds, JournalOf
<1>5. ASSUME NEW i \in placed[runner]
      PROVE  /\ \/ others[W(runner, i).path] = W(runner, i).before
                \/ W(runner, i).path \in edited
             /\ others'[W(runner, i).path] = W(runner, i).after
  <2>1. W(runner, i).path \in Files
    BY <1>2, <1>4, PlanTyped
  <2>2. file[W(runner, i).path] = W(runner, i).after
    BY <1>2, <1>3, <1>4 DEF FoundIsKept
  <2> QED
    BY <1>2, <1>4, <2>1, <2>2 DEF AsReviewed
<1>6. ASSUME NEW i \in Steps(runner) \ placed[runner] PROVE W(runner, i).path \in edited
  BY <1>2, <1>6 DEF Written
<1>7. \A f \in Files : (\A i \in placed[runner] : W(runner, i).path # f) => others'[f] = others[f]
  BY <1>2
<1>8. others' \in [Files -> Contents]
  BY <1>2 DEF TypeOK
<1>9. placed[runner] \in SUBSET DOMAIN Plan[runner]
  BY <1>4 DEF Steps
<1>10. /\ \A i \in placed[runner] :
             \/ Undone[Plan[runner][i].path] = Plan[runner][i].before
             \/ TRUE /\ Plan[runner][i].path \in edited
       /\ \A i \in DOMAIN Plan[runner] \ placed[runner] :
             \/ Undone[Plan[runner][i].path] = Plan[runner][i].after
             \/ Plan[runner][i].path \in edited
       /\ \A i \in placed[runner] : Undone'[Plan[runner][i].path] = Plan[runner][i].after
       /\ \A f \in Files :
             (\A i \in placed[runner] : Plan[runner][i].path # f) => Undone'[f] = Undone[f]
       /\ Undone' \in [Files -> Contents]
  BY <1>1, <1>5, <1>6, <1>7, <1>8 DEF Steps, W
<1> QED
  BY <1>2, <1>3, <1>9, <1>10 DEF UpgradeIsAtomic!Save

\* Every step of the upgrade is a step of the atomic one, or does not show.
LEMMA NextRefines ==
  RInv /\ IInv' /\ [Next]_vars => [UpgradeIsAtomic!Next]_(UpgradeIsAtomic!vars)
<1> SUFFICES ASSUME RInv, IInv', [Next]_vars
    PROVE  UpgradeIsAtomic!Next \/ UNCHANGED <<Undone, receipts, edited>>
  BY DEF UpgradeIsAtomic!vars
<1>0. Undone = others /\ Undone' = others'
  <2>1. GivesOthersBack /\ GivesOthersBack'
    BY UndoneIsOthers, PTL DEF RInv
  <2> QED
    BY <2>1 DEF GivesOthersBack
<1> USE DEF disk
<1>1. CASE OpenJournal
  BY <1>0, <1>1 DEF OpenJournal, UpgradeIsAtomic!Next, UpgradeIsAtomic!Check
<1>2. CASE Commit
  BY <1>2, CommitSaves DEF UpgradeIsAtomic!Next
<1>3. ASSUME NEW f \in Files, NEW c \in EditTo[f], Edit(f, c) PROVE UpgradeIsAtomic!Edit
  <2>1. c \in Contents
    BY UpgradePlanAssumption
  <2>2. /\ others' = [others EXCEPT ![f] = c] /\ edited' = edited \cup {f}
        /\ receipts' = receipts
    BY <1>3 DEF Edit
  <2> QED
    BY <1>0, <2>1, <2>2 DEF UpgradeIsAtomic!Edit
<1>4. ASSUME NEW o \in Ops, Acquire(o) \/ Refuse(o) PROVE UNCHANGED <<others, receipts, edited>>
  BY <1>4 DEF Acquire, Refuse
<1>5. CASE RestoreFile \/ RestoreRefused \/ DropJournal \/ DropMarker \/ PreflightRefused
  BY <1>0, <1>5 DEF RestoreFile, RestoreRefused, DropJournal, DropMarker, PreflightRefused
<1>6. CASE OpenMarker \/ JournalEntry \/ Put \/ PutRefused \/ LoopFault
  BY <1>0, <1>6 DEF OpenMarker, JournalEntry, Put, PutRefused, LoopFault
<1>7. CASE CloseMarker \/ CloseJournal \/ Crash
  BY <1>0, <1>7 DEF CloseMarker, CloseJournal, Crash
<1>8. CASE SaveInterrupted \/ SaveRecovered \/ SwitchVersion \/ UNCHANGED vars
  BY <1>0, <1>8 DEF SaveInterrupted, SaveRecovered, SwitchVersion, vars
<1> QED
  BY <1>0, <1>1, <1>2, <1>3, <1>4, <1>5, <1>6, <1>7, <1>8 DEF Next, Step, UpgradeIsAtomic!Next

\* A template upgrade is one atomic step, whatever dies, is retried or is edited meanwhile,
\* if no completed upgrade is replayed over the marker of another one.
THEOREM UpgradeRefinesAtomicSave == Spec /\ []OwnMarkerOnly => UpgradeImplementsAtomicSave
<1>1. RInv /\ OwnMarkerOnly /\ [Next]_vars => RInv'
  BY NextRInv
<1>2. RInv /\ RInv' /\ [Next]_vars => [UpgradeIsAtomic!Next]_(UpgradeIsAtomic!vars)
  BY NextRefines DEF RInv
<1> QED
  BY <1>1, <1>2, InitRInv, InitRefines, PTL
     DEF Spec, UpgradeImplementsAtomicSave, UpgradeIsAtomic!Spec

\* What undoing the unfinished upgrade would leave of a file changes with the receipt of an
\* upgrade that plans this content, or another writer touched it after the preflight.
ShownOnlyByReceipts ==
  [][\A f \in Files : Undone'[f] # Undone[f] =>
       \/ f \in edited'
       \/ \E o \in receipts' \ receipts : \E i \in Steps(o) :
            W(o, i) = [path |-> f, before |-> Undone[f], after |-> Undone'[f]]]_vars

\* What a recovery would give back never changes behind the users' backs: not while files
\* are journalled and replaced, nor while they are restored, nor by a death.
THEOREM OnlyReceiptsShow == Spec /\ []OwnMarkerOnly => ShownOnlyByReceipts
<1> DEFINE Shown(f) ==
      \/ f \in edited'
      \/ \E o \in receipts' \ receipts : \E i \in Steps(o) :
           W(o, i) = [path |-> f, before |-> Undone[f], after |-> Undone'[f]]
<1>1. RInv /\ OwnMarkerOnly /\ [Next]_vars => RInv'
  BY NextRInv
<1>2. ASSUME RInv, RInv', [Next]_vars, NEW f \in Files, Undone'[f] # Undone[f] PROVE Shown(f)
  <2>1. UpgradeIsAtomic!Next
    BY <1>2, NextRefines DEF RInv, UpgradeIsAtomic!vars
  <2>2. ~UpgradeIsAtomic!Check
    BY <1>2 DEF UpgradeIsAtomic!Check
  <2>3. ASSUME UpgradeIsAtomic!Edit PROVE Shown(f)
    <3>1. DOMAIN Undone = Files
      BY DEF Undone
    <3> QED
      BY <1>2, <2>3, <3>1 DEF UpgradeIsAtomic!Edit
  <2>4. ASSUME NEW o \in Ops, UpgradeIsAtomic!Save(o) PROVE Shown(f)
    <3>1. PICK S \in SUBSET DOMAIN Plan[o] :
            /\ \A i \in S : \/ Undone[Plan[o][i].path] = Plan[o][i].before
                            \/ Plan[o][i].path \in edited
            /\ \A i \in S : Undone'[Plan[o][i].path] = Plan[o][i].after
            /\ (\A i \in S : Plan[o][i].path # f) => Undone'[f] = Undone[f]
      BY <2>4 DEF UpgradeIsAtomic!Save
    <3>2. PICK i \in S : Plan[o][i].path = f
      BY <1>2, <3>1
    <3>3. o \in receipts' \ receipts /\ edited' = edited
      BY <2>4 DEF UpgradeIsAtomic!Save
    <3>4. i \in DOMAIN Plan[o] /\ Plan[o][i] \in Write
      BY <2>4, <3>1, <3>2, UpgradePlanAssumption
    <3>5. CASE Undone[f] = Plan[o][i].before
      <4>1. W(o, i) = [path |-> f, before |-> Undone[f], after |-> Undone'[f]]
        BY <3>1, <3>2, <3>4, <3>5 DEF W, Write
      <4> QED
        BY <3>3, <3>4, <4>1 DEF Steps
    <3>6. CASE f \in edited
      BY <3>3, <3>6
    <3> QED
      BY <3>1, <3>2, <3>5, <3>6
  <2> QED
    BY <2>1, <2>2, <2>3, <2>4 DEF UpgradeIsAtomic!Next
<1>3. RInv /\ RInv' /\ [Next]_vars =>
        [\A f \in Files : Undone'[f] # Undone[f] => Shown(f)]_vars
  BY <1>2
<1> QED
  BY <1>1, <1>3, InitRInv, PTL DEF Spec, ShownOnlyByReceipts

\* The hypothesis is about several previews: a Vault with one never meets the replay.
THEOREM OnePreviewIsSafe ==
  ASSUME \A o, q \in Ops : o = q
  PROVE  Spec => /\ [](ReadersSeeNoPartialUpgrade /\ NotBothHalfDone)
                 /\ UpgradeImplementsAtomicSave
<1>1. JInv => OwnMarkerOnly
  BY UpgradePlanAssumption DEF JInv, TypeOK, OwnMarkerOnly
<1> QED
  BY <1>1, JournalsHold, ReadersAreSafe, OneKindAtATime, UpgradeRefinesAtomicSave, PTL
=============================================================================
