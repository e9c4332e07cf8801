-------------------------- MODULE MCJournalledSave --------------------------
(***************************************************************************)
(* A Vault with a captured object, a source record, the Wiki's log and a   *)
(* page.  Three reviewed plans: one source capture and two knowledge saves *)
(* - `kNow` made before the capture is applied, `kThen` made for the Vault *)
(* the capture leaves behind, citing the captured source.                  *)
(***************************************************************************)
EXTENDS JournalledSave

CONSTANTS capture, kNow, kThen,
          object, record, log, page,
          noFile, bytes, record1, log0, log1, log2, page0, page1, human, clash

MCOps == {capture, kNow, kThen}
MCKindOf == [o \in MCOps |-> IF o = capture THEN "source" ELSE "knowledge"]
MCFiles == {object, record, log, page}
MCContents == {noFile, bytes, record1, log0, log1, log2, page0, page1, human, clash}

Creates(f, c) == [path |-> f, before |-> noFile, after |-> c, object |-> FALSE]
Stores(f, c) == [path |-> f, before |-> noFile, after |-> c, object |-> TRUE]
Replaces(f, b, c) == [path |-> f, before |-> b, after |-> c, object |-> FALSE]
Deletes(f, b) == [path |-> f, before |-> b, after |-> noFile, object |-> FALSE]

MCPlan ==
  [o \in MCOps |->
     CASE o = capture -> <<Stores(object, bytes), Creates(record, record1),
                           Replaces(log, log0, log1)>>
       [] o = kNow    -> <<Deletes(page, page0), Replaces(log, log0, log2)>>
       [] o = kThen   -> <<Replaces(page, page0, page1), Replaces(log, log1, log2)>>]

MCNeeds == [o \in MCOps |-> IF o = kThen THEN {<<record, record1>>} ELSE {}]

MCInitialFile ==
  [f \in MCFiles |-> IF f = log THEN log0 ELSE IF f = page THEN page0 ELSE noFile]

\* A person writes something of their own, deletes, or puts an old version
\* back; a synchronisation tool leaves a conflict in the log.
MCEditTo ==
  [f \in MCFiles |->
     CASE f = object -> {bytes, human}
       [] f = record -> {noFile, human}
       [] f = log    -> {log0, log1, clash}
       [] f = page   -> {noFile, page0, human}]
=============================================================================
