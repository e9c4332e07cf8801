--------------------------- MODULE MCVaultUpgrade ---------------------------
(***************************************************************************)
(* A Vault with three managed files.  `old` and `new` are previews; which  *)
(* of them exist, and what `new` was made from, the configuration says.    *)
(*   Outdated: `new` is a preview of a Vault that has long changed.        *)
(*   Second:   `new` repairs files that were removed after `old` was       *)
(*             applied.                                                    *)
(***************************************************************************)
EXTENDS VaultUpgrade

CONSTANTS old, new, kbmd, schema, version,
          noFile, legacy, long, kb1, schema0, schema1, version1, human, clash

MCOps == {old, new}
MCFiles == {kbmd, schema, version}
MCContents == {noFile, legacy, long, kb1, schema0, schema1, version1, human, clash}

MCWrite(f, b, c) == [path |-> f, before |-> b, after |-> c]

OldPlan == <<MCWrite(kbmd, legacy, kb1), MCWrite(schema, schema0, schema1),
             MCWrite(version, noFile, version1)>>
OutdatedPlan ==
  [o \in MCOps |-> IF o = old THEN OldPlan ELSE <<MCWrite(kbmd, long, kb1)>>]
SecondPlan ==
  [o \in MCOps |-> IF o = old THEN OldPlan
     ELSE <<MCWrite(schema, noFile, schema1), MCWrite(version, noFile, version1)>>]

MCInitialFile ==
  [f \in MCFiles |-> IF f = kbmd THEN legacy ELSE IF f = schema THEN schema0 ELSE noFile]

MCEditTo ==
  [f \in MCFiles |->
     CASE f = kbmd    -> {legacy, human, clash}
       [] f = schema  -> {noFile, schema0, human}
       [] f = version -> {noFile, human}]
=============================================================================
