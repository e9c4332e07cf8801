----------------------------- MODULE MCAdoption -----------------------------
(***************************************************************************)
(* A directory of notes: `wiki` exists and holds `note`.  The framework    *)
(* adds `kb` with `config`, `articles` under `wiki`, and `kbmd`.  Two      *)
(* adoptions may be planned; their `kbmd` is the same, their `config` not. *)
(***************************************************************************)
EXTENDS Adoption

CONSTANTS first, second, kb, wiki, articles, kbmd, config, note,
          template, id1, id2, words, draft

MCOps == {first, second}
MCDirs == {kb, wiki, articles}
MCFiles == {kbmd, config}
MCOrder == <<kb, wiki, articles, kbmd, config>>
MCParent == [p \in MCDirs \cup MCFiles \cup {note} |->
  CASE p \in {kb, wiki, kbmd} -> Root
    [] p \in {articles, note} -> wiki
    [] p = config -> kb]
MCContents == {template, id1, id2, words, draft}
MCGenerated == [o \in MCOps |-> [f \in MCFiles |->
  IF f = kbmd THEN template ELSE IF o = first THEN id1 ELSE id2]]
MCInitialNode == [p \in MCDirs \cup MCFiles \cup {note} |->
  IF p = wiki THEN Directory ELSE IF p = note THEN words ELSE Absent]
MCEditTo == [p \in MCDirs \cup MCFiles \cup {note} |->
  CASE p = kb       -> {Absent, Directory}
    [] p = wiki     -> {}
    [] p = articles -> {Absent, draft, Directory}
    [] p = kbmd     -> {Absent, template, draft}
    [] p = config   -> {draft}
    [] p = note     -> {draft}]
=============================================================================
