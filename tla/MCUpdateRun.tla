----------------------------- MODULE MCUpdateRun -----------------------------
(***************************************************************************)
(* One operation.  The disk begins with all of the first release, or with *)
(* a Vault whose manifest was removed, or whose KB.md is of the releases   *)
(* before there were manifests.  One fetch of the second release goes well *)
(* at the third attempt of one of its requests, and others do not.         *)
(***************************************************************************)
EXTENDS UpdateRun

MCCliScopes == {[mode |-> "current", vault |-> TRUE], [mode |-> "registered", vault |-> FALSE]}

Disk(manifest, rules, index) ==
  [f \in Files |-> CASE f = "rules" -> <<rules, "plain">> [] f = "manifest" -> manifest
                     [] f = "index" -> index [] OTHER -> 1]
MCBeginnings == {Disk(1, 1, 0), Disk(Gone, Unmarked, 1)}

Entries == <<[name |-> "kb", file |-> TRUE], [name |-> "LICENSE", file |-> TRUE],
             [name |-> "INSTALL.md", file |-> TRUE]>>
Answer(why, after) == [why |-> why, after |-> after]
Ok == Answer("ok", Unset)
Good ==
  [page |-> [official |-> TRUE, prerelease |-> FALSE, version |-> 2],
   requests |-> [r \in {"latest", "sums", "signature", "archive"} |->
                   IF r = "archive" THEN <<Answer("503", 1), Answer("timeout", Unset), Ok>>
                                    ELSE <<Ok, Ok, Ok>>],
   sums |-> [signed |-> TRUE, malformed |-> FALSE,
             lines |-> <<[name |-> <<"archive", 2>>, digest |-> Entries]>>],
   archive |-> Entries,
   kb |-> [version |-> 2, official |-> TRUE, target |-> "ours"]]
MCOffers ==
  {Good,
   [Good EXCEPT !.page.version = 1],
   [Good EXCEPT !.requests["sums"] = <<Answer("429", 4), Ok, Ok>>],
   [Good EXCEPT !.sums.signed = FALSE],
   [Good EXCEPT !.sums.lines = @ \o @],
   [Good EXCEPT !.archive = Tail(@)],
   [Good EXCEPT !.kb.version = 1]}
=============================================================================
