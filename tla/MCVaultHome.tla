----------------------------- MODULE MCVaultHome -----------------------------
(***************************************************************************)
(* A Vault at home, and a directory that a Vault is restored to or         *)
(* initialised in.  Each command is given at most once.                    *)
(***************************************************************************)
EXTENDS VaultHome, TLC

CONSTANTS home, copy

MCSymmetry == Permutations(Procs)

Command(op, by, dir, id) ==
  [op |-> op, by |-> by, dir |-> dir, id |-> id, file |-> "none", key |-> "none",
   entry |-> "none", value |-> Unset, path |-> "none", complete |-> TRUE, nth |-> 1]
On(op, dir) == Command(op, "path", dir, 0)
Configure(by, dir, id, file, key, value) ==
  [Command("edit", by, dir, id) EXCEPT !.file = file, !.key = key, !.value = value]
Admit(dir, key, entry, path) ==
  [On("edit", dir) EXCEPT !.file = Admission, !.key = key, !.entry = entry, !.path = path]

MCAdmissions ==
  {[i \in {"notes"} |-> [path |-> "Notes", enabled |-> TRUE]],
   [i \in {"more"} |-> [path |-> "Absent", enabled |-> FALSE]]}
MCFragile == {Rules}
MCOverrides ==
  [environment |-> [limit |-> Unset, mode |-> 2, unknown |-> TRUE],
   cli |-> [limit |-> Unset, mode |-> Unset, unknown |-> FALSE]]
MCUserLayers == {Blank, [Blank EXCEPT !.limit = Zero]}
MCRequests ==
  {On("save", home), On("backup", home), [On("backup", home) EXCEPT !.complete = FALSE],
   On("restore", copy), On("init", copy), On("doctor", copy), On("doctor", home),
   On("register", copy), Command("rebind", "path", copy, 1), Command("unregister", "id", copy, 1),
   Configure("path", home, 0, "user", "limit", 1),
   Configure("path", copy, 0, "user", "mode", 2),
   Configure("id", NoDir, 1, Config, "mode", 2),
   Admit(home, "remove", "notes", "none"),
   Admit(home, "add", "more", "Notes")}

MCInits == {On("init", copy), [On("init", copy) EXCEPT !.nth = 2]}
=============================================================================
