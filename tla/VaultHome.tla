------------------------------ MODULE VaultHome ------------------------------
(***************************************************************************)
(* The life of Vaults on one machine: kb init, the registry of Vaults,     *)
(* kb config and its admission list, the Vault lock with kb doctor's probe *)
(* of it, and kb backup (kb-app/src/init.rs, registry.rs, vault.rs,        *)
(* config/, lock.rs, backup.rs and the handlers of app.rs).                *)
(*                                                                         *)
(* Commands run as processes, each a sequence of the file operations of    *)
(* its handler; two run at a time.  A save stands for the writers that     *)
(* JournalledSave models: it replaces two files under the exclusive lock   *)
(* and leaves its marker when it dies.  People edit their notes, KB.md and *)
(* admission.yml, the archive may be damaged, processes die.               *)
(***************************************************************************)
EXTENDS BackupArchive, Functions

CONSTANTS
  Procs,       \* commands that run at the same time
  Dirs,        \* directories that may be Vaults
  Home,        \* the one that is, at the start, and is registered
  Empty,       \* those that exist at the start and are empty
  NoProc,
  Requests,    \* the commands that may be given
  UserLayers,  \* what the user's configuration may be at the start
  Admissions,  \* what people may make of an admission.yml
  Overrides,   \* what the environment and the command line set
  Fragile,     \* files whose entries in an archive may be damaged
  MaxRequests, MaxEdits, MaxDamage, MaxStops   \* bounds

NoDir == "none"
Request == [op : {"init", "register", "rebind", "unregister", "edit", "save", "backup",
                  "restore", "doctor"},
            by : {"path", "id", "none"},     \* how the Vault is selected
            dir : Dirs \cup {NoDir}, id : Nat,
            file : {"user", Config, Local, Admission, "none"},  \* of an edit
            key : Settings \cup {"vault_id", "add", "remove", "enable", "disable", "none"},
            entry : {"notes", "more", "none"}, value : Values, path : AdmissionPaths \cup {"none"},
            complete : BOOLEAN,              \* of a backup: with the source objects
            nth : Nat]                       \* tells repeated commands apart

ASSUME HomeAssumption ==
  /\ Home \in Dirs /\ Empty \subseteq Dirs \ {Home} /\ NoProc \notin Procs /\ NoDir \notin Dirs
  /\ \A r \in Requests :
       /\ r \in Request
       /\ r.op \in {"init", "restore"} => r.dir \in Dirs
       /\ r.op = "edit" => r.file # "none"
       /\ r.op = "edit" /\ r.file = Admission => r.key \in {"add", "remove", "enable", "disable"}
  /\ \A layer \in UserLayers : DOMAIN layer = DOMAIN Blank
  /\ \A document \in Admissions : Admitted(document) \subseteq AdmissionPaths
  /\ Overrides \in [environment : Override, cli : Override] /\ Fragile \subseteq Files
  /\ {MaxRequests, MaxEdits, MaxDamage, MaxStops} \subseteq Nat

VARIABLES
  tree,      \* [Dirs -> [its files -> contents]]
  exists,    \* directories that exist
  stages,    \* [Dirs -> the processes whose .kb-init-* directory is in it]
  runtime,   \* Vaults with a .kb/runtime
  lockFile,  \* [Dirs -> inode of .kb/runtime/vault.lock, or 0]
  inodes,    \* [Dirs -> inodes that the lock file has had]
  held,      \* [Procs -> the Vault lock that the process holds]
  pending,   \* [Dirs -> the save whose marker is in the Vault, or 0]
  user,      \* config.yml of the user
  registry,  \* vaults.yml: a set of registrations
  regLock,   \* the process that holds registry.lock
  archive,   \* the set of the backup archives: none or one
  proc,      \* [Procs -> what the process is doing]
  issued,    \* identities given to Vaults
  given,     \* the commands that were given, each once
  edits, damage, stops,
  made,      \* history: the backups that were published, with what the Vault held
             \*   when the last of their files had been hashed, and the admission
             \*   that their files were listed by
  expected,  \* history: the settings and registrations that the acknowledged
             \*   changes and what people wrote, each applied to the one before,
             \*   add up to
  raced      \* history: which of the races that no lock decides have happened

vars == <<tree, exists, stages, runtime, lockFile, inodes, held, pending, user, registry,
          regLock, archive, proc, issued, given, edits, damage, stops, made, expected, raced>>
locks == <<runtime, lockFile, inodes>>
world == <<given, edits, damage, stops>>

Idle == [at |-> "idle"]
NoLock == [dir |-> NoDir, inode |-> 0, mode |-> "none"]
NoFiles == [f \in {} |-> 0]
Damaged == 99
Kept == {Config, Local, Admission}   \* settings in a Vault

Written(files, file, document) ==
  [f \in DOMAIN files \cup {file} |-> IF f = file THEN document ELSE files[f]]
Kb(files) == Restrict(files, DOMAIN files \cap Kept)
Template(id) ==
  [f \in {Config, Rules, Page, Admission} |->
     CASE f = Config -> [Blank EXCEPT !.id = id, !.mode = 1]
       [] f = Admission -> [i \in {} |-> 0]
       [] OTHER -> 0]

HomeTree ==
  [f \in {Config, Rules, Page, Object, Note, Admission} |->
     CASE f = Admission -> [i \in {"notes"} |-> [path |-> "Notes", enabled |-> TRUE]]
       [] f = Config -> [Template(1)[Config] EXCEPT !.limit = 1]
       [] f \in {Rules, Page} -> Template(1)[f]
       [] OTHER -> 0]

Init ==
  /\ tree = [d \in Dirs |-> IF d = Home THEN HomeTree ELSE NoFiles]
  /\ exists = {Home} \cup Empty
  /\ stages = [d \in Dirs |-> {}]
  /\ runtime = {Home}
  /\ \E n \in {0, 1} : lockFile = [d \in Dirs |-> IF d = Home THEN n ELSE 0]
  /\ inodes = lockFile
  /\ held = [p \in Procs |-> NoLock]
  /\ pending = [d \in Dirs |-> 0]
  /\ user \in UserLayers
  /\ registry = {[id |-> 1, path |-> Home]}
  /\ regLock = NoProc
  /\ archive = {}
  /\ proc = [p \in Procs |-> Idle]
  /\ issued = 1 /\ given = {} /\ edits = 0 /\ damage = 0 /\ stops = 0
  /\ made = {} /\ raced = {}
  /\ expected = [user |-> user, registry |-> registry,
                 vaults |-> [d \in Dirs |-> Kb(tree[d])]]

-----------------------------------------------------------------------------
(* Which Vault a command means (vault.rs).                                 *)

IsVault(d) == d \in exists /\ Config \in DOMAIN tree[d]    \* inspect_vault
IdOf(d) == tree[d][Config].id
Answers(r) == IsVault(r.path) /\ IdOf(r.path) = r.id       \* verify_record

\* resolve_selector: a path, or a registered identity that the path still has.
BySelector(q) ==
  IF q.by = "path" THEN {d \in {q.dir} : IsVault(d)}
  ELSE {r.path : r \in {s \in registry : s.id = q.id /\ Answers(s)}}

\* resolve_vault: without a selector, the sole registration.
Selected(q) ==
  IF q.by # "none" THEN BySelector(q)
  ELSE {r.path : r \in {s \in registry : registry = {s} /\ Answers(s)}}

WritableSchema(d) == tree[d][Config].schema = Current      \* ensure_mutation_allowed

-----------------------------------------------------------------------------
(* The Vault lock (lock.rs).                                               *)

\* An operating-system lock is of the file that was opened, not of its path.
Compatible(p, d, inode, mode) ==
  \A q \in Procs \ {p} :
    held[q].dir = d /\ held[q].inode = inode => mode = "shared" /\ held[q].mode = "shared"

FaultyInodeOf(d) == lockFile[d]

InodeOf(d) == IF lockFile[d] = 0 THEN inodes[d] + 1 ELSE lockFile[d]

\* VaultLock::acquire, without waiting, and what the handler checks right after.
Locking(p, d, mode, allowed, next) ==
  LET inode == InodeOf(d)
      taken == Compatible(p, d, inode, mode) /\ allowed
  IN /\ runtime' = runtime \cup {d}
     /\ lockFile' = [lockFile EXCEPT ![d] = inode]
     /\ inodes' = [inodes EXCEPT ![d] = IF inode > @ THEN inode ELSE @]
     /\ held' = IF taken THEN [held EXCEPT ![p] = [dir |-> d, inode |-> inode, mode |-> mode]]
                ELSE held
     /\ proc' = [proc EXCEPT ![p] = IF taken THEN next ELSE Idle]

Goes(p, next) == proc' = [proc EXCEPT ![p] = next] /\ UNCHANGED held
Ends(p) == proc' = [proc EXCEPT ![p] = Idle] /\ held' = [held EXCEPT ![p] = NoLock]

Asks(p, q) ==
  /\ proc[p] = Idle /\ q \notin given
  /\ Cardinality(given) < MaxRequests /\ given' = given \cup {q}
  /\ UNCHANGED <<edits, damage, stops>>

\* kb doctor: a probe of the lock, of a directory that has a runtime.
DoctorProbes(p, q) ==
  /\ q.op = "doctor" /\ Asks(p, q) /\ q.dir \in runtime
  /\ Locking(p, q.dir, "exclusive", TRUE,
             [at |-> "probed", dir |-> q.dir, existed |-> lockFile[q.dir] # 0])
  /\ UNCHANGED <<tree, exists, stages, pending, user, registry, regLock, archive, issued,
                 made, expected, raced>>

DoctorUnlocks(p) ==
  /\ proc[p].at = "probed"
  /\ held' = [held EXCEPT ![p] = NoLock]
  /\ proc' = [proc EXCEPT ![p] = IF @.existed THEN Idle ELSE [@ EXCEPT !.at = "unlocked"]]
  /\ UNCHANGED <<tree, exists, stages, locks, pending, user, registry, regLock, archive,
                 issued, world, made, expected, raced>>

DoctorRemoves(p) ==
  /\ proc[p].at = "unlocked"
  /\ lockFile' = [lockFile EXCEPT ![proc[p].dir] = 0]
  /\ raced' = IF \E q \in Procs : held[q].dir = proc[p].dir THEN raced \cup {"lock"} ELSE raced
  /\ Ends(p)
  /\ UNCHANGED <<tree, exists, stages, runtime, inodes, pending, user, registry, regLock,
                 archive, issued, world, made, expected>>

-----------------------------------------------------------------------------
(* A save: marker, two files, marker away.  A retry goes on with the save  *)
(* that was interrupted.                                                   *)

SaveStarts(p, q) ==
  /\ q.op = "save" /\ Asks(p, q)
  /\ \E d \in Selected(q) :
       LET save == IF pending[d] = 0 THEN tree[d][Page] + 1 ELSE pending[d]
       IN /\ WritableSchema(d)
          /\ Locking(p, d, "exclusive", TRUE, [at |-> "marks", dir |-> d, save |-> save])
  /\ UNCHANGED <<tree, exists, stages, pending, user, registry, regLock, archive, issued,
                 made, expected, raced>>

SaveMarks(p) ==
  /\ proc[p].at = "marks"
  /\ pending' = [pending EXCEPT ![proc[p].dir] = proc[p].save]
  /\ Goes(p, [proc[p] EXCEPT !.at = "object"])
  /\ UNCHANGED <<tree, exists, stages, locks, user, registry, regLock, archive, issued,
                 world, made, expected, raced>>

SaveWrites(p) ==
  LET d == proc[p].dir
      f == IF proc[p].at = "object" THEN Object ELSE Page
  IN /\ proc[p].at \in {"object", "page"}
     /\ tree' = [tree EXCEPT ![d] = Written(@, f, proc[p].save)]
     /\ Goes(p, [proc[p] EXCEPT !.at = IF f = Object THEN "page" ELSE "unmarks"])
     /\ UNCHANGED <<exists, stages, locks, pending, user, registry, regLock, archive, issued,
                    world, made, expected, raced>>

SaveEnds(p) ==
  /\ proc[p].at = "unmarks"
  /\ pending' = [pending EXCEPT ![proc[p].dir] = 0]
  /\ Ends(p)
  /\ UNCHANGED <<tree, exists, stages, locks, user, registry, regLock, archive, issued,
                 world, made, expected, raced>>

-----------------------------------------------------------------------------
(* kb config set, unset and admission, with --write (app.rs, config/).  A  *)
(* change reads the file, edits what it read, and replaces the file.       *)

Stored(d, file) ==
  IF file = "user" THEN user ELSE IF file \in DOMAIN tree[d] THEN tree[d][file] ELSE Blank

Change(q, before) ==
  IF q.file = Admission THEN AdmissionEdited(before, q.key, q.entry, q.path)
  ELSE ConfigEdited(before, q.key, q.value)

Layers(d, q, after) ==
  LET layer(file) == IF q.file = file THEN after ELSE Stored(d, file)
  IN <<layer("user"), layer(Config), layer(Local)>>

\* change_config and admission_change: what was read, and what it would become.
Acceptable(d, q, before) ==
  IF q.file = Admission
  THEN /\ AdmissionValid(before, Directories(tree[d]))
       /\ AdmissionEditable(before, q.key, q.entry)
       /\ AdmissionValid(Change(q, before), Directories(tree[d]))
  ELSE /\ ConfigEditable(q.key, q.value)
       /\ Loads(Layers(d, q, Change(q, before)), Overrides)

EditLocks(p, q, d) ==
  /\ WritableSchema(d)
  /\ Locking(p, d, "exclusive", pending[d] = 0, [at |-> "reads", dir |-> d, q |-> q])

EditStarts(p, q) ==
  /\ q.op = "edit" /\ q.file # Admission /\ Asks(p, q)
  /\ \E d \in Selected(q) : EditLocks(p, q, d)
  /\ UNCHANGED <<tree, exists, stages, pending, user, registry, regLock, archive, issued,
                 made, expected, raced>>

AdmissionStarts(p, q) ==
  /\ q.op = "edit" /\ q.file = Admission /\ Asks(p, q)
  /\ \E d \in Selected(q) : EditLocks(p, q, d)
  /\ UNCHANGED <<tree, exists, stages, pending, user, registry, regLock, archive, issued,
                 made, expected, raced>>

EditReads(p) ==
  LET before == Stored(proc[p].dir, proc[p].q.file)
  IN /\ proc[p].at = "reads"
     /\ IF Acceptable(proc[p].dir, proc[p].q, before)
        THEN Goes(p, [at |-> "writes", dir |-> proc[p].dir, q |-> proc[p].q,
                      after |-> Change(proc[p].q, before)])
        ELSE Ends(p)
     /\ UNCHANGED <<tree, exists, stages, locks, pending, user, registry, regLock, archive,
                    issued, world, made, expected, raced>>

Documents(files, file) == IF file \in DOMAIN files THEN files[file] ELSE Blank

\* The user's configuration is changed under the lock of some Vault: a change that
\* another command has read meanwhile, under that of another Vault, will be lost.
OvertakesUserEdit(p) ==
  \E o \in Procs \ {p} :
    proc[o].at = "writes" /\ proc[o].q.file = "user" /\ proc[o].dir # proc[p].dir

EditWrites(p) ==
  LET d == proc[p].dir
      q == proc[p].q
  IN /\ proc[p].at = "writes"
     /\ IF q.file = "user"
        THEN /\ user' = proc[p].after /\ UNCHANGED tree
             /\ expected' = [expected EXCEPT !.user = Change(q, @)]
             /\ raced' = IF OvertakesUserEdit(p) THEN raced \cup {"user"} ELSE raced
        ELSE /\ tree' = [tree EXCEPT ![d] = Written(@, q.file, proc[p].after)]
             /\ expected' = [expected EXCEPT !.vaults[d] =
                               Written(@, q.file, Change(q, Documents(@, q.file)))]
             /\ UNCHANGED <<user, raced>>
     /\ Ends(p)
     /\ UNCHANGED <<exists, stages, locks, pending, registry, regLock, archive, issued, world,
                    made>>

-----------------------------------------------------------------------------
(* kb backup create (app.rs, backup.rs): under the shared lock, and with   *)
(* no save interrupted, every file is hashed and then read again into the  *)
(* archive.                                                                *)

BackupStarts(p, q) ==
  /\ q.op = "backup" /\ Asks(p, q)
  /\ \E d \in Selected(q) :
       Locking(p, d, "shared", pending[d] = 0,
               [at |-> "collects", dir |-> d, complete |-> q.complete])
  /\ UNCHANGED <<tree, exists, stages, pending, user, registry, regLock, archive, issued,
                 made, expected, raced>>

BackupCollects(p) ==
  LET d == proc[p].dir
      admission == tree[d][Admission]
      listed == Listed(tree[d], admission, proc[p].complete)
  IN /\ proc[p].at = "collects"
     /\ IF archive = {} /\ Collectable(tree[d], admission)
        THEN Goes(p, [at |-> "hashes", dir |-> d, complete |-> proc[p].complete,
                      todo |-> listed, files |-> NoFiles,
                      copied |-> NoFiles, snap |-> NoFiles, id |-> IdOf(d),
                      admission |-> admission,
                      roots |-> {"Wiki", ".kb"} \cup Admitted(admission)])
        ELSE Ends(p)
     /\ UNCHANGED <<tree, exists, stages, locks, pending, user, registry, regLock, archive,
                    issued, world, made, expected, raced>>

\* The files are gone through in the order of their paths.
Position(f) == CHOOSE n \in DOMAIN Sorted : Sorted[n] = f
IsFirst(f, files) == f \in files /\ \A g \in files : Position(f) <= Position(g)

BackupHashes(p) ==
  LET d == proc[p].dir
      Hashed(f) == Written(proc[p].files, f, tree[d][f])
      Complete(files) ==
        ManifestValid(Manifest(proc[p].id, proc[p].complete, proc[p].roots, files))
  IN /\ proc[p].at = "hashes"
     /\ \E f \in proc[p].todo :
          LET rest == proc[p].todo \ {f}
          IN /\ IsFirst(f, proc[p].todo)
             /\ IF f \notin DOMAIN tree[d] \/ (rest = {} /\ ~Complete(Hashed(f))) THEN Ends(p)
                ELSE Goes(p, IF rest # {} THEN [proc[p] EXCEPT !.todo = rest, !.files = Hashed(f)]
                             ELSE [proc[p] EXCEPT !.at = "copies", !.files = Hashed(f),
                                     !.todo = DOMAIN Hashed(f),
                                     !.snap = Restrict(tree[d], DOMAIN Hashed(f))])
     /\ UNCHANGED <<tree, exists, stages, locks, pending, user, registry, regLock, archive,
                    issued, world, made, expected, raced>>

FaultyUnchanged(d, f, files) == f \in DOMAIN tree[d]

\* write_archive_contents: the bytes that are copied are the bytes of the manifest.
Unchanged(d, f, files) == f \in DOMAIN tree[d] /\ tree[d][f] = files[f]

\* A file that changed ends the backup; so may an IO error, which needs no step.
BackupCopies(p) ==
  LET d == proc[p].dir
  IN /\ proc[p].at = "copies"
     /\ \E f \in proc[p].todo :
          LET rest == proc[p].todo \ {f}
          IN /\ IsFirst(f, proc[p].todo)
             /\ IF Unchanged(d, f, proc[p].files)
                THEN Goes(p, [proc[p] EXCEPT !.todo = rest, !.copied = Written(@, f, tree[d][f]),
                                             !.at = IF rest = {} THEN "publishes" ELSE @])
                ELSE Ends(p)
     /\ UNCHANGED <<tree, exists, stages, locks, pending, user, registry, regLock, archive,
                    issued, world, made, expected, raced>>

\* persist_noclobber: another backup may have taken the name meanwhile.
BackupPublishes(p) ==
  LET new == [manifest |-> Manifest(proc[p].id, proc[p].complete, proc[p].roots, proc[p].files),
              listed |-> TRUE, entries |-> proc[p].copied]
  IN /\ proc[p].at = "publishes"
     /\ IF archive = {}
        THEN /\ archive' = {new}
             /\ made' = made \cup {[files |-> proc[p].files, snap |-> proc[p].snap,
                                    admission |-> proc[p].admission,
                                    verified |-> Verified(new)]}
        ELSE UNCHANGED <<archive, made>>
     /\ Ends(p)
     /\ UNCHANGED <<tree, exists, stages, locks, pending, user, registry, regLock, issued,
                    world, expected, raced>>

-----------------------------------------------------------------------------
(* kb backup restore (backup.rs).  The stage is beside the target and is   *)
(* removed whatever happens, unless the process dies.                      *)

IsEmpty(d) == d \in exists /\ tree[d] = NoFiles /\ stages[d] = {} /\ d \notin runtime

RestoreStarts(p, q) ==
  /\ q.op = "restore" /\ Asks(p, q)
  /\ \E a \in archive :
       /\ Verified(a) /\ (q.dir \in exists => IsEmpty(q.dir))
       /\ Goes(p, [at |-> "extracts", dir |-> q.dir, existed |-> q.dir \in exists,
                   manifest |-> a.manifest])
  /\ UNCHANGED <<tree, exists, stages, locks, pending, user, registry, regLock, archive,
                 issued, made, expected, raced>>

RestoreExtracts(p) ==
  LET m == proc[p].manifest
      readable == {a \in archive : Extracted(a, m)}
  IN /\ proc[p].at = "extracts"
     /\ IF readable = {} THEN Ends(p)
        ELSE \E a \in readable :
               Goes(p, [at |-> IF proc[p].existed THEN "clears" ELSE "places", dir |-> proc[p].dir,
                        existed |-> proc[p].existed, new |-> FALSE, id |-> m.id,
                        files |-> Restrict(a.entries, DOMAIN m.files)])
     /\ UNCHANGED <<tree, exists, stages, locks, pending, user, registry, regLock, archive,
                    issued, world, made, expected, raced>>

RestoreClears(p) ==
  /\ proc[p].at = "clears"
  /\ IF IsEmpty(proc[p].dir)
     THEN exists' = exists \ {proc[p].dir} /\ Goes(p, [proc[p] EXCEPT !.at = "places"])
     ELSE UNCHANGED exists /\ Ends(p)
  /\ UNCHANGED <<tree, stages, locks, pending, user, registry, regLock, archive, issued, world,
                 made, expected, raced>>

\* A staged Vault is renamed to its place, by restore and by init; a directory
\* that is not empty is in the way.  An init goes on to register the Vault.
Places(p) ==
  LET d == proc[p].dir
  IN /\ proc[p].at = "places" /\ (d \in exists => IsEmpty(d))
     /\ tree' = [tree EXCEPT ![d] = proc[p].files]
     /\ exists' = exists \cup {d}
     /\ runtime' = IF proc[p].new THEN runtime \cup {d} ELSE runtime
     /\ expected' = [expected EXCEPT !.vaults[d] = Kb(proc[p].files)]
     /\ IF proc[p].new THEN Goes(p, [at |-> "inspects", dir |-> d]) ELSE Ends(p)
     /\ UNCHANGED <<stages, lockFile, inodes, pending, user, registry, regLock, archive, issued,
                    world, made, raced>>

\* The rename fails; restore makes the empty target again.
PlaceFails(p) ==
  LET d == proc[p].dir
  IN /\ proc[p].at = "places"
     /\ \/ d \in exists /\ ~IsEmpty(d) /\ UNCHANGED stops
        \/ stops < MaxStops /\ stops' = stops + 1
     /\ exists' = IF proc[p].existed THEN exists \cup {d} ELSE exists
     /\ Ends(p)
     /\ UNCHANGED <<tree, stages, locks, pending, user, registry, regLock, archive, issued,
                    given, edits, damage, made, expected, raced>>

-----------------------------------------------------------------------------
(* kb init (init.rs).  A directory that does not exist is renamed into     *)
(* place; in an empty one, the entries are moved out of a stage inside it. *)

FaultyMoves == <<".kb", "admission.yml", "KB.md", "Wiki">>
Moves == <<"admission.yml", "KB.md", "Wiki", ".kb">>
Under(name) == CASE name = "admission.yml" -> {Admission} [] name = "KB.md" -> {Rules}
                 [] name = "Wiki" -> {Page, Object} [] name = ".kb" -> {Config, Local}

InitStarts(p, q) ==
  /\ q.op = "init" /\ Asks(p, q)
  /\ issued' = issued + 1
  /\ q.dir \in exists => IsEmpty(q.dir)
  /\ Goes(p, [at |-> IF q.dir \in exists THEN "stages" ELSE "places", dir |-> q.dir,
              existed |-> FALSE, new |-> TRUE, id |-> issued', files |-> Template(issued')])
  /\ UNCHANGED <<tree, exists, stages, locks, pending, user, registry, regLock, archive, made,
                 expected, raced>>

\* The stage is made in a directory that was empty when it was looked at.
InitStages(p) ==
  LET d == proc[p].dir
  IN /\ proc[p].at = "stages"
     /\ IF d \in exists
        THEN /\ stages' = [stages EXCEPT ![d] = @ \cup {p}]
             /\ raced' = IF IsEmpty(d) THEN raced ELSE raced \cup {"init"}
             /\ Goes(p, [at |-> "moves", dir |-> d, next |-> 1, files |-> proc[p].files])
        ELSE UNCHANGED <<stages, raced>> /\ Ends(p)
     /\ UNCHANGED <<tree, exists, locks, pending, user, registry, regLock, archive, issued,
                    world, made, expected>>

\* rename replaces a file; a directory with entries is in its way.
Movable(d, name) ==
  /\ name \in {"Wiki", ".kb"} => DOMAIN tree[d] \cap Under(name) = {}
  /\ name = ".kb" => d \notin runtime

InitMoves(p) ==
  LET d == proc[p].dir
      name == Moves[proc[p].next]
      part == DOMAIN proc[p].files \cap Under(name)
      files == [f \in DOMAIN tree[d] \cup part |->
                  IF f \in part THEN proc[p].files[f] ELSE tree[d][f]]
  IN /\ proc[p].at = "moves" /\ Movable(d, name)
     /\ tree' = [tree EXCEPT ![d] = files]
     /\ expected' = [expected EXCEPT !.vaults[d] = Kb(files)]
     /\ runtime' = IF name = ".kb" THEN runtime \cup {d} ELSE runtime
     /\ Goes(p, IF proc[p].next = Len(Moves) THEN [proc[p] EXCEPT !.at = "tidies"]
                ELSE [proc[p] EXCEPT !.next = @ + 1])
     /\ UNCHANGED <<exists, stages, lockFile, inodes, pending, user, registry, regLock, archive,
                    issued, world, made, raced>>

\* What was moved is removed again, by name, and the stage.
InitMoveFails(p) ==
  LET d == proc[p].dir
      name == Moves[proc[p].next]
      moved == {Moves[n] : n \in 1..(proc[p].next - 1)}
      files == Restrict(tree[d], DOMAIN tree[d] \ UNION {Under(m) : m \in moved})
  IN /\ proc[p].at = "moves"
     /\ Movable(d, name) => stops < MaxStops           \* an IO error
     /\ stops' = IF Movable(d, name) THEN stops + 1 ELSE stops
     /\ tree' = [tree EXCEPT ![d] = files]
     /\ expected' = [expected EXCEPT !.vaults[d] = Kb(files)]
     /\ stages' = [stages EXCEPT ![d] = @ \ {p}]
     /\ Ends(p)
     /\ UNCHANGED <<exists, locks, pending, user, registry, regLock, archive, issued, given,
                    edits, damage, made, raced>>

InitTidies(p) ==
  /\ proc[p].at = "tidies"
  /\ stages' = [stages EXCEPT ![proc[p].dir] = @ \ {p}]
  /\ Goes(p, [at |-> "inspects", dir |-> proc[p].dir])
  /\ UNCHANGED <<tree, exists, locks, pending, user, registry, regLock, archive, issued, world,
                 made, expected, raced>>

-----------------------------------------------------------------------------
(* The registry (registry.rs): the directory is inspected first, then the  *)
(* registry lock is waited for, and vaults.yml read, changed and replaced. *)

Registration(id, path) == [id |-> id, path |-> path]
Waits(p, change, id, path) ==
  Goes(p, [at |-> "waits", change |-> change, record |-> Registration(id, path)])

RegistryAsks(p, q) ==
  /\ q.op \in {"register", "rebind", "unregister"} /\ Asks(p, q)
  /\ q.op # "unregister" => IsVault(q.dir)
  /\ q.op = "rebind" => IdOf(q.dir) = q.id
  /\ Waits(p, q.op, IF q.op = "register" THEN IdOf(q.dir) ELSE q.id, q.dir)
  /\ UNCHANGED <<tree, exists, stages, locks, pending, user, registry, regLock, archive,
                 issued, made, expected, raced>>

\* init_and_register_vault: a failure is a warning.
InitRegisters(p) ==
  /\ proc[p].at = "inspects"
  /\ IF IsVault(proc[p].dir) THEN Waits(p, "register", IdOf(proc[p].dir), proc[p].dir)
     ELSE Ends(p)
  /\ UNCHANGED <<tree, exists, stages, locks, pending, user, registry, regLock, archive,
                 issued, world, made, expected, raced>>

FaultyRegistryLoads(p) ==
  /\ proc[p].at = "waits"
  /\ regLock' = p
  /\ Goes(p, [at |-> "stores", change |-> proc[p].change, record |-> proc[p].record,
              loaded |-> registry])
  /\ UNCHANGED <<tree, exists, stages, locks, pending, user, registry, archive, issued, world,
                 made, expected, raced>>

RegistryLoads(p) ==
  /\ proc[p].at = "waits" /\ regLock = NoProc
  /\ regLock' = p
  /\ Goes(p, [at |-> "stores", change |-> proc[p].change, record |-> proc[p].record,
              loaded |-> registry])
  /\ UNCHANGED <<tree, exists, stages, locks, pending, user, registry, archive, issued, world,
                 made, expected, raced>>

PathConflict(records, new) == \E r \in records : r.path = new.path /\ r.id # new.id
IdIn(records, id) == \E r \in records : r.id = id

\* register_vault, rebind_vault, unregister_vault: whether they change the records.
Accepted(change, records, new) ==
  CASE change = "register" ->
         new \in records \/ (~IdIn(records, new.id) /\ ~PathConflict(records, new))
    [] change = "rebind" -> IdIn(records, new.id) /\ ~PathConflict(records, new)
    [] change = "unregister" -> TRUE

Changed(change, records, new) ==
  LET others == {r \in records : r.id # new.id}
  IN IF change = "unregister" THEN others ELSE others \cup {new}

\* validate_registry
RegistryValid(records) ==
  \A r, s \in records : r # s => r.id # s.id /\ r.path # s.path

RegistryStores(p) ==
  LET change == proc[p].change
      new == proc[p].record
      records == Changed(change, proc[p].loaded, new)
  IN /\ proc[p].at = "stores"
     /\ IF Accepted(change, proc[p].loaded, new) /\ RegistryValid(records)
        THEN /\ registry' = records
             /\ expected' = [expected EXCEPT !.registry = Changed(change, @, new)]
        ELSE UNCHANGED <<registry, expected>>
     /\ regLock' = NoProc
     /\ Ends(p)
     /\ UNCHANGED <<tree, exists, stages, locks, pending, user, archive, issued, world, made,
                    raced>>

-----------------------------------------------------------------------------
(* What happens around the commands.                                       *)

\* No lock keeps people from their notes and KB.md.  Each edit is a new version.
NoteByHand(d) ==
  /\ \E f \in {Note, Rules} \cap DOMAIN tree[d] : tree' = [tree EXCEPT ![d][f] = @ + 1]
  /\ UNCHANGED <<expected, raced>>

\* Nor from admission.yml.  What they write is new to a backup that has hashed the
\* file, as the versions are; a change that kb config admission has read is lost.
AdmissionByHand(d) ==
  /\ Admission \in DOMAIN tree[d]
  /\ \E document \in Admissions :
       /\ \A p \in Procs :
            proc[p].at \in {"hashes", "copies"} /\ proc[p].dir = d
              /\ Admission \in DOMAIN proc[p].files => document # proc[p].files[Admission]
       /\ tree' = [tree EXCEPT ![d] = Written(@, Admission, document)]
       /\ expected' = [expected EXCEPT !.vaults[d] = Written(@, Admission, document)]
  /\ raced' = IF \E p \in Procs : /\ proc[p].at = "writes" /\ proc[p].dir = d
                                   /\ proc[p].q.file = Admission
              THEN raced \cup {"admission"} ELSE raced

HandEdit ==
  /\ edits < MaxEdits /\ edits' = edits + 1
  /\ \E d \in Dirs : NoteByHand(d) \/ AdmissionByHand(d)
  /\ UNCHANGED <<exists, stages, locks, held, pending, user, registry, regLock, archive, proc,
                 issued, given, damage, stops, made>>

\* The archive loses an entry or its manifest, or bytes of an entry change.
Damage ==
  /\ damage < MaxDamage /\ damage' = damage + 1
  /\ \E a \in archive :
       \/ archive' = {[a EXCEPT !.listed = FALSE]}
       \/ \E f \in Fragile \cap DOMAIN a.entries :
            archive' = {[a EXCEPT !.entries = Restrict(@, DOMAIN @ \ {f})]}
       \/ \E f \in (Fragile \cap DOMAIN a.entries) \ Kept : archive' = {[a EXCEPT !.entries[f] = Damaged]}
  /\ UNCHANGED <<tree, exists, stages, locks, held, pending, user, registry, regLock, proc,
                 issued, given, edits, stops, made, expected, raced>>

\* A process dies; the system takes its locks away and nothing else.
Dies(p) ==
  /\ proc[p] # Idle /\ stops < MaxStops /\ stops' = stops + 1
  /\ regLock' = IF regLock = p THEN NoProc ELSE regLock
  /\ Ends(p)
  /\ UNCHANGED <<tree, exists, stages, locks, pending, user, registry, archive, issued, given,
                 edits, damage, made, expected, raced>>

Given(p, q) ==
  \/ DoctorProbes(p, q) \/ SaveStarts(p, q) \/ EditStarts(p, q) \/ AdmissionStarts(p, q)
  \/ BackupStarts(p, q)
  \/ RestoreStarts(p, q) \/ InitStarts(p, q) \/ RegistryAsks(p, q)

Continues(p) ==
  \/ DoctorUnlocks(p) \/ DoctorRemoves(p)
  \/ SaveMarks(p) \/ SaveWrites(p) \/ SaveEnds(p)
  \/ EditReads(p) \/ EditWrites(p)
  \/ BackupCollects(p) \/ BackupHashes(p) \/ BackupCopies(p) \/ BackupPublishes(p)
  \/ RestoreExtracts(p) \/ RestoreClears(p) \/ Places(p) \/ PlaceFails(p)
  \/ InitStages(p) \/ InitMoves(p) \/ InitMoveFails(p) \/ InitTidies(p) \/ InitRegisters(p)
  \/ RegistryLoads(p) \/ RegistryStores(p)

Next ==
  \/ \E p \in Procs : (\E q \in Requests : Given(p, q)) \/ Continues(p) \/ Dies(p)
  \/ HandEdit \/ Damage

Spec == Init /\ [][Next]_vars

-----------------------------------------------------------------------------
(* Properties.                                                             *)

\* Types, and what the locks are: a lock that a process holds is of an inode of
\* the Vault's lock file, and one inode has one writer or readers.
TypeOK ==
  /\ \A d \in Dirs : /\ DOMAIN tree[d] \subseteq Files /\ (tree[d] # NoFiles => d \in exists)
                      /\ stages[d] \subseteq Procs /\ pending[d] \in Nat
                      /\ lockFile[d] \in 0..inodes[d]
  /\ runtime \subseteq exists /\ regLock \in Procs \cup {NoProc}
  /\ \A r \in registry : r.id \in 1..issued /\ r.path \in Dirs
  /\ RegistryValid(registry)
  /\ \A p \in Procs : \/ held[p] = NoLock
                      \/ /\ held[p].inode \in 1..inodes[held[p].dir]
                         /\ Compatible(p, held[p].dir, held[p].inode, held[p].mode)
  /\ Cardinality(archive) <= 1 /\ given \subseteq Requests
  /\ raced \subseteq {"init", "lock", "user", "admission"}

\* A backup that create reports is of one moment: all of its files had the
\* archived contents at the same time, although people edited them while they
\* were hashed and copied, and no save is in it by half.  verify accepts it, unless
\* people wrote another admission.yml between the two times that create reads it:
\* the files were listed by the one, the other is archived (backup.rs, collect).
\* Not promised once an init moved into a Vault or kb doctor removed the file of a
\* lock that was held.
BackupIsASnapshot ==
  raced \cap {"init", "lock"} = {} =>
    \A b \in made :
      /\ b.files = b.snap
      /\ Object \in DOMAIN b.files => b.files[Object] = b.files[Page]
      /\ b.files[Admission] = b.admission => b.verified

\* KB.md and admission.yml may have been edited while the entries were moved.
IsTemplate(files) ==
  LET template == Template(files[Config].id)
  IN /\ files[Config].id > 1 /\ DOMAIN files = DOMAIN template
     /\ \A f \in DOMAIN files \ TopLevel : files[f] = template[f]

\* A directory becomes a Vault in one step, and is then all of a fresh template
\* or all of a backup that was published: whatever dies or fails in init or
\* restore, and whatever becomes of the archive between verification and
\* extraction, no part of a Vault has an identity.
PublishedVaultsAreWhole ==
  [][\A d \in Dirs : ~IsVault(d) /\ IsVault(d)' =>
       \/ \E b \in made : tree'[d] = b.files
       \/ IsTemplate(tree'[d])]_vars

\* Changes of the settings of a Vault, of the user's and of the registry are
\* read, edited and replaced as several steps by commands that run at the same
\* time; still, what is stored is what the acknowledged changes, each applied to
\* the one before, add up to: none is lost and none comes back.  Of the registry
\* that is so whatever happens.  Of the settings, until an init moved into a Vault
\* or kb doctor removed the file of a lock that was held; of the user's, also until
\* a change overtook one under the lock of another Vault (config/commands.rs); and
\* of the Vaults', until a person wrote an admission.yml that a command had read.
AcknowledgedChangesLast ==
  /\ registry = expected.registry
  /\ raced \cap {"init", "lock"} = {} =>
       /\ "user" \notin raced => user = expected.user
       /\ "admission" \notin raced => \A d \in Dirs : Kb(tree[d]) = expected.vaults[d]

\* init_vault: an error comes "without changing a nonempty target"; so nothing
\* removes a file of a Vault.
VaultFilesStay ==
  [][\A d \in Dirs : IsVault(d) => DOMAIN tree[d] \subseteq DOMAIN tree'[d]]_vars
=============================================================================
