--------------------------- MODULE VaultHomeProofs ---------------------------
(***************************************************************************)
(* What is true of VaultHome for all Vaults, commands and processes, as    *)
(* many as there are.  The first part is the invariant that needs no       *)
(* condition: what the values are, who holds which lock while it does      *)
(* what, that a Vault stays one and that two inits never both get to the   *)
(* move that makes one.  The second part is what the commands promise as   *)
(* long as the races that the code leaves open have not happened: init     *)
(* looks whether a directory is empty and makes its stage later (init.rs), *)
(* kb doctor removes the lock file that its probe made after it let the    *)
(* lock go (lock.rs), the user's configuration is changed under the lock   *)
(* of a Vault (config/commands.rs), and people edit admission.yml, which   *)
(* takes no lock.  The properties name them through raced; only            *)
(* PublishedWhole and VaultFilesKept exclude one by a hypothesis.          *)
(***************************************************************************)
EXTENDS VaultHome, FiniteSetTheorems, TLAPS

-----------------------------------------------------------------------------
(* What the values are.                                                    *)

\* A settings file names an identity that was issued; contents are versions.
FilesFit(t, n) ==
  /\ t = [f \in DOMAIN t |-> t[f]] /\ DOMAIN t \subseteq Files
  /\ Config \in DOMAIN t => DOMAIN t[Config] = DOMAIN Blank /\ t[Config].id \in 1..n
  /\ \A f \in DOMAIN t \cap {Rules, Note, Object, Page} : t[f] \in Nat

\* A directory with a configuration has a wiki.
TreeFits(t, n) == FilesFit(t, n) /\ (Config \in DOMAIN t => Page \in DOMAIN t)

Whole(t, n) == TreeFits(t, n) /\ Config \in DOMAIN t

ManifestFits(m, n) == DOMAIN m = {"id", "complete", "roots", "files"} /\ Whole(m.files, n)

Saving == {"marks", "object", "page", "unmarks"}
Reading == {"collects", "hashes", "copies", "publishes"}
Archiving == {"hashes", "copies", "publishes"}
Working == Saving \cup Reading \cup {"reads", "writes"}
Homeless == {"idle", "waits", "stores"}

Fits(x, n) ==
  /\ x.at \notin Homeless => x.dir \in Dirs
  /\ x.at = "idle" => DOMAIN x = {"at"}
  /\ x.at \in {"probed", "unlocked"} => DOMAIN x = {"at", "dir", "existed"}
  /\ x.at \in Saving => DOMAIN x = {"at", "dir", "save"} /\ x.save \in Nat
  /\ x.at \in {"reads", "writes"} => x.q \in Requests /\ x.q.op = "edit"
  /\ x.at = "reads" => DOMAIN x = {"at", "dir", "q"}
  /\ x.at = "writes" =>
       /\ DOMAIN x = {"at", "dir", "q", "after"}
       /\ x.q.file = Config => DOMAIN x.after = DOMAIN Blank /\ x.after.id \in 1..n
  /\ x.at = "collects" => DOMAIN x = {"at", "dir", "complete"}
  /\ x.at \in Archiving =>
       /\ DOMAIN x = {"at", "dir", "complete", "todo", "files", "copied", "snap", "id", "roots",
                    "admission"}
       /\ FilesFit(x.files, n) /\ {Config, Page} \subseteq x.todo \cup DOMAIN x.files
       /\ x.at # "hashes" => {Config, Page} \subseteq DOMAIN x.files
  /\ x.at = "extracts" =>
       DOMAIN x = {"at", "dir", "existed", "manifest"} /\ ManifestFits(x.manifest, n)
  /\ x.at \in {"clears", "places", "stages"} =>
       DOMAIN x = {"at", "dir", "existed", "new", "id", "files"} /\ Whole(x.files, n)
  /\ x.at = "stages" => x.id \in 2..n /\ x.files = Template(x.id)
  /\ x.at \in {"moves", "tidies"} =>
       /\ DOMAIN x = {"at", "dir", "next", "files"}
       /\ x.next \in 1..4 /\ \E id \in 2..n : x.files = Template(id)
  /\ x.at = "inspects" => DOMAIN x = {"at", "dir"}
  /\ x.at \in {"waits", "stores"} =>
       /\ x.record.id \in Nat
       /\ x.change # "unregister" => x.record.id \in 1..n /\ x.record.path \in Dirs
  /\ x.at = "waits" => DOMAIN x = {"at", "change", "record"}
  /\ x.at = "stores" =>
       /\ DOMAIN x = {"at", "change", "record", "loaded"}
       /\ \A r \in x.loaded : r.id \in 1..n /\ r.path \in Dirs

ProcsFit == DOMAIN proc = Procs /\ \A p \in Procs : Fits(proc[p], issued)

WorldFits ==
  /\ DOMAIN tree = Dirs /\ DOMAIN stages = Dirs /\ DOMAIN pending = Dirs
  /\ exists \subseteq Dirs /\ runtime \subseteq exists /\ issued \in Nat /\ issued >= 1
  /\ \A d \in Dirs :
       /\ TreeFits(tree[d], issued) /\ stages[d] \subseteq Procs /\ pending[d] \in Nat
       /\ DOMAIN tree[d] # {} \/ stages[d] # {} => d \in exists

LocksFit ==
  /\ DOMAIN lockFile = Dirs /\ DOMAIN inodes = Dirs /\ DOMAIN held = Procs
  /\ \A d \in Dirs : inodes[d] \in Nat /\ lockFile[d] \in 0..inodes[d]
  /\ \A p \in Procs : held[p] # NoLock =>
       held[p].dir \in Dirs /\ held[p].inode \in 1..inodes[held[p].dir]
  /\ \A p, q \in Procs :
       p # q /\ held[p] # NoLock /\ held[q].dir = held[p].dir /\ held[q].inode = held[p].inode =>
         held[p].mode = "shared" /\ held[q].mode = "shared"

RegistryFits ==
  /\ regLock \in Procs \cup {NoProc} /\ RegistryValid(registry)
  /\ \A r \in registry : r.id \in 1..issued /\ r.path \in Dirs

ArchiveFits ==
  archive # {} => \E a \in archive : archive = {a} /\ DOMAIN a = {"manifest", "listed", "entries"}
                    /\ ManifestFits(a.manifest, issued)

\* Whose configuration a process works with, it stays.
VaultsWorkedIn ==
  \A p \in Procs : proc[p].at \in Working => Config \in DOMAIN tree[proc[p].dir]

\* An init moves the configuration last, into a directory that has none: no
\* other init is as far.
Last(p) == proc[p].at = "moves" /\ proc[p].next = 4
OneLastMove ==
  \A p \in Procs :
    /\ proc[p].at \in {"moves", "tidies"} => p \in stages[proc[p].dir]
    /\ Last(p) => /\ Page \in DOMAIN tree[proc[p].dir] /\ Config \notin DOMAIN tree[proc[p].dir]
                  /\ \A q \in Procs : Last(q) /\ proc[q].dir = proc[p].dir => q = p

\* What a process holds.
Holding ==
  \A p \in Procs :
    /\ proc[p].at \in Saving \cup {"reads", "writes", "probed"} =>
         held[p].dir = proc[p].dir /\ held[p].mode = "exclusive"
    /\ proc[p].at \in Reading => held[p].dir = proc[p].dir /\ held[p].mode = "shared"
    /\ proc[p].at \notin Working \cup {"probed"} => held[p] = NoLock

IInv == /\ ProcsFit /\ WorldFits /\ LocksFit /\ RegistryFits /\ ArchiveFits
        /\ VaultsWorkedIn /\ OneLastMove /\ Holding /\ given \subseteq Requests
        /\ raced \subseteq {"init", "lock", "user", "admission"}

-----------------------------------------------------------------------------
(* Lemmas about the data.                                                  *)

\* What fits while n identities are issued fits when more are.
LEMMA FitsMore ==
  ASSUME NEW n \in Nat, NEW m \in Nat, n <= m
  PROVE  /\ \A t : FilesFit(t, n) => FilesFit(t, m)
         /\ \A t : TreeFits(t, n) => TreeFits(t, m)
         /\ \A t : Whole(t, n) => Whole(t, m)
         /\ \A a : ManifestFits(a, n) => ManifestFits(a, m)
         /\ \A x : Fits(x, n) => Fits(x, m)
<1>1. \A i : i \in 1..n => i \in 1..m
  OBVIOUS
<1>2. \A i : i \in 2..n => i \in 2..m
  OBVIOUS
<1>3. \A t : FilesFit(t, n) => FilesFit(t, m)
  BY <1>1 DEF FilesFit
<1>4. \A t : TreeFits(t, n) => TreeFits(t, m)
  BY <1>3 DEF TreeFits
<1>5. \A t : Whole(t, n) => Whole(t, m)
  BY <1>4 DEF Whole
<1>6. \A a : ManifestFits(a, n) => ManifestFits(a, m)
  BY <1>5 DEF ManifestFits
<1>7. ASSUME NEW x, Fits(x, n) PROVE Fits(x, m)
  BY <1>1, <1>2, <1>3, <1>5, <1>6, <1>7 DEF Fits
<1> QED
  BY <1>3, <1>4, <1>5, <1>6, <1>7

\* The files are different from each other.
LEMMA FilesDiffer ==
  /\ Config \notin {Local, Rules, Note, Object, Page, Admission}
  /\ Local \notin {Rules, Note, Object, Page, Admission}
  /\ Rules \notin {Note, Object, Page, Admission} /\ Note \notin {Object, Page, Admission}
  /\ Object \notin {Page, Admission} /\ Page # Admission
  /\ Files = {Config, Local, Rules, Note, Object, Page, Admission}
  /\ "user" \notin Files /\ "none" \notin Files
BY DEF Config, Local, Rules, Note, Object, Page, Admission, Files

\* A fresh template.
LEMMA TemplateFits ==
  ASSUME NEW n \in Nat, NEW id \in 1..n
  PROVE  /\ Whole(Template(id), n) /\ DOMAIN Template(id) = {Config, Rules, Page, Admission}
         /\ Template(id)[Config].id = id
<1> DEFINE t == Template(id)
<1>1. DOMAIN t = {Config, Rules, Page, Admission}
  BY DEF Template
<1>2. t = [f \in DOMAIN t |-> t[f]]
  BY DEF Template
<1>3. t[Config] = [Blank EXCEPT !.id = id, !.mode = 1]
  BY FilesDiffer DEF Template
<1>4. DOMAIN t[Config] = DOMAIN Blank /\ t[Config].id = id
  BY <1>3 DEF Blank
<1>5. t[Rules] = 0 /\ t[Page] = 0
  BY FilesDiffer DEF Template
<1> QED
  BY <1>1, <1>2, <1>4, <1>5, FilesDiffer DEF Whole, TreeFits, FilesFit

\* Replacing a file keeps the others.
LEMMA WrittenFits ==
  ASSUME NEW t, NEW n \in Nat, FilesFit(t, n), NEW f \in Files, NEW x,
         f = Config => DOMAIN x = DOMAIN Blank /\ x.id \in 1..n,
         f \in {Rules, Note, Object, Page} => x \in Nat
  PROVE  FilesFit(Written(t, f, x), n) /\ DOMAIN Written(t, f, x) = DOMAIN t \cup {f}
BY DEF FilesFit, Written

\* Leaving files away keeps the others.
LEMMA RestrictFits ==
  ASSUME NEW t, NEW n \in Nat, FilesFit(t, n), NEW S, S \subseteq DOMAIN t
  PROVE  /\ FilesFit(Restrict(t, S), n) /\ DOMAIN Restrict(t, S) = S
         /\ \A f \in S : Restrict(t, S)[f] = t[f]
BY DEF FilesFit, Restrict

\* What init moves, in turn.
LEMMA MovesAre ==
  /\ Len(Moves) = 4
  /\ Under(Moves[1]) = {Admission} /\ Under(Moves[2]) = {Rules}
  /\ Under(Moves[3]) = {Page, Object} /\ Under(Moves[4]) = {Config, Local}
  /\ Moves[1] \notin {"Wiki", ".kb"} /\ Moves[2] \notin {"Wiki", ".kb"}
  /\ Moves[3] = "Wiki" /\ Moves[4] = ".kb"
<1>1. Moves[1] = "admission.yml" /\ Moves[2] = "KB.md" /\ Moves[3] = "Wiki" /\ Moves[4] = ".kb"
  BY DEF Moves
<1>2. Len(Moves) = 4
  BY DEF Moves
<1> QED
  BY <1>1, <1>2 DEF Under

\* A command works in a Vault.
LEMMA SelectedIsVault ==
  ASSUME exists \subseteq Dirs, NEW q, NEW d \in Selected(q)
  PROVE  d \in Dirs /\ d \in exists /\ Config \in DOMAIN tree[d]
BY DEF Selected, BySelector, Answers, IsVault

\* Where nothing is.
LEMMA EmptyHasNothing ==
  ASSUME WorldFits, NEW d \in Dirs, d \in exists => IsEmpty(d)
  PROVE  DOMAIN tree[d] = {} /\ stages[d] = {} /\ d \notin runtime
<1>1. CASE d \in exists
  BY <1>1 DEF IsEmpty, NoFiles
<1>2. CASE d \notin exists
  BY <1>2 DEF WorldFits
<1> QED
  BY <1>1, <1>2

-----------------------------------------------------------------------------
(* What a step is.                                                         *)

Acts(p) == (\E q \in Requests : Given(p, q)) \/ Continues(p) \/ Dies(p)

\* A step is of one process, of a person, of the archive's decay, or nothing.
LEMMA StepCases ==
  [Next]_vars => (\E p \in Procs : Acts(p)) \/ HandEdit \/ Damage \/ UNCHANGED vars
BY DEF Next, Acts

\* People edit notes and KB.md, which only grow newer, and admission.yml, and
\* nothing else changes.
ByHand == {Note, Rules, Admission}
LEMMA HandEditChanges ==
  ASSUME IInv, HandEdit, NEW d \in Dirs
  PROVE  /\ DOMAIN tree' = Dirs /\ DOMAIN tree'[d] = DOMAIN tree[d]
         /\ tree'[d] = [f \in DOMAIN tree[d] |-> tree'[d][f]]
         /\ \A f \in DOMAIN tree[d] \ ByHand : tree'[d][f] = tree[d][f]
         /\ \A f \in DOMAIN tree[d] \cap {Note, Rules} :
              tree[d][f] \in Nat /\ tree'[d][f] \in Nat /\ tree[d][f] <= tree'[d][f]
         /\ UNCHANGED <<exists, stages, locks, held, pending, user, registry, regLock, archive,
                        proc, issued, made>>
<1>1. DOMAIN tree = Dirs /\ FilesFit(tree[d], issued)
  BY DEF IInv, WorldFits, TreeFits
<1>2. UNCHANGED <<exists, stages, locks, held, pending, user, registry, regLock, archive,
                  proc, issued, made>>
  BY DEF HandEdit
<1>3. PICK e \in Dirs : NoteByHand(e) \/ AdmissionByHand(e)
  BY DEF HandEdit
<1>4. \A g \in DOMAIN tree[d] \cap {Note, Rules} : tree[d][g] \in Nat
  BY <1>1 DEF FilesFit
<1>5. \E f, x : /\ f \in ByHand \cap DOMAIN tree[e]
                /\ f # Admission => x = tree[e][f] + 1
                /\ tree' = [tree EXCEPT ![e] = [@ EXCEPT ![f] = x]]
  <2>1. CASE NoteByHand(e)
    <3>1. PICK f \in {Note, Rules} \cap DOMAIN tree[e] : tree' = [tree EXCEPT ![e][f] = @ + 1]
      BY <2>1 DEF NoteByHand
    <3>2. tree' = [tree EXCEPT ![e] = [@ EXCEPT ![f] = tree[e][f] + 1]]
      BY <1>1, <3>1
    <3>3. f \in ByHand /\ (f # Admission => tree[e][f] + 1 = tree[e][f] + 1)
      BY <3>1 DEF ByHand
    <3> QED
      BY <3>1, <3>2, <3>3
  <2>2. CASE AdmissionByHand(e)
    <3>1. PICK x : Admission \in DOMAIN tree[e] /\ tree' = [tree EXCEPT ![e] = Written(@, Admission, x)]
      BY <2>2 DEF AdmissionByHand
    <3>2. FilesFit(tree[e], issued)
      BY DEF IInv, WorldFits, TreeFits
    <3>3. DOMAIN tree[e] \cup {Admission} = DOMAIN tree[e]
      BY <3>1
    <3>4. Written(tree[e], Admission, x) = [tree[e] EXCEPT ![Admission] = x]
      BY <3>2, <3>3 DEF FilesFit, Written
    <3> QED
      BY <1>1, <3>1, <3>4 DEF ByHand
  <2> QED
    BY <1>3, <2>1, <2>2
<1>6. PICK f, x : /\ f \in ByHand \cap DOMAIN tree[e]
                  /\ f # Admission => x = tree[e][f] + 1
                  /\ tree' = [tree EXCEPT ![e] = [@ EXCEPT ![f] = x]]
  BY <1>5
<1>7. DOMAIN tree' = Dirs
      /\ tree'[d] = IF e = d THEN [tree[d] EXCEPT ![f] = x] ELSE tree[d]
  BY <1>1, <1>6
<1>8. CASE e = d
  <2>1. tree'[d] = [tree[d] EXCEPT ![f] = x] /\ f \in DOMAIN tree[d]
    BY <1>6, <1>7, <1>8
  <2>2. DOMAIN tree'[d] = DOMAIN tree[d] /\ tree'[d][f] = x
        /\ tree'[d] = [g \in DOMAIN tree[d] |-> tree'[d][g]]
        /\ \A g \in DOMAIN tree[d] : g # f => tree'[d][g] = tree[d][g]
    BY <2>1
  <2>3. Note # Admission /\ Rules # Admission
    BY FilesDiffer
  <2>4. ASSUME NEW g \in DOMAIN tree[d] \cap {Note, Rules}
        PROVE  tree[d][g] \in Nat /\ tree'[d][g] \in Nat /\ tree[d][g] <= tree'[d][g]
    BY <1>4, <1>6, <1>8, <2>2, <2>3, <2>4 DEF ByHand
  <2> QED
    BY <1>2, <1>6, <1>7, <2>2, <2>4
<1>9. CASE e # d
  <2>1. tree'[d] = tree[d] /\ tree[d] = [g \in DOMAIN tree[d] |-> tree[d][g]]
    BY <1>1, <1>7, <1>9 DEF FilesFit
  <2> QED
    BY <1>2, <1>4, <1>7, <2>1
<1> QED
  BY <1>8, <1>9

\* What brings a process where it is.
Arrives(p) ==
  \/ proc'[p] = Idle /\ (proc[p] = Idle \/ held'[p] = NoLock)
  \/ proc'[p].at = "probed" /\ \E q \in Requests : DoctorProbes(p, q)
  \/ proc'[p].at = "unlocked" /\ DoctorUnlocks(p)
  \/ proc'[p].at = "marks" /\ \E q \in Requests : SaveStarts(p, q)
  \/ proc'[p].at = "object" /\ SaveMarks(p)
  \/ proc'[p].at \in {"page", "unmarks"} /\ SaveWrites(p)
  \/ proc'[p].at = "reads" /\ \E q \in Requests : EditStarts(p, q) \/ AdmissionStarts(p, q)
  \/ proc'[p].at = "writes" /\ EditReads(p)
  \/ proc'[p].at = "collects" /\ \E q \in Requests : BackupStarts(p, q)
  \/ proc'[p].at = "hashes" /\ BackupCollects(p)
  \/ proc'[p].at \in {"hashes", "copies"} /\ BackupHashes(p)
  \/ proc'[p].at \in {"copies", "publishes"} /\ BackupCopies(p)
  \/ proc'[p].at = "extracts" /\ \E q \in Requests : RestoreStarts(p, q)
  \/ proc'[p].at \in {"clears", "places"} /\ RestoreExtracts(p)
  \/ proc'[p].at = "places" /\ RestoreClears(p)
  \/ proc'[p].at \in {"stages", "places"} /\ \E q \in Requests : InitStarts(p, q)
  \/ proc'[p].at = "moves" /\ InitStages(p)
  \/ proc'[p].at \in {"moves", "tidies"} /\ InitMoves(p)
  \/ proc'[p].at = "inspects" /\ (Places(p) \/ InitTidies(p))
  \/ proc'[p].at = "waits" /\ (InitRegisters(p) \/ \E q \in Requests : RegistryAsks(p, q))
  \/ proc'[p].at = "stores" /\ RegistryLoads(p)

\* A process opens the lock file of a Vault, and may get the lock.
Opens(p, d, mode) ==
  /\ runtime' = runtime \cup {d} /\ lockFile' = [lockFile EXCEPT ![d] = InodeOf(d)]
  /\ inodes' = [inodes EXCEPT ![d] = IF InodeOf(d) > @ THEN InodeOf(d) ELSE @]
  /\ \/ proc'[p] = Idle /\ UNCHANGED held
     \/ /\ Compatible(p, d, InodeOf(d), mode) /\ proc'[p].dir = d
        /\ proc'[p].at \in Working \cup {"probed"}
        /\ held' = [held EXCEPT ![p] = [dir |-> d, inode |-> InodeOf(d), mode |-> mode]]

\* What a step of a process may change, and what changes it.
Touches(p) ==
  /\ UNCHANGED tree \/ SaveWrites(p) \/ EditWrites(p) \/ Places(p) \/ InitMoves(p)
     \/ InitMoveFails(p)
  /\ \/ /\ proc[p] = Idle /\ UNCHANGED exists
        /\ \E d \in exists, mode \in {"shared", "exclusive"} : Opens(p, d, mode)
     \/ /\ UNCHANGED <<lockFile, inodes>> \/ DoctorRemoves(p)
        /\ UNCHANGED held \/ held' = [held EXCEPT ![p] = NoLock]
        /\ UNCHANGED runtime \/ Places(p) \/ InitMoves(p)
  /\ UNCHANGED exists \/ RestoreClears(p) \/ Places(p) \/ PlaceFails(p)
  /\ UNCHANGED stages \/ InitStages(p) \/ InitMoveFails(p) \/ InitTidies(p)
  /\ UNCHANGED pending \/ SaveMarks(p) \/ SaveEnds(p)
  /\ UNCHANGED user \/ EditWrites(p)
  /\ UNCHANGED registry \/ RegistryStores(p)
  /\ UNCHANGED regLock \/ RegistryLoads(p) \/ RegistryStores(p) \/ Dies(p)
  /\ UNCHANGED <<archive, made>> \/ BackupPublishes(p)
  /\ UNCHANGED issued \/ \E q \in Requests : InitStarts(p, q)
  /\ UNCHANGED expected \/ EditWrites(p) \/ Places(p) \/ InitMoves(p) \/ InitMoveFails(p)
     \/ RegistryStores(p)
  /\ UNCHANGED raced \/ DoctorRemoves(p) \/ EditWrites(p) \/ InitStages(p)

\* A turn of the loop of a backup that hashes.
LEMMA HashTurn ==
  ASSUME NEW p \in Procs, BackupHashes(p)
  PROVE  \E f \in proc[p].todo :
           LET files == Written(proc[p].files, f, tree[proc[p].dir][f])
               rest == proc[p].todo \ {f}
           IN \/ Ends(p)
              \/ /\ f \in DOMAIN tree[proc[p].dir] /\ rest # {}
                 /\ Goes(p, [proc[p] EXCEPT !.todo = rest, !.files = files])
              \/ /\ f \in DOMAIN tree[proc[p].dir] /\ rest = {}
                 /\ ManifestValid(Manifest(proc[p].id, proc[p].complete, proc[p].roots, files))
                 /\ Goes(p, [proc[p] EXCEPT !.at = "copies", !.files = files,
                                 !.todo = DOMAIN files,
                                 !.snap = Restrict(tree[proc[p].dir], DOMAIN files)])
BY DEF BackupHashes

\* A turn of the loop that copies.
LEMMA CopyTurn ==
  ASSUME NEW p \in Procs, BackupCopies(p)
  PROVE  \E f \in proc[p].todo :
           LET copied == Written(proc[p].copied, f, tree[proc[p].dir][f])
               rest == proc[p].todo \ {f}
           IN \/ Ends(p)
              \/ /\ f \in DOMAIN tree[proc[p].dir] /\ tree[proc[p].dir][f] = proc[p].files[f]
                 /\ Goes(p, [proc[p] EXCEPT !.todo = rest, !.copied = copied,
                                 !.at = IF rest = {} THEN "publishes" ELSE @])
BY DEF BackupCopies, Unchanged

\* The other processes wait; what the step is determines where its process is and
\* what has changed.
LEMMA Steps ==
  ASSUME NEW p \in Procs, IInv, Acts(p)
  PROVE  /\ DOMAIN proc' = Procs /\ DOMAIN held' = Procs
         /\ \A q \in Procs \ {p} : proc'[q] = proc[q] /\ held'[q] = held[q]
         /\ Arrives(p) /\ Touches(p) /\ given' \subseteq given \cup Requests
<1>0. /\ DOMAIN proc = Procs /\ DOMAIN held = Procs /\ Fits(proc[p], issued)
      /\ exists \subseteq Dirs /\ runtime \subseteq exists
  BY DEF IInv, ProcsFit, LocksFit, WorldFits
<1> DEFINE G == /\ DOMAIN proc' = Procs /\ DOMAIN held' = Procs
                /\ \A q \in Procs \ {p} : proc'[q] = proc[q] /\ held'[q] = held[q]
                /\ Arrives(p) /\ Touches(p) /\ given' \subseteq given \cup Requests

<1>1. ASSUME NEW q \in Requests, DoctorProbes(p, q) PROVE G
  <2>1. /\ q.dir \in exists /\ proc[p] = Idle
        /\ Locking(p, q.dir, "exclusive", TRUE,
                   [at |-> "probed", dir |-> q.dir, existed |-> lockFile[q.dir] # 0])
    BY <1>0, <1>1 DEF DoctorProbes, Asks
  <2>2. Opens(p, q.dir, "exclusive")
    BY <1>0, <2>1 DEF Locking, Opens, Working, Saving, Reading
  <2>3. /\ DOMAIN proc' = Procs /\ DOMAIN held' = Procs
        /\ \A o \in Procs \ {p} : proc'[o] = proc[o] /\ held'[o] = held[o]
        /\ proc'[p] = Idle \/ proc'[p].at = "probed"
    BY <1>0, <2>1 DEF Locking
  <2>4. /\ UNCHANGED <<tree, exists, stages, pending, user, registry, regLock, archive, made, issued,
                       expected, raced>>
        /\ given' \subseteq given \cup Requests
    BY <1>1 DEF DoctorProbes, Asks
  <2> QED
    BY <1>1, <2>1, <2>2, <2>3, <2>4 DEF Arrives, Touches
<1>2. ASSUME NEW q \in Requests, SaveStarts(p, q) PROVE G
  <2>1. PICK d \in Selected(q) :
          Locking(p, d, "exclusive", TRUE, [at |-> "marks", dir |-> d,
                                       save |-> IF pending[d] = 0 THEN tree[d][Page] + 1
                                                ELSE pending[d]])
    BY <1>2 DEF SaveStarts
  <2>2. d \in exists
    BY <1>0, SelectedIsVault
  <2>3. proc[p] = Idle /\ given' \subseteq given \cup Requests
    BY <1>2 DEF SaveStarts, Asks
  <2>4. Opens(p, d, "exclusive")
    BY <1>0, <2>1 DEF Locking, Opens, Working, Saving, Reading
  <2>5. /\ DOMAIN proc' = Procs /\ DOMAIN held' = Procs
        /\ \A o \in Procs \ {p} : proc'[o] = proc[o] /\ held'[o] = held[o]
        /\ proc'[p] = Idle \/ proc'[p].at = "marks"
    BY <1>0, <2>1 DEF Locking
  <2>6. UNCHANGED <<tree, exists, stages, pending, user, registry, regLock, archive, made, issued,
                    expected, raced>>
    BY <1>2 DEF SaveStarts
  <2> QED
    BY <1>2, <2>2, <2>3, <2>4, <2>5, <2>6 DEF Arrives, Touches
<1>3. ASSUME NEW q \in Requests, EditStarts(p, q) PROVE G
  <2>1. PICK d \in Selected(q) :
          Locking(p, d, "exclusive", pending[d] = 0, [at |-> "reads", dir |-> d, q |-> q])
    BY <1>3 DEF EditStarts, EditLocks
  <2>2. d \in exists
    BY <1>0, SelectedIsVault
  <2>3. proc[p] = Idle /\ given' \subseteq given \cup Requests
    BY <1>3 DEF EditStarts, Asks
  <2>4. Opens(p, d, "exclusive")
    BY <1>0, <2>1 DEF Locking, Opens, Working, Saving, Reading
  <2>5. /\ DOMAIN proc' = Procs /\ DOMAIN held' = Procs
        /\ \A o \in Procs \ {p} : proc'[o] = proc[o] /\ held'[o] = held[o]
        /\ proc'[p] = Idle \/ proc'[p].at = "reads"
    BY <1>0, <2>1 DEF Locking
  <2>6. UNCHANGED <<tree, exists, stages, pending, user, registry, regLock, archive, made, issued,
                    expected, raced>>
    BY <1>3 DEF EditStarts
  <2> QED
    BY <1>3, <2>2, <2>3, <2>4, <2>5, <2>6 DEF Arrives, Touches
<1>4. ASSUME NEW q \in Requests, AdmissionStarts(p, q) PROVE G
  <2>1. PICK d \in Selected(q) :
          Locking(p, d, "exclusive", pending[d] = 0, [at |-> "reads", dir |-> d, q |-> q])
    BY <1>4 DEF AdmissionStarts, EditLocks
  <2>2. d \in exists
    BY <1>0, SelectedIsVault
  <2>3. proc[p] = Idle /\ given' \subseteq given \cup Requests
    BY <1>4 DEF AdmissionStarts, Asks
  <2>4. Opens(p, d, "exclusive")
    BY <1>0, <2>1 DEF Locking, Opens, Working, Saving, Reading
  <2>5. /\ DOMAIN proc' = Procs /\ DOMAIN held' = Procs
        /\ \A o \in Procs \ {p} : proc'[o] = proc[o] /\ held'[o] = held[o]
        /\ proc'[p] = Idle \/ proc'[p].at = "reads"
    BY <1>0, <2>1 DEF Locking
  <2>6. UNCHANGED <<tree, exists, stages, pending, user, registry, regLock, archive, made, issued,
                    expected, raced>>
    BY <1>4 DEF AdmissionStarts
  <2> QED
    BY <1>4, <2>2, <2>3, <2>4, <2>5, <2>6 DEF Arrives, Touches
<1>5. ASSUME NEW q \in Requests, BackupStarts(p, q) PROVE G
  <2>1. PICK d \in Selected(q) :
          Locking(p, d, "shared", pending[d] = 0, [at |-> "collects", dir |-> d, complete |-> q.complete])
    BY <1>5 DEF BackupStarts
  <2>2. d \in exists
    BY <1>0, SelectedIsVault
  <2>3. proc[p] = Idle /\ given' \subseteq given \cup Requests
    BY <1>5 DEF BackupStarts, Asks
  <2>4. Opens(p, d, "shared")
    BY <1>0, <2>1 DEF Locking, Opens, Working, Saving, Reading
  <2>5. /\ DOMAIN proc' = Procs /\ DOMAIN held' = Procs
        /\ \A o \in Procs \ {p} : proc'[o] = proc[o] /\ held'[o] = held[o]
        /\ proc'[p] = Idle \/ proc'[p].at = "collects"
    BY <1>0, <2>1 DEF Locking
  <2>6. UNCHANGED <<tree, exists, stages, pending, user, registry, regLock, archive, made, issued,
                    expected, raced>>
    BY <1>5 DEF BackupStarts
  <2> QED
    BY <1>5, <2>2, <2>3, <2>4, <2>5, <2>6 DEF Arrives, Touches
<1>6. ASSUME NEW q \in Requests, RestoreStarts(p, q) PROVE G
  <2>1. PICK x : proc' = [proc EXCEPT ![p] = x] /\ x.at = "extracts" /\ UNCHANGED held
    BY <1>6 DEF RestoreStarts, Goes
  <2>2. /\ UNCHANGED <<tree, exists, stages, pending, user, registry, regLock, archive, made, issued,
                       expected, raced>>
        /\ UNCHANGED locks /\ given' \subseteq given \cup Requests
    BY <1>6 DEF RestoreStarts, Asks
  <2> QED
    BY <1>0, <1>6, <2>1, <2>2 DEF locks, Arrives, Touches
<1>7. ASSUME NEW q \in Requests, InitStarts(p, q) PROVE G
  BY <1>0, <1>7 DEF InitStarts, Arrives, Touches, Asks, Goes, Idle, locks
<1>8. ASSUME NEW q \in Requests, RegistryAsks(p, q) PROVE G
  BY <1>0, <1>8 DEF RegistryAsks, Arrives, Touches, Asks, Goes, Waits, Idle, locks
<1>9. ASSUME DoctorUnlocks(p) PROVE G
  BY <1>0, <1>9 DEF DoctorUnlocks, Arrives, Touches, Idle, locks, world, Fits, Saving, Archiving
<1>10. ASSUME DoctorRemoves(p) PROVE G
  BY <1>0, <1>10 DEF DoctorRemoves, Arrives, Touches, Ends, Idle, world
<1>11. ASSUME SaveMarks(p) PROVE G
  BY <1>0, <1>11 DEF SaveMarks, Arrives, Touches, Goes, locks, world, Fits, Saving, Archiving
<1>12. ASSUME SaveWrites(p) PROVE G
  BY <1>0, <1>12 DEF SaveWrites, Arrives, Touches, Goes, locks, world, Fits, Saving, Archiving
<1>13. ASSUME SaveEnds(p) PROVE G
  BY <1>0, <1>13 DEF SaveEnds, Arrives, Touches, Ends, Idle, locks, world
<1>14. ASSUME EditReads(p) PROVE G
  BY <1>0, <1>14 DEF EditReads, Arrives, Touches, Goes, Ends, Idle, locks, world
<1>15. ASSUME EditWrites(p) PROVE G
  BY <1>0, <1>15 DEF EditWrites, Arrives, Touches, Ends, Idle, locks, world
<1>16. ASSUME BackupCollects(p) PROVE G
  BY <1>0, <1>16 DEF BackupCollects, Arrives, Touches, Goes, Ends, Idle, locks, world
<1>17. ASSUME BackupHashes(p) PROVE G
  <2>1. proc[p].at = "hashes" /\ "at" \in DOMAIN proc[p]
    BY <1>0, <1>17 DEF BackupHashes, Fits, Archiving
  <2>2. PICK f \in proc[p].todo :
          LET files == Written(proc[p].files, f, tree[proc[p].dir][f])
              rest == proc[p].todo \ {f}
          IN \/ Ends(p)
             \/ Goes(p, [proc[p] EXCEPT !.todo = rest, !.files = files])
             \/ Goes(p, [proc[p] EXCEPT !.at = "copies", !.files = files, !.todo = DOMAIN files,
                               !.snap = Restrict(tree[proc[p].dir], DOMAIN files)])
    BY <1>17, HashTurn
  <2>3. /\ DOMAIN proc' = Procs /\ DOMAIN held' = Procs
        /\ \A o \in Procs \ {p} : proc'[o] = proc[o] /\ held'[o] = held[o]
        /\ (proc'[p] = Idle /\ held'[p] = NoLock) \/ proc'[p].at \in {"hashes", "copies"}
        /\ UNCHANGED held \/ held' = [held EXCEPT ![p] = NoLock]
    <3>1. CASE Ends(p)
      BY <1>0, <3>1 DEF Ends, Idle
    <3>2. CASE Goes(p, [proc[p] EXCEPT !.todo = @ \ {f}, !.files = Written(@, f, tree[proc[p].dir][f])])
      BY <1>0, <2>1, <3>2 DEF Goes
    <3>3. CASE Goes(p, LET files == Written(proc[p].files, f, tree[proc[p].dir][f])
                         IN [proc[p] EXCEPT !.at = "copies", !.files = files, !.todo = DOMAIN files,
                               !.snap = Restrict(tree[proc[p].dir], DOMAIN files)])
      BY <1>0, <2>1, <3>3 DEF Goes
    <3> QED
      BY <2>2, <3>1, <3>2, <3>3
  <2>4. UNCHANGED <<tree, exists, stages, pending, user, registry, regLock, archive, made, issued,
                    expected, raced, given, runtime, lockFile, inodes>>
    BY <1>17 DEF BackupHashes, world, locks
  <2> QED
    BY <1>17, <2>3, <2>4 DEF Arrives, Touches
<1>18. ASSUME BackupCopies(p) PROVE G
  <2>1. proc[p].at = "copies" /\ "at" \in DOMAIN proc[p]
    BY <1>0, <1>18 DEF BackupCopies, Fits, Archiving
  <2>2. PICK f \in proc[p].todo :
          LET copied == Written(proc[p].copied, f, tree[proc[p].dir][f])
              rest == proc[p].todo \ {f}
          IN \/ Ends(p)
             \/ Goes(p, [proc[p] EXCEPT !.todo = rest, !.copied = copied,
                               !.at = IF rest = {} THEN "publishes" ELSE @])
    BY <1>18, CopyTurn
  <2>3. /\ DOMAIN proc' = Procs /\ DOMAIN held' = Procs
        /\ \A o \in Procs \ {p} : proc'[o] = proc[o] /\ held'[o] = held[o]
        /\ (proc'[p] = Idle /\ held'[p] = NoLock) \/ proc'[p].at \in {"copies", "publishes"}
        /\ UNCHANGED held \/ held' = [held EXCEPT ![p] = NoLock]
    <3>1. CASE Ends(p)
      BY <1>0, <3>1 DEF Ends, Idle
    <3>2. CASE Goes(p, LET rest == proc[p].todo \ {f}
                         IN [proc[p] EXCEPT !.todo = rest,
                               !.copied = Written(@, f, tree[proc[p].dir][f]),
                               !.at = IF rest = {} THEN "publishes" ELSE @])
      BY <1>0, <2>1, <3>2 DEF Goes
    <3> QED
      BY <2>2, <3>1, <3>2
  <2>4. UNCHANGED <<tree, exists, stages, pending, user, registry, regLock, archive, made, issued,
                    expected, raced, given, runtime, lockFile, inodes>>
    BY <1>18 DEF BackupCopies, world, locks
  <2> QED
    BY <1>18, <2>3, <2>4 DEF Arrives, Touches
<1>19. ASSUME BackupPublishes(p) PROVE G
  BY <1>0, <1>19 DEF BackupPublishes, Arrives, Touches, Ends, Idle, locks, world
<1>20. ASSUME RestoreExtracts(p) PROVE G
  BY <1>0, <1>20 DEF RestoreExtracts, Arrives, Touches, Goes, Ends, Idle, locks, world
<1>21. ASSUME RestoreClears(p) PROVE G
  BY <1>0, <1>21
     DEF RestoreClears, Arrives, Touches, Goes, Ends, Idle, locks, world, Fits, Saving,
         Archiving
<1>22. ASSUME Places(p) PROVE G
  BY <1>0, <1>22 DEF Places, Arrives, Touches, Goes, Ends, Idle, world
<1>23. ASSUME PlaceFails(p) PROVE G
  BY <1>0, <1>23 DEF PlaceFails, Arrives, Touches, Ends, Idle, locks
<1>24. ASSUME InitStages(p) PROVE G
  BY <1>0, <1>24 DEF InitStages, Arrives, Touches, Goes, Ends, Idle, locks, world
<1>25. ASSUME InitMoves(p) PROVE G
  BY <1>0, <1>25 DEF InitMoves, Arrives, Touches, Goes, world, Fits, Saving, Archiving
<1>26. ASSUME InitMoveFails(p) PROVE G
  BY <1>0, <1>26 DEF InitMoveFails, Arrives, Touches, Ends, Idle, locks
<1>27. ASSUME InitTidies(p) PROVE G
  BY <1>0, <1>27 DEF InitTidies, Arrives, Touches, Goes, locks, world
<1>28. ASSUME InitRegisters(p) PROVE G
  BY <1>0, <1>28 DEF InitRegisters, Arrives, Touches, Goes, Ends, Waits, Idle, locks, world
<1>29. ASSUME RegistryLoads(p) PROVE G
  BY <1>0, <1>29 DEF RegistryLoads, Arrives, Touches, Goes, locks, world
<1>30. ASSUME RegistryStores(p) PROVE G
  BY <1>0, <1>30 DEF RegistryStores, Arrives, Touches, Ends, Idle, locks, world
<1>31. ASSUME Dies(p) PROVE G
  BY <1>0, <1>31 DEF Dies, Arrives, Touches, Ends, Idle, locks
<1> QED
  BY <1>1, <1>2, <1>3, <1>4, <1>5, <1>6, <1>7, <1>8, <1>9, <1>10, <1>11, <1>12, <1>13,
     <1>14, <1>15, <1>16, <1>17, <1>18, <1>19, <1>20, <1>21, <1>22, <1>23, <1>24, <1>25,
     <1>26, <1>27, <1>28, <1>29, <1>30, <1>31 DEF Acts, Given, Continues

-----------------------------------------------------------------------------
(* The steps that change the tree.                                         *)

\* A save writes one of its two files, in a Vault.
LEMMA SaveWritesIn ==
  ASSUME IInv, NEW p \in Procs, SaveWrites(p)
  PROVE  LET d == proc[p].dir
         IN /\ d \in Dirs /\ Config \in DOMAIN tree[d] /\ proc[p].save \in Nat
            /\ \E f \in {Object, Page} :
                 /\ f = Object <=> proc[p].at = "object"
                 /\ tree' = [tree EXCEPT ![d] = Written(@, f, proc[p].save)]
<1>1. proc[p].at \in {"object", "page"} /\ Fits(proc[p], issued)
  BY DEF SaveWrites, IInv, ProcsFit
<1>2. proc[p].dir \in Dirs /\ proc[p].save \in Nat
  BY <1>1 DEF Fits, Homeless, Saving
<1>3. Config \in DOMAIN tree[proc[p].dir]
  BY <1>1 DEF IInv, VaultsWorkedIn, Working, Saving
<1> QED
  BY <1>1, <1>2, <1>3, FilesDiffer DEF SaveWrites

\* A change of settings replaces the file that it is of, in a Vault.
LEMMA EditWritesIn ==
  ASSUME IInv, NEW p \in Procs, EditWrites(p)
  PROVE  LET d == proc[p].dir
             q == proc[p].q
         IN /\ d \in Dirs /\ Config \in DOMAIN tree[d] /\ q \in Requests
            /\ q.file \in {"user", Config, Local, Admission}
            /\ q.file = Config => DOMAIN proc[p].after = DOMAIN Blank /\ proc[p].after.id \in 1..issued
            /\ q.file = "user" => UNCHANGED tree
            /\ q.file # "user" => tree' = [tree EXCEPT ![d] = Written(@, q.file, proc[p].after)]
<1>1. proc[p].at = "writes" /\ Fits(proc[p], issued)
  BY DEF EditWrites, IInv, ProcsFit
<1>2. /\ proc[p].dir \in Dirs /\ proc[p].q \in Requests /\ proc[p].q.op = "edit"
      /\ proc[p].q.file = Config =>
           DOMAIN proc[p].after = DOMAIN Blank /\ proc[p].after.id \in 1..issued
  BY <1>1 DEF Fits, Homeless
<1>3. Config \in DOMAIN tree[proc[p].dir]
  BY <1>1 DEF IInv, VaultsWorkedIn, Working
<1>4. proc[p].q.file \in {"user", Config, Local, Admission}
  BY <1>2, HomeAssumption DEF Request
<1> QED
  BY <1>2, <1>3, <1>4 DEF EditWrites

\* What is staged is put where nothing is.
LEMMA PlacesIn ==
  ASSUME IInv, NEW p \in Procs, Places(p)
  PROVE  LET d == proc[p].dir
         IN /\ d \in Dirs /\ DOMAIN tree[d] = {} /\ stages[d] = {} /\ Whole(proc[p].files, issued)
            /\ d \notin runtime
            /\ tree' = [tree EXCEPT ![d] = proc[p].files] /\ exists' = exists \cup {d}
            /\ UNCHANGED stages /\ runtime' \subseteq runtime \cup {d}
<1>1. proc[p].at = "places" /\ Fits(proc[p], issued)
  BY DEF Places, IInv, ProcsFit
<1>2. proc[p].dir \in Dirs /\ Whole(proc[p].files, issued)
  BY <1>1 DEF Fits, Homeless
<1> QED
  BY <1>2, EmptyHasNothing DEF Places, IInv

\* A move of an init: what moves in its turn, and that nothing is in its way.
LEMMA InitMovesIn ==
  ASSUME IInv, NEW p \in Procs, InitMoves(p)
  PROVE  LET d == proc[p].dir
             n == proc[p].next
             part == DOMAIN proc[p].files \cap Under(Moves[n])
         IN /\ proc[p].at = "moves" /\ n \in 1..4 /\ d \in Dirs /\ d \in exists
            /\ \E id \in 2..issued : proc[p].files = Template(id)
            /\ part = (CASE n = 1 -> {Admission} [] n = 2 -> {Rules} [] n = 3 -> {Page}
                         [] n = 4 -> {Config})
            /\ n = 3 => {Page, Object} \cap DOMAIN tree[d] = {}
            /\ n = 4 => {Config, Local} \cap DOMAIN tree[d] = {}
            /\ tree' = [tree EXCEPT ![d] = [f \in DOMAIN tree[d] \cup part |->
                                              IF f \in part THEN proc[p].files[f] ELSE tree[d][f]]]
            /\ runtime' \subseteq runtime \cup {d} /\ UNCHANGED <<exists, stages>>
<1>1. proc[p].at = "moves" /\ Fits(proc[p], issued)
  BY DEF InitMoves, IInv, ProcsFit
<1>2. /\ proc[p].dir \in Dirs /\ proc[p].next \in 1..4
      /\ \E id \in 2..issued : proc[p].files = Template(id)
  BY <1>1 DEF Fits, Homeless
<1>3. proc[p].dir \in exists
  BY <1>1, <1>2 DEF IInv, OneLastMove, WorldFits
<1>4. DOMAIN proc[p].files = {Config, Rules, Page, Admission}
  <2>1. PICK id \in 2..issued : proc[p].files = Template(id)
    BY <1>2
  <2>2. issued \in Nat /\ id \in 1..issued
    BY DEF IInv, WorldFits
  <2> QED
    BY <2>1, <2>2, TemplateFits
<1>5. Movable(proc[p].dir, Moves[proc[p].next])
  BY DEF InitMoves
<1>6. proc[p].next = 3 => {Page, Object} \cap DOMAIN tree[proc[p].dir] = {}
  BY <1>5, MovesAre DEF Movable
<1>7. proc[p].next = 4 => {Config, Local} \cap DOMAIN tree[proc[p].dir] = {}
  BY <1>5, MovesAre DEF Movable
<1>8. LET n == proc[p].next
      IN DOMAIN proc[p].files \cap Under(Moves[n]) =
           (CASE n = 1 -> {Admission} [] n = 2 -> {Rules} [] n = 3 -> {Page} [] n = 4 -> {Config})
  BY <1>2, <1>4, MovesAre, FilesDiffer
<1> QED
  BY <1>1, <1>2, <1>3, <1>6, <1>7, <1>8 DEF InitMoves

\* What an init that fails takes away again: never a configuration.
LEMMA InitMoveFailsIn ==
  ASSUME IInv, NEW p \in Procs, InitMoveFails(p)
  PROVE  LET d == proc[p].dir
             n == proc[p].next
         IN /\ proc[p].at = "moves" /\ d \in Dirs /\ n \in 1..4 /\ UNCHANGED <<exists, runtime>>
            /\ stages' = [stages EXCEPT ![d] = @ \ {p}]
            /\ \E gone \in SUBSET Files :
                 /\ gone = UNION {Under(m) : m \in {Moves[i] : i \in 1..(n - 1)}}
                 /\ gone \subseteq {Admission, Rules, Page, Object}
                 /\ n # 4 => gone \subseteq {Admission, Rules}
                 /\ tree' = [tree EXCEPT ![d] = Restrict(@, DOMAIN @ \ gone)]
<1>1. proc[p].at = "moves" /\ Fits(proc[p], issued)
  BY DEF InitMoveFails, IInv, ProcsFit
<1>2. proc[p].dir \in Dirs /\ proc[p].next \in 1..4
  BY <1>1 DEF Fits, Homeless
<1> DEFINE gone == UNION {Under(m) : m \in {Moves[i] : i \in 1..(proc[p].next - 1)}}
<1>3. \A f \in gone : \E i \in 1..3 : i <= proc[p].next - 1 /\ f \in Under(Moves[i])
  BY <1>2
<1>4. gone \subseteq {Admission, Rules, Page, Object}
  BY <1>3, MovesAre
<1>5. proc[p].next # 4 => gone \subseteq {Admission, Rules}
  <2>1. ASSUME proc[p].next # 4, NEW f \in gone PROVE f \in {Admission, Rules}
    <3>1. PICK i \in 1..3 : i <= proc[p].next - 1 /\ f \in Under(Moves[i])
      BY <1>3
    <3>2. i \in 1..2
      BY <1>2, <2>1, <3>1
    <3> QED
      BY <3>1, <3>2, MovesAre
  <2> QED
    BY <2>1
<1>6. /\ tree' = [tree EXCEPT ![proc[p].dir] =
                    Restrict(tree[proc[p].dir], DOMAIN tree[proc[p].dir] \ gone)]
      /\ UNCHANGED <<exists, runtime>>
      /\ stages' = [stages EXCEPT ![proc[p].dir] = @ \ {p}]
  BY DEF InitMoveFails, locks
<1>7. gone \in SUBSET Files
  BY <1>4, FilesDiffer
<1> HIDE DEF gone
<1> QED
  BY <1>1, <1>2, <1>4, <1>5, <1>6, <1>7 DEF gone

-----------------------------------------------------------------------------
(* The parts of the invariant, one after the other.                        *)

\* Identities are only added.
LEMMA IssuedGrows ==
  ASSUME IInv, [Next]_vars
  PROVE  issued \in Nat /\ issued >= 1 /\ issued' \in Nat /\ issued' >= issued
<1>1. issued \in Nat /\ issued >= 1
  BY DEF IInv, WorldFits
<1>2. CASE UNCHANGED issued
  BY <1>1, <1>2
<1>3. ASSUME NEW p \in Procs, Acts(p), issued' # issued PROVE issued' = issued + 1
  <2>1. PICK q \in Requests : InitStarts(p, q)
    BY <1>3, Steps DEF Touches
  <2> QED
    BY <2>1 DEF InitStarts
<1>4. HandEdit \/ Damage \/ UNCHANGED vars => UNCHANGED issued
  BY DEF HandEdit, Damage, vars
<1> QED
  BY <1>1, <1>2, <1>3, <1>4, StepCases

\* A Vault stays one.
LEMMA VaultsStay ==
  ASSUME IInv, [Next]_vars, NEW d \in Dirs, Config \in DOMAIN tree[d]
  PROVE  Config \in DOMAIN tree'[d]
<1>1. DOMAIN tree = Dirs
  BY DEF IInv, WorldFits
<1>2. ASSUME NEW p \in Procs, SaveWrites(p) PROVE Config \in DOMAIN tree'[d]
  <2>1. PICK f \in {Object, Page} : tree' = [tree EXCEPT ![proc[p].dir] = Written(@, f, proc[p].save)]
    BY <1>2, SaveWritesIn
  <2> QED
    BY <1>1, <2>1 DEF Written
<1>3. ASSUME NEW p \in Procs, EditWrites(p) PROVE Config \in DOMAIN tree'[d]
  <2>1. \/ UNCHANGED tree
        \/ tree' = [tree EXCEPT ![proc[p].dir] = Written(@, proc[p].q.file, proc[p].after)]
    BY <1>3, EditWritesIn
  <2> QED
    BY <1>1, <2>1 DEF Written
<1>4. ASSUME NEW p \in Procs, Places(p) PROVE Config \in DOMAIN tree'[d]
  BY <1>1, <1>4, PlacesIn
<1>5. ASSUME NEW p \in Procs, InitMoves(p) PROVE Config \in DOMAIN tree'[d]
  <2>1. PICK part :
          tree' = [tree EXCEPT ![proc[p].dir] =
                     [f \in DOMAIN tree[proc[p].dir] \cup part |->
                        IF f \in part THEN proc[p].files[f] ELSE tree[proc[p].dir][f]]]
    BY <1>5, InitMovesIn
  <2> QED
    BY <1>1, <2>1
<1>6. ASSUME NEW p \in Procs, InitMoveFails(p) PROVE Config \in DOMAIN tree'[d]
  <2>1. PICK gone \in SUBSET Files :
          /\ gone \subseteq {Admission, Rules, Page, Object}
          /\ tree' = [tree EXCEPT ![proc[p].dir] = Restrict(@, DOMAIN @ \ gone)]
    BY <1>6, InitMoveFailsIn
  <2>2. Config \notin gone
    BY <2>1, FilesDiffer
  <2> QED
    BY <1>1, <2>1, <2>2 DEF Restrict
<1>7. CASE HandEdit
  BY <1>1, <1>7, HandEditChanges
<1>8. CASE UNCHANGED tree
  BY <1>8
<1>9. ASSUME NEW p \in Procs, Acts(p) PROVE Config \in DOMAIN tree'[d]
  BY <1>2, <1>3, <1>4, <1>5, <1>6, <1>8, <1>9, Steps DEF Touches
<1>10. Damage \/ UNCHANGED vars => UNCHANGED tree
  BY DEF Damage, vars
<1> QED
  BY <1>7, <1>8, <1>9, <1>10, StepCases

\* Every tree fits, after every step.
LEMMA TreesFit ==
  ASSUME IInv, [Next]_vars
  PROVE  DOMAIN tree' = Dirs /\ \A d \in Dirs : TreeFits(tree'[d], issued')
<1>1. /\ DOMAIN tree = Dirs /\ issued \in Nat
      /\ \A d \in Dirs : TreeFits(tree[d], issued) /\ FilesFit(tree[d], issued)
  BY DEF IInv, WorldFits, TreeFits
<1> DEFINE G == DOMAIN tree' = Dirs /\ \A d \in Dirs : TreeFits(tree'[d], issued)
<1>2. ASSUME NEW p \in Procs, SaveWrites(p) PROVE G
  <2>1. PICK f \in {Object, Page} : tree' = [tree EXCEPT ![proc[p].dir] = Written(@, f, proc[p].save)]
    BY <1>2, SaveWritesIn
  <2>2. proc[p].dir \in Dirs /\ proc[p].save \in Nat
    BY <1>2, SaveWritesIn
  <2>3. TreeFits(Written(tree[proc[p].dir], f, proc[p].save), issued)
    <3>1. FilesFit(Written(tree[proc[p].dir], f, proc[p].save), issued)
      BY <1>1, <2>2, WrittenFits, FilesDiffer
    <3> QED
      BY <1>1, <2>2, <3>1, FilesDiffer DEF TreeFits, Written
  <2> QED
    BY <1>1, <2>1, <2>2, <2>3
<1>3. ASSUME NEW p \in Procs, EditWrites(p) PROVE G
  <2>1. CASE proc[p].q.file = "user"
    BY <1>1, <1>3, <2>1, EditWritesIn
  <2>2. CASE proc[p].q.file # "user"
    <3> DEFINE d == proc[p].dir
               f == proc[p].q.file
    <3>1. d \in Dirs /\ Config \in DOMAIN tree[d] /\ f \in {Config, Local, Admission}
      BY <1>3, <2>2, EditWritesIn
    <3>2. FilesFit(Written(tree[d], f, proc[p].after), issued)
      <4>1. f = Config => DOMAIN proc[p].after = DOMAIN Blank /\ proc[p].after.id \in 1..issued
        BY <1>3, EditWritesIn
      <4>2. f \in Files /\ f \notin {Rules, Note, Object, Page}
        BY <3>1, FilesDiffer
      <4> QED
        BY <1>1, <3>1, <4>1, <4>2, WrittenFits
    <3>3. Page \in DOMAIN Written(tree[d], f, proc[p].after)
      BY <1>1, <3>1 DEF TreeFits, Written
    <3>4. tree' = [tree EXCEPT ![d] = Written(@, f, proc[p].after)]
      BY <1>3, <2>2, EditWritesIn
    <3> QED
      BY <1>1, <3>1, <3>2, <3>3, <3>4 DEF TreeFits
  <2> QED
    BY <2>1, <2>2
<1>4. ASSUME NEW p \in Procs, Places(p) PROVE G
  BY <1>1, <1>4, PlacesIn DEF Whole
<1>5. ASSUME NEW p \in Procs, InitMoves(p) PROVE G
  <2> DEFINE d == proc[p].dir
             n == proc[p].next
             part == DOMAIN proc[p].files \cap Under(Moves[n])
             new == [f \in DOMAIN tree[d] \cup part |->
                       IF f \in part THEN proc[p].files[f] ELSE tree[d][f]]
  <2>1. /\ proc[p].at = "moves" /\ n \in 1..4 /\ d \in Dirs /\ tree' = [tree EXCEPT ![d] = new]
        /\ part = (CASE n = 1 -> {Admission} [] n = 2 -> {Rules} [] n = 3 -> {Page}
                     [] n = 4 -> {Config})
    BY <1>5, InitMovesIn
  <2>2. PICK id \in 2..issued : proc[p].files = Template(id)
    BY <1>5, InitMovesIn
  <2>3. FilesFit(proc[p].files, issued) /\ part \subseteq DOMAIN proc[p].files
    BY <1>1, <2>2, TemplateFits DEF Whole, TreeFits
  <2>4. FilesFit(new, issued)
    <3> HIDE DEF part
    <3> QED
      BY <1>1, <2>1, <2>3 DEF FilesFit
  <2>5. Config \in DOMAIN new => Page \in DOMAIN new
    <3>1. CASE n = 4
      BY <1>5, <2>1, <3>1 DEF IInv, OneLastMove, Last
    <3>2. CASE n # 4
      <4>1. Config \notin part
        BY <2>1, <3>2, FilesDiffer
      <4> QED
        BY <1>1, <2>1, <4>1 DEF TreeFits
    <3> QED
      BY <3>1, <3>2
  <2> HIDE DEF new
  <2> QED
    BY <1>1, <2>1, <2>4, <2>5 DEF TreeFits
<1>6. ASSUME NEW p \in Procs, InitMoveFails(p) PROVE G
  <2>1. PICK gone \in SUBSET Files :
          /\ gone \subseteq {Admission, Rules, Page, Object}
          /\ proc[p].next # 4 => gone \subseteq {Admission, Rules}
          /\ tree' = [tree EXCEPT ![proc[p].dir] = Restrict(@, DOMAIN @ \ gone)]
    BY <1>6, InitMoveFailsIn
  <2> DEFINE d == proc[p].dir
             new == Restrict(tree[d], DOMAIN tree[d] \ gone)
  <2>2. d \in Dirs /\ proc[p].at = "moves"
    BY <1>6, InitMoveFailsIn
  <2>3. FilesFit(new, issued) /\ DOMAIN new = DOMAIN tree[d] \ gone
    BY <1>1, <2>2, RestrictFits
  <2>4. Config \in DOMAIN new => Page \in DOMAIN new
    <3>1. CASE proc[p].next = 4
      BY <2>2, <2>3, <3>1 DEF IInv, OneLastMove, Last
    <3>2. CASE proc[p].next # 4
      BY <1>1, <2>1, <2>2, <2>3, <3>2, FilesDiffer DEF TreeFits
    <3> QED
      BY <3>1, <3>2
  <2> HIDE DEF new
  <2>5. tree' = [tree EXCEPT ![d] = new]
    BY <2>1 DEF new
  <2> QED
    BY <1>1, <2>2, <2>3, <2>4, <2>5 DEF TreeFits
<1>7. ASSUME HandEdit PROVE G
  <2>1. ASSUME NEW d \in Dirs PROVE TreeFits(tree'[d], issued)
    <3>1. /\ DOMAIN tree'[d] = DOMAIN tree[d] /\ tree'[d] = [f \in DOMAIN tree[d] |-> tree'[d][f]]
          /\ \A f \in DOMAIN tree[d] \ ByHand : tree'[d][f] = tree[d][f]
          /\ \A f \in DOMAIN tree[d] \cap {Note, Rules} : tree'[d][f] \in Nat
      BY <1>7, HandEditChanges
    <3>2. Config \notin ByHand /\ {Object, Page} \cap ByHand = {}
      BY FilesDiffer DEF ByHand
    <3>3. TreeFits(tree[d], issued)
      BY <1>1
    <3>4. FilesFit(tree'[d], issued)
      <4>1. ASSUME Config \in DOMAIN tree'[d]
            PROVE  DOMAIN tree'[d][Config] = DOMAIN Blank /\ tree'[d][Config].id \in 1..issued
        BY <3>1, <3>2, <3>3, <4>1 DEF TreeFits, FilesFit
      <4>2. \A f \in DOMAIN tree'[d] \cap {Rules, Note, Object, Page} : tree'[d][f] \in Nat
        BY <3>1, <3>2, <3>3 DEF TreeFits, FilesFit
      <4> QED
        BY <3>1, <3>3, <4>1, <4>2 DEF TreeFits, FilesFit
    <3> QED
      BY <3>1, <3>3, <3>4 DEF TreeFits
  <2>2. DOMAIN tree' = Dirs
    BY <1>1, <1>7, HandEditChanges, HomeAssumption
  <2> QED
    BY <1>1, <2>1, <2>2
<1>8. ASSUME UNCHANGED tree PROVE G
  BY <1>1, <1>8
<1>9. G
  <2>1. ASSUME NEW p \in Procs, Acts(p) PROVE G
    BY <1>2, <1>3, <1>4, <1>5, <1>6, <1>8, <2>1, Steps DEF Touches
  <2>2. Damage \/ UNCHANGED vars => UNCHANGED tree
    BY DEF Damage, vars
  <2> QED
    BY <1>7, <1>8, <2>1, <2>2, StepCases
<1> QED
  BY <1>9, IssuedGrows, FitsMore

\* The other parts of the world: what is in a directory that is not there.
LEMMA WorldStays ==
  ASSUME IInv, [Next]_vars
  PROVE  WorldFits'
<1> DEFINE Rest == /\ exists' \subseteq Dirs /\ runtime' \subseteq exists' /\ DOMAIN stages' = Dirs
                   /\ \A d \in Dirs :
                        /\ stages'[d] \subseteq Procs
                        /\ DOMAIN tree'[d] # {} \/ stages'[d] # {} => d \in exists'
           Pend == DOMAIN pending' = Dirs /\ \A d \in Dirs : pending'[d] \in Nat
<1>1. /\ exists \subseteq Dirs /\ runtime \subseteq exists /\ DOMAIN stages = Dirs
      /\ DOMAIN pending = Dirs /\ DOMAIN tree = Dirs
      /\ \A d \in Dirs :
           /\ stages[d] \subseteq Procs /\ pending[d] \in Nat
           /\ DOMAIN tree[d] # {} \/ stages[d] # {} => d \in exists
  BY DEF IInv, WorldFits
<1>2. ASSUME NEW p \in Procs, RestoreClears(p) PROVE Rest
  <2>1. proc[p].dir \in Dirs
    <3>1. proc[p].at = "clears" /\ Fits(proc[p], issued)
      BY <1>2 DEF RestoreClears, IInv, ProcsFit
    <3> QED
      BY <3>1 DEF Fits, Homeless
  <2>2. UNCHANGED <<tree, stages, runtime>>
    BY <1>2 DEF RestoreClears, locks
  <2>3. CASE UNCHANGED exists
    BY <1>1, <2>2, <2>3
  <2>4. CASE exists' = exists \ {proc[p].dir} /\ IsEmpty(proc[p].dir)
    <3>1. DOMAIN tree[proc[p].dir] = {} /\ stages[proc[p].dir] = {} /\ proc[p].dir \notin runtime
      BY <2>1, <2>4, EmptyHasNothing DEF IInv
    <3> QED
      BY <1>1, <2>1, <2>2, <2>4, <3>1
  <2> QED
    BY <1>2, <2>3, <2>4 DEF RestoreClears
<1>3. ASSUME NEW p \in Procs, Places(p) PROVE Rest
  BY <1>1, <1>3, PlacesIn
<1>4. ASSUME NEW p \in Procs, PlaceFails(p) PROVE Rest
  <2>1. proc[p].dir \in Dirs
    <3>1. proc[p].at = "places" /\ Fits(proc[p], issued)
      BY <1>4 DEF PlaceFails, IInv, ProcsFit
    <3> QED
      BY <3>1 DEF Fits, Homeless
  <2>2. UNCHANGED <<tree, stages, runtime>> /\ exists' \in {exists, exists \cup {proc[p].dir}}
    BY <1>4 DEF PlaceFails, locks
  <2> QED
    BY <1>1, <2>1, <2>2
<1>5. ASSUME NEW p \in Procs, InitStages(p) PROVE Rest
  <2>1. \/ UNCHANGED stages
        \/ proc[p].dir \in exists /\ stages' = [stages EXCEPT ![proc[p].dir] = @ \cup {p}]
    BY <1>5 DEF InitStages
  <2>2. UNCHANGED <<tree, exists, runtime>>
    BY <1>5 DEF InitStages, locks
  <2> QED
    BY <1>1, <2>1, <2>2
<1>6. ASSUME NEW p \in Procs, InitMoves(p) PROVE Rest
  <2>1. PICK part :
          tree' = [tree EXCEPT ![proc[p].dir] =
                     [f \in DOMAIN tree[proc[p].dir] \cup part |->
                        IF f \in part THEN proc[p].files[f] ELSE tree[proc[p].dir][f]]]
    BY <1>6, InitMovesIn
  <2>2. /\ proc[p].dir \in exists /\ runtime' \subseteq runtime \cup {proc[p].dir}
        /\ UNCHANGED <<exists, stages>>
    BY <1>6, InitMovesIn
  <2> QED
    BY <1>1, <2>1, <2>2
<1>7. ASSUME NEW p \in Procs, InitMoveFails(p) PROVE Rest
  <2>1. PICK gone : tree' = [tree EXCEPT ![proc[p].dir] = Restrict(@, DOMAIN @ \ gone)]
    BY <1>7, InitMoveFailsIn
  <2>2. /\ proc[p].dir \in Dirs /\ UNCHANGED <<exists, runtime>>
        /\ stages' = [stages EXCEPT ![proc[p].dir] = @ \ {p}]
    BY <1>7, InitMoveFailsIn
  <2> QED
    BY <1>1, <2>1, <2>2 DEF Restrict
<1>8. ASSUME NEW p \in Procs, InitTidies(p) PROVE Rest
  BY <1>1, <1>8 DEF InitTidies, locks
<1>9. ASSUME NEW p \in Procs, SaveWrites(p) PROVE Rest
  <2>1. PICK f \in {Object, Page} : tree' = [tree EXCEPT ![proc[p].dir] = Written(@, f, proc[p].save)]
    BY <1>9, SaveWritesIn
  <2>2. proc[p].dir \in exists
    BY <1>1, <1>9, SaveWritesIn
  <2>3. UNCHANGED <<exists, stages, runtime>>
    BY <1>9 DEF SaveWrites, locks
  <2> QED
    BY <1>1, <2>1, <2>2, <2>3 DEF Written
<1>10. ASSUME NEW p \in Procs, EditWrites(p) PROVE Rest
  <2>1. \/ UNCHANGED tree
        \/ tree' = [tree EXCEPT ![proc[p].dir] = Written(@, proc[p].q.file, proc[p].after)]
    BY <1>10, EditWritesIn
  <2>2. proc[p].dir \in exists
    BY <1>1, <1>10, EditWritesIn
  <2>3. UNCHANGED <<exists, stages, runtime>>
    BY <1>10 DEF EditWrites, locks
  <2> QED
    BY <1>1, <2>1, <2>2, <2>3 DEF Written
<1>11. ASSUME HandEdit PROVE Rest
  <2>1. UNCHANGED <<exists, stages, runtime>>
    BY <1>11 DEF HandEdit, locks
  <2>2. \A d \in Dirs : DOMAIN tree'[d] = DOMAIN tree[d]
    BY <1>11, HandEditChanges
  <2> QED
    BY <1>1, <2>1, <2>2
<1>12. ASSUME UNCHANGED <<tree, exists, stages>>,
              UNCHANGED runtime \/ \E d \in exists : runtime' = runtime \cup {d}
       PROVE  Rest
  BY <1>1, <1>12
<1>13. Rest
  <2>1. ASSUME NEW p \in Procs, Acts(p) PROVE Rest
    <3>1. Touches(p)
      BY <2>1, Steps
    <3>2. UNCHANGED runtime \/ Places(p) \/ InitMoves(p) \/ \E d \in exists : runtime' = runtime \cup {d}
      BY <3>1 DEF Touches, Opens
    <3> QED
      BY <1>2, <1>3, <1>4, <1>5, <1>6, <1>7, <1>8, <1>9, <1>10, <1>12, <3>1, <3>2 DEF Touches
  <2>2. Damage \/ UNCHANGED vars => UNCHANGED <<tree, exists, stages, runtime>>
    BY DEF Damage, vars, locks
  <2> QED
    BY <1>11, <1>12, <2>1, <2>2, StepCases
<1>14. Pend
  <2>1. ASSUME NEW p \in Procs, SaveMarks(p) PROVE Pend
    <3>1. proc[p].at = "marks" /\ Fits(proc[p], issued)
      BY <2>1 DEF SaveMarks, IInv, ProcsFit
    <3>2. proc[p].save \in Nat
      BY <3>1 DEF Fits, Saving
    <3> QED
      BY <1>1, <2>1, <3>2 DEF SaveMarks
  <2>2. ASSUME NEW p \in Procs, SaveEnds(p) PROVE Pend
    BY <1>1, <2>2 DEF SaveEnds
  <2>3. ASSUME UNCHANGED pending PROVE Pend
    BY <1>1, <2>3
  <2>4. ASSUME NEW p \in Procs, Acts(p) PROVE Pend
    BY <2>1, <2>2, <2>3, <2>4, Steps DEF Touches
  <2>5. HandEdit \/ Damage \/ UNCHANGED vars => UNCHANGED pending
    BY DEF HandEdit, Damage, vars
  <2> QED
    BY <2>3, <2>4, <2>5, StepCases
<1> HIDE DEF Rest, Pend
<1>15. /\ issued' \in Nat /\ issued' >= 1
  BY IssuedGrows
<1> QED
  BY <1>13, <1>14, <1>15, TreesFit DEF WorldFits, Rest, Pend

\* The locks that processes hold are of files that were there.
LEMMA LocksStay ==
  ASSUME IInv, [Next]_vars
  PROVE  LocksFit'
<1>1. /\ DOMAIN lockFile = Dirs /\ DOMAIN inodes = Dirs /\ DOMAIN held = Procs
      /\ \A d \in Dirs : inodes[d] \in Nat /\ lockFile[d] \in Nat /\ lockFile[d] <= inodes[d]
      /\ \A p \in Procs : held[p] # NoLock =>
           /\ held[p].dir \in Dirs /\ held[p].inode \in Nat /\ held[p].inode >= 1
           /\ held[p].inode <= inodes[held[p].dir]
      /\ \A p, q \in Procs :
           p # q /\ held[p] # NoLock /\ held[q].dir = held[p].dir /\ held[q].inode = held[p].inode =>
             held[p].mode = "shared" /\ held[q].mode = "shared"
  BY DEF IInv, LocksFit
<1>2. ASSUME NEW p \in Procs, NEW d \in Dirs, NEW mode \in {"shared", "exclusive"}, Opens(p, d, mode)
      PROVE  LocksFit'
  <2> DEFINE i == InodeOf(d)
  <2>1. i \in Nat /\ i >= 1 /\ i <= inodes[d] + 1 /\ lockFile[d] <= i
    BY <1>1 DEF InodeOf
  <2>2. /\ DOMAIN inodes' = Dirs /\ DOMAIN lockFile' = Dirs
        /\ lockFile'[d] = i /\ inodes'[d] \in Nat /\ i <= inodes'[d] /\ inodes[d] <= inodes'[d]
        /\ \A e \in Dirs \ {d} : lockFile'[e] = lockFile[e] /\ inodes'[e] = inodes[e]
    <3> HIDE DEF i
    <3>1. /\ lockFile' = [lockFile EXCEPT ![d] = i]
          /\ inodes' = [inodes EXCEPT ![d] = IF i > @ THEN i ELSE @]
      BY <1>2 DEF Opens, i
    <3> QED
      BY <1>1, <2>1, <3>1
  <2>3. CASE UNCHANGED held
    <3> HIDE DEF i
    <3>1. \A o \in Procs : held[o] # NoLock => held[o].inode <= inodes'[held[o].dir]
      BY <1>1, <2>1, <2>2
    <3> QED
      BY <1>1, <2>1, <2>2, <2>3, <3>1 DEF LocksFit
  <2>4. CASE /\ Compatible(p, d, i, mode)
             /\ held' = [held EXCEPT ![p] = [dir |-> d, inode |-> i, mode |-> mode]]
    <3>1. /\ DOMAIN held' = Procs /\ held'[p] = [dir |-> d, inode |-> i, mode |-> mode]
          /\ \A o \in Procs \ {p} : held'[o] = held[o]
      BY <1>1, <2>4
    <3>2. \A o \in Procs \ {p} :
            held[o].dir = d /\ held[o].inode = i => mode = "shared" /\ held[o].mode = "shared"
      BY <2>4 DEF Compatible
    <3> HIDE DEF i
    <3>3. \A o \in Procs : held'[o] # NoLock =>
            /\ held'[o].dir \in Dirs /\ held'[o].inode \in Nat /\ held'[o].inode >= 1
            /\ held'[o].inode <= inodes'[held'[o].dir]
      BY <1>1, <2>1, <2>2, <3>1
    <3>4. \A o, q \in Procs :
            o # q /\ held'[o] # NoLock /\ held'[q].dir = held'[o].dir
              /\ held'[q].inode = held'[o].inode =>
                held'[o].mode = "shared" /\ held'[q].mode = "shared"
      BY <1>1, <3>1, <3>2
    <3> QED
      BY <1>1, <2>1, <2>2, <3>1, <3>3, <3>4 DEF LocksFit
  <2> QED
    BY <1>2, <2>3, <2>4 DEF Opens
<1>3. ASSUME NEW p \in Procs, UNCHANGED <<lockFile, inodes>> \/ DoctorRemoves(p),
             UNCHANGED held \/ held' = [held EXCEPT ![p] = NoLock]
      PROVE  LocksFit'
  <2>1. /\ UNCHANGED inodes /\ DOMAIN lockFile' = Dirs
        /\ \A d \in Dirs : lockFile'[d] = lockFile[d] \/ lockFile'[d] = 0
    BY <1>1, <1>3 DEF DoctorRemoves
  <2>2. DOMAIN held' = Procs /\ \A o \in Procs : held'[o] = held[o] \/ held'[o] = NoLock
    BY <1>1, <1>3
  <2>3. \A o \in Procs : held[o] # NoLock => held[o].dir # NoDir
    BY <1>1, HomeAssumption
  <2> QED
    BY <1>1, <2>1, <2>2, <2>3 DEF LocksFit, NoLock
<1>4. ASSUME UNCHANGED <<lockFile, inodes, held>> PROVE LocksFit'
  BY <1>1, <1>4 DEF LocksFit
<1>5. ASSUME NEW p \in Procs, Acts(p) PROVE LocksFit'
  <2>1. exists \subseteq Dirs /\ Touches(p)
    BY <1>5, Steps DEF IInv, WorldFits
  <2> QED
    BY <1>2, <1>3, <2>1 DEF Touches
<1>6. HandEdit \/ Damage \/ UNCHANGED vars => UNCHANGED <<lockFile, inodes, held>>
  BY DEF HandEdit, Damage, vars, locks
<1> QED
  BY <1>4, <1>5, <1>6, StepCases

\* The registry has every Vault once, whatever was registered meanwhile.
LEMMA RegistryStays ==
  ASSUME IInv, [Next]_vars
  PROVE  RegistryFits'
<1>1. issued \in Nat /\ issued' \in Nat /\ issued <= issued'
  BY IssuedGrows
<1>2. /\ regLock \in Procs \cup {NoProc} /\ RegistryValid(registry)
      /\ \A r \in registry : r.id \in 1..issued' /\ r.path \in Dirs
  BY <1>1 DEF IInv, RegistryFits
<1>3. ASSUME NEW p \in Procs, RegistryStores(p), registry' # registry
      PROVE  RegistryValid(registry') /\ \A r \in registry' : r.id \in 1..issued' /\ r.path \in Dirs
  <2> DEFINE x == proc[p]
  <2>1. x.at = "stores" /\ Fits(x, issued)
    BY <1>3 DEF RegistryStores, IInv, ProcsFit
  <2>2. /\ \A r \in x.loaded : r.id \in 1..issued /\ r.path \in Dirs
        /\ x.change # "unregister" => x.record.id \in 1..issued /\ x.record.path \in Dirs
    BY <2>1 DEF Fits
  <2>3. registry' = Changed(x.change, x.loaded, x.record) /\ RegistryValid(registry')
    BY <1>3 DEF RegistryStores
  <2>4. ASSUME NEW r \in registry' PROVE r.id \in 1..issued /\ r.path \in Dirs
    BY <2>2, <2>3, <2>4 DEF Changed
  <2> QED
    BY <1>1, <2>3, <2>4
<1>4. regLock' \in Procs \cup {NoProc}
  <2>1. ASSUME NEW p \in Procs, Acts(p) PROVE regLock' \in Procs \cup {NoProc}
    <3>1. RegistryLoads(p) \/ RegistryStores(p) \/ Dies(p) => regLock' \in {regLock, p, NoProc}
      BY DEF RegistryLoads, RegistryStores, Dies
    <3>2. UNCHANGED regLock \/ RegistryLoads(p) \/ RegistryStores(p) \/ Dies(p)
      BY <2>1, Steps DEF Touches
    <3> QED
      BY <1>2, <3>1, <3>2
  <2>2. HandEdit \/ Damage \/ UNCHANGED vars => UNCHANGED regLock
    BY DEF HandEdit, Damage, vars
  <2> QED
    BY <1>2, <2>1, <2>2, StepCases
<1>5. RegistryValid(registry') /\ \A r \in registry' : r.id \in 1..issued' /\ r.path \in Dirs
  <2>1. ASSUME NEW p \in Procs, Acts(p), registry' # registry
        PROVE  RegistryValid(registry') /\ \A r \in registry' : r.id \in 1..issued' /\ r.path \in Dirs
    BY <1>3, <2>1, Steps DEF Touches
  <2>2. HandEdit \/ Damage \/ UNCHANGED vars => UNCHANGED registry
    BY DEF HandEdit, Damage, vars
  <2> QED
    BY <1>2, <2>1, <2>2, StepCases
<1> QED
  BY <1>4, <1>5 DEF RegistryFits, RegistryValid

\* What a process that works in a Vault holds, when its step has ended.
LEMMA WorkGoesOn ==
  ASSUME IInv, NEW p \in Procs, Acts(p), proc'[p].at \in Working
  PROVE  /\ proc'[p].dir \in Dirs /\ Config \in DOMAIN tree[proc'[p].dir]
         /\ held'[p].dir = proc'[p].dir
         /\ proc'[p].at \in Reading => held'[p].mode = "shared"
         /\ proc'[p].at \notin Reading => held'[p].mode = "exclusive"
<1> DEFINE G == /\ proc'[p].dir \in Dirs /\ Config \in DOMAIN tree[proc'[p].dir]
                /\ held'[p].dir = proc'[p].dir
                /\ proc'[p].at \in Reading => held'[p].mode = "shared"
                /\ proc'[p].at \notin Reading => held'[p].mode = "exclusive"
<1>0. /\ DOMAIN proc = Procs /\ DOMAIN held = Procs /\ Fits(proc[p], issued) /\ exists \subseteq Dirs
      /\ proc[p].at \in Working =>
           /\ Config \in DOMAIN tree[proc[p].dir] /\ held[p].dir = proc[p].dir
           /\ held[p].mode = IF proc[p].at \in Reading THEN "shared" ELSE "exclusive"
  BY DEF IInv, ProcsFit, LocksFit, WorldFits, VaultsWorkedIn, Holding, Working, Reading, Saving
<1>1. ASSUME NEW q \in Requests,
             SaveStarts(p, q) \/ EditStarts(p, q) \/ AdmissionStarts(p, q), proc'[p] # Idle,
             proc'[p].at \notin Reading
      PROVE  G
  <2>1. PICK d \in Selected(q) : \E allowed, next :
                Locking(p, d, "exclusive", allowed, next) /\ next.dir = d
    <3>1. CASE SaveStarts(p, q)
      BY <3>1 DEF SaveStarts
    <3>2. CASE EditStarts(p, q) \/ AdmissionStarts(p, q)
      BY <3>2 DEF EditStarts, AdmissionStarts, EditLocks
    <3> QED
      BY <1>1, <3>1, <3>2
  <2>2. d \in Dirs /\ Config \in DOMAIN tree[d]
    BY <1>0, SelectedIsVault
  <2>3. proc'[p].dir = d
        /\ held' = [held EXCEPT ![p] = [dir |-> d, inode |-> InodeOf(d), mode |-> "exclusive"]]
    BY <1>0, <1>1, <2>1 DEF Locking
  <2> QED
    BY <1>0, <1>1, <2>1, <2>2, <2>3
<1>2. ASSUME NEW q \in Requests, BackupStarts(p, q), proc'[p] # Idle, proc'[p].at = "collects"
      PROVE  G
  <2>1. PICK d \in Selected(q) : \E allowed, next :
                Locking(p, d, "shared", allowed, next) /\ next.dir = d
    BY <1>2 DEF BackupStarts
  <2>2. d \in Dirs /\ Config \in DOMAIN tree[d]
    BY <1>0, SelectedIsVault
  <2>3. proc'[p].dir = d
        /\ held' = [held EXCEPT ![p] = [dir |-> d, inode |-> InodeOf(d), mode |-> "shared"]]
    BY <1>0, <1>2, <2>1 DEF Locking
  <2> QED
    BY <1>0, <1>2, <2>1, <2>2, <2>3 DEF Reading
<1>3. ASSUME proc[p].at \in Working, proc'[p].dir = proc[p].dir, UNCHANGED held,
             proc[p].at \in Reading <=> proc'[p].at \in Reading
      PROVE  G
  BY <1>0, <1>3 DEF Fits, Homeless, Working, Saving, Reading
<1>4. ASSUME SaveMarks(p) PROVE G
  BY <1>0, <1>3, <1>4 DEF SaveMarks, Goes, Fits, Working, Saving, Reading
<1>5. ASSUME SaveWrites(p) PROVE G
  BY <1>0, <1>3, <1>5 DEF SaveWrites, Goes, Fits, Working, Saving, Reading
<1>6. ASSUME EditReads(p) PROVE G
  BY <1>0, <1>3, <1>6 DEF EditReads, Goes, Ends, Idle, Fits, Working, Saving, Reading
<1>7. ASSUME BackupCollects(p) PROVE G
  BY <1>0, <1>3, <1>7 DEF BackupCollects, Goes, Ends, Idle, Fits, Working, Saving, Reading
<1>8. ASSUME BackupHashes(p) PROVE G
  <2>1. /\ proc[p].at = "hashes" /\ DOMAIN proc[p] =
             {"at", "dir", "complete", "todo", "files", "copied", "snap", "id", "roots",
                    "admission"}
    BY <1>0, <1>8 DEF BackupHashes, Fits, Archiving
  <2>2. PICK f \in proc[p].todo :
          LET files == Written(proc[p].files, f, tree[proc[p].dir][f])
              rest == proc[p].todo \ {f}
          IN \/ Ends(p)
             \/ Goes(p, [proc[p] EXCEPT !.todo = rest, !.files = files])
             \/ Goes(p, [proc[p] EXCEPT !.at = "copies", !.files = files, !.todo = DOMAIN files,
                               !.snap = Restrict(tree[proc[p].dir], DOMAIN files)])
    BY <1>8, HashTurn
  <2>3. ~Ends(p)
    BY <1>0 DEF Ends, Idle, Working, Saving, Reading
  <2>4. UNCHANGED held /\ proc'[p].dir = proc[p].dir /\ proc'[p].at \in Reading
    <3>1. CASE Goes(p, [proc[p] EXCEPT !.todo = @ \ {f},
                                       !.files = Written(@, f, tree[proc[p].dir][f])])
      BY <1>0, <2>1, <3>1 DEF Goes, Reading
    <3>2. CASE Goes(p, LET files == Written(proc[p].files, f, tree[proc[p].dir][f])
                       IN [proc[p] EXCEPT !.at = "copies", !.files = files, !.todo = DOMAIN files,
                             !.snap = Restrict(tree[proc[p].dir], DOMAIN files)])
      BY <1>0, <2>1, <3>2 DEF Goes, Reading
    <3> QED
      BY <2>2, <2>3, <3>1, <3>2
  <2> QED
    BY <1>3, <2>1, <2>4 DEF Working, Reading
<1>9. ASSUME BackupCopies(p) PROVE G
  <2>1. /\ proc[p].at = "copies" /\ DOMAIN proc[p] =
             {"at", "dir", "complete", "todo", "files", "copied", "snap", "id", "roots",
                    "admission"}
    BY <1>0, <1>9 DEF BackupCopies, Fits, Archiving
  <2>2. PICK f \in proc[p].todo :
          LET copied == Written(proc[p].copied, f, tree[proc[p].dir][f])
              rest == proc[p].todo \ {f}
          IN \/ Ends(p)
             \/ Goes(p, [proc[p] EXCEPT !.todo = rest, !.copied = copied,
                               !.at = IF rest = {} THEN "publishes" ELSE @])
    BY <1>9, CopyTurn
  <2>3. ~Ends(p)
    BY <1>0 DEF Ends, Idle, Working, Saving, Reading
  <2>4. UNCHANGED held /\ proc'[p].dir = proc[p].dir /\ proc'[p].at \in Reading
    <3>1. Goes(p, LET rest == proc[p].todo \ {f}
                  IN [proc[p] EXCEPT !.todo = rest, !.copied = Written(@, f, tree[proc[p].dir][f]),
                        !.at = IF rest = {} THEN "publishes" ELSE @])
      BY <2>2, <2>3
    <3> QED
      BY <1>0, <2>1, <3>1 DEF Goes, Reading
  <2> QED
    BY <1>3, <2>1, <2>4 DEF Working, Reading
<1>10. proc'[p] # Idle
  BY DEF Idle, Working, Saving, Reading
<1>11. Arrives(p)
  BY Steps
<1>12. \/ SaveMarks(p) \/ SaveWrites(p) \/ EditReads(p) \/ BackupCollects(p) \/ BackupHashes(p)
       \/ BackupCopies(p)
       \/ proc'[p].at \in {"marks", "reads"}
            /\ \E q \in Requests : SaveStarts(p, q) \/ EditStarts(p, q) \/ AdmissionStarts(p, q)
       \/ proc'[p].at = "collects" /\ \E q \in Requests : BackupStarts(p, q)
  BY <1>10, <1>11 DEF Arrives, Working, Saving, Reading
<1>13. proc'[p].at \in {"marks", "reads"} => proc'[p].at \notin Reading
  BY DEF Reading
<1> HIDE DEF G
<1>14. G
  <2>1. ASSUME NEW q \in Requests,
               SaveStarts(p, q) \/ EditStarts(p, q) \/ AdmissionStarts(p, q),
               proc'[p].at \in {"marks", "reads"}
        PROVE  G
    BY <1>1, <1>10, <1>13, <2>1
  <2>2. ASSUME NEW q \in Requests, BackupStarts(p, q), proc'[p].at = "collects" PROVE G
    BY <1>2, <1>10, <2>2
  <2> QED
    BY <1>4, <1>5, <1>6, <1>7, <1>8, <1>9, <1>12, <2>1, <2>2
<1> QED
  BY <1>14 DEF G

\* Whose configuration a process works with, it stays.
LEMMA VaultsWorkedInStay ==
  ASSUME IInv, [Next]_vars
  PROVE  VaultsWorkedIn'
<1>1. ASSUME NEW p \in Procs, Acts(p), NEW o \in Procs, proc'[o].at \in Working
      PROVE  proc'[o].dir \in Dirs /\ Config \in DOMAIN tree[proc'[o].dir]
  <2>1. CASE o = p
    BY <1>1, <2>1, WorkGoesOn
  <2>2. CASE o # p
    <3>1. proc'[o] = proc[o] /\ Fits(proc[o], issued)
      BY <1>1, <2>2, Steps DEF IInv, ProcsFit
    <3> QED
      BY <1>1, <3>1 DEF IInv, VaultsWorkedIn, Fits, Homeless, Working, Saving, Reading
  <2> QED
    BY <2>1, <2>2
<1>2. ASSUME UNCHANGED proc, NEW o \in Procs, proc'[o].at \in Working
      PROVE  proc'[o].dir \in Dirs /\ Config \in DOMAIN tree[proc'[o].dir]
  <2>1. Fits(proc[o], issued)
    BY DEF IInv, ProcsFit
  <2> QED
    BY <1>2, <2>1 DEF IInv, VaultsWorkedIn, Fits, Homeless, Working, Saving, Reading
<1>3. HandEdit \/ Damage \/ UNCHANGED vars => UNCHANGED proc
  BY DEF HandEdit, Damage, vars
<1> QED
  BY <1>1, <1>2, <1>3, StepCases, VaultsStay DEF VaultsWorkedIn

\* Every process holds the lock that its work needs, and no other.
LEMMA HoldingStays ==
  ASSUME IInv, [Next]_vars
  PROVE  Holding'
<1> DEFINE H(o) == /\ proc'[o].at \in Saving \cup {"reads", "writes", "probed"} =>
                        held'[o].dir = proc'[o].dir /\ held'[o].mode = "exclusive"
                   /\ proc'[o].at \in Reading =>
                        held'[o].dir = proc'[o].dir /\ held'[o].mode = "shared"
                   /\ proc'[o].at \notin Working \cup {"probed"} => held'[o] = NoLock
<1>1. ASSUME NEW p \in Procs, Acts(p) PROVE H(p)
  <2>0. DOMAIN proc = Procs /\ DOMAIN held = Procs /\ Touches(p) /\ Arrives(p) /\ Fits(proc[p], issued)
    BY <1>1, Steps DEF IInv, ProcsFit, LocksFit
  <2>1. CASE proc'[p].at \in Working
    BY <1>1, <2>1, WorkGoesOn DEF Working, Saving, Reading
  <2>2. CASE proc'[p].at = "probed"
    <3>1. PICK q \in Requests : DoctorProbes(p, q)
      BY <2>0, <2>2 DEF Arrives, Idle
    <3>2. proc'[p] # Idle
      BY <2>2 DEF Idle
    <3>3. /\ proc'[p].dir = q.dir
          /\ held' = [held EXCEPT ![p] = [dir |-> q.dir, inode |-> InodeOf(q.dir), mode |-> "exclusive"]]
      BY <2>0, <3>1, <3>2 DEF DoctorProbes, Locking
    <3> QED
      BY <2>0, <2>2, <3>3 DEF Working, Saving, Reading
  <2>3. CASE proc'[p].at \notin Working \cup {"probed"}
    <3>1. held'[p] = NoLock \/ proc[p].at \notin Working \cup {"probed"}
      <4>1. CASE proc'[p] = Idle
        BY <2>0, <4>1 DEF Arrives, Idle, Working, Saving, Reading
      <4>2. CASE DoctorUnlocks(p)
        BY <2>0, <4>2 DEF DoctorUnlocks
      <4>3. CASE proc'[p] # Idle /\ ~DoctorUnlocks(p)
        <5>1. \/ RestoreExtracts(p) \/ RestoreClears(p) \/ InitStages(p) \/ InitMoves(p)
              \/ Places(p) \/ InitTidies(p) \/ InitRegisters(p) \/ RegistryLoads(p)
              \/ \E q \in Requests : RestoreStarts(p, q) \/ InitStarts(p, q) \/ RegistryAsks(p, q)
          BY <2>0, <2>3, <4>3 DEF Arrives, Working, Saving, Reading
        <5>2. (\E q \in Requests : RestoreStarts(p, q) \/ InitStarts(p, q) \/ RegistryAsks(p, q))
                => proc[p].at = "idle"
          BY DEF RestoreStarts, InitStarts, RegistryAsks, Asks, Idle
        <5>3. RestoreExtracts(p) => proc[p].at = "extracts"
          BY DEF RestoreExtracts
        <5>4. RestoreClears(p) => proc[p].at = "clears"
          BY DEF RestoreClears
        <5>5. InitStages(p) => proc[p].at = "stages"
          BY DEF InitStages
        <5>6. InitMoves(p) => proc[p].at = "moves"
          BY DEF InitMoves
        <5>7. Places(p) => proc[p].at = "places"
          BY DEF Places
        <5>8. InitTidies(p) => proc[p].at = "tidies"
          BY DEF InitTidies
        <5>9. InitRegisters(p) => proc[p].at = "inspects"
          BY DEF InitRegisters
        <5>10. RegistryLoads(p) => proc[p].at = "waits"
          BY DEF RegistryLoads
        <5> QED
          BY <5>1, <5>2, <5>3, <5>4, <5>5, <5>6, <5>7, <5>8, <5>9, <5>10
             DEF Working, Saving, Reading
      <4> QED
        BY <4>1, <4>2, <4>3
    <3>2. proc[p].at \notin Working \cup {"probed"} => held[p] = NoLock
      BY DEF IInv, Holding
    <3>3. UNCHANGED held \/ held'[p] = NoLock
      BY <2>0, <2>3 DEF Touches, Opens
    <3> QED
      BY <2>3, <3>1, <3>2, <3>3 DEF Working, Saving, Reading
  <2> QED
    BY <2>1, <2>2, <2>3
<1>2. ASSUME NEW p \in Procs, Acts(p), NEW o \in Procs PROVE H(o)
  <2>1. CASE o = p
    BY <1>1, <1>2, <2>1
  <2>2. CASE o # p
    BY <1>2, <2>2, Steps DEF IInv, Holding
  <2> QED
    BY <2>1, <2>2
<1>3. ASSUME UNCHANGED <<proc, held>>, NEW o \in Procs PROVE H(o)
  BY <1>3 DEF IInv, Holding
<1>4. HandEdit \/ Damage \/ UNCHANGED vars => UNCHANGED <<proc, held>>
  BY DEF HandEdit, Damage, vars
<1> QED
  BY <1>2, <1>3, <1>4, StepCases DEF Holding

\* Two inits of one directory never both get to their last move.
LEMMA OneLastMoveStays ==
  ASSUME IInv, [Next]_vars
  PROVE  OneLastMove'
<1> DEFINE Staged(o) == proc[o].at \in {"moves", "tidies"} => o \in stages[proc[o].dir]
           Ready(o) == Last(o) => /\ Page \in DOMAIN tree[proc[o].dir]
                                  /\ Config \notin DOMAIN tree[proc[o].dir]
           Only(o, q) == Last(o) /\ Last(q) /\ proc[q].dir = proc[o].dir => q = o
<1>0. /\ \A o \in Procs : Staged(o) /\ Ready(o) /\ Fits(proc[o], issued)
      /\ \A o, q \in Procs : Only(o, q)
      /\ DOMAIN tree = Dirs /\ DOMAIN stages = Dirs /\ DOMAIN proc = Procs /\ DOMAIN held = Procs
      /\ \A d \in Dirs : TreeFits(tree[d], issued)
  BY DEF IInv, OneLastMove, ProcsFit, WorldFits, LocksFit
<1>1. \A o \in Procs : Last(o) => proc[o].dir \in Dirs /\ o \in stages[proc[o].dir]
  BY <1>0 DEF Fits, Homeless, Last
<1>2. ASSUME NEW p \in Procs, Acts(p), NEW o \in Procs \ {p},
             proc[o].at \in {"moves", "tidies"}
      PROVE  o \in stages'[proc[o].dir]
  <2>1. o \in stages[proc[o].dir] /\ proc[o].dir \in Dirs
    BY <1>0, <1>2 DEF Fits, Homeless
  <2>2. InitStages(p) => stages' = stages \/ stages' = [stages EXCEPT ![proc[p].dir] = @ \cup {p}]
    BY DEF InitStages
  <2>3. InitMoveFails(p) \/ InitTidies(p) => stages' = [stages EXCEPT ![proc[p].dir] = @ \ {p}]
    BY DEF InitMoveFails, InitTidies
  <2>4. UNCHANGED stages \/ InitStages(p) \/ InitMoveFails(p) \/ InitTidies(p)
    BY <1>2, Steps DEF Touches
  <2> QED
    BY <1>0, <1>2, <2>1, <2>2, <2>3, <2>4
<1>3. ASSUME NEW p \in Procs, Acts(p), NEW o \in Procs \ {p}, Last(o)
      PROVE  Page \in DOMAIN tree'[proc[o].dir] /\ Config \notin DOMAIN tree'[proc[o].dir]
  <2> DEFINE d == proc[o].dir
  <2>1. d \in Dirs /\ o \in stages[d] /\ Page \in DOMAIN tree[d] /\ Config \notin DOMAIN tree[d]
    BY <1>0, <1>1, <1>3
  <2>2. CASE SaveWrites(p)
    <3>1. PICK f : tree' = [tree EXCEPT ![proc[p].dir] = Written(@, f, proc[p].save)]
      BY <2>2, SaveWritesIn
    <3>2. proc[p].dir # d
      BY <2>1, <2>2, SaveWritesIn
    <3> QED
      BY <1>0, <2>1, <3>1, <3>2
  <2>3. CASE EditWrites(p)
    <3>1. \/ UNCHANGED tree
          \/ tree' = [tree EXCEPT ![proc[p].dir] = Written(@, proc[p].q.file, proc[p].after)]
      BY <2>3, EditWritesIn
    <3>2. proc[p].dir # d
      BY <2>1, <2>3, EditWritesIn
    <3> QED
      BY <1>0, <2>1, <3>1, <3>2
  <2>4. CASE Places(p)
    <3>1. proc[p].dir # d
      BY <2>1, <2>4, PlacesIn
    <3> QED
      BY <1>0, <2>1, <2>4, <3>1, PlacesIn
  <2>5. CASE InitMoves(p)
    <3>1. PICK part :
            /\ tree' = [tree EXCEPT ![proc[p].dir] =
                          [f \in DOMAIN tree[proc[p].dir] \cup part |->
                             IF f \in part THEN proc[p].files[f] ELSE tree[proc[p].dir][f]]]
            /\ part = (CASE proc[p].next = 1 -> {Admission} [] proc[p].next = 2 -> {Rules}
                         [] proc[p].next = 3 -> {Page} [] proc[p].next = 4 -> {Config})
      BY <2>5, InitMovesIn
    <3>2. proc[p].at = "moves" /\ proc[p].next \in 1..4
      BY <2>5, InitMovesIn
    <3>3. CASE proc[p].dir # d
      BY <1>0, <2>1, <3>1, <3>3
    <3>4. CASE proc[p].dir = d
      <4>1. proc[p].next # 4
        BY <1>0, <1>3, <3>2, <3>4 DEF Last
      <4>2. Config \notin part
        BY <3>1, <3>2, <4>1, FilesDiffer
      <4> QED
        BY <1>0, <2>1, <3>1, <3>4, <4>2
    <3> QED
      BY <3>3, <3>4
  <2>6. CASE InitMoveFails(p)
    <3>1. PICK gone :
            /\ proc[p].next # 4 => gone \subseteq {Admission, Rules}
            /\ tree' = [tree EXCEPT ![proc[p].dir] = Restrict(@, DOMAIN @ \ gone)]
      BY <2>6, InitMoveFailsIn
    <3>2. proc[p].at = "moves"
      BY <2>6, InitMoveFailsIn
    <3>3. CASE proc[p].dir # d
      BY <1>0, <2>1, <3>1, <3>3
    <3>4. CASE proc[p].dir = d
      <4>1. proc[p].next # 4
        BY <1>0, <1>3, <3>2, <3>4 DEF Last
      <4>2. Page \notin gone
        BY <3>1, <4>1, FilesDiffer
      <4> QED
        BY <1>0, <2>1, <3>1, <3>4, <4>2 DEF Restrict
    <3> QED
      BY <3>3, <3>4
  <2>7. CASE UNCHANGED tree
    BY <2>1, <2>7
  <2>8. Touches(p)
    BY <1>3, Steps
  <2> QED
    BY <2>2, <2>3, <2>4, <2>5, <2>6, <2>7, <2>8 DEF Touches
<1>4. ASSUME NEW p \in Procs, Acts(p), proc'[p].at \in {"moves", "tidies"}
      PROVE  /\ p \in stages'[proc'[p].dir]
             /\ Last(p)' => /\ Page \in DOMAIN tree'[proc'[p].dir]
                            /\ Config \notin DOMAIN tree'[proc'[p].dir]
                            /\ Page \notin DOMAIN tree[proc'[p].dir]
  <2>1. InitStages(p) \/ InitMoves(p)
    BY <1>4, Steps DEF Arrives, Idle
  <2>2. CASE InitStages(p)
    <3>1. proc'[p] # Idle
      BY <1>4 DEF Idle
    <3>2. Goes(p, [at |-> "moves", dir |-> proc[p].dir, next |-> 1, files |-> proc[p].files])
          /\ stages' = [stages EXCEPT ![proc[p].dir] = @ \cup {p}]
      BY <1>0, <2>2, <3>1 DEF InitStages, Ends
    <3>3. proc'[p].next = 1 /\ proc'[p].dir = proc[p].dir
      BY <1>0, <3>2 DEF Goes
    <3>4. proc[p].dir \in Dirs
      <4>1. proc[p].at = "stages"
        BY <2>2 DEF InitStages
      <4> QED
        BY <1>0, <4>1 DEF Fits, Homeless
    <3> QED
      BY <1>0, <3>2, <3>3, <3>4 DEF Last
  <2>3. CASE InitMoves(p)
    <3> DEFINE d == proc[p].dir
               n == proc[p].next
    <3>1. PICK part :
            /\ tree' = [tree EXCEPT ![d] = [f \in DOMAIN tree[d] \cup part |->
                          IF f \in part THEN proc[p].files[f] ELSE tree[d][f]]]
            /\ part = (CASE n = 1 -> {Admission} [] n = 2 -> {Rules} [] n = 3 -> {Page}
                         [] n = 4 -> {Config})
      BY <2>3, InitMovesIn
    <3>2. /\ proc[p].at = "moves" /\ n \in 1..4 /\ d \in Dirs /\ UNCHANGED stages
          /\ n = 3 => Page \notin DOMAIN tree[d]
      BY <2>3, InitMovesIn
    <3>3. DOMAIN proc[p] = {"at", "dir", "next", "files"}
      BY <1>0, <3>2 DEF Fits
    <3>4. /\ proc'[p].dir = d
          /\ Last(p)' => n = 3
      <4>1. proc' = [proc EXCEPT ![p] = IF n = Len(Moves) THEN [proc[p] EXCEPT !.at = "tidies"]
                                        ELSE [proc[p] EXCEPT !.next = @ + 1]]
        BY <2>3 DEF InitMoves, Goes
      <4>2. proc'[p] = IF n = 4 THEN [proc[p] EXCEPT !.at = "tidies"]
                       ELSE [proc[p] EXCEPT !.next = @ + 1]
        BY <1>0, <4>1, MovesAre
      <4> QED
        BY <3>2, <3>3, <4>2 DEF Last
    <3>5. CASE n = 3
      <4>1. part = {Page} /\ Page \notin DOMAIN tree[d] /\ Config \notin DOMAIN tree[d]
        BY <1>0, <3>1, <3>2, <3>5 DEF TreeFits
      <4>2. DOMAIN tree'[d] = DOMAIN tree[d] \cup {Page}
        BY <1>0, <3>1, <3>2, <4>1
      <4> QED
        BY <1>0, <3>2, <3>4, <4>1, <4>2, FilesDiffer
    <3> QED
      BY <1>0, <3>2, <3>4, <3>5
  <2> QED
    BY <2>1, <2>2, <2>3
<1>5. ASSUME NEW p \in Procs, Acts(p) PROVE OneLastMove'
  <2>1. \A o \in Procs \ {p} : proc'[o] = proc[o]
    BY <1>5, Steps
  <2>2. \A o \in Procs : Staged(o)'
    BY <1>2, <1>4, <1>5, <2>1
  <2>3. \A o \in Procs : Ready(o)'
    <3>1. \A o \in Procs \ {p} : Last(o)' => Last(o)
      BY <2>1 DEF Last
    <3>2. Last(p)' => proc'[p].at \in {"moves", "tidies"}
      BY DEF Last
    <3> QED
      BY <1>3, <1>4, <1>5, <2>1, <3>1, <3>2
  <2>4. ASSUME NEW o \in Procs, NEW q \in Procs, Last(o)', Last(q)', proc'[q].dir = proc'[o].dir
        PROVE  q = o
    <3>1. CASE o # p /\ q # p
      BY <1>0, <2>1, <2>4, <3>1 DEF Last
    <3>2. ASSUME NEW i \in Procs \ {p}, Last(i), Last(p)', proc'[p].dir = proc[i].dir PROVE FALSE
      <4>1. proc'[p].at \in {"moves", "tidies"}
        BY <3>2 DEF Last
      <4>2. Page \notin DOMAIN tree[proc'[p].dir]
        BY <1>4, <1>5, <3>2, <4>1
      <4> QED
        BY <1>0, <3>2, <4>2
    <3>3. \A i \in Procs \ {p} : Last(i)' => Last(i) /\ proc'[i].dir = proc[i].dir
      BY <2>1 DEF Last
    <3> QED
      BY <2>4, <3>1, <3>2, <3>3
  <2> QED
    BY <2>2, <2>3, <2>4 DEF OneLastMove
<1>6. ASSUME UNCHANGED <<proc, stages>>, \A d \in Dirs : DOMAIN tree'[d] = DOMAIN tree[d]
      PROVE  OneLastMove'
  <2>1. \A o \in Procs : Last(o)' <=> Last(o)
    BY <1>6 DEF Last
  <2> QED
    BY <1>0, <1>1, <1>6, <2>1 DEF OneLastMove
<1>7. HandEdit => UNCHANGED <<proc, stages>> /\ \A d \in Dirs : DOMAIN tree'[d] = DOMAIN tree[d]
  BY HandEditChanges, HomeAssumption
<1>8. Damage \/ UNCHANGED vars =>
        UNCHANGED <<proc, stages>> /\ \A d \in Dirs : DOMAIN tree'[d] = DOMAIN tree[d]
  BY DEF Damage, vars
<1> QED
  BY <1>5, <1>6, <1>7, <1>8, StepCases

\* An archive has whole Vaults; one that is damaged still names what it had.
LEMMA ArchiveStays ==
  ASSUME IInv, [Next]_vars
  PROVE  ArchiveFits'
<1>1. issued \in Nat /\ issued' \in Nat /\ issued <= issued'
  BY IssuedGrows
<1>2. ASSUME NEW a, DOMAIN a = {"manifest", "listed", "entries"}, ManifestFits(a.manifest, issued),
             archive' = {a}
      PROVE  ArchiveFits'
  BY <1>1, <1>2, FitsMore DEF ArchiveFits
<1>3. ASSUME UNCHANGED archive PROVE ArchiveFits'
  BY <1>1, <1>3, FitsMore DEF IInv, ArchiveFits
<1>4. ASSUME NEW p \in Procs, BackupPublishes(p), ~UNCHANGED archive PROVE ArchiveFits'
  <2> DEFINE m == Manifest(proc[p].id, proc[p].complete, proc[p].roots, proc[p].files)
             new == [manifest |-> m, listed |-> TRUE, entries |-> proc[p].copied]
  <2>1. archive' = {new} /\ proc[p].at = "publishes" /\ Fits(proc[p], issued)
    BY <1>4 DEF BackupPublishes, IInv, ProcsFit
  <2>2. Whole(proc[p].files, issued)
    BY <2>1 DEF Fits, Archiving, Whole, TreeFits
  <2>3. ManifestFits(m, issued)
    BY <2>2 DEF Manifest, ManifestFits
  <2> QED
    BY <1>2, <2>1, <2>3
<1>5. ASSUME Damage PROVE ArchiveFits'
  <2>1. archive # {}
    BY <1>5 DEF Damage
  <2>2. PICK a \in archive : /\ archive = {a} /\ DOMAIN a = {"manifest", "listed", "entries"}
                             /\ ManifestFits(a.manifest, issued)
    BY <2>1 DEF IInv, ArchiveFits
  <2>3. PICK b : /\ archive' = {b} /\ DOMAIN b = {"manifest", "listed", "entries"}
                 /\ b.manifest = a.manifest
    <3>1. CASE archive' = {[a EXCEPT !.listed = FALSE]}
      <4>1. \A b : b = [a EXCEPT !.listed = FALSE] =>
                DOMAIN b = {"manifest", "listed", "entries"} /\ b.manifest = a.manifest
        BY <2>2
      <4> QED
        BY <3>1, <4>1
    <3>2. ASSUME NEW f, archive' = {[a EXCEPT !.entries = Restrict(@, DOMAIN @ \ {f})]}
          PROVE  \E b : /\ archive' = {b} /\ DOMAIN b = {"manifest", "listed", "entries"}
                        /\ b.manifest = a.manifest
      <4>1. \A b : b = [a EXCEPT !.entries = Restrict(@, DOMAIN @ \ {f})] =>
                DOMAIN b = {"manifest", "listed", "entries"} /\ b.manifest = a.manifest
        BY <2>2
      <4> QED
        BY <3>2, <4>1
    <3>3. ASSUME NEW f, archive' = {[a EXCEPT !.entries[f] = Damaged]}
          PROVE  \E b : /\ archive' = {b} /\ DOMAIN b = {"manifest", "listed", "entries"}
                        /\ b.manifest = a.manifest
      <4>1. \A b : b = [a EXCEPT !.entries[f] = Damaged] =>
                DOMAIN b = {"manifest", "listed", "entries"} /\ b.manifest = a.manifest
        BY <2>2
      <4> QED
        BY <3>3, <4>1
    <3> QED
      BY <1>5, <2>2, <3>1, <3>2, <3>3 DEF Damage
  <2> QED
    BY <1>2, <2>2, <2>3
<1>6. ASSUME NEW p \in Procs, Acts(p) PROVE ArchiveFits'
  BY <1>3, <1>4, <1>6, Steps DEF Touches
<1>7. HandEdit \/ UNCHANGED vars => UNCHANGED archive
  BY DEF HandEdit, vars
<1> QED
  BY <1>3, <1>5, <1>6, <1>7, StepCases

\* What a process knows fits, after its step.
LEMMA SelfFits ==
  ASSUME IInv, NEW p \in Procs, Acts(p)
  PROVE  Fits(proc'[p], issued')
<1> DEFINE x == proc[p]
           y == proc'[p]
<1>1. issued \in Nat /\ issued >= 1 /\ issued' \in Nat /\ issued <= issued'
  <2>1. [Next]_vars
    BY DEF Next, Acts
  <2> QED
    BY <2>1, IssuedGrows
<1>2. /\ DOMAIN proc = Procs /\ DOMAIN held = Procs /\ Fits(x, issued)
      /\ exists \subseteq Dirs /\ runtime \subseteq exists
      /\ \A d \in Dirs : TreeFits(tree[d], issued) /\ pending[d] \in Nat
  BY DEF IInv, ProcsFit, LocksFit, WorldFits
<1>3. \A z : Fits(z, issued) => Fits(z, issued')
  BY <1>1, FitsMore
<1>4. ASSUME proc'[p] = Idle PROVE Fits(y, issued')
  BY <1>4 DEF Fits, Idle, Homeless, Saving, Archiving
<1>5. ASSUME NEW q \in Requests, DoctorProbes(p, q), y # Idle PROVE Fits(y, issued)
  <2>1. y = [at |-> "probed", dir |-> q.dir, existed |-> lockFile[q.dir] # 0] /\ q.dir \in Dirs
    BY <1>2, <1>5 DEF DoctorProbes, Locking
  <2> QED
    BY <2>1 DEF Fits, Homeless, Saving, Archiving
<1>6. ASSUME DoctorUnlocks(p), y # Idle PROVE Fits(y, issued)
  <2>1. x.at = "probed" /\ y = [x EXCEPT !.at = "unlocked"]
    BY <1>2, <1>6 DEF DoctorUnlocks
  <2> QED
    BY <1>2, <2>1 DEF Fits, Homeless, Saving, Archiving
<1>7. ASSUME NEW q \in Requests, SaveStarts(p, q), y # Idle PROVE Fits(y, issued)
  <2>1. PICK d \in Selected(q) :
          Locking(p, d, "exclusive", TRUE,
                  [at |-> "marks", dir |-> d,
                   save |-> IF pending[d] = 0 THEN tree[d][Page] + 1 ELSE pending[d]])
    BY <1>7 DEF SaveStarts
  <2>2. d \in Dirs /\ Config \in DOMAIN tree[d]
    BY <1>2, SelectedIsVault
  <2>3. tree[d][Page] \in Nat /\ pending[d] \in Nat
    BY <1>2, <2>2 DEF TreeFits, FilesFit
  <2>4. y = [at |-> "marks", dir |-> d,
             save |-> IF pending[d] = 0 THEN tree[d][Page] + 1 ELSE pending[d]]
    BY <1>2, <1>7, <2>1 DEF Locking
  <2> QED
    BY <2>2, <2>3, <2>4 DEF Fits, Homeless, Saving, Archiving
<1>8. ASSUME SaveMarks(p) \/ SaveWrites(p) PROVE Fits(y, issued)
  <2>1. x.at \in Saving /\ y.at \in Saving /\ y = [x EXCEPT !.at = y.at]
    BY <1>2, <1>8 DEF SaveMarks, SaveWrites, Goes, Fits, Saving
  <2> QED
    BY <1>2, <2>1 DEF Fits, Homeless, Saving, Archiving
<1>9. ASSUME NEW q \in Requests, EditStarts(p, q) \/ AdmissionStarts(p, q), y # Idle
      PROVE  Fits(y, issued)
  <2>1. PICK d \in Selected(q) :
          Locking(p, d, "exclusive", pending[d] = 0, [at |-> "reads", dir |-> d, q |-> q])
    BY <1>9 DEF EditStarts, AdmissionStarts, EditLocks
  <2>2. d \in Dirs /\ q.op = "edit"
    BY <1>2, <1>9, SelectedIsVault DEF EditStarts, AdmissionStarts
  <2>3. y = [at |-> "reads", dir |-> d, q |-> q]
    BY <1>2, <1>9, <2>1 DEF Locking
  <2> QED
    BY <2>2, <2>3 DEF Fits, Homeless, Saving, Archiving
<1>10. ASSUME EditReads(p), y # Idle PROVE Fits(y, issued)
  <2> DEFINE before == Stored(x.dir, x.q.file)
  <2>1. /\ x.at = "reads" /\ Acceptable(x.dir, x.q, before)
        /\ y = [at |-> "writes", dir |-> x.dir, q |-> x.q, after |-> Change(x.q, before)]
    BY <1>2, <1>10 DEF EditReads, Goes, Ends
  <2>2. x.dir \in Dirs /\ x.q \in Requests /\ x.q.op = "edit" /\ Config \in DOMAIN tree[x.dir]
    BY <1>2, <2>1 DEF Fits, Homeless, IInv, VaultsWorkedIn, Working
  <2>3. ASSUME x.q.file = Config
        PROVE  DOMAIN y.after = DOMAIN Blank /\ y.after.id \in 1..issued
    <3>1. before = tree[x.dir][Config]
      BY <2>2, <2>3, FilesDiffer DEF Stored
    <3>2. DOMAIN before = DOMAIN Blank /\ before.id \in 1..issued
      BY <1>2, <2>2, <3>1 DEF TreeFits, FilesFit
    <3>3. x.q.key \in {"limit", "mode"}
      BY <2>1, <2>3, FilesDiffer DEF Acceptable, ConfigEditable, Settings
    <3>4. y.after = [before EXCEPT ![x.q.key] = x.q.value]
      BY <2>1, <2>3, FilesDiffer DEF Change, ConfigEdited
    <3> QED
      BY <3>2, <3>3, <3>4 DEF Blank
  <2> QED
    BY <2>1, <2>2, <2>3 DEF Fits, Homeless, Saving, Archiving
<1>11. ASSUME NEW q \in Requests, BackupStarts(p, q), y # Idle PROVE Fits(y, issued)
  <2>1. PICK d \in Selected(q) :
          Locking(p, d, "shared", pending[d] = 0,
                  [at |-> "collects", dir |-> d, complete |-> q.complete])
    BY <1>11 DEF BackupStarts
  <2>2. d \in Dirs
    BY <1>2, SelectedIsVault
  <2>3. y = [at |-> "collects", dir |-> d, complete |-> q.complete]
    BY <1>2, <1>11, <2>1 DEF Locking
  <2> QED
    BY <2>2, <2>3 DEF Fits, Homeless, Saving, Archiving
<1>12. ASSUME BackupCollects(p), y # Idle PROVE Fits(y, issued)
  <2> DEFINE listed == Listed(tree[x.dir], tree[x.dir][Admission], x.complete)
  <2>1. /\ x.at = "collects"
        /\ y = [at |-> "hashes", dir |-> x.dir, complete |-> x.complete, todo |-> listed,
                files |-> NoFiles, copied |-> NoFiles, snap |-> NoFiles, id |-> IdOf(x.dir),
                admission |-> tree[x.dir][Admission],
                roots |-> {"Wiki", ".kb"} \cup Admitted(tree[x.dir][Admission])]
    BY <1>2, <1>12 DEF BackupCollects, Goes, Ends
  <2>2. x.dir \in Dirs /\ Config \in DOMAIN tree[x.dir]
    BY <1>2, <2>1 DEF Fits, Homeless, IInv, VaultsWorkedIn, Working, Reading
  <2>3. Page \in DOMAIN tree[x.dir]
    BY <1>2, <2>2 DEF TreeFits
  <2>4. Config \in listed
    BY DEF Listed, Required
  <2>5. Page \in listed
    <3>1. Page \in DOMAIN tree[x.dir] \ (TopLevel \cup {Config, Local, Object})
      BY <2>3, FilesDiffer DEF TopLevel
    <3>2. Root(Page) = "Wiki"
      BY FilesDiffer DEF Root
    <3> QED
      BY <3>1, <3>2 DEF Listed
  <2>6. FilesFit(NoFiles, issued)
    BY DEF FilesFit, NoFiles
  <2> HIDE DEF listed
  <2> QED
    BY <2>1, <2>2, <2>4, <2>5, <2>6 DEF Fits, Homeless, Saving, Archiving
<1>13. ASSUME BackupHashes(p), y # Idle PROVE Fits(y, issued)
  <2>1. /\ x.at = "hashes" /\ x.dir \in Dirs /\ FilesFit(x.files, issued)
        /\ DOMAIN x = {"at", "dir", "complete", "todo", "files", "copied", "snap", "id", "roots",
                    "admission"}
        /\ {Config, Page} \subseteq x.todo \cup DOMAIN x.files
    BY <1>2, <1>13 DEF BackupHashes, Fits, Homeless, Archiving
  <2>2. PICK f \in x.todo :
          LET files == Written(x.files, f, tree[x.dir][f])
              rest == x.todo \ {f}
          IN \/ Ends(p)
             \/ /\ f \in DOMAIN tree[x.dir]
                /\ Goes(p, [x EXCEPT !.todo = rest, !.files = files])
             \/ /\ f \in DOMAIN tree[x.dir] /\ rest = {}
                /\ Goes(p, [x EXCEPT !.at = "copies", !.files = files, !.todo = DOMAIN files,
                              !.snap = Restrict(tree[x.dir], DOMAIN files)])
    BY <1>13, HashTurn
  <2> DEFINE files == Written(x.files, f, tree[x.dir][f])
             rest == x.todo \ {f}
  <2>3. ~Ends(p)
    BY <1>2, <1>13 DEF Ends
  <2>4. f \in DOMAIN tree[x.dir]
    BY <2>2, <2>3
  <2>5. FilesFit(files, issued) /\ DOMAIN files = DOMAIN x.files \cup {f}
    <3>1. FilesFit(tree[x.dir], issued)
      BY <1>2, <2>1 DEF TreeFits
    <3>2. /\ f \in Files
          /\ f = Config => DOMAIN tree[x.dir][f] = DOMAIN Blank /\ tree[x.dir][f].id \in 1..issued
          /\ f \in {Rules, Note, Object, Page} => tree[x.dir][f] \in Nat
      BY <2>4, <3>1 DEF FilesFit
    <3>3. issued \in Nat /\ FilesFit(x.files, issued)
      BY <1>1, <2>1
    <3> HIDE DEF x
    <3> QED
      BY <3>2, <3>3, WrittenFits
  <2>6. {Config, Page} \subseteq rest \cup DOMAIN files
    BY <2>1, <2>5
  <2> HIDE DEF files, rest
  <2>7. CASE Goes(p, [x EXCEPT !.todo = rest, !.files = files])
    <3>1. y = [x EXCEPT !.todo = rest, !.files = files]
      BY <1>2, <2>7 DEF Goes
    <3>2. y.at = "hashes" /\ DOMAIN y = DOMAIN x /\ y.dir = x.dir /\ y.files = files /\ y.todo = rest
      BY <2>1, <3>1
    <3> HIDE DEF y
    <3> QED
      BY <2>1, <2>5, <2>6, <3>2 DEF Fits, Homeless, Saving, Archiving
  <2>8. CASE rest = {} /\ Goes(p, [x EXCEPT !.at = "copies", !.files = files, !.todo = DOMAIN files,
                                     !.snap = Restrict(tree[x.dir], DOMAIN files)])
    <3>1. y = [x EXCEPT !.at = "copies", !.files = files, !.todo = DOMAIN files,
                        !.snap = Restrict(tree[x.dir], DOMAIN files)]
      BY <1>2, <2>8 DEF Goes
    <3>2. y.at = "copies" /\ DOMAIN y = DOMAIN x /\ y.dir = x.dir /\ y.files = files
      BY <2>1, <3>1
    <3> HIDE DEF y
    <3> QED
      BY <2>1, <2>5, <2>6, <2>8, <3>2 DEF Fits, Homeless, Saving, Archiving
  <2> QED
    BY <2>2, <2>3, <2>7, <2>8 DEF files, rest
<1>14. ASSUME BackupCopies(p), y # Idle PROVE Fits(y, issued)
  <2>1. /\ x.at = "copies" /\ x.dir \in Dirs /\ FilesFit(x.files, issued)
        /\ DOMAIN x = {"at", "dir", "complete", "todo", "files", "copied", "snap", "id", "roots",
                    "admission"}
        /\ {Config, Page} \subseteq DOMAIN x.files
    BY <1>2, <1>14 DEF BackupCopies, Fits, Homeless, Archiving
  <2>2. PICK f, copied, rest :
          \/ Ends(p)
          \/ Goes(p, [x EXCEPT !.todo = rest, !.copied = copied,
                               !.at = IF rest = {} THEN "publishes" ELSE @])
    BY <1>14, CopyTurn
  <2>3. ~Ends(p)
    BY <1>2, <1>14 DEF Ends
  <2>4. y = [x EXCEPT !.todo = rest, !.copied = copied, !.at = IF rest = {} THEN "publishes" ELSE @]
    BY <1>2, <2>2, <2>3 DEF Goes
  <2>5. /\ y.at \in {"copies", "publishes"} /\ DOMAIN y = DOMAIN x /\ y.dir = x.dir
        /\ y.files = x.files
    BY <2>1, <2>4
  <2> HIDE DEF y
  <2> QED
    BY <2>1, <2>5 DEF Fits, Homeless, Saving, Archiving
<1>15. ASSUME NEW q \in Requests, RestoreStarts(p, q) PROVE Fits(y, issued)
  <2>1. PICK a \in archive : y = [at |-> "extracts", dir |-> q.dir, existed |-> q.dir \in exists,
                                  manifest |-> a.manifest]
    BY <1>2, <1>15 DEF RestoreStarts, Goes
  <2>2. ManifestFits(a.manifest, issued)
    BY DEF IInv, ArchiveFits
  <2>3. q.dir \in Dirs
    BY <1>15, HomeAssumption DEF RestoreStarts
  <2> QED
    BY <2>1, <2>2, <2>3 DEF Fits, Homeless, Saving, Archiving
<1>16. ASSUME RestoreExtracts(p), y # Idle PROVE Fits(y, issued)
  <2>1. x.at = "extracts" /\ x.dir \in Dirs /\ ManifestFits(x.manifest, issued)
    BY <1>2, <1>16 DEF RestoreExtracts, Fits, Homeless
  <2>2. PICK a \in archive :
          /\ Extracted(a, x.manifest)
          /\ y = [at |-> IF x.existed THEN "clears" ELSE "places", dir |-> x.dir,
                  existed |-> x.existed, new |-> FALSE, id |-> x.manifest.id,
                  files |-> Restrict(a.entries, DOMAIN x.manifest.files)]
    BY <1>2, <1>16 DEF RestoreExtracts, Goes, Ends
  <2>3. Restrict(a.entries, DOMAIN x.manifest.files) = x.manifest.files
    BY <2>1, <2>2 DEF Extracted, Restrict, ManifestFits, Whole, TreeFits, FilesFit
  <2> QED
    BY <2>1, <2>2, <2>3 DEF Fits, Homeless, Saving, Archiving, ManifestFits
<1>17. ASSUME RestoreClears(p), y # Idle PROVE Fits(y, issued)
  <2>1. x.at = "clears" /\ y = [x EXCEPT !.at = "places"]
    BY <1>2, <1>17 DEF RestoreClears, Goes, Ends
  <2> QED
    BY <1>2, <2>1 DEF Fits, Homeless, Saving, Archiving
<1>18. ASSUME NEW q \in Requests, InitStarts(p, q) PROVE Fits(y, issued')
  <2>1. /\ issued' = issued + 1 /\ y.at \in {"stages", "places"}
        /\ y = [at |-> y.at, dir |-> q.dir, existed |-> FALSE, new |-> TRUE, id |-> issued',
                files |-> Template(issued')]
    BY <1>2, <1>18 DEF InitStarts, Goes
  <2>2. q.dir \in Dirs
    BY <1>18, HomeAssumption DEF InitStarts
  <2>3. Whole(Template(issued'), issued') /\ issued' \in 2..issued'
    BY <1>1, <2>1, TemplateFits
  <2> QED
    BY <2>1, <2>2, <2>3 DEF Fits, Homeless, Saving, Archiving
<1>19. ASSUME InitStages(p), y # Idle PROVE Fits(y, issued)
  <2>1. x.at = "stages" /\ y = [at |-> "moves", dir |-> x.dir, next |-> 1, files |-> x.files]
    BY <1>2, <1>19 DEF InitStages, Goes, Ends
  <2>2. x.dir \in Dirs /\ \E id \in 2..issued : x.files = Template(id)
    BY <1>2, <2>1 DEF Fits, Homeless
  <2> QED
    BY <2>1, <2>2 DEF Fits, Homeless, Saving, Archiving
<1>20. ASSUME InitMoves(p) PROVE Fits(y, issued)
  <2>1. /\ x.at = "moves" /\ x.dir \in Dirs /\ x.next \in 1..4
        /\ \E id \in 2..issued : x.files = Template(id)
    BY <1>20, InitMovesIn
  <2>2. DOMAIN x = {"at", "dir", "next", "files"}
    BY <1>2, <2>1 DEF Fits
  <2>3. y = IF x.next = 4 THEN [x EXCEPT !.at = "tidies"] ELSE [x EXCEPT !.next = @ + 1]
    BY <1>2, <1>20, MovesAre DEF InitMoves, Goes
  <2>4. /\ y.at \in {"moves", "tidies"} /\ y.dir = x.dir /\ y.files = x.files /\ DOMAIN y = DOMAIN x
        /\ y.next \in 1..4
    BY <2>1, <2>2, <2>3
  <2> HIDE DEF y
  <2> QED
    BY <2>1, <2>2, <2>4 DEF Fits, Homeless, Saving, Archiving
<1>21. ASSUME Places(p) \/ InitTidies(p), y # Idle PROVE Fits(y, issued)
  <2>1. x.at \in {"places", "tidies"} /\ y = [at |-> "inspects", dir |-> x.dir]
    BY <1>2, <1>21 DEF Places, InitTidies, Goes, Ends
  <2> QED
    BY <1>2, <2>1 DEF Fits, Homeless, Saving, Archiving
<1>22. \A d \in Dirs : IsVault(d) => IdOf(d) \in 1..issued
  BY <1>2 DEF IsVault, IdOf, TreeFits, FilesFit
<1>23. ASSUME NEW change, NEW id, NEW d, y = [at |-> "waits", change |-> change,
                                             record |-> Registration(id, d)],
              id \in Nat, change # "unregister" => id \in 1..issued /\ d \in Dirs
       PROVE  Fits(y, issued)
  BY <1>23 DEF Fits, Homeless, Saving, Archiving, Registration
<1>24. ASSUME NEW q \in Requests, RegistryAsks(p, q) PROVE Fits(y, issued)
  <2>1. y = [at |-> "waits", change |-> q.op,
             record |-> Registration(IF q.op = "register" THEN IdOf(q.dir) ELSE q.id, q.dir)]
    BY <1>2, <1>24 DEF RegistryAsks, Waits, Goes
  <2>2. /\ q.op \in {"register", "rebind", "unregister"}
        /\ q.op # "unregister" => IsVault(q.dir) /\ q.dir \in Dirs
        /\ q.op = "rebind" => IdOf(q.dir) = q.id
    BY <1>2, <1>24 DEF RegistryAsks, IsVault
  <2>3. q.id \in Nat
    BY HomeAssumption DEF Request
  <2> QED
    BY <1>1, <1>22, <1>23, <2>1, <2>2, <2>3
<1>25. ASSUME InitRegisters(p), y # Idle PROVE Fits(y, issued)
  <2>1. /\ x.at = "inspects" /\ IsVault(x.dir)
        /\ y = [at |-> "waits", change |-> "register", record |-> Registration(IdOf(x.dir), x.dir)]
    BY <1>2, <1>25 DEF InitRegisters, Waits, Goes, Ends
  <2>2. x.dir \in Dirs
    BY <1>2, <2>1 DEF Fits, Homeless
  <2> QED
    BY <1>1, <1>22, <1>23, <2>1, <2>2
<1>26. ASSUME RegistryLoads(p) PROVE Fits(y, issued)
  <2>1. /\ x.at = "waits"
        /\ y = [at |-> "stores", change |-> x.change, record |-> x.record, loaded |-> registry]
    BY <1>2, <1>26 DEF RegistryLoads, Goes
  <2> QED
    BY <1>2, <2>1 DEF Fits, Homeless, Saving, Archiving, IInv, RegistryFits
<1>27. Arrives(p)
  BY Steps
<1> HIDE DEF y
<1> QED
  BY <1>3, <1>4, <1>5, <1>6, <1>7, <1>8, <1>9, <1>10, <1>11, <1>12, <1>13, <1>14, <1>15, <1>16,
     <1>17, <1>18, <1>19, <1>20, <1>21, <1>24, <1>25, <1>26, <1>27 DEF Arrives, y

\* What the processes know fits, after every step.
LEMMA ProcsStay ==
  ASSUME IInv, [Next]_vars
  PROVE  ProcsFit'
<1>1. \A z : Fits(z, issued) => Fits(z, issued')
  BY IssuedGrows, FitsMore
<1>2. ASSUME NEW p \in Procs, Acts(p) PROVE ProcsFit'
  BY <1>1, <1>2, SelfFits, Steps DEF IInv, ProcsFit
<1>3. HandEdit \/ Damage \/ UNCHANGED vars => UNCHANGED proc
  BY DEF HandEdit, Damage, vars
<1> QED
  BY <1>1, <1>2, <1>3, StepCases DEF IInv, ProcsFit

-----------------------------------------------------------------------------
(* The invariant.                                                          *)

\* The invariant holds at the start.
LEMMA InitEstablishes == Init => IInv
<1> SUFFICES ASSUME Init PROVE IInv
  OBVIOUS
<1>1. TreeFits(HomeTree, 1) /\ DOMAIN HomeTree # {}
  <2>1. DOMAIN HomeTree = {Config, Rules, Page, Object, Note, Admission}
        /\ HomeTree = [f \in DOMAIN HomeTree |-> HomeTree[f]]
    BY DEF HomeTree
  <2>2. HomeTree[Config] = [Template(1)[Config] EXCEPT !.limit = 1]
        /\ HomeTree[Rules] = Template(1)[Rules] /\ HomeTree[Page] = Template(1)[Page]
        /\ HomeTree[Object] = 0 /\ HomeTree[Note] = 0
    BY FilesDiffer DEF HomeTree
  <2>3. /\ DOMAIN Template(1)[Config] = DOMAIN Blank /\ Template(1)[Config].id = 1
        /\ Template(1)[Rules] \in Nat /\ Template(1)[Page] \in Nat
    <3>1. Whole(Template(1), 1) /\ Template(1)[Config].id = 1
          /\ DOMAIN Template(1) = {Config, Rules, Page, Admission}
      BY TemplateFits
    <3> QED
      BY <3>1 DEF Whole, TreeFits, FilesFit
  <2>4. DOMAIN HomeTree[Config] = DOMAIN Blank /\ HomeTree[Config].id = 1
    BY <2>2, <2>3 DEF Blank
  <2> QED
    BY <2>1, <2>2, <2>3, <2>4, FilesDiffer DEF TreeFits, FilesFit
<1>2. TreeFits(NoFiles, 1) /\ DOMAIN NoFiles = {}
  BY DEF TreeFits, FilesFit, NoFiles
<1>3. issued = 1 /\ Home \in Dirs /\ Empty \subseteq Dirs
  BY HomeAssumption DEF Init
<1>4. WorldFits
  BY <1>1, <1>2, <1>3 DEF Init, WorldFits
<1>5. ProcsFit
  BY DEF Init, ProcsFit, Fits, Idle, Homeless, Saving, Archiving
<1>6. LocksFit
  BY DEF Init, LocksFit, NoLock
<1>7. RegistryFits
  BY <1>3 DEF Init, RegistryFits, RegistryValid
<1>8. /\ ArchiveFits /\ VaultsWorkedIn /\ OneLastMove /\ Holding /\ given \subseteq Requests
      /\ raced \subseteq {"init", "lock", "user", "admission"}
  BY DEF Init, ArchiveFits, VaultsWorkedIn, OneLastMove, Last, Holding, Idle, Working, Saving,
     Reading
<1> QED
  BY <1>4, <1>5, <1>6, <1>7, <1>8 DEF IInv

\* A race that happened has happened; these are all that may.
LEMMA RacesAdd ==
  ASSUME IInv, [Next]_vars
  PROVE  raced \subseteq raced' /\ raced' \subseteq raced \cup {"init", "lock", "user", "admission"}
<1> DEFINE R == raced \subseteq raced'
                /\ raced' \subseteq raced \cup {"init", "lock", "user", "admission"}
<1>1. ASSUME NEW p \in Procs, Acts(p) PROVE R
  <2>1. UNCHANGED raced \/ DoctorRemoves(p) \/ EditWrites(p) \/ InitStages(p)
    BY <1>1, Steps DEF Touches
  <2>2. DoctorRemoves(p) => raced' \in {raced, raced \cup {"lock"}}
    BY DEF DoctorRemoves
  <2>3. EditWrites(p) => raced' \in {raced, raced \cup {"user"}}
    BY DEF EditWrites
  <2>4. InitStages(p) => raced' \in {raced, raced \cup {"init"}}
    BY DEF InitStages
  <2> QED
    BY <2>1, <2>2, <2>3, <2>4
<1>2. HandEdit => raced' \in {raced, raced \cup {"admission"}}
  BY DEF HandEdit, NoteByHand, AdmissionByHand
<1>3. Damage \/ UNCHANGED vars => UNCHANGED raced
  BY DEF Damage, vars
<1> QED
  BY <1>1, <1>2, <1>3, StepCases

\* Every step keeps the invariant.
LEMMA StepKeeps == IInv /\ [Next]_vars => IInv'
<1> SUFFICES ASSUME IInv, [Next]_vars PROVE IInv'
  OBVIOUS
<1>1. given' \subseteq Requests
  <2>1. ASSUME NEW p \in Procs, Acts(p) PROVE given' \subseteq Requests
    BY <2>1, Steps DEF IInv
  <2>2. HandEdit \/ Damage \/ UNCHANGED vars => UNCHANGED given
    BY DEF HandEdit, Damage, vars
  <2> QED
    BY <2>1, <2>2, StepCases DEF IInv
<1>2. raced' \subseteq {"init", "lock", "user", "admission"}
  BY RacesAdd DEF IInv
<1> QED
  BY <1>1, <1>2, ProcsStay, WorldStays, LocksStay, RegistryStays, ArchiveStays, VaultsWorkedInStay,
     OneLastMoveStays, HoldingStays DEF IInv

\* The invariant holds in every reachable state.
THEOREM HomeInvariant == Spec => []IInv
BY InitEstablishes, StepKeeps, PTL DEF Spec

\* What is stored has its type: every lock that a process holds is of a file the
\* lock's path has had and has one writer or readers, every registered Vault has
\* an identity that was issued and is registered once, and nothing is in a
\* directory that is not there.
THEOREM HomeTypeCorrect == Spec => []TypeOK
<1>1. IInv => TypeOK
  <2> SUFFICES ASSUME IInv PROVE TypeOK
    OBVIOUS
  <2>1. \A d \in Dirs : /\ DOMAIN tree[d] \subseteq Files /\ (tree[d] # NoFiles => d \in exists)
                        /\ stages[d] \subseteq Procs /\ pending[d] \in Nat
                        /\ lockFile[d] \in 0..inodes[d]
    BY DEF IInv, WorldFits, LocksFit, TreeFits, FilesFit, NoFiles
  <2>2. runtime \subseteq exists /\ regLock \in Procs \cup {NoProc}
        /\ \A r \in registry : r.id \in 1..issued /\ r.path \in Dirs
    BY DEF IInv, WorldFits, RegistryFits
  <2>3. \A p \in Procs : \/ held[p] = NoLock
                         \/ /\ held[p].inode \in 1..inodes[held[p].dir]
                            /\ Compatible(p, held[p].dir, held[p].inode, held[p].mode)
    BY DEF IInv, LocksFit, Compatible
  <2>4. Cardinality(archive) <= 1
    <3>1. CASE archive = {}
      BY <3>1, FS_EmptySet
    <3>2. CASE archive # {}
      BY <3>2, FS_Singleton DEF IInv, ArchiveFits
    <3> QED
      BY <3>1, <3>2
  <2> QED
    BY <2>1, <2>2, <2>3, <2>4 DEF TypeOK, IInv, RegistryFits
<1> QED
  BY <1>1, HomeInvariant, PTL

-----------------------------------------------------------------------------
(* What the commands may count on when the races that the code leaves open *)
(* do not happen.                                                          *)

\* A directory that an init found empty is empty when the init makes its stage.
StillEmpty ==
  \A p \in Procs : InitStages(p) /\ proc[p].dir \in exists => IsEmpty(proc[p].dir)

\* Nobody holds the lock whose file kb doctor removes.
StillUnlocked ==
  \A p \in Procs : DoctorRemoves(p) => \A q \in Procs : held[q].dir # proc[p].dir

\* No init has moved into a directory that was not empty and no lock has lost its
\* file while it was held.
Clear == raced \cap {"init", "lock"} = {}

\* What an init has moved before its n-th move.
Moved(n) == CASE n = 1 -> {} [] n = 2 -> {Admission} [] n = 3 -> {Admission, Rules}
              [] n = 4 -> {Admission, Rules, Page}

\* An init is alone in its directory.
InitsWhole ==
  \A p \in Procs : proc[p].at = "moves" =>
    /\ DOMAIN tree[proc[p].dir] = Moved(proc[p].next)
    /\ \A f \in Moved(proc[p].next) \ TopLevel : tree[proc[p].dir][f] = proc[p].files[f]
    /\ \A q \in Procs : proc[q].at = "moves" /\ proc[q].dir = proc[p].dir => q = p

\* What is archived, extracted or put in place is all of a backup or a template.
OfBackup(files) == \E b \in made : files = b.files
RestoresWhole ==
  /\ \A a \in archive : OfBackup(a.manifest.files)
  /\ \A p \in Procs :
       /\ proc[p].at = "extracts" => OfBackup(proc[p].manifest.files)
       /\ proc[p].at \in {"clears", "places"} =>
            OfBackup(proc[p].files) \/ \E id \in 2..issued : proc[p].files = Template(id)

Made == InitsWhole /\ RestoresWhole

\* The locks that are held are locks of the file that is there.
LocksCurrent == \A p \in Procs : held[p] # NoLock => held[p].inode = lockFile[held[p].dir]

\* How far a save is; without one, its two files are of the same save.
Saved(x) ==
  LET t == tree[x.dir]
  IN /\ x.at \in Saving => x.save # 0
     /\ x.at \in {"object", "page", "unmarks"} => pending[x.dir] = x.save
     /\ x.at \in {"page", "unmarks"} => Object \in DOMAIN t /\ t[Object] = x.save
     /\ x.at = "unmarks" => t[Page] = x.save
SavesWhole ==
  /\ \A p \in Procs : Saved(proc[p])
  /\ \A d \in Dirs :
       pending[d] = 0 /\ Object \in DOMAIN tree[d] =>
         Page \in DOMAIN tree[d] /\ tree[d][Object] = tree[d][Page]

\* A backup while its files are hashed and copied: people edit the ByHand ones.
\* Its files were listed by the admission that it read first.
Collected(x, t) ==
  /\ x.id = t[Config].id
  /\ x.roots = {"Wiki", ".kb"} \cup Admitted(x.admission) /\ RootsParse(x.admission)
  /\ \A f \in x.todo \cup DOMAIN x.files :
       f # Local /\ (f = Object => x.complete) /\ (f = Note => "Notes" \in x.roots)
Hashed(x, t) ==
  \A f \in DOMAIN x.files :
    /\ f \in DOMAIN t
    /\ f \notin ByHand => x.files[f] = t[f]
    /\ f \in {Note, Rules} => x.files[f] <= t[f]
Copied(x, t) ==
  /\ ManifestValid(Manifest(x.id, x.complete, x.roots, x.files))
  /\ x.snap = [f \in DOMAIN x.files |-> x.snap[f]]
  /\ \A f \in DOMAIN x.files :
       /\ f \notin ByHand => x.snap[f] = x.files[f]
       /\ f \in {Note, Rules} => x.snap[f] \in Nat /\ x.files[f] <= x.snap[f] /\ x.snap[f] <= t[f]
       /\ f = Admission => x.snap[f] = x.files[f] \/ t[f] # x.files[f]
  /\ DOMAIN x.copied \cup x.todo = DOMAIN x.files
  /\ \A f \in DOMAIN x.copied : x.copied[f] = x.files[f] /\ x.snap[f] = x.files[f]
Shot(x, t) ==
  /\ x.at \in Archiving => Collected(x, t) /\ Hashed(x, t)
  /\ x.at = "hashes" => x.copied = NoFiles
  /\ x.at \in {"copies", "publishes"} => Copied(x, t)
  /\ x.at = "publishes" => x.todo = {}
BackupsWhole ==
  \A p \in Procs : /\ proc[p].at \in Reading => pending[proc[p].dir] = 0
                   /\ Shot(proc[p], tree[proc[p].dir])

\* What a backup may count on.
Snapshots ==
  \A b \in made : /\ b.files = b.snap
                  /\ Object \in DOMAIN b.files => b.files[Object] = b.files[Page]
                  /\ b.files[Admission] = b.admission => b.verified
Shots == LocksCurrent /\ SavesWhole /\ BackupsWhole /\ Snapshots

SnapshotInv == Clear => Made /\ Shots

\* The settings are what their acknowledged changes add up to, and a change that is
\* about to be written was made to what is there.
Read(x) ==
  x.at = "writes" => x.after = Change(x.q, Stored(x.dir, x.q.file))
UserAcks ==
  /\ user = expected.user
  /\ \A p \in Procs : proc[p].at = "writes" /\ proc[p].q.file = "user" => Read(proc[p])
VaultAcks ==
  /\ \A d \in Dirs : Kb(tree[d]) = expected.vaults[d]
  /\ \A p \in Procs : proc[p].at = "writes" /\ proc[p].q.file # "user" => Read(proc[p])
Acks ==
  /\ DOMAIN expected = {"user", "registry", "vaults"} /\ DOMAIN expected.vaults = Dirs
  /\ "user" \notin raced => UserAcks
  /\ "admission" \notin raced => VaultAcks
SettingsInv == Clear => Made /\ LocksCurrent /\ Acks

-----------------------------------------------------------------------------
(* Nothing but a whole template or a whole backup becomes a Vault.         *)

\* Which steps of a process change what is in a directory.
LEMMA TreeChanges ==
  ASSUME IInv, NEW p \in Procs, Acts(p), NEW d \in Dirs, tree'[d] # tree[d]
  PROVE  /\ proc[p].dir = d
         /\ SaveWrites(p) \/ EditWrites(p) \/ Places(p) \/ InitMoves(p) \/ InitMoveFails(p)
<1>1. DOMAIN tree = Dirs
  BY DEF IInv, WorldFits
<1>2. SaveWrites(p) \/ EditWrites(p) \/ Places(p) \/ InitMoves(p) \/ InitMoveFails(p)
  BY Steps DEF Touches
<1>3. \/ UNCHANGED tree
      \/ \E files : tree' = [tree EXCEPT ![proc[p].dir] = files]
  BY <1>2 DEF SaveWrites, EditWrites, Places, InitMoves, InitMoveFails
<1> QED
  BY <1>1, <1>2, <1>3

\* A move of an init adds what is moved in its turn.
LEMMA MovesAdd ==
  ASSUME NEW n \in 1..4
  PROVE  /\ Config \notin Moved(n) /\ Object \notin Moved(n) /\ Moved(1) = {}
         /\ n # 4 => Moved(n + 1) = Moved(n) \cup (CASE n = 1 -> {Admission} [] n = 2 -> {Rules}
                                                     [] n = 3 -> {Page} [] n = 4 -> {Config})
<1>1. n = 1 \/ n = 2 \/ n = 3 \/ n = 4
  OBVIOUS
<1> QED
  BY <1>1, FilesDiffer DEF Moved

\* An init stays alone in its directory, and what it moved stays there.
LEMMA InitsWholeStay ==
  ASSUME IInv, InitsWhole, [Next]_vars, StillEmpty
  PROVE  InitsWhole'
<1> DEFINE W(o) == proc[o].at = "moves" =>
             /\ DOMAIN tree[proc[o].dir] = Moved(proc[o].next)
             /\ \A f \in Moved(proc[o].next) \ TopLevel : tree[proc[o].dir][f] = proc[o].files[f]
           Alone(o, q) == proc[o].at = "moves" /\ proc[q].at = "moves" /\ proc[q].dir = proc[o].dir
                            => q = o
<1>0. /\ \A o \in Procs : W(o) /\ Fits(proc[o], issued)
      /\ \A o, q \in Procs : Alone(o, q)
      /\ \A o \in Procs : proc[o].at = "moves" =>
           /\ proc[o].dir \in Dirs /\ proc[o].next \in 1..4 /\ o \in stages[proc[o].dir]
           /\ DOMAIN proc[o] = {"at", "dir", "next", "files"}
           /\ Config \notin DOMAIN tree[proc[o].dir]
      /\ DOMAIN tree = Dirs /\ DOMAIN proc = Procs
  <2>1. \A o \in Procs : proc[o].at = "moves" =>
           /\ proc[o].dir \in Dirs /\ proc[o].next \in 1..4 /\ o \in stages[proc[o].dir]
           /\ DOMAIN proc[o] = {"at", "dir", "next", "files"}
    BY DEF IInv, OneLastMove, ProcsFit, Fits, Homeless
  <2> QED
    BY <2>1, MovesAdd DEF InitsWhole, IInv, WorldFits, ProcsFit
<1>1. ASSUME NEW p \in Procs, Acts(p), NEW o \in Procs \ {p}, proc[o].at = "moves"
      PROVE  tree'[proc[o].dir] = tree[proc[o].dir]
  <2>1. SUFFICES ASSUME proc[p].dir = proc[o].dir,
                        SaveWrites(p) \/ EditWrites(p) \/ Places(p) \/ InitMoves(p) \/ InitMoveFails(p)
                 PROVE  FALSE
    BY <1>0, <1>1, TreeChanges
  <2>2. CASE SaveWrites(p)
    BY <1>0, <1>1, <2>1, <2>2, SaveWritesIn
  <2>3. CASE EditWrites(p)
    BY <1>0, <1>1, <2>1, <2>3, EditWritesIn
  <2>4. CASE Places(p)
    BY <1>0, <1>1, <2>1, <2>4, PlacesIn
  <2>5. CASE InitMoves(p) \/ InitMoveFails(p)
    BY <1>0, <1>1, <2>1, <2>5 DEF InitMoves, InitMoveFails
  <2> QED
    BY <2>1, <2>2, <2>3, <2>4, <2>5
<1>2. ASSUME NEW p \in Procs, Acts(p), proc'[p].at = "moves"
      PROVE  /\ W(p)'
             /\ \A q \in Procs \ {p} : proc[q].at = "moves" => proc[q].dir # proc'[p].dir
  <2>1. InitStages(p) \/ InitMoves(p)
    BY <1>2, Steps DEF Arrives, Idle
  <2>2. CASE InitStages(p)
    <3>1. proc'[p] # Idle
      BY <1>2 DEF Idle
    <3>2. /\ Goes(p, [at |-> "moves", dir |-> proc[p].dir, next |-> 1, files |-> proc[p].files])
          /\ stages' = [stages EXCEPT ![proc[p].dir] = @ \cup {p}] /\ UNCHANGED tree
          /\ proc[p].at = "stages"
      BY <1>0, <2>2, <3>1 DEF InitStages, Ends
    <3>3. proc'[p].next = 1 /\ proc'[p].dir = proc[p].dir
      BY <1>0, <3>2 DEF Goes
    <3>4. proc[p].dir \in Dirs
      BY <1>0, <3>2 DEF Fits, Homeless
    <3>5. \A q \in Procs : proc[q].at = "moves" => q \in stages[proc[q].dir]
      BY <1>0
    <3>6. tree[proc[p].dir] = NoFiles /\ stages[proc[p].dir] = {}
      <4>1. proc[p].dir \in exists
        BY <1>0, <2>2, <3>1 DEF InitStages, Ends
      <4> QED
        BY <2>2, <4>1 DEF StillEmpty, IsEmpty
    <3> QED
      BY <3>2, <3>3, <3>5, <3>6, MovesAdd DEF NoFiles
  <2>3. CASE InitMoves(p)
    <3> DEFINE d == proc[p].dir
               n == proc[p].next
    <3>1. PICK part :
            /\ tree' = [tree EXCEPT ![d] = [f \in DOMAIN tree[d] \cup part |->
                          IF f \in part THEN proc[p].files[f] ELSE tree[d][f]]]
            /\ part = (CASE n = 1 -> {Admission} [] n = 2 -> {Rules} [] n = 3 -> {Page}
                         [] n = 4 -> {Config})
      BY <2>3, InitMovesIn
    <3>2. /\ proc[p].at = "moves" /\ n \in 1..4 /\ d \in Dirs
      BY <2>3, InitMovesIn
    <3>3. n # 4 /\ proc'[p] = [proc[p] EXCEPT !.next = @ + 1]
      <4>1. proc' = [proc EXCEPT ![p] = IF n = Len(Moves) THEN [proc[p] EXCEPT !.at = "tidies"]
                                        ELSE [proc[p] EXCEPT !.next = @ + 1]]
        BY <2>3 DEF InitMoves, Goes
      <4>2. proc'[p] = IF n = 4 THEN [proc[p] EXCEPT !.at = "tidies"]
                       ELSE [proc[p] EXCEPT !.next = @ + 1]
        BY <1>0, <4>1, MovesAre
      <4> QED
        BY <1>0, <1>2, <3>2, <4>2
    <3>4. proc'[p].dir = d /\ proc'[p].next = n + 1 /\ proc'[p].files = proc[p].files
      BY <1>0, <3>2, <3>3
    <3>5. Moved(n + 1) = Moved(n) \cup part
      BY <3>1, <3>2, <3>3, MovesAdd
    <3>6. /\ DOMAIN tree[d] = Moved(n)
          /\ \A f \in Moved(n) \ TopLevel : tree[d][f] = proc[p].files[f]
      BY <1>0, <3>2
    <3>7. tree'[d] = [f \in DOMAIN tree[d] \cup part |->
                          IF f \in part THEN proc[p].files[f] ELSE tree[d][f]]
      BY <1>0, <3>1, <3>2
    <3>8. \A q \in Procs \ {p} : proc[q].at = "moves" => proc[q].dir # d
      BY <1>0, <3>2
    <3> HIDE DEF n, d
    <3> QED
      BY <3>4, <3>5, <3>6, <3>7, <3>8
  <2> QED
    BY <2>1, <2>2, <2>3
<1>3. ASSUME NEW p \in Procs, Acts(p) PROVE InitsWhole'
  <2>1. \A o \in Procs \ {p} : proc'[o] = proc[o]
    BY <1>3, Steps
  <2>2. \A o \in Procs : W(o)'
    BY <1>0, <1>1, <1>2, <1>3, <2>1
  <2>3. \A o, q \in Procs : Alone(o, q)'
    BY <1>0, <1>2, <1>3, <2>1
  <2> QED
    BY <2>2, <2>3 DEF InitsWhole
<1>4. CASE HandEdit
  <2>0. UNCHANGED proc
    BY <1>4 DEF HandEdit
  <2>1. \A d \in Dirs :
          /\ DOMAIN tree'[d] = DOMAIN tree[d]
          /\ \A f \in DOMAIN tree[d] \ ByHand : tree'[d][f] = tree[d][f]
    BY <1>4, HandEditChanges
  <2>2. \A n \in 1..4 : Note \notin Moved(n)
    <3>1. \A n \in 1..4 : n = 1 \/ n = 2 \/ n = 3 \/ n = 4
      OBVIOUS
    <3> QED
      BY <3>1, FilesDiffer DEF Moved
  <2>3. \A o \in Procs : W(o)'
    <3>1. \A n \in 1..4 : \A f \in Moved(n) \ TopLevel : f \notin ByHand
      BY <2>2 DEF ByHand, TopLevel
    <3> QED
      BY <1>0, <2>0, <2>1, <3>1
  <2> QED
    BY <1>0, <2>0, <2>1, <2>3 DEF InitsWhole
<1>5. Damage \/ UNCHANGED vars => UNCHANGED <<proc, tree>>
  BY DEF Damage, vars
<1>6. ASSUME UNCHANGED <<proc, tree>> PROVE InitsWhole'
  BY <1>6 DEF InitsWhole
<1> QED
  BY <1>3, <1>4, <1>5, <1>6, StepCases

\* What is archived and restored stays all of a backup.
LEMMA RestoresWholeStay ==
  ASSUME IInv, RestoresWhole, [Next]_vars
  PROVE  RestoresWhole'
<1> DEFINE R(o) == /\ proc[o].at = "extracts" => OfBackup(proc[o].manifest.files)
                   /\ proc[o].at \in {"clears", "places"} =>
                        OfBackup(proc[o].files) \/ \E id \in 2..issued : proc[o].files = Template(id)
<1>0. /\ \A o \in Procs : R(o) /\ Fits(proc[o], issued)
      /\ \A a \in archive : OfBackup(a.manifest.files)
      /\ DOMAIN proc = Procs
      /\ issued \in Nat /\ issued' \in Nat /\ issued >= 1 /\ issued <= issued'
  BY IssuedGrows DEF IInv, RestoresWhole, ProcsFit
<1>1. made \subseteq made'
  <2>1. ASSUME NEW p \in Procs, Acts(p) PROVE made \subseteq made'
    <3>1. UNCHANGED made \/ BackupPublishes(p)
      BY <2>1, Steps DEF Touches
    <3> QED
      BY <3>1 DEF BackupPublishes
  <2>2. HandEdit \/ Damage \/ UNCHANGED vars => UNCHANGED made
    BY DEF HandEdit, Damage, vars
  <2> QED
    BY <2>1, <2>2, StepCases
<1>2. \A files : OfBackup(files) => OfBackup(files)'
  BY <1>1 DEF OfBackup
<1>3. \A id : id \in 2..issued => id \in 2..issued'
  BY <1>0
<1>4. ASSUME NEW o \in Procs, proc'[o] = proc[o] PROVE R(o)'
  BY <1>0, <1>2, <1>3, <1>4
<1>5. \A a \in archive' : OfBackup(a.manifest.files)'
  <2>1. ASSUME NEW p \in Procs, BackupPublishes(p), ~UNCHANGED archive
        PROVE  \A a \in archive' : OfBackup(a.manifest.files)'
    <3> DEFINE new == [manifest |-> Manifest(proc[p].id, proc[p].complete, proc[p].roots, proc[p].files),
                       listed |-> TRUE, entries |-> proc[p].copied]
               b == [files |-> proc[p].files, snap |-> proc[p].snap,
                     admission |-> proc[p].admission, verified |-> Verified(new)]
    <3>1. archive' = {new} /\ b \in made'
      BY <2>1 DEF BackupPublishes
    <3>2. new.manifest.files = proc[p].files /\ b.files = proc[p].files
      BY DEF Manifest
    <3> HIDE DEF new, b
    <3> QED
      BY <3>1, <3>2 DEF OfBackup
  <2>2. ASSUME Damage PROVE \A a \in archive' : OfBackup(a.manifest.files)'
    <3>1. PICK a \in archive :
            \/ archive' = {[a EXCEPT !.listed = FALSE]}
            \/ \E f : archive' = {[a EXCEPT !.entries = Restrict(@, DOMAIN @ \ {f})]}
            \/ \E f : archive' = {[a EXCEPT !.entries[f] = Damaged]}
      BY <2>2 DEF Damage
    <3>2. DOMAIN a = {"manifest", "listed", "entries"}
      BY <3>1 DEF IInv, ArchiveFits
    <3>3. \A b \in archive' : b.manifest = a.manifest
      BY <3>1, <3>2
    <3> QED
      BY <1>0, <1>2, <3>3
  <2>3. ASSUME UNCHANGED archive PROVE \A a \in archive' : OfBackup(a.manifest.files)'
    BY <1>0, <1>2, <2>3
  <2>4. ASSUME NEW p \in Procs, Acts(p) PROVE \A a \in archive' : OfBackup(a.manifest.files)'
    BY <2>1, <2>3, <2>4, Steps DEF Touches
  <2>5. HandEdit \/ UNCHANGED vars => UNCHANGED archive
    BY DEF HandEdit, vars
  <2> QED
    BY <2>2, <2>3, <2>4, <2>5, StepCases
<1>6. ASSUME NEW p \in Procs, Acts(p) PROVE R(p)'
  <2> DEFINE x == proc[p]
             y == proc'[p]
  <2>1. ASSUME NEW q \in Requests, RestoreStarts(p, q) PROVE R(p)'
    <3>1. PICK a \in archive : y = [at |-> "extracts", dir |-> q.dir, existed |-> q.dir \in exists,
                                    manifest |-> a.manifest]
      BY <1>0, <2>1 DEF RestoreStarts, Goes
    <3> QED
      BY <1>0, <1>2, <3>1
  <2>2. ASSUME RestoreExtracts(p), y # Idle PROVE R(p)'
    <3>1. x.at = "extracts" /\ ManifestFits(x.manifest, issued)
      BY <1>0, <2>2 DEF RestoreExtracts, Fits
    <3>2. PICK a \in archive :
            /\ Extracted(a, x.manifest)
            /\ y = [at |-> IF x.existed THEN "clears" ELSE "places", dir |-> x.dir,
                    existed |-> x.existed, new |-> FALSE, id |-> x.manifest.id,
                    files |-> Restrict(a.entries, DOMAIN x.manifest.files)]
      BY <1>0, <2>2 DEF RestoreExtracts, Goes, Ends
    <3>3. Restrict(a.entries, DOMAIN x.manifest.files) = x.manifest.files
      BY <3>1, <3>2 DEF Extracted, Restrict, ManifestFits, Whole, TreeFits, FilesFit
    <3>4. \E b \in made' : y.files = b.files
      <4>1. OfBackup(x.manifest.files)
        BY <1>0, <3>1
      <4>2. y.files = x.manifest.files
        BY <3>2, <3>3
      <4> QED
        BY <1>1, <4>1, <4>2 DEF OfBackup
    <3>5. y.at \in {"clears", "places"}
      BY <3>2
    <3> HIDE DEF y
    <3> QED
      BY <3>4, <3>5 DEF y, OfBackup
  <2>3. ASSUME RestoreClears(p), y # Idle PROVE R(p)'
    <3>1. x.at = "clears" /\ y = [x EXCEPT !.at = "places"]
      BY <1>0, <2>3 DEF RestoreClears, Goes, Ends
    <3>2. y.at = "places" /\ y.files = x.files
      BY <1>0, <3>1 DEF Fits
    <3> QED
      BY <1>0, <1>2, <1>3, <3>1, <3>2
  <2>4. ASSUME NEW q \in Requests, InitStarts(p, q) PROVE R(p)'
    <3>1. /\ issued' = issued + 1 /\ y.at \in {"stages", "places"}
          /\ y.files = Template(issued')
      BY <1>0, <2>4 DEF InitStarts, Goes
    <3>2. issued' \in 2..issued'
      BY <1>0, <3>1
    <3> QED
      BY <3>1, <3>2
  <2>5. Arrives(p)
    BY <1>6, Steps
  <2>6. CASE y.at \notin {"extracts", "clears", "places"}
    BY <2>6
  <2>7. CASE y.at \in {"extracts", "clears", "places"}
    <3>1. y # Idle
      BY <2>7 DEF Idle
    <3>2. \/ RestoreExtracts(p) \/ RestoreClears(p)
          \/ \E q \in Requests : RestoreStarts(p, q) \/ InitStarts(p, q)
      BY <2>5, <2>7, <3>1 DEF Arrives
    <3> QED
      BY <2>1, <2>2, <2>3, <2>4, <3>1, <3>2
  <2> QED
    BY <2>6, <2>7
<1>7. \A o \in Procs : R(o)'
  <2>1. ASSUME NEW p \in Procs, Acts(p) PROVE \A o \in Procs : R(o)'
    BY <1>4, <1>6, <2>1, Steps
  <2>2. HandEdit \/ Damage \/ UNCHANGED vars => UNCHANGED proc
    BY DEF HandEdit, Damage, vars
  <2> QED
    BY <1>4, <2>1, <2>2, StepCases
<1> QED
  BY <1>5, <1>7 DEF RestoresWhole

\* Both, after every step.
LEMMA MadeStays == IInv /\ Made /\ [Next]_vars /\ StillEmpty => Made'
BY InitsWholeStay, RestoresWholeStay DEF Made

\* Both, at the start.
LEMMA InitMade == Init => Made
BY DEF Init, Made, InitsWhole, RestoresWhole, Idle

\* What appears in one step is whole.
LEMMA WholePublished ==
  ASSUME IInv, Made, [Next]_vars, NEW d \in Dirs, ~IsVault(d), IsVault(d)'
  PROVE  (\E b \in made : tree'[d] = b.files) \/ IsTemplate(tree'[d])
<1>0. DOMAIN tree = Dirs /\ DOMAIN proc = Procs /\ issued \in Nat
      /\ \A e \in Dirs : DOMAIN tree[e] # {} => e \in exists
  BY DEF IInv, WorldFits, ProcsFit
<1>1. Config \notin DOMAIN tree[d] /\ Config \in DOMAIN tree'[d]
  BY <1>0 DEF IsVault
<1>2. \A id \in 2..issued : /\ DOMAIN Template(id) = {Config, Rules, Page, Admission}
                            /\ Template(id)[Config].id = id
  BY <1>0, TemplateFits
<1>3. PICK p \in Procs : Acts(p)
  <2>1. ~HandEdit
    BY <1>1, HandEditChanges
  <2>2. Damage \/ UNCHANGED vars => UNCHANGED tree
    BY DEF Damage, vars
  <2> QED
    BY <1>1, <2>1, <2>2, StepCases
<1>4. /\ proc[p].dir = d
      /\ SaveWrites(p) \/ EditWrites(p) \/ Places(p) \/ InitMoves(p) \/ InitMoveFails(p)
  BY <1>1, <1>3, TreeChanges
<1>5. ~SaveWrites(p) /\ ~EditWrites(p)
  BY <1>1, <1>4, SaveWritesIn, EditWritesIn
<1>6. ~InitMoveFails(p)
  <2>1. ASSUME InitMoveFails(p) PROVE FALSE
    <3>1. PICK gone : tree' = [tree EXCEPT ![d] = Restrict(@, DOMAIN @ \ gone)]
      BY <1>4, <2>1, InitMoveFailsIn
    <3> QED
      BY <1>0, <1>1, <3>1 DEF Restrict
  <2> QED
    BY <2>1
<1>7. CASE Places(p)
  <2>1. proc[p].at = "places" /\ tree'[d] = proc[p].files
    BY <1>0, <1>4, <1>7 DEF Places
  <2>2. CASE OfBackup(proc[p].files)
    BY <2>1, <2>2 DEF OfBackup
  <2>3. ASSUME NEW id \in 2..issued, proc[p].files = Template(id) PROVE IsTemplate(tree'[d])
    BY <1>0, <1>2, <2>1, <2>3 DEF IsTemplate
  <2> QED
    BY <2>1, <2>2, <2>3 DEF Made, RestoresWhole
<1>8. CASE InitMoves(p)
  <2> DEFINE n == proc[p].next
             files == proc[p].files
  <2>1. PICK part :
          /\ tree' = [tree EXCEPT ![proc[p].dir] = [f \in DOMAIN tree[proc[p].dir] \cup part |->
                        IF f \in part THEN files[f] ELSE tree[proc[p].dir][f]]]
          /\ part = (CASE n = 1 -> {Admission} [] n = 2 -> {Rules} [] n = 3 -> {Page}
                       [] n = 4 -> {Config})
    BY <1>8, InitMovesIn
  <2>2. proc[p].at = "moves" /\ n \in 1..4
    BY <1>8, InitMovesIn
  <2>3. PICK id \in 2..issued : files = Template(id)
    BY <1>8, InitMovesIn
  <2>4. n = 4 /\ part = {Config}
    BY <1>0, <1>1, <1>4, <2>1, <2>2, FilesDiffer
  <2>5. /\ DOMAIN tree[d] = {Admission, Rules, Page}
        /\ tree[d][Page] = files[Page]
    BY <1>4, <2>2, <2>4, FilesDiffer DEF Made, InitsWhole, Moved, TopLevel
  <2>6. /\ DOMAIN tree'[d] = {Config, Rules, Page, Admission}
        /\ \A f \in {Config, Page} : tree'[d][f] = files[f]
    BY <1>0, <1>4, <2>1, <2>4, <2>5, FilesDiffer
  <2>7. IsTemplate(tree'[d])
    <3>1. DOMAIN tree'[d] \ TopLevel = {Config, Page}
      BY <2>6, FilesDiffer DEF TopLevel
    <3>2. tree'[d][Config].id = id /\ id > 1
      BY <1>0, <1>2, <2>3, <2>6
    <3> QED
      BY <1>2, <2>3, <2>6, <3>1, <3>2 DEF IsTemplate
  <2> QED
    BY <2>7
<1> QED
  BY <1>4, <1>5, <1>6, <1>7, <1>8

\* No file of a Vault goes away.
LEMMA FilesStay ==
  ASSUME IInv, Made, [Next]_vars, NEW d \in Dirs, IsVault(d)
  PROVE  DOMAIN tree[d] \subseteq DOMAIN tree'[d]
<1>0. DOMAIN tree = Dirs /\ Config \in DOMAIN tree[d]
  BY DEF IInv, WorldFits, IsVault
<1>1. ASSUME NEW p \in Procs, Acts(p), tree'[d] # tree[d]
      PROVE  DOMAIN tree[d] \subseteq DOMAIN tree'[d]
  <2>1. /\ proc[p].dir = d
        /\ SaveWrites(p) \/ EditWrites(p) \/ Places(p) \/ InitMoves(p) \/ InitMoveFails(p)
    BY <1>1, TreeChanges
  <2>2. CASE SaveWrites(p) \/ EditWrites(p)
    <3>1. PICK f, x : tree' = [tree EXCEPT ![d] = Written(@, f, x)]
      BY <1>0, <1>1, <2>1, <2>2 DEF SaveWrites, EditWrites
    <3> QED
      BY <1>0, <3>1 DEF Written
  <2>3. ~Places(p)
    BY <1>0, <2>1, PlacesIn
  <2>4. proc[p].at # "moves"
    <3>1. proc[p].at = "moves" => proc[p].next \in 1..4
      BY DEF IInv, ProcsFit, Fits
    <3> QED
      BY <1>0, <2>1, <3>1, MovesAdd DEF Made, InitsWhole
  <2>5. ~InitMoves(p) /\ ~InitMoveFails(p)
    BY <2>4 DEF InitMoves, InitMoveFails
  <2> QED
    BY <2>1, <2>2, <2>3, <2>5
<1>2. HandEdit => DOMAIN tree'[d] = DOMAIN tree[d]
  BY HandEditChanges
<1>3. Damage \/ UNCHANGED vars => UNCHANGED tree
  BY DEF Damage, vars
<1> QED
  BY <1>1, <1>2, <1>3, StepCases

\* A directory becomes a Vault in one step and is then all of a template or all of
\* a published backup, whatever dies or fails; all that the inits and restores of
\* one directory need for it is that what an init found empty is still empty when
\* it makes its stage.
THEOREM PublishedWhole == Spec /\ [][StillEmpty]_vars => PublishedVaultsAreWhole
<1>1. IInv /\ Made /\ [Next]_vars /\ [StillEmpty]_vars => Made'
  <2>1. UNCHANGED vars /\ Made => Made'
    BY DEF vars, Made, InitsWhole, RestoresWhole, OfBackup
  <2> QED
    BY <2>1, MadeStays
<1>2. IInv /\ Made /\ [Next]_vars =>
        [\A d \in Dirs : ~IsVault(d) /\ IsVault(d)' =>
           \/ \E b \in made : tree'[d] = b.files
           \/ IsTemplate(tree'[d])]_vars
  BY WholePublished
<1> QED
  BY <1>1, <1>2, InitMade, HomeInvariant, PTL DEF Spec, PublishedVaultsAreWhole

\* Nothing removes a file of a Vault, with the same exception: without it the run
\* vaults_raced shows an init that removes them.
THEOREM VaultFilesKept == Spec /\ [][StillEmpty]_vars => VaultFilesStay
<1>1. IInv /\ Made /\ [Next]_vars /\ [StillEmpty]_vars => Made'
  <2>1. UNCHANGED vars /\ Made => Made'
    BY DEF vars, Made, InitsWhole, RestoresWhole, OfBackup
  <2> QED
    BY <2>1, MadeStays
<1>2. IInv /\ Made /\ [Next]_vars =>
        [\A d \in Dirs : IsVault(d) => DOMAIN tree[d] \subseteq DOMAIN tree'[d]]_vars
  BY FilesStay
<1> QED
  BY <1>1, <1>2, InitMade, HomeInvariant, PTL DEF Spec, VaultFilesStay

\* While the races of init and of kb doctor have not happened, no step is one.
LEMMA ClearSteps ==
  ASSUME IInv, [Next]_vars, Clear'
  PROVE  Clear /\ StillEmpty /\ StillUnlocked
<1>1. Clear
  BY RacesAdd DEF Clear
<1>2. StillEmpty
  BY DEF Clear, StillEmpty, InitStages
<1>3. StillUnlocked
  BY DEF Clear, StillUnlocked, DoctorRemoves
<1> QED
  BY <1>1, <1>2, <1>3

-----------------------------------------------------------------------------
(* What the Vault lock keeps apart.                                        *)

\* A held lock stays one of the file that is there.
LEMMA LocksCurrentStay ==
  ASSUME IInv, LocksCurrent, [Next]_vars, StillUnlocked
  PROVE  LocksCurrent'
<1>1. /\ DOMAIN lockFile = Dirs /\ DOMAIN held = Procs
      /\ \A d \in Dirs : lockFile[d] \in Nat
      /\ \A o \in Procs : held[o] # NoLock =>
           held[o].dir \in Dirs /\ held[o].inode # 0 /\ held[o].inode = lockFile[held[o].dir]
  BY DEF IInv, LocksFit, LocksCurrent
<1>2. ASSUME NEW p \in Procs, NEW d \in Dirs, NEW mode \in {"shared", "exclusive"}, Opens(p, d, mode)
      PROVE  LocksCurrent'
  <2> DEFINE i == InodeOf(d)
  <2>1. /\ lockFile'[d] = i /\ \A e \in Dirs \ {d} : lockFile'[e] = lockFile[e]
        /\ lockFile[d] # 0 => i = lockFile[d]
    BY <1>1, <1>2 DEF Opens, InodeOf
  <2>2. \A o \in Procs : \/ held'[o] = held[o]
                         \/ held'[o] = [dir |-> d, inode |-> i, mode |-> mode]
    BY <1>1, <1>2 DEF Opens
  <2> HIDE DEF i
  <2> QED
    BY <1>1, <2>1, <2>2 DEF LocksCurrent
<1>3. ASSUME NEW p \in Procs, UNCHANGED lockFile \/ DoctorRemoves(p),
             UNCHANGED held \/ held' = [held EXCEPT ![p] = NoLock]
      PROVE  LocksCurrent'
  <2>1. \A o \in Procs : held'[o] = held[o] \/ held'[o] = NoLock
    BY <1>1, <1>3
  <2>2. \A o \in Procs : held[o] # NoLock => lockFile'[held[o].dir] = lockFile[held[o].dir]
    BY <1>1, <1>3 DEF DoctorRemoves, StillUnlocked
  <2> QED
    BY <1>1, <2>1, <2>2 DEF LocksCurrent
<1>4. ASSUME NEW p \in Procs, Acts(p) PROVE LocksCurrent'
  <2>1. exists \subseteq Dirs /\ Touches(p)
    BY <1>4, Steps DEF IInv, WorldFits
  <2> QED
    BY <1>2, <1>3, <2>1 DEF Touches
<1>5. HandEdit \/ Damage \/ UNCHANGED vars => UNCHANGED <<lockFile, held>>
  BY DEF HandEdit, Damage, vars, locks
<1>6. ASSUME UNCHANGED <<lockFile, held>> PROVE LocksCurrent'
  BY <1>6 DEF LocksCurrent
<1> QED
  BY <1>4, <1>5, <1>6, StepCases

\* Two commands work in one Vault at the same time only to read it.
LEMMA OnlyReadersMeet ==
  ASSUME IInv, LocksCurrent, NEW p \in Procs, NEW o \in Procs \ {p},
         proc[p].at \in Working, proc[o].at \in Working, proc[p].dir = proc[o].dir
  PROVE  proc[p].at \in Reading /\ proc[o].at \in Reading
<1>1. \A q \in Procs : proc[q].at \in Working =>
        /\ proc[q].dir \in Dirs /\ held[q].dir = proc[q].dir
        /\ proc[q].at \notin Reading => held[q].mode = "exclusive"
  BY DEF IInv, ProcsFit, Fits, Homeless, Holding, Working, Saving, Reading
<1>2. held[p] # NoLock /\ held[o] # NoLock
  BY <1>1, HomeAssumption DEF NoLock
<1>3. held[p].inode = held[o].inode
  BY <1>1, <1>2 DEF LocksCurrent
<1>4. held[p].mode = "shared" /\ held[o].mode = "shared"
  BY <1>1, <1>2, <1>3 DEF IInv, LocksFit
<1> QED
  BY <1>1, <1>4

\* What a command works with stays as it is in the steps of the others.
LEMMA Undisturbed ==
  ASSUME IInv, InitsWhole, LocksCurrent, NEW p \in Procs, Acts(p), NEW o \in Procs \ {p},
         proc[o].at \in Working
  PROVE  /\ proc[o].dir \in Dirs /\ tree'[proc[o].dir] = tree[proc[o].dir]
         /\ pending'[proc[o].dir] = pending[proc[o].dir]
<1> DEFINE d == proc[o].dir
<1>1. /\ d \in Dirs /\ Config \in DOMAIN tree[d] /\ DOMAIN pending = Dirs
      /\ proc[p].at = "moves" => proc[p].next \in 1..4
  BY DEF IInv, ProcsFit, Fits, Homeless, VaultsWorkedIn, WorldFits, Working, Saving, Reading
<1>2. ASSUME proc[p].at \in Saving \cup {"writes"} PROVE proc[p].dir # d
  BY <1>2, OnlyReadersMeet DEF Working, Saving, Reading
<1>3. tree'[d] = tree[d]
  <2>1. SUFFICES ASSUME tree'[d] # tree[d] PROVE FALSE
    OBVIOUS
  <2>2. /\ proc[p].dir = d
        /\ SaveWrites(p) \/ EditWrites(p) \/ Places(p) \/ InitMoves(p) \/ InitMoveFails(p)
    BY <1>1, <2>1, TreeChanges
  <2>3. ~SaveWrites(p) /\ ~EditWrites(p)
    BY <1>2, <2>2 DEF SaveWrites, EditWrites, Saving
  <2>4. ~Places(p)
    BY <1>1, <2>2, PlacesIn
  <2>5. proc[p].at # "moves"
    BY <1>1, <2>2, MovesAdd DEF InitsWhole
  <2> QED
    BY <2>2, <2>3, <2>4, <2>5 DEF InitMoves, InitMoveFails
<1>4. pending'[d] = pending[d]
  <2>1. UNCHANGED pending \/ SaveMarks(p) \/ SaveEnds(p)
    BY Steps DEF Touches
  <2>2. SaveMarks(p) \/ SaveEnds(p) => proc[p].at \in Saving
    BY DEF SaveMarks, SaveEnds, Saving
  <2> QED
    BY <1>1, <1>2, <2>1, <2>2 DEF SaveMarks, SaveEnds
<1> QED
  BY <1>1, <1>3, <1>4

-----------------------------------------------------------------------------
(* Saves.                                                                  *)

\* Where a save is after its own step.
LEMMA OwnSave ==
  ASSUME IInv, SavesWhole, NEW p \in Procs, Acts(p)
  PROVE  Saved(proc[p])'
<1> DEFINE x == proc[p]
           y == proc'[p]
<1>0. /\ DOMAIN proc = Procs /\ DOMAIN tree = Dirs /\ DOMAIN pending = Dirs /\ exists \subseteq Dirs
      /\ Fits(x, issued) /\ Saved(x) /\ \A d \in Dirs : TreeFits(tree[d], issued)
  BY DEF IInv, ProcsFit, WorldFits, SavesWhole
<1>1. CASE y.at \notin Saving
  BY <1>1 DEF Saved, Saving
<1>2. ASSUME NEW q \in Requests, SaveStarts(p, q), y.at = "marks" PROVE Saved(proc[p])'
  <2>1. PICK d \in Selected(q) :
          Locking(p, d, "exclusive", TRUE,
                  [at |-> "marks", dir |-> d,
                   save |-> IF pending[d] = 0 THEN tree[d][Page] + 1 ELSE pending[d]])
    BY <1>2 DEF SaveStarts
  <2>2. d \in Dirs /\ Config \in DOMAIN tree[d]
    BY <1>0, SelectedIsVault
  <2>3. tree[d][Page] \in Nat
    BY <1>0, <2>2 DEF TreeFits, FilesFit
  <2>4. y # Idle
    BY <1>2 DEF Idle
  <2>5. y.save = IF pending[d] = 0 THEN tree[d][Page] + 1 ELSE pending[d]
    BY <1>0, <2>1, <2>4 DEF Locking
  <2>6. y.save # 0
    BY <2>3, <2>5
  <2> HIDE DEF y
  <2> QED
    BY <1>2, <2>6 DEF Saved, y
<1>3. ASSUME SaveMarks(p) PROVE Saved(proc[p])'
  <2>1. x.at = "marks" /\ y = [x EXCEPT !.at = "object"] /\ pending' = [pending EXCEPT ![x.dir] = x.save]
    BY <1>0, <1>3 DEF SaveMarks, Goes
  <2>2. x.dir \in Dirs /\ DOMAIN x = {"at", "dir", "save"} /\ x.save # 0
    BY <1>0, <2>1 DEF Fits, Saved, Homeless, Saving
  <2>3. y.at = "object" /\ y.dir = x.dir /\ y.save = x.save /\ pending'[x.dir] = x.save
    BY <1>0, <2>1, <2>2
  <2> HIDE DEF y
  <2> QED
    BY <2>2, <2>3 DEF Saved, y
<1>4. ASSUME SaveWrites(p) PROVE Saved(proc[p])'
  <2>1. PICK f \in {Object, Page} :
          /\ f = Object <=> x.at = "object"
          /\ tree' = [tree EXCEPT ![x.dir] = Written(@, f, x.save)]
    BY <1>4, SaveWritesIn
  <2>2. /\ x.at \in {"object", "page"} /\ UNCHANGED pending
        /\ y = [x EXCEPT !.at = IF x.at = "object" THEN "page" ELSE "unmarks"]
    BY <1>0, <1>4, FilesDiffer DEF SaveWrites, Goes
  <2>3. /\ x.dir \in Dirs /\ DOMAIN x = {"at", "dir", "save"} /\ x.save # 0
        /\ pending[x.dir] = x.save
        /\ x.at = "page" => Object \in DOMAIN tree[x.dir] /\ tree[x.dir][Object] = x.save
    BY <1>0, <2>2 DEF Fits, Saved, Homeless, Saving
  <2>4. /\ y.at = IF x.at = "object" THEN "page" ELSE "unmarks"
        /\ y.dir = x.dir /\ y.save = x.save
    BY <2>2, <2>3
  <2>5. tree'[x.dir] = Written(tree[x.dir], f, x.save)
    BY <1>0, <2>1, <2>3
  <2>6. /\ Object \in DOMAIN tree'[x.dir] /\ tree'[x.dir][Object] = x.save
        /\ x.at = "page" => tree'[x.dir][Page] = x.save
    BY <2>1, <2>2, <2>3, <2>5, FilesDiffer DEF Written
  <2> HIDE DEF y
  <2> QED
    BY <2>2, <2>3, <2>4, <2>6 DEF Saved, y
<1>5. Arrives(p)
  BY Steps
<1>6. CASE y.at \in Saving
  <2>1. y # Idle
    BY <1>6 DEF Idle, Saving
  <2>2. \/ SaveMarks(p) \/ SaveWrites(p)
        \/ y.at = "marks" /\ \E q \in Requests : SaveStarts(p, q)
    BY <1>5, <1>6, <2>1 DEF Arrives, Saving
  <2> QED
    BY <1>2, <1>3, <1>4, <2>2
<1> QED
  BY <1>1, <1>6

\* Its two files are of the same save, when none is half done.
LEMMA SavesWholeStay ==
  ASSUME IInv, Made, LocksCurrent, SavesWhole, Snapshots, [Next]_vars
  PROVE  SavesWhole'
<1> DEFINE Same(d) == pending[d] = 0 /\ Object \in DOMAIN tree[d] =>
                        Page \in DOMAIN tree[d] /\ tree[d][Object] = tree[d][Page]
<1>0. /\ DOMAIN proc = Procs /\ DOMAIN tree = Dirs /\ DOMAIN pending = Dirs
      /\ \A o \in Procs : Saved(proc[o]) /\ Fits(proc[o], issued)
      /\ \A d \in Dirs : Same(d) /\ TreeFits(tree[d], issued)
      /\ issued \in Nat
  BY DEF IInv, ProcsFit, WorldFits, SavesWhole
<1>1. ASSUME NEW p \in Procs, Acts(p), NEW o \in Procs \ {p} PROVE Saved(proc[o])'
  <2>1. proc'[o] = proc[o]
    BY <1>1, Steps
  <2>2. CASE proc[o].at \in Saving
    <3>1. /\ tree'[proc[o].dir] = tree[proc[o].dir]
          /\ pending'[proc[o].dir] = pending[proc[o].dir]
      BY <1>1, <2>2, Undisturbed DEF Made, Working
    <3> QED
      BY <1>0, <2>1, <3>1 DEF Saved
  <2>3. CASE proc[o].at \notin Saving
    BY <2>1, <2>3 DEF Saved, Saving
  <2> QED
    BY <2>2, <2>3
<1>2. ASSUME NEW p \in Procs, Acts(p), NEW d \in Dirs, tree'[d] # tree[d] PROVE Same(d)'
  <2>1. /\ proc[p].dir = d
        /\ SaveWrites(p) \/ EditWrites(p) \/ Places(p) \/ InitMoves(p) \/ InitMoveFails(p)
    BY <1>2, TreeChanges
  <2>2. CASE SaveWrites(p)
    <3>1. UNCHANGED pending /\ proc[p].at \in {"object", "page"}
      BY <2>2 DEF SaveWrites
    <3> QED
      BY <1>0, <2>1, <3>1 DEF Saved, Saving
  <2>3. CASE EditWrites(p)
    <3>1. PICK f, x : /\ f \in {Config, Local, Admission}
                      /\ tree' = [tree EXCEPT ![d] = Written(@, f, x)]
      BY <1>0, <1>2, <2>1, <2>3, EditWritesIn
    <3>2. UNCHANGED pending /\ tree'[d] = Written(tree[d], f, x)
      BY <1>0, <2>3, <3>1 DEF EditWrites
    <3>3. Object # f /\ Page # f
      BY <3>1, FilesDiffer
    <3>4. Config \in DOMAIN tree[d]
      BY <2>1, <2>3, EditWritesIn
    <3>5. Page \in DOMAIN tree[d]
      BY <1>0, <3>4 DEF TreeFits
    <3> QED
      BY <1>0, <3>2, <3>3, <3>5 DEF Written
  <2>4. CASE Places(p)
    <3>1. tree'[d] = proc[p].files /\ UNCHANGED pending /\ proc[p].at = "places"
      BY <1>0, <2>1, <2>4 DEF Places
    <3>2. CASE OfBackup(proc[p].files)
      <4>1. Page \in DOMAIN proc[p].files
        BY <2>4, PlacesIn DEF Whole, TreeFits
      <4> QED
        BY <3>1, <3>2, <4>1 DEF OfBackup, Snapshots
    <3>3. ASSUME NEW id \in 2..issued, proc[p].files = Template(id) PROVE Same(d)'
      <4>1. DOMAIN Template(id) = {Config, Rules, Page, Admission}
        BY <1>0, TemplateFits
      <4> QED
        BY <3>1, <3>3, <4>1, FilesDiffer
    <3> QED
      BY <3>1, <3>2, <3>3 DEF Made, RestoresWhole
  <2>5. CASE InitMoves(p) \/ InitMoveFails(p)
    <3>1. proc[p].at = "moves" /\ proc[p].next \in 1..4
      BY <2>5, InitMovesIn, InitMoveFailsIn
    <3>2. Object \notin DOMAIN tree[d]
      BY <2>1, <3>1, MovesAdd DEF Made, InitsWhole
    <3>3. Object \notin DOMAIN tree'[d]
      <4>1. CASE InitMoves(p)
        <5>1. PICK part :
                /\ tree' = [tree EXCEPT ![proc[p].dir] = [f \in DOMAIN tree[proc[p].dir] \cup part |->
                              IF f \in part THEN proc[p].files[f] ELSE tree[proc[p].dir][f]]]
                /\ part = (CASE proc[p].next = 1 -> {Admission} [] proc[p].next = 2 -> {Rules}
                             [] proc[p].next = 3 -> {Page} [] proc[p].next = 4 -> {Config})
          BY <4>1, InitMovesIn
        <5>2. Object \notin part
          BY <3>1, <5>1, FilesDiffer
        <5> QED
          BY <1>0, <2>1, <3>2, <5>1, <5>2
      <4>2. CASE InitMoveFails(p)
        <5>1. PICK gone : tree' = [tree EXCEPT ![proc[p].dir] = Restrict(@, DOMAIN @ \ gone)]
          BY <4>2, InitMoveFailsIn
        <5> QED
          BY <1>0, <2>1, <3>2, <5>1 DEF Restrict
      <4> QED
        BY <2>5, <4>1, <4>2
    <3> QED
      BY <3>3
  <2> QED
    BY <2>1, <2>2, <2>3, <2>4, <2>5
<1>3. ASSUME NEW p \in Procs, Acts(p), NEW d \in Dirs, tree'[d] = tree[d] PROVE Same(d)'
  <2>1. UNCHANGED pending \/ SaveMarks(p) \/ SaveEnds(p)
    BY <1>3, Steps DEF Touches
  <2>2. CASE pending'[d] = pending[d]
    BY <1>0, <1>3, <2>2
  <2>3. CASE SaveMarks(p) /\ pending'[d] # pending[d]
    <3>1. proc[p].at = "marks" /\ pending'[d] = proc[p].save
      BY <1>0, <2>3 DEF SaveMarks
    <3> QED
      BY <1>0, <3>1 DEF Saved, Saving
  <2>4. CASE SaveEnds(p) /\ pending'[d] # pending[d]
    <3>1. proc[p].at = "unmarks" /\ proc[p].dir = d
      BY <1>0, <2>4 DEF SaveEnds
    <3>2. tree[d][Object] = tree[d][Page] /\ Page \in DOMAIN tree[d]
      BY <1>0, <3>1 DEF Saved, IInv, VaultsWorkedIn, Working, Saving, TreeFits
    <3> QED
      BY <1>3, <3>2
  <2> QED
    BY <1>0, <2>1, <2>2, <2>3, <2>4
<1>4. ASSUME NEW p \in Procs, Acts(p) PROVE SavesWhole'
  <2>1. \A o \in Procs : Saved(proc[o])'
    BY <1>1, <1>4, OwnSave
  <2>2. \A d \in Dirs : Same(d)'
    BY <1>2, <1>3, <1>4
  <2> QED
    BY <2>1, <2>2 DEF SavesWhole
<1>5. CASE HandEdit
  <2>1. UNCHANGED <<proc, pending>>
    BY <1>5 DEF HandEdit
  <2>2. \A d \in Dirs : /\ DOMAIN tree'[d] = DOMAIN tree[d]
                        /\ \A f \in DOMAIN tree[d] \ ByHand : tree'[d][f] = tree[d][f]
    BY <1>5, HandEditChanges
  <2>3. \A o \in Procs : proc[o].at \in Saving =>
          /\ proc[o].dir \in Dirs /\ Page \in DOMAIN tree[proc[o].dir]
    BY <1>0 DEF Fits, Homeless, IInv, VaultsWorkedIn, Working, Saving, TreeFits
  <2>4. \A o \in Procs : Saved(proc[o])'
    BY <1>0, <2>1, <2>2, <2>3, FilesDiffer DEF Saved, Saving, ByHand
  <2>5. \A d \in Dirs : Same(d)'
    BY <1>0, <2>1, <2>2, FilesDiffer DEF ByHand
  <2> QED
    BY <2>4, <2>5 DEF SavesWhole
<1>6. Damage \/ UNCHANGED vars => UNCHANGED <<proc, pending, tree>>
  BY DEF Damage, vars
<1>7. ASSUME UNCHANGED <<proc, pending, tree>> PROVE SavesWhole'
  BY <1>7 DEF SavesWhole, Saved
<1> QED
  BY <1>4, <1>5, <1>6, <1>7, StepCases

-----------------------------------------------------------------------------
(* Backups.                                                                *)

\* A backup that hashes or copies goes on while people edit.
LEMMA ShotStays ==
  ASSUME NEW x, NEW t, NEW u, NEW n, Shot(x, t), Fits(x, n), FilesFit(t, n), Config \in DOMAIN t,
         DOMAIN u = DOMAIN t, \A f \in DOMAIN t \ ByHand : u[f] = t[f],
         \A f \in DOMAIN t \cap {Note, Rules} : t[f] \in Nat /\ u[f] \in Nat /\ t[f] <= u[f],
         x.at \in {"hashes", "copies"} /\ Admission \in DOMAIN x.files =>
           u[Admission] \in {t[Admission]} \/ u[Admission] # x.files[Admission]
  PROVE  Shot(x, u)
<1>1. SUFFICES ASSUME x.at \in Archiving PROVE Shot(x, u)
  BY DEF Shot, Archiving
<1>2. FilesFit(x.files, n) /\ Collected(x, t) /\ Hashed(x, t)
  BY <1>1 DEF Fits, Shot
<1>3. \A f \in DOMAIN x.files \cap {Note, Rules} : x.files[f] \in Nat
  BY <1>2 DEF FilesFit
<1>4. Collected(x, u)
  <2>1. u[Config] = t[Config]
    BY FilesDiffer DEF ByHand
  <2> QED
    BY <1>2, <2>1 DEF Collected
<1>5. Hashed(x, u)
  <2>1. ASSUME NEW f \in DOMAIN x.files
        PROVE  /\ f \in DOMAIN u
               /\ f \notin ByHand => x.files[f] = u[f]
               /\ f \in {Note, Rules} => x.files[f] <= u[f]
    <3>1. f \in DOMAIN t
      BY <1>2 DEF Hashed
    <3>2. CASE f \in {Note, Rules}
      <4>1. t[f] \in Nat /\ u[f] \in Nat /\ t[f] <= u[f] /\ x.files[f] \in Nat /\ x.files[f] <= t[f]
        BY <1>2, <1>3, <3>1, <3>2 DEF Hashed
      <4> QED
        BY <3>1, <3>2, <4>1 DEF ByHand
    <3>3. CASE f \notin {Note, Rules}
      BY <1>2, <3>1, <3>3 DEF Hashed, ByHand
    <3> QED
      BY <3>2, <3>3
  <2> QED
    BY <2>1 DEF Hashed
<1>6. Copied(x, t) /\ (x.at = "publishes" => x.todo = {}) /\ x.at # "hashes" => Copied(x, u)
  <2>1. ASSUME Copied(x, t), NEW f \in DOMAIN x.files, f \in {Note, Rules}
        PROVE  x.snap[f] \in Nat /\ x.files[f] <= x.snap[f] /\ x.snap[f] <= u[f]
    <3>1. x.snap[f] \in Nat /\ x.files[f] <= x.snap[f] /\ x.snap[f] <= t[f]
      BY <2>1 DEF Copied
    <3>2. t[f] \in Nat /\ u[f] \in Nat /\ t[f] <= u[f]
      BY <1>2, <2>1 DEF Hashed
    <3> QED
      BY <3>1, <3>2
  <2>2. ASSUME Copied(x, t), x.at = "publishes" => x.todo = {}, x.at # "hashes",
               Admission \in DOMAIN x.files
        PROVE  x.snap[Admission] = x.files[Admission] \/ u[Admission] # x.files[Admission]
    <3>1. CASE x.at = "copies"
      BY <2>2, <3>1 DEF Copied
    <3>2. CASE x.at = "publishes"
      BY <2>2, <3>2 DEF Copied
    <3> QED
      BY <1>1, <2>2, <3>1, <3>2 DEF Archiving
  <2> QED
    BY <2>1, <2>2 DEF Copied
<1> QED
  BY <1>4, <1>5, <1>6 DEF Shot

\* What a backup is after its own step.
LEMMA OwnBackup ==
  ASSUME IInv, BackupsWhole, NEW p \in Procs, Acts(p)
  PROVE  /\ proc'[p].at \in Reading => pending'[proc'[p].dir] = 0
         /\ Shot(proc'[p], tree'[proc'[p].dir])
<1> DEFINE x == proc[p]
           y == proc'[p]
           t == tree[proc[p].dir]
           G == /\ y.at \in Reading => pending'[y.dir] = 0
                /\ Shot(y, tree'[y.dir])
<1>0. /\ DOMAIN proc = Procs /\ exists \subseteq Dirs /\ Fits(x, issued)
      /\ \A d \in Dirs : FilesFit(tree[d], issued)
      /\ x.at \in Reading => pending[x.dir] = 0 /\ x.dir \in Dirs /\ Config \in DOMAIN t
      /\ Shot(x, t)
  BY DEF IInv, ProcsFit, WorldFits, TreeFits, BackupsWhole, Fits, Homeless, VaultsWorkedIn, Working,
         Reading
<1>1. CASE y.at \notin Reading
  BY <1>1 DEF Shot, Archiving, Reading
<1>2. ASSUME NEW q \in Requests, BackupStarts(p, q), y.at = "collects" PROVE G
  <2>1. PICK d \in Selected(q) :
          Locking(p, d, "shared", pending[d] = 0,
                  [at |-> "collects", dir |-> d, complete |-> q.complete])
    BY <1>2 DEF BackupStarts
  <2>2. y # Idle
    BY <1>2 DEF Idle
  <2>3. y = [at |-> "collects", dir |-> d, complete |-> q.complete] /\ pending[d] = 0
    BY <1>0, <2>1, <2>2 DEF Locking
  <2>4. UNCHANGED pending
    BY <1>2 DEF BackupStarts
  <2>5. y.at = "collects" /\ pending'[y.dir] = 0
    BY <2>3, <2>4
  <2> HIDE DEF y
  <2> QED
    BY <2>5 DEF Shot, Archiving
<1>3. ASSUME BackupCollects(p), y # Idle PROVE G
  <2> DEFINE listed == Listed(t, t[Admission], x.complete)
  <2>1. /\ x.at = "collects" /\ Collectable(t, t[Admission])
        /\ y = [at |-> "hashes", dir |-> x.dir, complete |-> x.complete, todo |-> listed,
                files |-> NoFiles, copied |-> NoFiles, snap |-> NoFiles, id |-> IdOf(x.dir),
                admission |-> t[Admission],
                roots |-> {"Wiki", ".kb"} \cup Admitted(t[Admission])]
        /\ UNCHANGED <<tree, pending>>
    BY <1>0, <1>3 DEF BackupCollects, Goes, Ends
  <2>2. pending[x.dir] = 0
    BY <1>0, <2>1 DEF Reading
  <2>3. \A f \in listed :
          /\ f # Local /\ (f = Object => x.complete)
          /\ f = Note => "Notes" \in {"Wiki", ".kb"} \cup Admitted(t[Admission])
    <3>1. Root(Note) = "Notes"
      BY FilesDiffer DEF Root
    <3> QED
      BY <3>1, FilesDiffer DEF Listed, Required
  <2>4. RootsParse(t[Admission])
    BY <2>1 DEF Collectable
  <2>5. DOMAIN NoFiles = {}
    BY DEF NoFiles
  <2> HIDE DEF listed
  <2>6. /\ y.at = "hashes" /\ y.dir = x.dir /\ y.copied = NoFiles /\ y.files = NoFiles
        /\ y.todo = listed /\ y.complete = x.complete /\ y.id = t[Config].id
        /\ y.roots = {"Wiki", ".kb"} \cup Admitted(t[Admission]) /\ y.admission = t[Admission]
    BY <2>1 DEF IdOf
  <2> HIDE DEF y, t
  <2>7. Collected(y, t)
    BY <2>3, <2>4, <2>5, <2>6 DEF Collected
  <2>8. Hashed(y, t)
    BY <2>5, <2>6 DEF Hashed
  <2>9. t = tree'[y.dir] /\ pending'[y.dir] = 0
    BY <2>1, <2>2, <2>6 DEF t
  <2> QED
    BY <2>6, <2>7, <2>8, <2>9 DEF Shot
<1>4. ASSUME BackupHashes(p), y # Idle PROVE G
  <2>1. /\ x.at = "hashes" /\ FilesFit(x.files, issued) /\ FilesFit(t, issued)
        /\ DOMAIN x = {"at", "dir", "complete", "todo", "files", "copied", "snap", "id", "roots",
                    "admission"}
        /\ pending[x.dir] = 0 /\ Collected(x, t) /\ Hashed(x, t) /\ x.copied = NoFiles
        /\ UNCHANGED <<tree, pending>>
    BY <1>0, <1>4 DEF BackupHashes, Fits, Archiving, Reading, Shot
  <2>2. PICK f \in x.todo :
          LET files == Written(x.files, f, t[f])
              rest == x.todo \ {f}
          IN \/ Ends(p)
             \/ /\ f \in DOMAIN t
                /\ Goes(p, [x EXCEPT !.todo = rest, !.files = files])
             \/ /\ f \in DOMAIN t
                /\ ManifestValid(Manifest(x.id, x.complete, x.roots, files))
                /\ Goes(p, [x EXCEPT !.at = "copies", !.files = files, !.todo = DOMAIN files,
                              !.snap = Restrict(t, DOMAIN files)])
    BY <1>4, HashTurn
  <2> DEFINE files == Written(x.files, f, t[f])
             rest == x.todo \ {f}
  <2>3. ~Ends(p)
    BY <1>0, <1>4 DEF Ends
  <2>4. f \in DOMAIN t
    BY <2>2, <2>3
  <2>5. /\ DOMAIN files = DOMAIN x.files \cup {f} /\ files[f] = t[f]
        /\ \A g \in DOMAIN x.files \ {f} : files[g] = x.files[g]
    BY DEF Written
  <2>6. \A g \in {Note, Rules} \cap DOMAIN t : t[g] \in Nat
    BY <2>1 DEF FilesFit
  <2> HIDE DEF files, rest, t, G
  <2>7. \A g \in DOMAIN files :
          /\ g \in DOMAIN t
          /\ g \notin ByHand => files[g] = t[g]
          /\ g \in {Note, Rules} => files[g] <= t[g]
    BY <2>1, <2>4, <2>5, <2>6 DEF Hashed, ByHand
  <2>8. CASE Goes(p, [x EXCEPT !.todo = rest, !.files = files])
    <3>1. y = [x EXCEPT !.todo = rest, !.files = files]
      BY <1>0, <2>8 DEF Goes
    <3>2. /\ y.at = "hashes" /\ y.dir = x.dir /\ y.files = files /\ y.todo = rest
          /\ y.complete = x.complete /\ y.id = x.id /\ y.roots = x.roots /\ y.admission = x.admission /\ y.copied = x.copied
      BY <2>1, <3>1
    <3> HIDE DEF y, x
    <3>3. y.todo \cup DOMAIN y.files \subseteq x.todo \cup DOMAIN x.files
      BY <2>5, <3>2 DEF rest
    <3>4. Collected(y, t)
      BY <2>1, <3>2, <3>3 DEF Collected
    <3>5. Hashed(y, t)
      BY <2>7, <3>2 DEF Hashed
    <3>6. t = tree'[y.dir] /\ pending'[y.dir] = 0
      BY <2>1, <3>2 DEF t, x
    <3> QED
      BY <2>1, <3>2, <3>4, <3>5, <3>6 DEF Shot, G
  <2>9. CASE /\ ManifestValid(Manifest(x.id, x.complete, x.roots, files))
             /\ Goes(p, [x EXCEPT !.at = "copies", !.files = files, !.todo = DOMAIN files,
                                  !.snap = Restrict(t, DOMAIN files)])
    <3>1. y = [x EXCEPT !.at = "copies", !.files = files, !.todo = DOMAIN files,
                        !.snap = Restrict(t, DOMAIN files)]
      BY <1>0, <2>9 DEF Goes
    <3>2. /\ y.at = "copies" /\ y.dir = x.dir /\ y.files = files /\ y.todo = DOMAIN files
          /\ y.complete = x.complete /\ y.id = x.id /\ y.roots = x.roots /\ y.admission = x.admission /\ y.copied = NoFiles
          /\ y.snap = Restrict(t, DOMAIN files)
      BY <2>1, <3>1
    <3> HIDE DEF y, x
    <3>3. y.todo \cup DOMAIN y.files \subseteq x.todo \cup DOMAIN x.files
      BY <2>5, <3>2
    <3>4. Collected(y, t)
      BY <2>1, <3>2, <3>3 DEF Collected
    <3>5. Hashed(y, t)
      BY <2>7, <3>2 DEF Hashed
    <3>6. y.snap = [g \in DOMAIN files |-> t[g]]
      BY <3>2 DEF Restrict
    <3>7. \A g \in DOMAIN y.files :
            /\ g \notin ByHand => y.snap[g] = y.files[g]
            /\ g \in {Note, Rules} =>
                 y.snap[g] \in Nat /\ y.files[g] <= y.snap[g] /\ y.snap[g] <= t[g]
            /\ g = Admission => y.snap[g] = y.files[g] \/ t[g] # y.files[g]
      BY <2>6, <2>7, <3>2, <3>6
    <3>8. Copied(y, t)
      BY <2>9, <3>2, <3>6, <3>7 DEF Copied, NoFiles
    <3>9. t = tree'[y.dir] /\ pending'[y.dir] = 0
      BY <2>1, <3>2 DEF t, x
    <3> QED
      BY <3>2, <3>4, <3>5, <3>8, <3>9 DEF Shot, G
  <2> QED
    BY <2>2, <2>3, <2>8, <2>9 DEF files, rest
<1>5. ASSUME BackupCopies(p), y # Idle PROVE G
  <2>1. /\ x.at = "copies" /\ FilesFit(x.files, issued) /\ FilesFit(t, issued)
        /\ DOMAIN x = {"at", "dir", "complete", "todo", "files", "copied", "snap", "id", "roots",
                    "admission"}
        /\ pending[x.dir] = 0 /\ Collected(x, t) /\ Hashed(x, t) /\ Copied(x, t)
        /\ UNCHANGED <<tree, pending>>
    BY <1>0, <1>5 DEF BackupCopies, Fits, Archiving, Reading, Shot
  <2>2. PICK f \in x.todo :
          LET copied == Written(x.copied, f, t[f])
              rest == x.todo \ {f}
          IN \/ Ends(p)
             \/ /\ f \in DOMAIN t /\ t[f] = x.files[f]
                /\ Goes(p, [x EXCEPT !.todo = rest, !.copied = copied,
                                     !.at = IF rest = {} THEN "publishes" ELSE @])
    BY <1>5, CopyTurn
  <2> DEFINE copied == Written(x.copied, f, t[f])
             rest == x.todo \ {f}
  <2>3. ~Ends(p)
    BY <1>0, <1>5 DEF Ends
  <2>4. /\ f \in DOMAIN t /\ t[f] = x.files[f]
        /\ y = [x EXCEPT !.todo = rest, !.copied = copied, !.at = IF rest = {} THEN "publishes" ELSE @]
    BY <1>0, <2>2, <2>3 DEF Goes
  <2>5. /\ DOMAIN copied = DOMAIN x.copied \cup {f} /\ copied[f] = x.files[f]
        /\ \A g \in DOMAIN x.copied \ {f} : copied[g] = x.copied[g]
        /\ copied = [g \in DOMAIN copied |-> copied[g]]
    BY <2>4 DEF Written
  <2> HIDE DEF copied, rest, t, G
  <2>6. /\ y.at = IF rest = {} THEN "publishes" ELSE "copies"
        /\ y.dir = x.dir /\ y.files = x.files /\ y.todo = rest /\ y.snap = x.snap
        /\ y.complete = x.complete /\ y.id = x.id /\ y.roots = x.roots /\ y.admission = x.admission /\ y.copied = copied
    BY <2>1, <2>4
  <2>7. x.snap[f] = x.files[f]
    <3>1. f \in DOMAIN x.files
      BY <2>1 DEF Copied
    <3>2. CASE f \in {Note, Rules}
      <4>1. t[f] \in Nat /\ x.files[f] \in Nat
        BY <2>1, <2>4, <3>1, <3>2 DEF FilesFit
      <4>2. x.snap[f] \in Nat /\ x.files[f] <= x.snap[f] /\ x.snap[f] <= t[f]
        BY <2>1, <3>1, <3>2 DEF Copied
      <4> QED
        BY <2>4, <4>1, <4>2
    <3>3. CASE f \notin {Note, Rules}
      BY <2>1, <2>4, <3>1, <3>3 DEF Copied, ByHand
    <3> QED
      BY <3>2, <3>3
  <2> HIDE DEF y, x
  <2>8. Collected(y, t)
    <3>1. y.todo \cup DOMAIN y.files \subseteq x.todo \cup DOMAIN x.files
      BY <2>6 DEF rest
    <3> QED
      BY <2>1, <2>6, <3>1 DEF Collected
  <2>9. Hashed(y, t)
    BY <2>1, <2>6 DEF Hashed
  <2>10. Copied(y, t)
    <3>1. DOMAIN y.copied \cup y.todo = DOMAIN y.files
      BY <2>1, <2>5, <2>6 DEF Copied, rest
    <3>2. \A g \in DOMAIN y.copied : y.copied[g] = y.files[g] /\ y.snap[g] = y.files[g]
      BY <2>1, <2>5, <2>6, <2>7 DEF Copied
    <3> QED
      BY <2>1, <2>6, <3>1, <3>2 DEF Copied
  <2>11. t = tree'[y.dir] /\ pending'[y.dir] = 0
    BY <2>1, <2>6 DEF t, x
  <2> QED
    BY <2>6, <2>8, <2>9, <2>10, <2>11 DEF Shot, G
<1>6. CASE y.at \in Reading
  <2>1. y # Idle
    BY <1>6 DEF Idle, Reading
  <2>2. Arrives(p)
    BY Steps
  <2>3. \/ BackupCollects(p) \/ BackupHashes(p) \/ BackupCopies(p)
        \/ y.at = "collects" /\ \E q \in Requests : BackupStarts(p, q)
    BY <1>6, <2>1, <2>2 DEF Arrives, Reading
  <2> HIDE DEF y
  <2> QED
    BY <1>2, <1>3, <1>4, <1>5, <2>1, <2>3 DEF y
<1> QED
  BY <1>1, <1>6

\* What people write in admission.yml is not what a backup has hashed.
LEMMA AdmissionIsNew ==
  ASSUME IInv, HandEdit, NEW o \in Procs, NEW d \in Dirs, proc[o].dir = d,
         proc[o].at \in {"hashes", "copies"}, Admission \in DOMAIN proc[o].files
  PROVE  tree'[d][Admission] = tree[d][Admission] \/ tree'[d][Admission] # proc[o].files[Admission]
<1>1. DOMAIN tree = Dirs
  BY DEF IInv, WorldFits
<1>2. PICK e \in Dirs : NoteByHand(e) \/ AdmissionByHand(e)
  BY DEF HandEdit
<1>3. CASE NoteByHand(e)
  <2>1. PICK f \in {Note, Rules} \cap DOMAIN tree[e] : tree' = [tree EXCEPT ![e][f] = @ + 1]
    BY <1>3 DEF NoteByHand
  <2>2. tree'[d] = IF e = d THEN [tree[d] EXCEPT ![f] = @ + 1] ELSE tree[d]
    BY <1>1, <2>1
  <2>3. f # Admission
    BY FilesDiffer
  <2> QED
    BY <2>2, <2>3
<1>4. CASE AdmissionByHand(e) /\ e = d
  <2>1. PICK document \in Admissions :
          /\ document # proc[o].files[Admission]
          /\ tree' = [tree EXCEPT ![d] = Written(@, Admission, document)]
    BY <1>4 DEF AdmissionByHand
  <2> QED
    BY <1>1, <2>1 DEF Written
<1>5. CASE AdmissionByHand(e) /\ e # d
  BY <1>1, <1>5 DEF AdmissionByHand
<1> QED
  BY <1>2, <1>3, <1>4, <1>5

\* How far every backup is, after every step.
LEMMA BackupsWholeStay ==
  ASSUME IInv, InitsWhole, LocksCurrent, BackupsWhole, [Next]_vars
  PROVE  BackupsWhole'
<1> DEFINE B(o) == /\ proc[o].at \in Reading => pending[proc[o].dir] = 0
                   /\ Shot(proc[o], tree[proc[o].dir])
<1>0. \A o \in Procs : B(o) /\ Fits(proc[o], issued)
  BY DEF BackupsWhole, IInv, ProcsFit
<1>1. ASSUME NEW p \in Procs, Acts(p), NEW o \in Procs \ {p} PROVE B(o)'
  <2>1. proc'[o] = proc[o]
    BY <1>1, Steps
  <2>2. CASE proc[o].at \in Reading
    <3>1. /\ tree'[proc[o].dir] = tree[proc[o].dir]
          /\ pending'[proc[o].dir] = pending[proc[o].dir]
      BY <1>1, <2>2, Undisturbed DEF Working
    <3> QED
      BY <1>0, <2>1, <3>1 DEF Shot, Collected, Hashed, Copied
  <2>3. CASE proc[o].at \notin Reading
    BY <2>1, <2>3 DEF Shot, Archiving, Reading
  <2> QED
    BY <2>2, <2>3
<1>2. ASSUME NEW p \in Procs, Acts(p) PROVE B(p)'
  BY <1>2, OwnBackup
<1>3. CASE HandEdit
  <2>1. UNCHANGED <<proc, pending>>
    BY <1>3 DEF HandEdit
  <2>2. ASSUME NEW o \in Procs, proc[o].at \in Reading PROVE B(o)'
    <3> DEFINE d == proc[o].dir
    <3>1. d \in Dirs /\ FilesFit(tree[d], issued) /\ Config \in DOMAIN tree[d]
      BY <1>0, <2>2 DEF Fits, Homeless, IInv, VaultsWorkedIn, Working, Reading, WorldFits, TreeFits
    <3>2. /\ DOMAIN tree'[d] = DOMAIN tree[d]
          /\ \A f \in DOMAIN tree[d] \ ByHand : tree'[d][f] = tree[d][f]
          /\ \A f \in DOMAIN tree[d] \cap {Note, Rules} :
               tree[d][f] \in Nat /\ tree'[d][f] \in Nat /\ tree[d][f] <= tree'[d][f]
      BY <1>3, <3>1, HandEditChanges
    <3>3. proc[o].at \in {"hashes", "copies"} /\ Admission \in DOMAIN proc[o].files =>
            tree'[d][Admission] \in {tree[d][Admission]}
              \/ tree'[d][Admission] # proc[o].files[Admission]
      BY <1>3, <3>1, AdmissionIsNew
    <3>4. Shot(proc[o], tree'[d])
      BY <1>0, <3>1, <3>2, <3>3, ShotStays
    <3> QED
      BY <1>0, <2>1, <3>4
  <2>3. \A o \in Procs : proc[o].at \notin Reading => B(o)'
    BY <2>1 DEF Shot, Archiving, Reading
  <2> QED
    BY <2>2, <2>3 DEF BackupsWhole
<1>4. Damage \/ UNCHANGED vars => UNCHANGED <<proc, pending, tree>>
  BY DEF Damage, vars
<1>5. ASSUME UNCHANGED <<proc, pending, tree>> PROVE BackupsWhole'
  BY <1>5 DEF BackupsWhole, Shot, Collected, Hashed, Copied
<1>6. ASSUME NEW p \in Procs, Acts(p) PROVE BackupsWhole'
  BY <1>1, <1>2, <1>6 DEF BackupsWhole
<1> QED
  BY <1>3, <1>4, <1>5, <1>6, StepCases

\* What is published is what was there at one moment, and verify accepts it.
LEMMA PublishedIsASnapshot ==
  ASSUME IInv, SavesWhole, BackupsWhole, NEW p \in Procs, BackupPublishes(p), NEW b \in made' \ made
  PROVE  /\ b.files = b.snap
         /\ Object \in DOMAIN b.files => b.files[Object] = b.files[Page]
         /\ b.files[Admission] = b.admission => b.verified
<1> DEFINE x == proc[p]
           t == tree[x.dir]
           m == Manifest(x.id, x.complete, x.roots, x.files)
           new == [manifest |-> m, listed |-> TRUE, entries |-> x.copied]
<1>1. /\ b = [files |-> x.files, snap |-> x.snap, admission |-> x.admission,
              verified |-> Verified(new)]
      /\ x.at = "publishes"
  BY DEF BackupPublishes
<1>2. /\ x.dir \in Dirs /\ FilesFit(x.files, issued) /\ {Config, Page} \subseteq DOMAIN x.files
      /\ pending[x.dir] = 0 /\ Collected(x, t) /\ Hashed(x, t) /\ Copied(x, t) /\ x.todo = {}
  BY <1>1 DEF IInv, ProcsFit, Fits, Homeless, Archiving, BackupsWhole, Shot, Reading
<1>3. DOMAIN x.copied = DOMAIN x.files /\ \A f \in DOMAIN x.files : x.copied[f] = x.files[f]
  BY <1>2 DEF Copied
<1>4. x.files = x.snap
  BY <1>2, <1>3 DEF FilesFit, Copied
<1>5. Object \in DOMAIN x.files => x.files[Object] = x.files[Page]
  BY <1>2, FilesDiffer DEF Hashed, SavesWhole, ByHand
<1>6. ASSUME x.files[Admission] = x.admission PROVE Verified(new)
  <2>1. /\ m.id = x.id /\ m.complete = x.complete /\ m.roots = x.roots /\ m.files = x.files
        /\ ManifestValid(m)
    BY <1>2 DEF Manifest, Copied
  <2>2. new.manifest = m /\ new.listed = TRUE /\ new.entries = x.copied
    OBVIOUS
  <2> HIDE DEF m, new
  <2>3. Admission \in DOMAIN x.files
    BY <2>1 DEF ManifestValid, Required
  <2>4. x.files[Config].id = t[Config].id
    BY <1>2, FilesDiffer DEF Hashed, ByHand
  <2>5. /\ x.roots = {"Wiki", ".kb"} \cup Admitted(x.copied[Admission])
        /\ RootsParse(x.copied[Admission]) /\ x.copied[Config].id = x.id
    BY <1>2, <1>3, <1>6, <2>3, <2>4 DEF Collected
  <2>6. \A f \in DOMAIN x.files : InScope(f, m, Admitted(x.copied[Admission]))
    <3>1. Root(Note) = "Notes"
      BY FilesDiffer DEF Root
    <3> QED
      BY <1>2, <2>1, <2>5, <3>1 DEF Collected, InScope
  <2>7. KeepsContract(new)
    BY <2>1, <2>2, <2>5, <2>6 DEF KeepsContract
  <2> QED
    BY <1>3, <2>1, <2>2, <2>7 DEF Verified
<1> QED
  BY <1>1, <1>4, <1>5, <1>6

\* Locks, saves and backups, after every step.
LEMMA ShotsStay == IInv /\ Made /\ Shots /\ [Next]_vars /\ StillUnlocked => Shots'
<1> SUFFICES ASSUME IInv, Made, Shots, [Next]_vars, StillUnlocked PROVE Shots'
  OBVIOUS
<1>1. LocksCurrent' /\ SavesWhole' /\ BackupsWhole'
  BY LocksCurrentStay, SavesWholeStay, BackupsWholeStay DEF Shots, Made
<1>2. Snapshots'
  <2>1. ASSUME NEW p \in Procs, Acts(p) PROVE Snapshots'
    <3>1. UNCHANGED made \/ BackupPublishes(p)
      BY <2>1, Steps DEF Touches
    <3> QED
      BY <3>1, PublishedIsASnapshot DEF Shots, Snapshots
  <2>2. HandEdit \/ Damage \/ UNCHANGED vars => UNCHANGED made
    BY DEF HandEdit, Damage, vars
  <2> QED
    BY <2>1, <2>2, StepCases DEF Shots, Snapshots
<1> QED
  BY <1>1, <1>2 DEF Shots

\* Locks, saves and backups, at the start.
LEMMA InitShots == Init => Shots
<1> SUFFICES ASSUME Init PROVE Shots
  OBVIOUS
<1>1. HomeTree[Object] = 0 /\ HomeTree[Page] = 0 /\ Page \in DOMAIN HomeTree
  <2>1. HomeTree[Page] = Template(1)[Page] /\ HomeTree[Object] = 0 /\ Page \in DOMAIN HomeTree
    BY FilesDiffer DEF HomeTree
  <2> QED
    BY <2>1, FilesDiffer DEF Template
<1>2. SavesWhole
  BY <1>1 DEF Init, SavesWhole, Saved, Saving, Idle, NoFiles
<1>3. LocksCurrent /\ BackupsWhole /\ Snapshots
  BY DEF Init, LocksCurrent, BackupsWhole, Shot, Archiving, Reading, Idle, Snapshots
<1> QED
  BY <1>2, <1>3 DEF Shots

\* A backup that create reports is of one moment and has no save by half, until an
\* init moved into a Vault or kb doctor removed the file of a lock that was held;
\* and verify accepts it, unless people wrote another admission.yml between the two
\* times that create reads it.
THEOREM BackupsAreSnapshots == Spec => []BackupIsASnapshot
<1>1. IInv /\ SnapshotInv /\ [Next]_vars => SnapshotInv'
  <2> SUFFICES ASSUME IInv, SnapshotInv, [Next]_vars, Clear' PROVE Made' /\ Shots'
    BY DEF SnapshotInv
  <2> QED
    BY ClearSteps, MadeStays, ShotsStay DEF SnapshotInv
<1>2. Init => SnapshotInv
  BY InitMade, InitShots DEF SnapshotInv
<1>3. SnapshotInv => BackupIsASnapshot
  BY DEF SnapshotInv, Clear, Shots, Snapshots, BackupIsASnapshot
<1> QED
  BY <1>1, <1>2, <1>3, HomeInvariant, PTL DEF Spec

-----------------------------------------------------------------------------
(* Changes of settings and of the registry.                                *)

\* What a Vault's settings are after a file was replaced.
LEMMA KbOfWritten ==
  ASSUME NEW t, NEW n, FilesFit(t, n), NEW f \in Files, NEW x
  PROVE  /\ f \notin Kept => Kb(Written(t, f, x)) = Kb(t)
         /\ f \in Kept => Kb(Written(t, f, x)) = Written(Kb(t), f, x)
<1> DEFINE w == Written(t, f, x)
<1>1. /\ DOMAIN w = DOMAIN t \cup {f} /\ w[f] = x
      /\ \A g \in DOMAIN t \ {f} : w[g] = t[g]
  BY DEF Written
<1>2. /\ Kb(w) = [g \in DOMAIN w \cap Kept |-> w[g]]
      /\ Kb(t) = [g \in DOMAIN t \cap Kept |-> t[g]]
  BY DEF Kb, Restrict
<1>3. ASSUME f \notin Kept PROVE Kb(w) = Kb(t)
  <2> HIDE DEF w
  <2>1. DOMAIN w \cap Kept = DOMAIN t \cap Kept
    BY <1>1, <1>3
  <2> QED
    BY <1>1, <1>2, <1>3, <2>1
<1>4. ASSUME f \in Kept PROVE Kb(w) = Written(Kb(t), f, x)
  <2>1. Written(Kb(t), f, x) =
          [g \in (DOMAIN t \cap Kept) \cup {f} |-> IF g = f THEN x ELSE Kb(t)[g]]
    BY <1>2 DEF Written
  <2> HIDE DEF w
  <2>2. DOMAIN w \cap Kept = (DOMAIN t \cap Kept) \cup {f}
    BY <1>1, <1>4
  <2>3. \A g \in DOMAIN w \cap Kept : w[g] = IF g = f THEN x ELSE Kb(t)[g]
    BY <1>1, <1>2
  <2> QED
    BY <1>2, <2>1, <2>2, <2>3
<1> QED
  BY <1>3, <1>4

\* The settings as they are read from the Vault.
LEMMA DocumentOfKb ==
  ASSUME NEW d \in Dirs, NEW f \in Kept
  PROVE  Documents(Kb(tree[d]), f) = Stored(d, f)
<1>1. f # "user"
  BY FilesDiffer DEF Kept
<1>2. /\ DOMAIN Kb(tree[d]) = DOMAIN tree[d] \cap Kept
      /\ \A g \in DOMAIN tree[d] \cap Kept : Kb(tree[d])[g] = tree[d][g]
  BY DEF Kb, Restrict
<1> QED
  BY <1>1, <1>2 DEF Documents, Stored

\* What a change has read is still stored, unless its file is replaced.
LEMMA ReadStays ==
  ASSUME NEW o \in Procs, Read(proc[o]), proc'[o] = proc[o],
         proc[o].at = "writes" =>
           \/ proc[o].q.file = "user" /\ UNCHANGED user
           \/ /\ proc[o].q.file # "user" /\ DOMAIN tree'[proc[o].dir] = DOMAIN tree[proc[o].dir]
              /\ proc[o].q.file \in DOMAIN tree[proc[o].dir] =>
                   tree'[proc[o].dir][proc[o].q.file] = tree[proc[o].dir][proc[o].q.file]
  PROVE  Read(proc[o])'
<1>1. SUFFICES ASSUME proc[o].at = "writes" PROVE Read(proc[o])'
  BY DEF Read
<1>2. Stored(proc[o].dir, proc[o].q.file)' = Stored(proc[o].dir, proc[o].q.file)
  BY <1>1 DEF Stored
<1> QED
  BY <1>1, <1>2 DEF Read

\* The user's configuration: what a change has read is what it replaces.
LEMMA UserEditAcknowledged ==
  ASSUME NEW p \in Procs, EditWrites(p), Acks, "user" \notin raced, proc[p].q.file = "user"
  PROVE  user' = expected'.user
<1>1. DOMAIN expected = {"user", "registry", "vaults"} /\ user = expected.user
      /\ Read(proc[p]) /\ proc[p].at = "writes"
  BY DEF Acks, UserAcks, EditWrites
<1>2. user' = proc[p].after /\ expected' = [expected EXCEPT !.user = Change(proc[p].q, @)]
  BY DEF EditWrites
<1>3. Stored(proc[p].dir, "user") = user
  BY DEF Stored
<1>4. proc[p].after = Change(proc[p].q, user)
  BY <1>1, <1>3 DEF Read
<1>5. expected'.user = Change(proc[p].q, expected.user)
  BY <1>1, <1>2
<1> QED
  BY <1>1, <1>2, <1>4, <1>5

\* The settings of a Vault: what a change has read is what it replaces.
LEMMA VaultEditAcknowledged ==
  ASSUME IInv, NEW p \in Procs, EditWrites(p), Acks, "admission" \notin raced,
         proc[p].q.file # "user", NEW d \in Dirs
  PROVE  Kb(tree'[d]) = expected'.vaults[d]
<1> DEFINE q == proc[p].q
           e == proc[p].dir
           document == Change(q, Documents(expected.vaults[e], q.file))
<1>1. /\ DOMAIN expected = {"user", "registry", "vaults"} /\ DOMAIN expected.vaults = Dirs
      /\ DOMAIN tree = Dirs /\ \A c \in Dirs : Kb(tree[c]) = expected.vaults[c]
      /\ \A c \in Dirs : FilesFit(tree[c], issued)
      /\ Read(proc[p]) /\ proc[p].at = "writes"
  BY DEF Acks, VaultAcks, IInv, WorldFits, TreeFits, EditWrites
<1>2. /\ e \in Dirs /\ q.file \in {"user", Config, Local, Admission}
      /\ proc[p].after = Change(q, Stored(e, q.file))
  BY <1>1, EditWritesIn DEF Read
<1>3. /\ tree' = [tree EXCEPT ![e] = Written(@, q.file, proc[p].after)]
      /\ expected' = [expected EXCEPT !.vaults[e] =
                        Written(@, q.file, Change(q, Documents(@, q.file)))]
  BY DEF EditWrites
<1>4. q.file \in Kept /\ q.file \in Files
  BY <1>2, FilesDiffer DEF Kept
<1>5. document = proc[p].after
  BY <1>1, <1>2, <1>4, DocumentOfKb
<1>6. Kb(Written(tree[e], q.file, proc[p].after)) = Written(expected.vaults[e], q.file, document)
  BY <1>1, <1>2, <1>4, <1>5, KbOfWritten
<1> HIDE DEF q, e
<1>7. tree'[d] = IF d = e THEN Written(tree[e], q.file, proc[p].after) ELSE tree[d]
  BY <1>1, <1>2, <1>3
<1>8. expected'.vaults[d] = IF d = e THEN Written(expected.vaults[e], q.file, document)
                            ELSE expected.vaults[d]
  BY <1>1, <1>2, <1>3
<1> HIDE DEF document
<1> QED
  BY <1>1, <1>6, <1>7, <1>8

\* The other steps that change a tree: saves do not touch the settings, and what
\* inits and restores put there or take away counts as it is.
LEMMA OthersAcknowledged ==
  ASSUME IInv, Acks, "admission" \notin raced, NEW p \in Procs, Acts(p), ~EditWrites(p),
         NEW d \in Dirs
  PROVE  Kb(tree'[d]) = expected'.vaults[d]
<1>1. /\ DOMAIN expected = {"user", "registry", "vaults"} /\ DOMAIN expected.vaults = Dirs
      /\ DOMAIN tree = Dirs /\ \A c \in Dirs : Kb(tree[c]) = expected.vaults[c]
      /\ \A c \in Dirs : FilesFit(tree[c], issued)
  BY DEF Acks, VaultAcks, IInv, WorldFits, TreeFits
<1>2. /\ UNCHANGED tree \/ SaveWrites(p) \/ Places(p) \/ InitMoves(p) \/ InitMoveFails(p)
      /\ UNCHANGED expected \/ Places(p) \/ InitMoves(p) \/ InitMoveFails(p) \/ RegistryStores(p)
  BY Steps DEF Touches
<1>3. CASE SaveWrites(p)
  <2>1. PICK f \in {Object, Page} : tree' = [tree EXCEPT ![proc[p].dir] = Written(@, f, proc[p].save)]
    BY <1>3, SaveWritesIn
  <2>2. proc[p].dir \in Dirs /\ UNCHANGED expected
    BY <1>3, SaveWritesIn DEF SaveWrites
  <2>3. f \notin Kept /\ f \in Files
    BY FilesDiffer DEF Kept
  <2>4. Kb(Written(tree[proc[p].dir], f, proc[p].save)) = Kb(tree[proc[p].dir])
    BY <1>1, <2>2, <2>3, KbOfWritten
  <2> QED
    BY <1>1, <2>1, <2>2, <2>4
<1>4. CASE Places(p) \/ InitMoves(p) \/ InitMoveFails(p)
  <2>1. proc[p].dir \in Dirs
    BY <1>4, PlacesIn, InitMovesIn, InitMoveFailsIn
  <2>2. \E files : /\ tree' = [tree EXCEPT ![proc[p].dir] = files]
                   /\ expected' = [expected EXCEPT !.vaults[proc[p].dir] = Kb(files)]
    BY <1>4 DEF Places, InitMoves, InitMoveFails
  <2>3. PICK files : /\ tree' = [tree EXCEPT ![proc[p].dir] = files]
                     /\ expected' = [expected EXCEPT !.vaults[proc[p].dir] = Kb(files)]
    BY <2>2
  <2> QED
    BY <1>1, <2>1, <2>3
<1>5. CASE UNCHANGED tree /\ RegistryStores(p)
  <2>1. UNCHANGED expected \/ \E x : expected' = [expected EXCEPT !.registry = x]
    BY <1>5 DEF RegistryStores
  <2> QED
    BY <1>1, <1>5, <2>1
<1>6. CASE UNCHANGED <<tree, expected>>
  BY <1>1, <1>6
<1> QED
  BY <1>2, <1>3, <1>4, <1>5, <1>6

\* No step loses what is kept of the expected settings.
LEMMA ExpectedStays ==
  ASSUME NEW p \in Procs, IInv, Acks, Acts(p)
  PROVE  /\ DOMAIN expected' = {"user", "registry", "vaults"} /\ DOMAIN expected'.vaults = Dirs
         /\ ~EditWrites(p) => expected'.user = expected.user
         /\ EditWrites(p) /\ proc[p].q.file # "user" => expected'.user = expected.user
<1>1. DOMAIN expected = {"user", "registry", "vaults"} /\ DOMAIN expected.vaults = Dirs
  BY DEF Acks
<1>2. CASE EditWrites(p)
  <2>1. \/ \E x : expected' = [expected EXCEPT !.user = x] /\ proc[p].q.file = "user"
        \/ \E d, x : expected' = [expected EXCEPT !.vaults[d] = x]
    BY <1>2 DEF EditWrites
  <2> QED
    BY <1>1, <1>2, <2>1
<1>3. CASE Places(p) \/ InitMoves(p) \/ InitMoveFails(p)
  <2>1. (\E d, x : expected' = [expected EXCEPT !.vaults[d] = x]) /\ ~EditWrites(p)
    BY <1>3 DEF Places, InitMoves, InitMoveFails, EditWrites
  <2> QED
    BY <1>1, <2>1
<1>4. CASE RegistryStores(p)
  <2>1. (UNCHANGED expected \/ \E x : expected' = [expected EXCEPT !.registry = x])
        /\ ~EditWrites(p)
    BY <1>4 DEF RegistryStores, EditWrites
  <2> QED
    BY <1>1, <2>1
<1>5. CASE UNCHANGED expected
  BY <1>1, <1>5
<1> QED
  BY <1>2, <1>3, <1>4, <1>5, Steps DEF Touches

\* A step of a command is a step.
LEMMA ActsIsAStep == ASSUME NEW p \in Procs, Acts(p) PROVE [Next]_vars
BY DEF Acts, Next

\* A command that has just read a file goes on with what is there.
LEMMA NewlyRead ==
  ASSUME IInv, NEW p \in Procs, Acts(p), proc'[p].at = "writes"
  PROVE  Read(proc[p])'
<1>1. EditReads(p) /\ proc'[p] # Idle /\ DOMAIN proc = Procs
  BY Steps DEF Arrives, Idle, IInv, ProcsFit
<1>2. /\ proc'[p] = [at |-> "writes", dir |-> proc[p].dir, q |-> proc[p].q,
                     after |-> Change(proc[p].q, Stored(proc[p].dir, proc[p].q.file))]
      /\ UNCHANGED <<tree, user>>
  BY <1>1 DEF EditReads, Goes, Ends
<1> QED
  BY <1>2 DEF Read, Stored

\* The user's configuration, after the step of a command: a change that another
\* has read meanwhile is made under the lock of another Vault, which is the race.
LEMMA UserAcksStay ==
  ASSUME IInv, LocksCurrent, Acks, NEW p \in Procs, Acts(p), "user" \notin raced'
  PROVE  UserAcks'
<1>1. /\ \A o \in Procs : Fits(proc[o], issued) /\ DOMAIN proc = Procs
      /\ "user" \notin raced
  BY RacesAdd, ActsIsAStep DEF IInv, ProcsFit
<1>2. UserAcks
  BY <1>1 DEF Acks
<1>3. user' = expected'.user
  <2>1. CASE EditWrites(p) /\ proc[p].q.file = "user"
    BY <1>1, <2>1, UserEditAcknowledged
  <2>2. CASE ~(EditWrites(p) /\ proc[p].q.file = "user")
    <3>1. UNCHANGED user
      BY <2>2, Steps DEF Touches, EditWrites
    <3>2. expected'.user = expected.user
      BY <2>2, ExpectedStays
    <3> QED
      BY <1>2, <3>1, <3>2 DEF UserAcks
  <2> QED
    BY <2>1, <2>2
<1>4. ASSUME NEW o \in Procs \ {p}, proc'[o].at = "writes", proc'[o].q.file = "user"
      PROVE  Read(proc[o])'
  <2>1. proc'[o] = proc[o]
    BY <1>4, Steps
  <2>2. Read(proc[o])
    BY <1>2, <1>4, <2>1 DEF UserAcks
  <2>3. ASSUME EditWrites(p), proc[p].q.file = "user" PROVE FALSE
    <3>1. ~OvertakesUserEdit(p)
      BY <2>3 DEF EditWrites
    <3>2. proc[o].dir = proc[p].dir
      BY <1>4, <2>1, <3>1 DEF OvertakesUserEdit
    <3>3. proc[p].at = "writes"
      BY <2>3 DEF EditWrites
    <3> QED
      BY <1>4, <2>1, <3>2, <3>3, OnlyReadersMeet DEF Working, Reading
  <2>4. UNCHANGED user
    BY <2>3, Steps DEF Touches, EditWrites
  <2> QED
    BY <1>4, <2>1, <2>2, <2>4, ReadStays
<1>5. ASSUME proc'[p].at = "writes" PROVE Read(proc[p])'
  BY <1>5, NewlyRead
<1> QED
  BY <1>3, <1>4, <1>5 DEF UserAcks

\* The settings of the Vaults, after the step of a command.
LEMMA VaultAcksStay ==
  ASSUME IInv, InitsWhole, LocksCurrent, Acks, NEW p \in Procs, Acts(p), "admission" \notin raced'
  PROVE  VaultAcks'
<1>1. "admission" \notin raced /\ DOMAIN proc = Procs
  BY RacesAdd, ActsIsAStep DEF IInv, ProcsFit
<1>2. VaultAcks
  BY <1>1 DEF Acks
<1>3. ASSUME NEW d \in Dirs PROVE Kb(tree'[d]) = expected'.vaults[d]
  <2>1. CASE EditWrites(p) /\ proc[p].q.file # "user"
    BY <1>1, <2>1, VaultEditAcknowledged
  <2>2. CASE EditWrites(p) /\ proc[p].q.file = "user"
    <3>1. UNCHANGED tree /\ \E x : expected' = [expected EXCEPT !.user = x]
      BY <2>2 DEF EditWrites
    <3> QED
      BY <1>2, <3>1 DEF VaultAcks, Acks
  <2>3. CASE ~EditWrites(p)
    BY <1>1, <2>3, OthersAcknowledged
  <2> QED
    BY <2>1, <2>2, <2>3
<1>4. ASSUME NEW o \in Procs \ {p}, proc'[o].at = "writes", proc'[o].q.file # "user"
      PROVE  Read(proc[o])'
  <2>1. proc'[o] = proc[o]
    BY <1>4, Steps
  <2>2. Read(proc[o]) /\ tree'[proc[o].dir] = tree[proc[o].dir]
    BY <1>2, <1>4, <2>1, Undisturbed DEF VaultAcks, Working
  <2> QED
    BY <1>4, <2>1, <2>2, ReadStays
<1>5. ASSUME proc'[p].at = "writes" PROVE Read(proc[p])'
  BY <1>5, NewlyRead
<1> QED
  BY <1>3, <1>4, <1>5 DEF VaultAcks

\* The settings, after an edit by hand: of admission.yml it counts, and a command
\* that has read the file is the race.
LEMMA AcksByHand ==
  ASSUME IInv, Acks, HandEdit
  PROVE  Acks'
<1>1. /\ UNCHANGED <<proc, user>> /\ DOMAIN tree = Dirs
      /\ DOMAIN expected = {"user", "registry", "vaults"} /\ DOMAIN expected.vaults = Dirs
      /\ \A d \in Dirs : FilesFit(tree[d], issued)
      /\ \A o \in Procs : Fits(proc[o], issued)
  BY DEF HandEdit, IInv, ProcsFit, WorldFits, TreeFits, Acks
<1>2. \A d \in Dirs : /\ DOMAIN tree'[d] = DOMAIN tree[d]
                      /\ \A f \in DOMAIN tree[d] \ ByHand : tree'[d][f] = tree[d][f]
  BY HandEditChanges
<1>3. PICK e \in Dirs : NoteByHand(e) \/ AdmissionByHand(e)
  BY DEF HandEdit
<1>4. DOMAIN expected' = {"user", "registry", "vaults"} /\ DOMAIN expected'.vaults = Dirs
      /\ expected'.user = expected.user /\ raced \subseteq raced'
  <2>1. NoteByHand(e) => UNCHANGED <<expected, raced>>
    BY DEF NoteByHand
  <2>2. AdmissionByHand(e) => /\ \E d, x : expected' = [expected EXCEPT !.vaults[d] = x]
                              /\ raced' \in {raced, raced \cup {"admission"}}
    BY DEF AdmissionByHand
  <2> QED
    BY <1>1, <1>3, <2>1, <2>2
<1>5. "user" \notin raced' => UserAcks'
  <2>1. SUFFICES ASSUME "user" \notin raced' PROVE UserAcks'
    OBVIOUS
  <2>2. UserAcks
    BY <1>4, <2>1 DEF Acks
  <2>3. ASSUME NEW o \in Procs, proc'[o].at = "writes", proc'[o].q.file = "user"
        PROVE  Read(proc[o])'
    BY <1>1, <2>2, <2>3, ReadStays DEF UserAcks
  <2> QED
    BY <1>1, <1>4, <2>2, <2>3 DEF UserAcks
<1>6. ASSUME "admission" \notin raced', NEW d \in Dirs PROVE Kb(tree'[d]) = expected'.vaults[d]
  <2>1. Kb(tree[d]) = expected.vaults[d]
    BY <1>4, <1>6 DEF Acks, VaultAcks
  <2>2. CASE NoteByHand(e)
    <3>1. PICK f \in {Note, Rules} \cap DOMAIN tree[e] : tree' = [tree EXCEPT ![e][f] = @ + 1]
      BY <2>2 DEF NoteByHand
    <3>2. /\ DOMAIN tree'[d] = DOMAIN tree[d]
          /\ \A g \in DOMAIN tree[d] \ {f} : tree'[d][g] = tree[d][g]
      BY <1>1, <3>1
    <3>3. f \notin Kept /\ UNCHANGED expected
      BY <2>2, FilesDiffer DEF Kept, NoteByHand
    <3>4. Kb(tree'[d]) = Kb(tree[d])
      <4>1. \A g \in DOMAIN tree[d] \cap Kept : tree'[d][g] = tree[d][g]
        BY <3>2, <3>3
      <4> QED
        BY <3>2, <4>1 DEF Kb, Restrict
    <3> QED
      BY <2>1, <3>3, <3>4
  <2>3. CASE AdmissionByHand(e)
    <3>1. PICK document \in Admissions :
            /\ tree' = [tree EXCEPT ![e] = Written(@, Admission, document)]
            /\ expected' = [expected EXCEPT !.vaults[e] = Written(@, Admission, document)]
      BY <2>3 DEF AdmissionByHand
    <3>2. Admission \in Kept /\ Admission \in Files
      BY FilesDiffer DEF Kept
    <3>3. Kb(Written(tree[d], Admission, document)) = Written(Kb(tree[d]), Admission, document)
      BY <1>1, <3>2, KbOfWritten
    <3>4. tree'[d] = IF d = e THEN Written(tree[d], Admission, document) ELSE tree[d]
      BY <1>1, <3>1
    <3>5. expected'.vaults[d] = IF d = e THEN Written(expected.vaults[d], Admission, document)
                                ELSE expected.vaults[d]
      BY <1>1, <3>1
    <3> QED
      BY <2>1, <3>3, <3>4, <3>5
  <2> QED
    BY <1>3, <2>2, <2>3
<1>7. ASSUME "admission" \notin raced', NEW o \in Procs, proc'[o].at = "writes",
             proc'[o].q.file # "user"
      PROVE  Read(proc[o])'
  <2>1. Read(proc[o]) /\ proc'[o] = proc[o]
    BY <1>1, <1>4, <1>7 DEF Acks, VaultAcks
  <2>2. /\ proc[o].at = "writes" /\ proc[o].dir \in Dirs
        /\ proc[o].q.file \in {Config, Local, Admission}
    BY <1>1, <1>7, <2>1, HomeAssumption DEF Fits, Homeless, Request
  <2>3. ASSUME proc[o].q.file \in DOMAIN tree[proc[o].dir]
        PROVE  tree'[proc[o].dir][proc[o].q.file] = tree[proc[o].dir][proc[o].q.file]
    <3>1. CASE proc[o].q.file # Admission
      <4>1. proc[o].q.file \notin ByHand
        BY <2>2, <3>1, FilesDiffer DEF ByHand
      <4> QED
        BY <1>2, <2>2, <2>3, <4>1
    <3>2. CASE proc[o].q.file = Admission /\ NoteByHand(e)
      <4>1. PICK f \in {Note, Rules} \cap DOMAIN tree[e] : tree' = [tree EXCEPT ![e][f] = @ + 1]
        BY <3>2 DEF NoteByHand
      <4> QED
        BY <1>1, <2>2, <3>2, <4>1, FilesDiffer
    <3>3. CASE proc[o].q.file = Admission /\ AdmissionByHand(e)
      <4>1. proc[o].dir # e
        BY <1>7, <2>2, <3>3 DEF AdmissionByHand
      <4> QED
        BY <1>1, <2>2, <3>3, <4>1 DEF AdmissionByHand
    <3> QED
      BY <1>3, <3>1, <3>2, <3>3
  <2> QED
    BY <1>2, <1>7, <2>1, <2>2, <2>3, ReadStays
<1> QED
  BY <1>4, <1>5, <1>6, <1>7 DEF Acks, VaultAcks

\* The settings are what was acknowledged, after every step.
LEMMA AcksStay ==
  ASSUME IInv, InitsWhole, LocksCurrent, Acks, [Next]_vars
  PROVE  Acks'
<1>1. ASSUME NEW p \in Procs, Acts(p) PROVE Acks'
  BY <1>1, ExpectedStays, UserAcksStay, VaultAcksStay DEF Acks
<1>2. Damage \/ UNCHANGED vars => UNCHANGED <<proc, user, expected, tree, raced>>
  BY DEF Damage, vars
<1>3. ASSUME UNCHANGED <<proc, user, expected, tree, raced>> PROVE Acks'
  BY <1>3 DEF Acks, UserAcks, VaultAcks, Read, Stored
<1> QED
  BY <1>1, <1>2, <1>3, AcksByHand, StepCases

\* What is stored is what was acknowledged, at the start.
LEMMA InitAcks == Init => Acks
BY DEF Init, Acks, UserAcks, VaultAcks, Idle

-----------------------------------------------------------------------------
(* The registry, and all of it.                                            *)

RegistryAcks ==
  /\ DOMAIN expected = {"user", "registry", "vaults"} /\ registry = expected.registry
  /\ \A p \in Procs : proc[p].at = "stores" => regLock = p /\ proc[p].loaded = registry

\* Registrations are read, changed and replaced under the registry lock, so no
\* acknowledged one is lost or comes back, whatever the inits, kb doctor and the
\* other commands do.
THEOREM RegistrationsLast == Spec => [](registry = expected.registry)
<1>1. IInv /\ RegistryAcks /\ [Next]_vars => RegistryAcks'
  <2> SUFFICES ASSUME IInv, RegistryAcks, [Next]_vars PROVE RegistryAcks'
    OBVIOUS
  <2>0. /\ DOMAIN expected = {"user", "registry", "vaults"} /\ registry = expected.registry
        /\ \A o \in Procs : proc[o].at = "stores" => regLock = o /\ proc[o].loaded = registry
        /\ DOMAIN proc = Procs /\ NoProc \notin Procs
    BY HomeAssumption DEF RegistryAcks, IInv, ProcsFit
  <2>1. ASSUME NEW p \in Procs, Acts(p)
        PROVE  DOMAIN expected' = {"user", "registry", "vaults"} /\ registry' = expected'.registry
    <3>1. CASE RegistryStores(p)
      <4>1. proc[p].loaded = registry
        BY <2>0, <3>1 DEF RegistryStores
      <4>2. \/ UNCHANGED <<registry, expected>>
            \/ /\ registry' = Changed(proc[p].change, proc[p].loaded, proc[p].record)
               /\ expected' = [expected EXCEPT !.registry = Changed(proc[p].change, @, proc[p].record)]
        BY <3>1 DEF RegistryStores
      <4> QED
        BY <2>0, <4>1, <4>2
    <3>2. CASE EditWrites(p)
      <4>1. /\ \/ \E x : expected' = [expected EXCEPT !.user = x]
               \/ \E d, x : expected' = [expected EXCEPT !.vaults[d] = x]
            /\ UNCHANGED registry
        BY <3>2 DEF EditWrites
      <4> QED
        BY <2>0, <4>1
    <3>3. CASE Places(p) \/ InitMoves(p) \/ InitMoveFails(p)
      <4>1. (\E d, x : expected' = [expected EXCEPT !.vaults[d] = x]) /\ UNCHANGED registry
        BY <3>3 DEF Places, InitMoves, InitMoveFails
      <4> QED
        BY <2>0, <4>1
    <3> QED
      BY <2>0, <2>1, <3>1, <3>2, <3>3, Steps DEF Touches
  <2>2. ASSUME NEW p \in Procs, Acts(p), NEW o \in Procs, proc'[o].at = "stores"
        PROVE  regLock' = o /\ proc'[o].loaded = registry'
    <3>1. CASE o = p
      <4>1. RegistryLoads(p)
        BY <2>2, <3>1, Steps DEF Arrives, Idle
      <4> QED
        BY <2>0, <3>1, <4>1 DEF RegistryLoads, Goes
    <3>2. CASE o # p
      <4>1. proc'[o] = proc[o] /\ regLock = o
        BY <2>0, <2>2, <3>2, Steps
      <4>2. ~RegistryStores(p) /\ ~RegistryLoads(p)
        BY <2>0, <2>2, <3>2, <4>1 DEF RegistryStores, RegistryLoads
      <4>3. Dies(p) => UNCHANGED regLock
        BY <3>2, <4>1 DEF Dies
      <4>4. UNCHANGED <<registry, regLock>>
        BY <2>2, <4>2, <4>3, Steps DEF Touches
      <4> QED
        BY <2>0, <2>2, <4>1, <4>4
    <3> QED
      BY <3>1, <3>2
  <2>3. ASSUME HandEdit \/ Damage \/ UNCHANGED vars PROVE RegistryAcks'
    <3>1. UNCHANGED <<proc, registry, regLock>>
      BY <2>3 DEF HandEdit, Damage, vars
    <3>2. UNCHANGED expected \/ \E d, x : expected' = [expected EXCEPT !.vaults[d] = x]
      BY <2>3 DEF HandEdit, NoteByHand, AdmissionByHand, Damage, vars
    <3> QED
      BY <2>0, <3>1, <3>2 DEF RegistryAcks
  <2>4. (\E p \in Procs : Acts(p)) => RegistryAcks'
    BY <2>1, <2>2 DEF RegistryAcks
  <2> QED
    BY <2>3, <2>4, StepCases
<1>2. Init => RegistryAcks
  BY DEF Init, RegistryAcks, Idle
<1>3. RegistryAcks => registry = expected.registry
  BY DEF RegistryAcks
<1> QED
  BY <1>1, <1>2, <1>3, HomeInvariant, PTL DEF Spec

\* No acknowledged change of a setting or of the registry is lost or comes back:
\* of the registry whatever happens, of the settings until one of the races that
\* the property names.
THEOREM ChangesLast == Spec => []AcknowledgedChangesLast
<1>1. IInv /\ SettingsInv /\ [Next]_vars => SettingsInv'
  <2> SUFFICES ASSUME IInv, SettingsInv, [Next]_vars, Clear'
               PROVE  Made' /\ LocksCurrent' /\ Acks'
    BY DEF SettingsInv
  <2> QED
    BY ClearSteps, MadeStays, LocksCurrentStay, AcksStay DEF Made, SettingsInv
<1>2. Init => SettingsInv
  BY InitMade, InitAcks DEF Init, LocksCurrent, SettingsInv
<1>3. SettingsInv /\ registry = expected.registry => AcknowledgedChangesLast
  BY DEF SettingsInv, Clear, Acks, UserAcks, VaultAcks, AcknowledgedChangesLast
<1> QED
  BY <1>1, <1>2, <1>3, HomeInvariant, RegistrationsLast, PTL DEF Spec
=============================================================================
