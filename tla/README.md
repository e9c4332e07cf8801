# Knowledge-Brain: verification project

Knowledge-Brain (`kb`) keeps a *Vault* - a directory of Markdown knowledge,
captured sources and product files - and changes it only through reviewed plans.
People, editors and synchronisation tools work on the same files and take no lock.
This directory holds TLA+ models of the parts where that is hard, the TLC
configurations that check them, and TLAPS proofs about them. Paths below are
relative to `src/crates/`, unless they begin with `docs/`.

## The system

| Component | State it keeps | Operations | What makes it correct |
|---|---|---|---|
| Journalled save (`kb-app/src/source_apply.rs`, `knowledge_apply.rs`, `storage.rs`) | Vault files; a pending marker per kind in `.kb/runtime`; progress file and receipt per operation in the user's state directory | apply, retry, replay, recovery, rollback, housekeeping | a save happens completely or not at all; who asks for pending work never reads half of one; nobody's edit is lost; the Vault becomes free again |
| Template upgrade (`kb-app/src/vault_upgrade.rs`) | as above, with a marker, journal and receipt of its own | preview, apply, recover, replay | the same, for product-managed files |
| Operation events (`operation_events.rs`) and streams (`kb-server/src/lib.rs`) | an append-only event log per operation; a cursor per client | record, read, stream, reconnect | events are never lost or reordered, completion is announced only after the receipt, streams end |
| Vault lock (`lock.rs`) | an advisory file lock, shared or exclusive | acquire, release, probe | one writer |
| Planning (`review.rs`, `knowledge_plan.rs`, `source_plan.rs`) | immutable plans with digests | plan | writes cover exactly what was reviewed |
| Synchronisation check (`sync.rs`) | none | find conflict markers, snapshot | shared writes stop while a conflict is unresolved |
| Adoption (`adopt.rs`) | stage directory, progress, two receipts | plan, install, roll back, resume | existing notes are never changed; only what it made is taken away |
| Initialisation (`init.rs`, `template.rs`, `vault.rs`) | stage directory | stage, move or rename, roll back, register | a Vault appears completely or not at all |
| Backup (`backup.rs`) | archives with manifests | create, verify, restore | a restored Vault equals the archived one; a failed restore leaves the target as it was |
| Update (`update_plan.rs`, `update_store.rs`, `update_apply.rs`, `template_state.rs`, `kb-update/`) | one operation record with a state machine, per-component receipts, the executable and its backup | preview, confirm, replace, resume, cancel | an executable always exists; components are applied once; an update ends |
| Skills (`skill_plan.rs`, `skill_hosts.rs`) | files and links in agents' directories, an ownership manifest | install, update, uninstall | only owned files change; shared files stay while somebody uses them |
| Registry and configuration (`registry.rs`, `config/`) | list of Vaults; layered configuration; admission | register, set, unset, edit | unique identities and paths; no lost change |
| Search (`bm25.rs`, `search.rs`, `resource_read.rs`) | index and catalogue caches | rebuild, query, invalidate | results come from current documents |
| HTTP and MCP servers (`kb-server/`, `kb-mcp/`) | sessions, subscriptions | requests | policy before every action |
| Documents (`kb-core/src/okf.rs`, `lint.rs`, `extract/`), paths, versions | none | parse, resolve, compare | pure functions |

Components meet in four places. The **lock and the markers**: a command that
writes takes the exclusive lock and refuses when another operation's marker
exists; queries, index builds, reviews, lint, source verification, backups, plans and
changes of configuration call `ensure_no_pending` under the lock and refuse on any
marker. Not every reader does: `kb read` (and the MCP tool and resource), `kb status`,
`kb config show` and `get`, and the admission list take the shared lock and look at no
marker (number 14 below). The **operation directory**: plan, progress, receipt and events of one
operation, read by retries, by `kb operation show` and by the server. The **user's
directories**: the registry of Vaults, the user's configuration, the ownership records
of Skills and the update store, which commands on different Vaults share. The
**Vault's files**, where the program meets writers that know nothing of it.

What is hard: death between any two file operations, and the retry after it; edits
by others between a check and the write that relies on it; two operation kinds
meeting each other's interrupted work; restoring that cannot finish; events
recorded by several processes and read by clients whose connections drop; plans that
are applied long after they were made, by another release of the program; and files
that several commands read, change and replace.

## Modules

| Module | What it is |
|---|---|
| `JournalledSave` | every step of applying captures and knowledge plans |
| `AtomicSave` | what an apply promises: it takes effect at one instant; `JournalledSave` and `VaultUpgrade` implement it |
| `MCJournalledSave` | one Vault, a capture and two knowledge saves, for TLC |
| `JournalledSaveProofs` | theorems about `JournalledSave` |
| `JournalledSaveRefinement` | that it implements `AtomicSave` |
| `VaultUpgrade`, `MCVaultUpgrade` | every step of template upgrades |
| `VaultUpgradeProofs` | theorems about them |
| `OperationEvents`, `MCOperationEvents` | event logs, their recorders and SSE streams |
| `OperationEventsProofs` | theorems about them |
| `Adoption`, `MCAdoption` | planning and applying the adoption of an existing directory |
| `AdoptionProofs` | theorems about it |
| `SkillChange`, `MCSkillChange` | planning and applying installs and uninstalls of Agent Skills |
| `SkillChangeProofs` | theorems about them |
| `ReleaseFetch` | pure: the retry policy of downloads, the choice and the verification of a release |
| `UpdateRun`, `MCUpdateRun` | `kb update` from preview to last receipt; uses `ReleaseFetch` |
| `UpdateRunProofs` | theorems about it |
| `VaultSettings` | pure: layers of configuration, changes of configuration and admission |
| `BackupArchive` | pure: what a backup collects, and what its verification accepts |
| `VaultHome`, `MCVaultHome` | init, registry, configuration, lock and doctor, backup and restore; uses the two above |
| `VaultHomeProofs` | theorems about it |

### JournalledSave

`file` is the Vault, `marker[kind]` the pending markers, `journalled` and
`entries[o]` the progress file of an operation (which exists, empty, before its
first entry), `receipts` the operations with `result.json`. `runner` is the apply
holding the exclusive lock and `pc`, `todo`, `at`, `goal` are its local state.
`barred` holds the interrupted operations whose first checks fail, those the code makes
before it looks at its journal: the configuration loads, schema and identity are the
plan's, the plan is valid, and the event log has room for `applying`.
A plan is a sequence of writes with the content before and after; `Absent` is the
content of a missing file, so creating and deleting are writes. `fresh` stands for
the checks that depend on no Vault file (expiry, version, admission and
configuration hashes).

| Action | Code |
|---|---|
| `Acquire` | lock and markers, then receipt, first checks, and journal or new attempt (`source_apply.rs:97-136`, `knowledge_apply.rs:62-113`) |
| `Refuse`, `TurnAway` | another operation's marker; a first check that fails, which leaves a half save as it is (`knowledge_apply.rs:93-112`) |
| `RestoreSkip`, `RestoreDecide`, `RestorePut`, `RestoreRefused`, `RestoreGone` | one entry of `restore`, last entry first; deciding and replacing are two steps |
| `DropJournal`, `DropMarker` | the end of recovery and rollback, in the code's order |
| `OpenJournal`, `PreflightRefused`, `OpenMarker` | sync check, preflight, empty journal, marker |
| `JournalEntry`, `JournalRefused`, `Put`, `PutRefused` | one turn of the write loop: compare, journal, write |
| `WritesDone`, `VerifyRefused` | the end of the loop; captures hash what they wrote |
| `Commit`, `CloseMarker`, `CloseJournal` | receipt, then housekeeping |
| `LoopFault` | an IO error inside the loop, which rolls back |
| `Interrupt` | death, or an IO error of a step outside the loop (restoring, receipt, marker, `applied`): locks go, the disk stays |
| `Edit`, `Expire`, `Bar` | other writers; time and configuration; the first checks of an interrupted operation come to fail or pass again |

`placed`, `edited` are history variables: which files hold an uncommitted
operation's bytes, and which files somebody else changed since the last preflight.
A person who types exactly the bytes an interrupted save journalled cannot be told
from the save (`TakenForOwn`); the program treats both alike, and so do they.

Abstractions. A file's bytes are read, hashed or replaced at one instant (the code
writes a temporary file, syncs and renames). Digests do not collide. The state
directory is written only by the program. The lock is exclusive and dies with its
process. Event recording is a possible IO error here, a full log one of the first checks
that fail, and `OperationEvents`' business otherwise; cache invalidation after the receipt only produces warnings.

### VaultUpgrade

The same protocol with the differences of `vault_upgrade.rs`: the journal keeps the
bytes *found* at the write; nothing is compared again after the preflight; a
completed operation is replayed whoever owns the marker; recovery reads marker and
progress both; a plan of another application version is refused first. Knowledge
saves appear as `savePending`, which they set and clear under the lock. `others`
is a history variable: what each file held when its last other writer, or the last
completed upgrade, left it; `placed` and `edited` are as above. Comparing and replacing are one step when restoring,
and edits keep out of the moment between journalling and replacing a file; what
happens there is studied in `JournalledSave`.

### OperationEvents

`Record` starts an event, `Look` reads the log, `Add` replaces the file: the code
takes no lock around them. A caller that holds the Vault's lock walks through
`applying`, `recovering`, progress, receipt and `applied`; a call that ends with an
error releases the lock and then records `failed` (`record_failed_if_known`). A
stream is served in rounds (`Serve`): one report is read, what is newer than the
cursor is sent, and the stream closes after a terminal report. `Drop` loses the
connection inside a round; the client comes back with its last id. The 250 ms poll
is the scheduling of `Serve`; keepalive comments are left out.

### Adoption

`node` is the target: each path is absent, a directory, or a content. `staged` and
`foreign` are the private stage inside it, `receipt` what a completed adoption leaves
in it; `observed`, `recorded`, `recDirs`, `recFiles`, `result` are plan, progress and
result in the user's state directory. `runner` holds the operation lock; `next` is its
place in the order of installation, `dirs` and `files` the lists it undoes by:
`InstallState` while it installs, the progress read while it recovers.

| Action | Code (`adopt.rs`) |
|---|---|
| `CheckTarget`, `SavePlan` | `create_adoption_plan`, without the lock: collisions, then the snapshot |
| `Replay`, `Start` | result, receipt in the target, progress, or a new attempt (117-156) |
| `RecoverStage`, `RecoverFile`, `RecoverFileRefused`, `FilesRecovered`, `RecoverDir`, `RecoverDirRefused`, `Recovered` | `recover_interrupted_apply`, then the progress file goes |
| `Review`, `ReviewRefused`, `MakeStage`, `Populate`, `PopulateFails` | snapshot comparison, empty progress, stage |
| `MakeDir`, `NoteDir`, `DirRefused` | a directory: created, then noted |
| `RecordFile`, `LinkFile`, `LinkRefused`, `UnstageFile`, `FileTracked` | a file: noted, linked, staged twin removed, event recorded |
| `DropStage`, `CheckComplete`, `Verify`, `VerifyRefused` | 209-226; only the first rolls back |
| `UndoFile`, `UndoDir`, `UndoStage`, `UndoFails` | `rollback_or_recovery`, which keeps the progress file |
| `Register`, `WriteReceipt`, `WriteResult`, `Forget` | `finish_adoption`, `save_result` |
| `StepFails`, `InstallFails`, `Crash` | an IO error that returns, one that rolls back, a death |
| `Edit`, `Clutter` | other writers in the target and in the stage |

`own[o]` and `taken[o]` are history variables: the paths an operation created and
nobody else changed, and the paths others changed since. A snapshot is taken at one
instant, and comparing a file and removing it are one step.

### SkillChange

A host's directory, or the canonical one that linked hosts share, is a root; `file`
and `link` are what is in it, as the number of the release it came from, `Edited` or
`Gone`. `bridge` is a bridge file as a sequence of pieces of text, of which the marked
block is one. `record` holds the ownership records, `plans` the stored plans with the
contents they were reviewed at, `run` the change that holds both locks. `build` is the
installed release: what it plans, validates and installs changes with it.

| Definition or action | Code (`skill_plan.rs`) |
|---|---|
| `Status`, `ManagedState`, `LegacyState`, `ManagedBlock` | `skill_status` and what it asks |
| `PlanChange` | `preview_skill_plan` with `install_changes`, `outdated_install_changes`, `uninstall_changes`; a component of an update keeps no plan (`kept`) |
| `Removable` | an asset that another record names stays (`removable_managed_assets`) |
| `Start` | `Valid` (`validate_plan_paths` and below, asked of what is owned now) and `Preflight` (each file, bridge, link is as reviewed or as planned) |
| `ChangeFile`, `ChangeBridge`, `ChangeLink` | one change; a link is not made over something |
| `FinalizeOwnership`, `SaveResult` | verification and record; result |
| `Interrupt` | a death or an IO error: nothing is undone |
| `Edit`, `Upgrade` | users; a newer `kb` |

`late`, `alone`, `halted` are history variables: an edit after the preflight, plans since
whose review nothing else changed, and operations that stopped half way. A Skill is one
file. The bridge is written after all files (the code sorts it among them by path);
directories are left out; interruptions are studied without an earlier edit.

### UpdateRun and ReleaseFetch

Three processes share `store` without a lock: the `cli`, a long-running `adapter` (MCP or
HTTP, always of the first release) and the `helper`, which replaces the executable and
then starts the new one to go on. `run[p]` is what a process does, with the copy of
the operation it last read: every write of an operation is a read, and the write of the
changed copy as a later step (`Writes`, `Write`). `disk` is what is updated: the
executable, one Skill suite, the search index, and the template's schema, manifest and
`KB.md`, the latter as its managed region and the user's text around it.

| Definition or action | Code |
|---|---|
| `Retry`, `Retryable`, `Delay` | `http.rs` `retry` and the classes of failure |
| `NewRelease`, `Verified`, `Fetched` | `release.rs`, `verify.rs`, `install.rs`: version, signature, sums, entries, identity |
| `Prepare`, `Create`, `Point`, `Attach` | `plan_update`, planned by the release to be installed (`Plan`, `PlanTemplate` ...); then the store: operation, `latest`, stage |
| `Cancel`, `Forget`, `Leave` | the prompt that was answered with no, or was left |
| `Confirm`, `Confirmed`, `ScheduleFails` | `UpdateStore::confirm`, then the helper, or at once the components |
| `HelperStarts`, `HelperChecks`, `ParentExits`, `ParentLingers`, `MoveAway`, `MoveIn`, `MoveInFails`, `VerifyKb`, `KeepsBackup`, `HelperReplaced` | `run_replace_update`, `replace_with_backup` |
| `Resume`, `Resolve`, `ApplySkill`, `ApplyIndex`, `BeginTemplate`, `WriteFile`, `TemplateWritten`, their failures, `Finish` | `resume_update_components`: each component is planned again, applied only if the plan is the reviewed one, and recorded |
| `Fail` | `FailedRecoverable` |
| `Edit`, `MoveVault`, `Expire`, `Die` | users, a Vault that is elsewhere, the hour, deaths |

`done`, `told`, `late`, `excused` are history variables. There is one Vault, and no
exclusion of Vaults; the JSON of older release descriptions and a replacement across file
systems are left out; a signature or digest is equality.

### VaultHome, VaultSettings, BackupArchive

A command is a process that runs through the file operations of its handler; `given`
are the commands given. `tree` holds the files of the directories, `exists`, `stages`
and `runtime` what else can be there. The Vault lock is the inode of a lock file
(`lockFile`, `inodes`, `held`), because the doctor may remove the file that somebody has
open. `registry` and `user` are files outside Vaults; `archive` is the backup made.

| Definition or action | Code |
|---|---|
| `Selected`, `Answers` | `vault.rs`: a Vault by path, by registered id, or the only one |
| `Locking`, `Compatible`, `InodeOf`, `Ends` | `VaultLock`: open or create, lock, refuse when busy |
| `DoctorProbes`, `DoctorUnlocks`, `DoctorRemoves` | `probe_exclusive_lock` |
| `SaveStarts`, `SaveMarks`, `SaveWrites`, `SaveEnds` | a save as the other commands see it; `JournalledSave` is its model |
| `EditStarts`, `AdmissionStarts`, `EditReads`, `EditWrites` | `config set`, `unset` and `admission` with `--write`: layers are loaded with the change before it is stored (`Loads`, `AdmissionEdited`) |
| `BackupStarts`, `BackupCollects`, `BackupHashes`, `BackupCopies`, `BackupPublishes` | `create_backup`: list and hash, copy while hashing again, verify, publish |
| `RestoreStarts`, `RestoreExtracts`, `RestoreClears`, `Places`, `PlaceFails` | `restore_backup`, and the rename of a new Vault |
| `InitStarts`, `InitStages`, `InitMoves`, `InitMoveFails`, `InitTidies`, `InitRegisters` | both ways of `init_vault` |
| `RegistryAsks`, `RegistryLoads`, `RegistryStores` | `with_registry_lock` around register, rebind, unregister |
| `NoteByHand`, `AdmissionByHand`, `Damage`, `Dies` | people; an archive that loses or changes something; deaths |

`made`, `expected` and `raced` are history variables: published backups with what the Vault
held and the admission they were listed by; what all acknowledged changes, and what people
wrote, add up to; and which of four races that no lock decides have happened:

- `init`: an init made its stage in a directory that was no longer empty (number 4 below);
- `lock`: the doctor removed the lock file of a lock that somebody held (`lock.rs:93`);
- `user`: a change of the user's configuration was written between reading and writing of
  another, which went on under the lock of another Vault (`config/commands.rs:161`);
- `admission`: a person wrote `admission.yml` between reading and writing of
  `kb config admission` (`config/commands.rs:140-157`).

People edit notes, `KB.md` and `admission.yml`; each edit is a text that differs from what a
backup has hashed, so that putting the old bytes back between hashing and copying is left
out. `config.yml` and the user's configuration change by commands only. Two settings stand for all; duplicate keys
and layout of YAML, previews without `--write`, and the synchronisation check of edits are
left out. Taking back the moves of an init is one step.

## Runs

| Run | Specification and bounds | Shows |
|---|---|---|
| `saves` | `FairSpec`; 3 operations, 4 files; 1 edit, 1 death or IO error | `ReadersSeeNoPartialSave`, `PartialSaveIsJournalled`, `OneSaveAtATime`, `FailedApplyLeavesNothing`, `CommitIsComplete`, the refinement `SaveImplementsAtomicSave`, `InterruptionsAreWorkedOff` |
| `saves_quiet` | `Spec`; the same, `QuietWindow = TRUE` | `OnlyKnownBytesReplaced` |
| `saves_stranded` | `Spec`; as `saves` | a violation: a stale retry can leave its marker for ever |
| `upgrades` | `FairSpec`; 2 upgrades, 3 files; 2 edits, 2 deaths or IO errors | `ReadersSeeNoPartialUpgrade`, `NotBothHalfDone`, the refinement `UpgradeImplementsAtomicSave`, `UpgradesAreWorkedOff` |
| `upgrades_replayed` | `Spec`; a second upgrade follows the first | a violation: replaying the first opens the Vault in the middle of the second |
| `events` | `FairSpec`; 2 callers, 1 client, 1 write, 6 events, 2 faults | `AppliedHasReceipt`, `ClientsSeeTheLog`, `DurableEventsStay`, `CompletedLogIsFinal`, `StreamsEnd` |
| `adoptions` | `FairSpec`; 2 adoptions of a target with 3 directories, 2 files, 1 note; 2 troubles (deaths, IO errors, steps of others) | `OnlyGeneratedIsTaken`, `ResidueIsRecorded`, `AdoptedIsWhole`, `InterruptedAdoptionsComplete` |
| `skills` | `Spec`; 2 hosts, 2 plans, 2 releases of 2 Skills; 1 edit, 1 stop | `UserContentIsKept`, `SharedAssetsStay`, `SharedSuiteIsOwned`, `InterruptedInstallIsRetryable` |
| `updates` | `Spec`, which is fair; 1 operation, 3 processes, 2 releases, 7 answers of the release service, 2 scopes, 2 beginnings; 1 edit, 1 death or IO error | `ExecutableIsRecoverable`, `CompletedMeansApplied`, `UserContentIsKept`, `ConfirmedUpdateEnds`, `RetryMeetsItsPolicy` |
| `updates_expired` | as `updates`, no edit, no death | a violation: an expired preview is never replaced |
| `vaults` | `Spec`; 2 processes, 2 directories, 3 of 15 commands; a Vault with and without a lock file; 1 edit, 1 damage, 1 death | `BackupIsASnapshot`, `PublishedVaultsAreWhole`, `AcknowledgedChangesLast` |
| `vaults_raced` | `Spec`; two inits of one directory, no edit, no death | a violation: the files of a Vault are removed |

Why the bounds are enough to be interesting. The three saves cover both kinds,
creation, replacement and deletion, an object that may already be there, a file two
plans share, and a plan that fits only after another has been applied. One death
reaches every point of an apply and of the recovery's first steps, one edit every
moment of it; their combination includes an edit while a save is interrupted, and
the retry that must preserve it. Upgrades are smaller, so two deaths are affordable:
a recovery that is interrupted itself. In `events` a full log is 6 events instead of
10,100: a run without faults records 4, one with a failed attempt 6, so retries meet the limit. A log that is missing counts as a fault. With one
write every step is a milestone; `Milestones` is the code's 100.

In `adoptions` one directory is reviewed and holds the note, one lies in it, one is
new, so directories of every kind are created, kept and removed; one file is the same in
every Vault and one (`config`, with the Vault's id) is not. Two troubles are a
death in a recovery, an edit while an adoption is interrupted, or two edits.

In `skills` the second release drops a Skill, changes one and adds one; the hosts are
copied or linked, alone or beside each other, share a bridge file or have none, and begin
without Skills, with the suite or with the old single Skill. Two plans are the least
for one to be applied after another changed what it was reviewed for. In `updates` there is
one operation: a second `kb update` finds it and stops (`update_plan.rs:332`), unless it
looked before the first had been created, which happens after a download and without a lock
(`:418`). Two operations at once, and so two helpers, are left out. The
answers of the release service are one good fetch, with two transient failures in one
of its requests, and one fetch for each kind of refusal; `RetryMeetsItsPolicy` goes
through all answers to three attempts. In `vaults` three commands are two that
run at the same time and one that made the situation they meet, or meets what they
left; all four races are among its 1.2 million states (about two minutes), and so is an
archive that verify refuses because `admission.yml` was edited between its two readings. Runs
without fairness and with a bound on commands end: deadlock is not checked in
`skills`, `updates` and `vaults`, where the program really has nothing more to do.

`QuietWindow`: between a file's comparison and its replacement, and between a
file's restoration and the removal of the journal, an edit is lost. This is a limit
of working with advisory locks; only `OnlyKnownBytesReplaced`, its run and its theorem
need the absence of such edits. With `QuietWindow = FALSE` TLC finds `OnlyKnownBytesReplaced` violated,
in the one step between `JournalEntry` and `Put`; `docs/guides/knowledge-plans.md`
promises more than that.

`ClientsSeeTheLog`, `DurableEventsStay` and `CompletedLogIsFinal` are stated for
histories in which applies of one operation do not overlap. When they do, one
recorder's replacement can lose the other's event, so a client may have seen an
event that is no longer there. `ClientsSeeTheLog` also asks that the log begins
with `planned`: while there is no log the report is one synthetic event with id 1,
and a client that has seen it never receives the first recorded event, which has
id 1 too.

Fairness. `WF(Step)`: a running call goes on - the code has no waiting inside an
apply. `WF(Acquire(o))`: whoever started an interrupted operation retries it, as
every recovery error instructs; the code retries nothing by itself, and without the
retry a pending marker stays. In `OperationEvents`, `SF` on `Call`: the operation
is called again, and finds the lock free now and then although other calls come and
go. In `Adoption`, `SF` on `Start`: the operation lock is waited for. In `UpdateRun`,
`WF(Continue(p))` for each process: a command, or a helper, that has begun goes on until
it ends; the user's answers and confirmations are not fair. `SkillChange` and
`VaultHome` claim nothing of the kind. Deaths, edits, drops and IO errors are never fair, and bounded. Without
fairness nothing is claimed about what eventually happens.

`InterruptionsAreWorkedOff` and `UpgradesAreWorkedOff` name what may keep a marker:
another writer's change in the way of restoring, which the program must preserve, and
a marker whose journal is gone (see below). The first asks moreover that the first checks of
the operation come to pass for good: while the configuration cannot be loaded, the Vault has
another schema or identity, or the event log is full, each retry is turned away, and the
half save stays with its marker (number 15). The second asks that the application is of the
plan's version. `FailedApplyLeavesNothing` is about the errors of preflight and loop: by then
what an earlier attempt left has been restored, and the attempt's own writes are before the
error is reported. An error before the recovery, of the restoring, or of a step outside the
loop, as the receipt's or a marker's, may leave half a save, and after the receipt's also all
of it; that journal and marker then cover it is `PartialSaveIsJournalled`.
`InterruptedAdoptionsComplete` names what may
prevent an adoption: other writers or another adoption in the target, and two windows
of a death - a directory created and not yet noted, and a temporary file in the stage -
that leave an entry no retry removes. `AdoptedIsWhole` excepts a file whose bytes are
the same in every adoption when another adoption was applied (number 8 below): without
the exception TLC finds two plans, the second one's snapshot taken after the first
one's installation and its collision check before, and the second one's retry removing
a file of the first one's completed Vault - with no death and no other writer.

`ConfirmedUpdateEnds` excuses an operation whose process died, whose Vault was moved, or
that an adapter confirmed although it has an executable to replace, which only the CLI's
helper does: such an operation stays confirmed, or ends only when it is resumed by hand.
`UserContentIsKept` of updates leaves out a file that is changed after it was checked: the
executable is looked at before the helper waits up to five minutes for `kb` to exit, the
template files before the first of them is written. That of Skills leaves out edits after the
preflight. `SharedAssetsStay` leaves out upgrades of a shared suite, which delete what the
other installation's record still names, and `InterruptedInstallIsRetryable` upgrades and
the migration of a linked old Skill (see below). The exclusion in
`TypeOK` of `VaultHome` is that of one inode. In a Vault without a lock file - a restored or
copied one - the doctor removes the file that its probe created (`lock.rs:99`), and a writer that
opened it meanwhile and one that comes later hold locks on different inodes. The run
begins with or without the lock file of the Vault at home, and the two writers occur in it.
`BackupIsASnapshot` and `AcknowledgedChangesLast` promise nothing of files once the races
`init` or `lock` have happened; the second nothing of the user's configuration after `user`, nor of
the Vaults' settings after `admission`; of the registry it promises everything always. That
verify accepts a backup is promised if `admission.yml` was the same when the files were
listed and when it was archived.

## Disagreements found

1. *A stale retry can strand the Vault* (`saves_stranded`). Restoring removes the
   journal before the marker. After a death between the two, a retry whose plan has
   gone stale returns `plan_stale` and keeps the marker, and nothing removes it.
2. *Replaying a completed upgrade takes another's marker* (`upgrades_replayed`): readers are
   let at files of which only a part is upgraded.
3. *An expired preview blocks every later update* (`updates_expired`). It is not terminal, its
   hour is looked at only by its confirmation, and no command cancels it.
4. *Two inits of one directory* (`vaults_raced`). Both find it empty; the second moves files over
   those of the Vault the first has reported, fails, and its rollback removes them. A restore
   that is published between the check and the moves of an init fares alike.

Found while modelling, described by the models, and not kept as runs of their own:

5. *A pending upgrade may have no journal.* Same order of removals as in 1, and its retry
   insists on reading the journal (`vault_upgrade.rs:461`), against
   `docs/reference/commands.md:115`. `UpgradesAreWorkedOff` names the case.
6. *Completion can be recorded twice* (`operation_events.rs:41`), when `failed` came between,
   against `docs/reference/operation-events.md:20`. `CompletedLogIsFinal` says what holds.
7. *An adoption can be stale and complete.* The last comparison (`adopt.rs:225`) comes after
   everything is installed and rolls nothing back; `docs/guides/adopt-an-existing-directory.md:27`
   promises that no framework file is added. The Vault is left without receipt.
8. *A retry takes a file it never made.* Progress names a file before the link (`adopt.rs:304`), so
   a file somebody else put there meanwhile with the template's bytes is removed by the retry,
   against `docs/architecture/overview.md:41`.
9. *Skills can lose their owner.* An uninstall of the old single Skill is planned, an install
   then migrates it to the suite, and the uninstall is applied: it is validated without a
   look at any record (`skill_plan.rs:1454`), finds its file gone as planned, and removes the
   record of the suite, which stays on disk as somebody else's. `SharedSuiteIsOwned` is
   therefore stated of the shared directory, which such a plan does not reach.
10. *Not every interrupted Skill change can be retried*, against `docs/reference/agent-skill.md:60`:
   an uninstall that removed a file, an upgrade that removed a dropped Skill and the migration
   of a linked old Skill are refused by the validation, and the partial installation blocks new plans.
   An upgrade of one of two linked hosts makes the other's record say `modified`; so does an
   uninstall of one of two hosts that share a bridge file.
11. *Templates.* A Vault whose manifest was removed gets a new one with an old `KB.md` left as it is;
   the next plan calls its rules customised, for ever (`template_state.rs:401`). A death between
   two template files leaves a part: the component has no journal.
12. *Updates.* An adapter of an old release confirms a plan of a newer one and applies it with what it
   has: everything is recorded as stale. Two Vaults with the same Skill host make a plan
   with two components of one id, which its validation refuses.
13. *Settings and backups.* The user's `config.yml` is changed under the lock of the selected Vault
   only (`config/commands.rs:161`). A hand edit of `admission.yml` between two reads of a backup
   yields an archive that is reported and that verify refuses (`backup.rs:184`, `:219`). A restored
   copy keeps the identity of its original, and so a plan of the original can be applied to it.
   A death in init leaves entries that neither init nor adoption accepts. `kb config admission`
   overwrites what a person has written since it read the file.
14. *Half a save can be read.* `kb read`, the MCP tool and the MCP resource take the shared lock
   and ask for no pending marker (`app.rs:360-369`): after a death they return pages, or a
   `KB.md`, of which a part is saved or upgraded. `docs/architecture/overview.md:62` and
   `docs/reference/knowledge-plans.md:86` say that mixed states are not readable, and
   `docs/releases/v0.1.3.md:19` that the entries concerned refuse. `ReadersSeeNoPartialSave` and
   `ReadersSeeNoPartialUpgrade` are stated of the commands that ask.
15. *A retry can be turned away before it restores*, as said of `InterruptionsAreWorkedOff`
   above; `docs/reference/configuration.md:33` says that an interrupted save is restored first and
   its plan judged afterwards.

## Proofs

The theorems hold for every value of the constants that satisfies the module's named
assumption: any sets of operations, files, processes and contents, any plans, and
**without the bounds** on edits, deaths and IO errors that the runs need. The
assumptions say no more than what the code checks before it plans or applies.
A hypothesis of a theorem beyond that is named in its statement, and below.

A component's theorems are in a module of their own, laid out alike: the invariant by named
parts, lemmas about the module's operators, one lemma per part with one step per action, and
last the theorems. Where many actions do the same to a part of the state, that part of a
step is stated once (`TaskStep`, `StoreStep` in `UpdateRunProofs`; `Goes` in
`OperationEventsProofs`) and each action is shown to be of that form.

### JournalledSave

| Theorem | Says |
|---|---|
| `TypeCorrect` | `Spec => []TypeOK` |
| `InvariantHolds` | `Spec => []IInv`, the inductive invariant |
| `PartialSavesAreJournalled` | `Spec => []PartialSaveIsJournalled` |
| `ReadersAreSafe` | `Spec => []ReadersSeeNoPartialSave` |
| `OneSaveOnly` | `Spec => []OneSaveAtATime` |
| `FailuresAreClean` | `Spec => []FailedApplyLeavesNothing` |
| `CommitsAreFinal` | `Spec => CommittedStays`: a retry of a committed operation changes no file |
| `CommitsAreComplete` | `Spec => CommitIsComplete` |
| `KnownBytesOnly` | `QuietWindow` implies `Spec => OnlyKnownBytesReplaced` |
| `SaveRefinesAtomicSave` | `Spec => SaveImplementsAtomicSave` |
| `OnlyReceiptsShow` | `Spec => ShownOnlyByReceipts`, what this means for one file |

`PlanAssumption` says that plans are sequences of writes to distinct paths (which
`validate_plan` and `validate_write_set` check) and that object files are only
created (`prepare_outputs`).

The argument. No property above is inductive: that half a save is covered by its
journal depends on where the running apply is. `IInv` conjoins `TypeOK` with

- `MarkersAgree`: at most one marker of either kind exists and it is the running
  operation's whenever an apply is past opening it;
- `Pending`: an operation with entries or placed bytes and no receipt is covered by
  its journal and its marker;
- `AtWork`: for each value of `pc`, what the journal, the marker, the receipt and
  the local variables are;
- `CleanFailures`: what an operation's last outcome says about its bytes and journal.

`CommitIsComplete` and `OnlyKnownBytesReplaced` need two more inductive facts, `Written`
(each write already made holds its bytes or was edited) and `AsCompared` (the file about
to be replaced still is as compared, when edits keep away).

The refinement maps a file to its bytes, or, while they are those of an uncommitted save,
to what the plan was reviewed against (`Visible`). Journal, markers, putting and restoring
files stutter; the receipt is the abstract save of everything put since the preflight. The
mapping needs that `placed` says which files hold such bytes (`PlacedAsPlanned`,
`OwnBytesArePlaced`), which an edit in an unguarded moment makes false. But then the file is
in `edited`, and `PutsOverReviewed` and `PutsBackOwn` say that only such files are written
over unseen: the abstract save sees one more edit of a file that was edited already, as if
its author had taken the first one back. So the theorem needs no hypothesis about other
writers: a file nobody has touched since the preflight changes at the receipt of a plan that was
reviewed against it, or never (`OnlyReceiptsShow`).

### VaultUpgrade

| Theorem | Says |
|---|---|
| `UpgradeTypeCorrect` | `Spec => []TypeOK` |
| `UncommittedBytesAreJournalled` | bytes of an unfinished upgrade are in its progress file with what they replaced |
| `UpgradeInvariant` | `Spec /\ []OwnMarkerOnly => []IInv` |
| `ReadersAreSafe` | `Spec /\ []OwnMarkerOnly => []ReadersSeeNoPartialUpgrade` |
| `OneKindAtATime` | `Spec /\ []OwnMarkerOnly => []NotBothHalfDone` |
| `UpgradeRefinesAtomicSave` | `Spec /\ []OwnMarkerOnly => UpgradeImplementsAtomicSave` |
| `OnlyReceiptsShow` | the same hypothesis: what an undo would leave changes with a receipt or by other writers |
| `OnePreviewIsSafe` | one preview: safety for readers, one kind at a time and the refinement follow from `Spec` alone |

Two layers. The progress file agrees with the Vault whatever happens (`JournalHolds`,
`AtWork`), and so nothing is ever lost. That an unfinished upgrade also has its *marker*
(`Pending`) is false of the code: a replay of a completed upgrade removes the marker of
whoever has one (run `upgrades_replayed`, number 2 above). `OwnMarkerOnly` names this one
situation, a completed upgrade whose replay meets another's marker; the theorems show
that it is the only way to open a half upgraded Vault. With a single preview it cannot
arise, and `OnePreviewIsSafe` has no hypothesis about behaviour.

The upgrade implements the same `AtomicSave` through another mapping. It is read from the disk
alone: a file that holds the new bytes of an unfinished upgrade counts as what the progress
file gives back for it (`Undone`). The abstract save may here write over what was edited since
the check (`Overwrites`), because the upgrade compares nothing again. The proof shows that what
the disk would give back is always what other writers left (`GivesOthersBack`, that is
`Undone = others`), that a file of the plan is as reviewed or edited since (`AsReviewed`), and
that one already written holds the upgrade's bytes or was edited since (`Written`).

### OperationEvents

| Theorem | Says |
|---|---|
| `EventsInvariant`, `EventsTypeCorrect` | `Spec => []IInv`, `Spec => []TypeOK` |
| `AppliedComesAfterReceipt` | `Spec => []AppliedHasReceipt`, with any overlap of calls |
| `EventsAreDurable` | `Spec => DurableEventsStay` |
| `CompletedLogsAreFinal` | `Spec => CompletedLogIsFinal` |
| `StreamsShowTheLog` | `Spec => []ClientsSeeTheLog` |

The invariant follows an event from the moment a call decides on it: what it has read
(`base`), what it will write, what is on disk, what a client has got. `ReceiptFirst` says
that before the receipt `applied` is in none of these. While no two calls overlap, what a
call has read is the log (`Alone`), and what a client has got is its prefix
(`CursorsAgree`); the last three properties claim this case only, as stated under Runs.

### Adoption

| Theorem | Says |
|---|---|
| `AdoptionTypeCorrect` | `Spec => []TypeOK` |
| `AdoptionInvariant` | `Spec => []IInv` |
| `ResidueOfAnAdoption` | `Spec => []ResidueIsRecorded` |
| `OnlyGeneratedTaken` | `Spec => OnlyGeneratedIsTaken` |
| `AdoptionIsWhole` | `FreshTarget` implies `Spec => []AdoptedIsWhole` |

`IInv` says of the running adoption how its progress file and what it holds in memory
cover what it has made: in an installation all but one directory, which is made before it
is noted; in a recovery the path in hand. Parents come before children in `Order`, and the
proof that a removed directory is empty goes by that order.

`OnlyGeneratedIsTaken` says what a call adds and removes, for whatever others do and however
often (`Takes`, from `DirsMine`: each directory the call holds is its own, or others had a
hand in it). A directory of the reviewed notes goes only if the call found it missing and made
it. It cannot tell the one it made from one that others have made again in its place, and
removes that too if it is empty; this takes more steps of others than the run has, and is covered by
the theorem. `FreshTarget` says that the target
had no file of the framework, the usual case; otherwise the file of another may pass for
the adoption's own.

### UpdateRun

| Theorem | Says |
|---|---|
| `UpdateTypeCorrect` | `Spec => []TypeOK` |
| `UpdateInvariant` | `Spec => []IInv` |
| `ExecutableRecoverable` | `Spec => []ExecutableIsRecoverable` |
| `CompletedIsApplied` | `Spec => []CompletedMeansApplied` |
| `UserContentKept` | `Spec => UserContentIsKept` |
| `RetryMeetsPolicy` | `MeetsPolicy(answers)` for all answers to three attempts, with any `Retry-After` |
| `RetriesMeetPolicy` | `Spec => []RetryMeetsItsPolicy` |

Assumed is only `UpdateAssumption`: a disk to begin with is one of `Beginnings`, has a `kb`, and
scopes are those of the command line. The difficulty is that there is no lock: each process
reads an operation, works, and writes its copy back, so that the store may be older than
a copy and a copy older than the store. Nothing can be said of the newest version. `IInv`
therefore says of *every* version, stored or in a process's hands, that it has the plan
with which it was created (`PlansAgree`) and that what it says of each component is true of
the disk (`OperationsTruthful`): a component called applied is applied, whoever wrote it.
Truth is stable, as applied components are not undone, so any version may win. Two writers
do not look again before they write, the helper and the writer of the template; `KbKept`
and `TemplateKept` say what they still find as they checked it.

`Retry` is a recursive function over the attempts. The run goes through finitely many answers, the
theorem through all, since a server may send any number of seconds. The function is unfolded from the last
attempt to the first (`RetryFrom`, `FromAttempts`), each attempt adding a delay within the cap.

### SkillChange

| Theorem | Says |
|---|---|
| `SkillsTypeCorrect` | `Spec => []TypeOK` |
| `SkillsInvariant` | `Spec => []IInv` |
| `SharedSuite` | `Spec => []SharedSuiteIsOwned` |
| `InterruptedInstall` | `Spec => []InterruptedInstallIsRetryable` |
| `SkillUserContentKept` | `Spec => UserContentIsKept` |
| `SharedAssets` | `Spec => SharedAssetsStay` |

`SkillAssumption` asks that Skills have different names, that each release has some, and that the
old Skill, the shared directory and the absence of a bridge are none of the others. There may be
any number of hosts, bridges and plans.

A plan outlives what it was made for, so `IInv` is about what a stored plan knows
(`PlansKnown`, `LegacyPlanned`, `UpgradePlanned`), what the validation shows to the run that
follows it and keeps showing while that run holds the locks (`RunValid`), and what the run
still finds as its preflight saw it, if no user comes between (`RunChecked`): from these follow
the two action properties. That the user's words in a bridge stay is a fact about each of the three
ways to change its text (`InstallKeepsText`, `UpdateKeepsText`, `UninstallKeepsText`).

`SharedSuiteIsOwned` needs that the verification at the end of an undisturbed run cannot fail
(`QuietVerified`), for which a run must find just what it has written (`RunWrote`); and that a
plan of the second release covers what the first one's record names (`UpgradePlanned`), else
an upgrade would lose a dropped Skill. A plan is accepted by asking eleven operators about what is
recorded now; for a first installation they come down to `Ready`, which is about the plan and the
disk only (`ReadyIs`), and each step of the plan's own run keeps it (`RunKeepsReady`). The last
hypothesis of `InterruptedInstallIsRetryable`, no old Skill in the shared directory, is what makes
`ReadyIs` true.

### VaultHome

| Theorem | Says |
|---|---|
| `HomeTypeCorrect` | `Spec => []TypeOK` |
| `HomeInvariant` | `Spec => []IInv` |
| `RegistrationsLast` | `Spec => [](registry = expected.registry)` |
| `PublishedWhole` | `Spec /\ [][StillEmpty]_vars => PublishedVaultsAreWhole` |
| `VaultFilesKept` | `Spec /\ [][StillEmpty]_vars => VaultFilesStay` |
| `BackupsAreSnapshots` | `Spec => []BackupIsASnapshot` |
| `ChangesLast` | `Spec => []AcknowledgedChangesLast` |

`HomeAssumption` says what requests, user layers and directories are; there may be any number of
each and of processes, and any beginning that the code accepts. Two layers again.

`IInv` holds whatever happens: what each command has in hand (`ProcsFit`), which lock it holds while
it works (`Holding`), that the directory it works in stays a Vault (`VaultsWorkedIn`), and that of
all inits of a directory at most one is before the move that makes it a Vault (`OneLastMove`). With
it goes that registrations last, which need only the registry's own lock.

The rest is false of the code as it stands. Four races, which `raced` records, are all that makes
it false, and each statement names those it excludes.

- `StillEmpty`, the hypothesis of `PublishedWhole` and `VaultFilesKept`: a directory that an init
  found empty is empty when the init makes its stage in it. Otherwise two inits mix their files and
  take away each other's (run `vaults_raced`, number 4 above). With it an init is alone from its
  stage to its last move (`InitsWhole`), so a directory becomes a Vault with all files of one
  template or of one backup (`RestoresWhole`).
- The races of `init` and of `lock` (kb doctor removes a lock file whose lock is held, `lock.rs:93`)
  are exceptions that `BackupIsASnapshot` and `AcknowledgedChangesLast` name, so their theorems have
  no hypothesis. The invariants behind them, `SnapshotInv` and `SettingsInv`, are implications from
  `Clear` (neither race has happened), and `ClearSteps` says that a step that keeps `Clear` finds
  the directory still empty and the lock free. Under `Clear` whoever holds a Vault's lock holds the
  current file's (`LocksCurrent`), so commands meet in a Vault only to read it
  (`OnlyReadersMeet`), a save is alone between its marker and its end (`SavesWhole`), and what a
  backup hashed can be different when copied only by a hand edit, which the second hash notices
  (`BackupsWhole`). A hand edit of `admission.yml` between its two reads remains, so `Snapshots`
  promises that verify accepts an archive only if both reads saw the same bytes.
- The races of `user` (two changes of the user's configuration between reading and writing,
  `config/commands.rs:161`, number 13) and of `admission` (a hand edit of `admission.yml` between
  the read and the write of a change) concern the settings only: what a change read is still there
  when it is written, for the user's file until the one (`UserAcks`) and for a Vault's files until
  the other (`VaultAcks`).

### Model-checked only

Liveness (`InterruptionsAreWorkedOff`, `UpgradesAreWorkedOff`, `StreamsEnd`,
`InterruptedAdoptionsComplete`, `ConfirmedUpdateEnds`), which TLAPS does not reach. Every
invariant and every action property of a run is a theorem as well.

## Plan

What is left, in order of importance:

1. **Larger compositions**: two Vaults in `UpdateRun` and `VaultHome` at once.
2. **Search**: freshness of the index, once a document says what it should be.

## Not modelled

Parsing of document formats and of Markdown, OKF validation and links, rendering, argument
parsing: pure input and output on single documents without shared state. Planning of saves
(`knowledge_plan.rs`, `source_plan.rs`): it only reads, and its results are constants of
`JournalledSave`. Network transfer, signatures and digests are equality in `ReleaseFetch`. The MCP
server and the routing and policy of the HTTP server dispatch single requests. BM25 scores are
floating point. Health reports read and print.

In `UpdateRun` one `kb update` at a time creates an operation and one helper at a time replaces the
program: two CLIs that plan or confirm together, and so a second operation or a second helper past
`replace.rs:121`, are outside it, and so is `__resume-update` run by hand after a death. What
`ExecutableIsRecoverable` and `CompletedMeansApplied` say, they say of the helper, its child and
concurrent confirmations of one operation.

`PROJECT.json` lists each component with its status.
