---------------------------- MODULE BackupArchive ----------------------------
(***************************************************************************)
(* What a backup archive holds and when it is accepted                     *)
(* (kb-app/src/backup.rs, kb-core/src/backup.rs).  A Vault's tree maps its *)
(* files to their contents; one file stands for each part that a backup    *)
(* treats differently.  A hash is the content it is taken of.              *)
(***************************************************************************)
EXTENDS VaultSettings

Config == ".kb/config.yml"
Local == ".kb/config.local.yml"
Rules == "KB.md"
Note == "Notes/note.md"
Object == "Wiki/external-sources/.objects/sha256/x"
Page == "Wiki/index.md"
Admission == "admission.yml"

Sorted == <<Config, Rules, Note, Object, Page, Admission>> \* of the paths in an archive
Files == {Config, Local, Rules, Note, Object, Page, Admission}
Required == {Admission, Rules, Config}                     \* of a manifest

Root(f) == CASE f \in {Object, Page} -> "Wiki" [] f = Note -> "Notes" [] OTHER -> ".kb"
TopLevel == {Rules, Admission}

Admitted(document) == {document[id].path : id \in DOMAIN document}
Directories(tree) == {Root(f) : f \in DOMAIN tree \ TopLevel}

\* admission_roots: as the document is validated, but not that the roots exist;
\* a switched-off directory is backed up like the others.
RootsParse(document) ==
  /\ \A id \in DOMAIN document : document[id].path \notin Framework
  /\ \A i, j \in DOMAIN document :
       i # j => PortabilityKey(document[i].path) # PortabilityKey(document[j].path)

\* collect: the roots are there, and what walk finds in them, with the files of
\* the framework; the local configuration and the runtime stay behind.
Collectable(tree, admission) ==
  RootsParse(admission) /\ {"Wiki", ".kb"} \cup Admitted(admission) \subseteq Directories(tree)

Listed(tree, admission, complete) ==
  Required \cup {f \in DOMAIN tree \ (TopLevel \cup {Config, Local, Object}) :
                   Root(f) \in {"Wiki"} \cup Admitted(admission)}
           \cup {f \in {Object} : complete /\ f \in DOMAIN tree}

Manifest(id, complete, roots, files) ==
  [id |-> id, complete |-> complete, roots |-> roots, files |-> files]

\* validate_backup_scope, of a file.
InScope(f, manifest, admitted) ==
  /\ f # Local
  /\ f = Object => manifest.complete
  /\ f = Note => Root(f) \in admitted

\* validate_vault_contract: the identity and the admission of the archived files.
KeepsContract(archive) ==
  LET m == archive.manifest
      admission == archive.entries[Admission]
  IN /\ archive.entries[Config].id = m.id
     /\ RootsParse(admission)
     /\ Admitted(admission) \subseteq m.roots
     /\ m.roots \subseteq {"Wiki", ".kb"} \cup Admitted(admission)
     /\ \A f \in DOMAIN m.files : InScope(f, m, Admitted(admission))

\* BackupManifest::validate: nothing required is missing, and no two directories
\* are one on some platform.
ManifestValid(m) ==
  /\ {"Wiki", ".kb"} \subseteq m.roots /\ Required \subseteq DOMAIN m.files
  /\ \A a, b \in m.roots : a # b => PortabilityKey(a) # PortabilityKey(b)

\* verify_manifest_and_entries.
Verified(archive) ==
  LET m == archive.manifest
  IN /\ archive.listed                                  \* manifest.json is there
     /\ ManifestValid(m)
     /\ DOMAIN archive.entries = DOMAIN m.files         \* exactly the manifest's
     /\ \A f \in DOMAIN m.files : archive.entries[f] = m.files[f]
     /\ KeepsContract(archive)

FaultyExtracted(archive, m) == DOMAIN m.files \subseteq DOMAIN archive.entries

\* extract_verified: whether the files that the verified manifest names come out
\* of the archive, opened again, as they were when it was verified.
Extracted(archive, m) ==
  /\ DOMAIN m.files \subseteq DOMAIN archive.entries
  /\ \A f \in DOMAIN m.files : archive.entries[f] = m.files[f]
=============================================================================
