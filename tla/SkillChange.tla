---------------------------- MODULE SkillChange -----------------------------
(***************************************************************************)
(* `kb skills install | uninstall` and the Skill components of `kb update` *)
(* (kb-app/src/skill_plan.rs): a suite of Skills is copied into a host's   *)
(* directory, or kept once in a canonical directory that the hosts link    *)
(* to, together with a marked block in a bridge file that is otherwise the *)
(* user's.                                                                 *)
(*                                                                         *)
(* A plan is a list of changes with the digests they were reviewed at.     *)
(* Applying it holds the machine's ownership lock and the Vault lock; it   *)
(* validates the plan against what is owned NOW, checks every digest, then *)
(* changes one file after another, one link after another, the ownership   *)
(* record, and last the result.  Nothing is journalled or rolled back: a   *)
(* run that stops is to be retried with the same plan.  Users edit the     *)
(* same files whenever they like.                                          *)
(*                                                                         *)
(* A Skill is one file.  Its content is the number of the release it came  *)
(* from.  The bridge file is a sequence of pieces of text.  Validation and *)
(* the check of the digests are one step; so is each file.                 *)
(***************************************************************************)
EXTENDS Integers, Sequences

CONSTANTS
  Hosts,        \* installations: a host and scope of one Vault
  Bridges,      \* bridge files
  Placements,   \* functions from hosts to their bridge file, or to none
  NoBridge,
  NameOrder,    \* all Skill names, in the order of their paths
  Suite,        \* Suite[r]: the names of release r, r \in 1..2
  Old,          \* the one Skill of the first releases, replaced by the suite
  Canonical,    \* the directory that symlinked installations share
  Beginnings,   \* what an installation may be at the start
  Ops, NoOp,
  MaxEdits,     \* bound on what users change themselves
  MaxStops      \* bound on runs that die or meet an IO error

Edited == 9     \* content, or link target, that is the user's
Gone == 0
Blocks == {"block0", "block1", "block2"}   \* block0 came with the old Skill
Block(r) == IF r = 1 THEN "block1" ELSE "block2"
Missing == <<"no file">>

Names == {NameOrder[k] : k \in DOMAIN NameOrder}
Roots == Hosts \cup {Canonical}
Paths == Roots \X (Names \cup {Old})

ASSUME SkillAssumption ==
  /\ Canonical \notin Hosts /\ Old \notin Names /\ NoBridge \notin Bridges
  /\ NoOp \notin Ops
  /\ Placements \subseteq [Hosts -> Bridges \cup {NoBridge}]
  /\ \A j, k \in DOMAIN NameOrder : NameOrder[j] = NameOrder[k] => j = k
  /\ NameOrder \in Seq(Names)
  /\ Suite \in [1..2 -> SUBSET Names] /\ \A r \in 1..2 : Suite[r] # {}
  /\ Beginnings \subseteq {"absent", "owned", "legacy"}
  /\ MaxEdits \in Nat /\ MaxStops \in Nat

VARIABLES
  bridgeOf,\* the placement; two hosts may share a bridge
  mode,    \* [Hosts -> {"copy", "symlink"}]
  file,    \* [Paths -> {Gone, 1, 2, Edited}]
  link,    \* [Hosts -> [names -> {Gone, 1, Edited}]]; 1 leads to Canonical
  bridge,  \* [Bridges -> pieces of text]
  record,  \* [Hosts -> ownership record]; release 0 is no record
  plans,   \* [Ops -> plan]
  applied, \* operations with a result
  run,     \* the run that holds the locks: operation, place and Skills left there
  build,   \* the release of the installed kb
  edits, stops,
  late,    \* history: a user edited after this run's check of the digests
  alone,   \* history: plans since whose review nothing else has changed
  halted   \* history: operations with a run that stopped half way

vars == <<bridgeOf, mode, file, link, bridge, record, plans, applied, run, build,
          edits, stops, late, alone, halted>>
bounds == <<edits, stops>>

NoRecord == [release |-> 0, text |-> Missing]
NoPlan == [host |-> Canonical, action |-> "none", kept |-> FALSE, files |-> <<>>,
           bridged |-> FALSE, before |-> Missing, after |-> Missing, links |-> <<>>,
           upgrade |-> FALSE]
Idle == [op |-> NoOp, at |-> "nothing", todo |-> {}]

-----------------------------------------------------------------------------
(* Where an installation lives (skill_hosts.rs).                           *)

\* The directory that holds a host's files.
AssetRoot(h) == IF mode[h] = "symlink" THEN Canonical ELSE h
Asset(h, n) == <<AssetRoot(h), n>>
Owned(h) == IF record[h].release = 0 THEN {} ELSE Suite[record[h].release]
HasBridge(h) == bridgeOf[h] # NoBridge

\* A plan's changes are sorted by path (preview_skill_plan), the old Skill's last.
Position(n) == IF n = Old THEN Len(NameOrder) + 1
               ELSE CHOOSE k \in DOMAIN NameOrder : NameOrder[k] = n
First(S) == CHOOSE n \in S : \A m \in S : Position(n) <= Position(m)

-----------------------------------------------------------------------------
(* The bridge file.                                                        *)

EndsWith(t, piece) == t # <<>> /\ t[Len(t)] = piece
Places(t) == {k \in DOMAIN t : t[k] \in Blocks}
HasMarker(t) == \E k \in DOMAIN t : t[k] \in Blocks \cup {"broken block"}

\* managed_bridge: the block, if the file holds exactly one whole block.
ManagedBlock(t) ==
  IF (\E k \in Places(t) : Places(t) = {k}) /\ \A k \in DOMAIN t : t[k] # "broken block"
    THEN t[CHOOSE k \in Places(t) : TRUE]
    ELSE "none"

Text(t) == IF t = Missing THEN <<>> ELSE t
AllButLast(t) == SubSeq(t, 1, Len(t) - 1)

\* A block this release may take back or replace, at the very end.
Known(t) == \E piece \in {Block(build), "block0"} : EndsWith(Text(t), piece)

MayInstallText(t) == Known(t) \/ ~HasMarker(Text(t))
InstallText(t) == Append(IF Known(t) THEN AllButLast(t) ELSE Text(t), Block(build))

UpdateText(t) == [k \in DOMAIN t |-> IF t[k] \in Blocks THEN Block(build) ELSE t[k]]

FaultyUninstallText(t) == Missing
UninstallText(t) == IF Len(t) = 1 THEN Missing ELSE AllButLast(t)

-----------------------------------------------------------------------------
(* What is installed (skill_status, managed_state).                        *)

\* The old single Skill is in the host's directory, and is it untouched?
LegacyHere(h) == IF mode[h] = "symlink" THEN link[h][Old] # Gone ELSE file[<<h, Old>>] # Gone
LegacyIntact(h) == LegacyHere(h) /\ file[Asset(h, Old)] = 1
                   /\ (mode[h] = "symlink" => link[h][Old] = 1)
LegacyState(h) ==
  IF LegacyIntact(h) THEN "legacy"
  ELSE IF mode[h] = "symlink" /\ link[h][Old] = Edited THEN "external"
  ELSE "modified"

\* managed_state for a record that is, or is about to be, host h's.
ManagedState(h, rec) ==
  LET names == Suite[rec.release]
      fileAt(n) == file[Asset(h, n)]
      linkAt(n) == link[h][n]
      text == IF HasBridge(h) THEN bridge[bridgeOf[h]] ELSE Missing
      sameText == text = rec.text \/ ManagedBlock(text) = Block(rec.release)
      changed == \/ \E n \in names : fileAt(n) \notin {Gone, rec.release}
                 \/ mode[h] = "symlink" /\ (\E n \in names : linkAt(n) = Edited)
                 \/ HasBridge(h) /\ text # Missing /\ ~sameText
      missing == \/ \E n \in names : fileAt(n) = Gone
                 \/ mode[h] = "symlink" /\ (\E n \in names : linkAt(n) = Gone)
                 \/ HasBridge(h) /\ text = Missing
      upToDate == /\ rec.release = build
                  /\ HasBridge(h) => ManagedBlock(text) = Block(build)
  IN IF changed THEN "modified"
     ELSE IF missing THEN "partial"
     ELSE IF upToDate THEN "current" ELSE "outdated"

\* has_external_skill: something that is not ours has one of our names.
Occupied(h) == \E n \in Suite[build] :
  link[h][n] # Gone \/ (mode[h] = "copy" /\ file[<<h, n>>] # Gone)

Status(h) ==
  IF LegacyHere(h) THEN LegacyState(h)
  ELSE IF record[h].release # 0 THEN ManagedState(h, record[h])
  ELSE IF Occupied(h) THEN "external" ELSE "absent"

-----------------------------------------------------------------------------
(* What a change would do (preview_skill_plan).                            *)

\* The changes of one installation's files and links, by Skill.
FileChange(h, n, to) == [before |-> file[Asset(h, n)], after |-> to]
LegacyFiles(h) == IF Status(h) = "legacy" THEN {Old} ELSE {}
LegacyLinks(h) == IF mode[h] = "symlink" THEN LegacyFiles(h) ELSE {}

\* The sharing rule: an asset another record names stays.
FaultyRemovable(h) == Owned(h)
TimidRemovable(h) == IF mode[h] = "copy" THEN Owned(h) ELSE {}
Removable(h) ==
  IF mode[h] = "copy" THEN Owned(h)
  ELSE Owned(h) \ UNION {Owned(g) : g \in {x \in Hosts \ {h} : mode[x] = "symlink"}}

MayInstall(h) ==
  /\ Status(h) \notin {"modified", "partial", "external"}
  /\ LET new == IF Status(h) = "outdated" THEN Suite[build] \ Owned(h) ELSE Suite[build]
     IN /\ \A n \in new : file[Asset(h, n)] \in {Gone, build}
        /\ \A n \in new : link[h][n] \in (IF mode[h] = "symlink" THEN {Gone, 1} ELSE {Gone})
  /\ HasBridge(h) => IF Status(h) = "outdated" THEN ManagedBlock(bridge[bridgeOf[h]]) # "none"
                     ELSE MayInstallText(bridge[bridgeOf[h]])

\* What an older release installed and this one does not have.
Dropped(h) == IF Status(h) = "outdated" THEN Owned(h) \ Suite[build] ELSE {}

InstallPlan(h, kept) ==
  LET upgrade == Status(h) = "outdated"
      stale == Dropped(h)
      text == IF HasBridge(h) THEN bridge[bridgeOf[h]] ELSE Missing
  IN [host |-> h, action |-> "install", kept |-> kept, upgrade |-> upgrade,
      files |-> [n \in Suite[build] \cup stale \cup LegacyFiles(h) |->
                   FileChange(h, n, IF n \in Suite[build] THEN build ELSE Gone)],
      bridged |-> HasBridge(h), before |-> text,
      after |-> IF ~HasBridge(h) THEN Missing
                ELSE IF upgrade THEN UpdateText(text) ELSE InstallText(text),
      links |-> [n \in (IF mode[h] = "copy" THEN {} ELSE Suite[build] \cup stale)
                       \cup LegacyLinks(h) |-> n \in Suite[build]]]

\* A legacy bundle goes without its block if the user added to the bridge.
MayUninstall(h) ==
  /\ Status(h) \in {"legacy", "current", "outdated"}
  /\ (Status(h) # "legacy" /\ HasBridge(h)) => Known(bridge[bridgeOf[h]])

UninstallPlan(h, kept) ==
  LET legacy == Status(h) = "legacy"
      text == IF HasBridge(h) THEN bridge[bridgeOf[h]] ELSE Missing
      touch == HasBridge(h) /\ text # Missing /\ Known(text)
  IN [host |-> h, action |-> "uninstall", kept |-> kept, upgrade |-> FALSE,
      files |-> [n \in (IF legacy THEN {Old} ELSE Removable(h)) |-> FileChange(h, n, Gone)],
      bridged |-> touch, before |-> text,
      after |-> IF touch THEN UninstallText(text) ELSE Missing,
      links |-> [n \in (IF mode[h] = "copy" THEN {} ELSE IF legacy THEN {Old} ELSE Owned(h))
                   |-> FALSE]]

-----------------------------------------------------------------------------
(* Whether a stored plan may still run (validate_plan_paths, preflight).   *)

PlanPaths(p) == {Asset(p.host, n) : n \in DOMAIN p.files}

\* legacy_plan_roots: the canonical copy counts only while it is untouched.
LegacyPaths(h) == {<<h, Old>>} \cup (IF LegacyIntact(h) THEN {Asset(h, Old)} ELSE {})

\* is_legacy_operation_plan: no links, the one old Skill and the bridge.
IsLegacyOperation(p) ==
  /\ DOMAIN p.links = {} /\ mode[p.host] = "copy"
  /\ PlanPaths(p) = {<<p.host, Old>>} /\ p.bridged = HasBridge(p.host)

OutdatedNow(h) == record[h].release # 0 /\ ManagedState(h, record[h]) = "outdated"

\* validate_links: to each Skill of this release, away from dropped ones.
ValidLinks(p, dropped) ==
  IF mode[p.host] = "copy" THEN DOMAIN p.links = {}
  ELSE /\ DOMAIN p.links \ {Old} = Suite[build] \cup dropped
       /\ \A n \in DOMAIN p.links : p.links[n] = (n \in Suite[build])

ValidInstall(p) ==
  LET h == p.host
      dropped == IF OutdatedNow(h) THEN Owned(h) \ Suite[build] ELSE {}
      assets == {Asset(h, n) : n \in Suite[build]}
  IN /\ PlanPaths(p) = assets \cup {Asset(h, n) : n \in dropped}
                       \cup (LegacyPaths(h) \cap PlanPaths(p))
     /\ p.bridged = HasBridge(h) /\ (p.bridged => ManagedBlock(p.after) = Block(build))
     /\ \A n \in DOMAIN p.files : p.files[n].after = (IF n \in Suite[build] THEN build ELSE Gone)
     /\ ValidLinks(p, dropped)

\* validate_legacy_operation_plan: no look at any record.
ValidLegacyOperation(p) == p.bridged => ~HasMarker(Text(p.after))

\* validate_record_links: away from all that the record names.
ValidRecordLinks(p) ==
  /\ DOMAIN p.links = IF mode[p.host] = "copy" THEN {} ELSE Owned(p.host)
  /\ \A n \in DOMAIN p.links : ~p.links[n]

\* validate_uninstall_plan: all that is owned must be in place.
ValidUninstall(p) ==
  LET h == p.host
  IN IF record[h].release = 0 THEN PlanPaths(p) \subseteq LegacyPaths(h)
     ELSE /\ ManagedState(h, record[h]) = "current"
          /\ ValidRecordLinks(p)
          /\ PlanPaths(p) = {Asset(h, n) : n \in Removable(h)}
          /\ p.bridged = HasBridge(h)

Valid(p) ==
  IF p.action = "install" THEN ValidInstall(p)
  ELSE IF IsLegacyOperation(p) THEN ValidLegacyOperation(p) ELSE ValidUninstall(p)

\* link_is_before and link_is_after.
LinkIs(p, n, before) == link[p.host][n] = (IF p.links[n] = before THEN Gone ELSE 1)

FaultyPreflight(p) ==
  /\ \A n \in DOMAIN p.files : file[Asset(p.host, n)] = p.files[n].before
  /\ p.bridged => bridge[bridgeOf[p.host]] = p.before
\* Everything is as reviewed or already as it should become.
Preflight(p) ==
  /\ \A n \in DOMAIN p.files : file[Asset(p.host, n)] \in {p.files[n].before, p.files[n].after}
  /\ p.bridged => bridge[bridgeOf[p.host]] \in {p.before, p.after}
  /\ \A n \in DOMAIN p.links : \E before \in BOOLEAN : LinkIs(p, n, before)

Acceptable(p) == Valid(p) /\ Preflight(p)

-----------------------------------------------------------------------------
(* The machine.                                                            *)

Running(o) == run.op = o
Plan == plans[run.op]

Init ==
  /\ bridgeOf \in Placements
  /\ mode \in [Hosts -> {"copy", "symlink"}]
  /\ \E how \in [Hosts -> Beginnings] :
       LET has(r, n) == \E h \in Hosts :
             /\ AssetRoot(h) = r
             /\ \/ how[h] = "owned" /\ n \in Suite[1]
                \/ how[h] = "legacy" /\ n = Old
           marked(b, kind) == \E h \in Hosts : bridgeOf[h] = b /\ how[h] = kind
       IN /\ file = [p \in Paths |-> IF has(p[1], p[2]) THEN 1 ELSE Gone]
          /\ link = [h \in Hosts |-> [n \in Names \cup {Old} |->
               IF mode[h] = "symlink" /\ ((how[h] = "owned" /\ n \in Suite[1])
                                          \/ (how[h] = "legacy" /\ n = Old))
                 THEN 1 ELSE Gone]]
          /\ bridge = [b \in Bridges |->
               IF marked(b, "owned") THEN <<"words", "block1">>
               ELSE IF marked(b, "legacy") THEN <<"words", "block0">> ELSE <<"words">>]
          /\ record = [h \in Hosts |->
               IF how[h] # "owned" THEN NoRecord
               ELSE [release |-> 1, text |-> IF HasBridge(h) THEN <<"words", "block1">> ELSE Missing]]
  /\ plans = [o \in Ops |-> NoPlan]
  /\ applied = {} /\ run = Idle
  /\ build = 1
  /\ edits = 0 /\ stops = 0
  /\ late = FALSE /\ alone = {} /\ halted = {}

\* create_skill_plan, or preview_skill_plan for a component of an update,
\* which only brings an outdated installation up to date.
PlanChange(o, h, kept) ==
  /\ plans[o] = NoPlan /\ o \notin applied /\ ~Running(o)
  /\ kept \/ Status(h) = "outdated"
  /\ \/ MayInstall(h) /\ plans' = [plans EXCEPT ![o] = InstallPlan(h, kept)]
     \/ MayUninstall(h) /\ kept /\ plans' = [plans EXCEPT ![o] = UninstallPlan(h, kept)]
  /\ alone' = alone \cup {o}
  /\ halted' = halted \ {o}
  /\ UNCHANGED <<bridgeOf, mode, file, link, bridge, record, applied, run, build, bounds, late>>

\* The ownership lock of the machine, and the Vault lock; both wait.
LocksAreFree == run = Idle

\* apply_skill_plan, apply_skill_plan_direct, up to the first change.
Start(o) ==
  /\ LocksAreFree
  /\ plans[o] # NoPlan /\ Acceptable(plans[o])
  /\ run' = [op |-> o, at |-> "files", todo |-> DOMAIN plans[o].files]
  /\ late' = FALSE
  /\ UNCHANGED <<bridgeOf, mode, file, link, bridge, record, plans, applied, build, bounds, alone, halted>>

At(place) == run # Idle /\ run.at = place
Turn(n) == run.todo # {} /\ n = First(run.todo)
Done(n) == run' = [run EXCEPT !.todo = @ \ {n}]
GoTo(place, todo) == run' = [run EXCEPT !.at = place, !.todo = todo]

Stop == /\ run' = Idle
        /\ halted' = halted \cup {run.op}
        /\ plans' = IF Plan.kept THEN plans ELSE [plans EXCEPT ![run.op] = NoPlan]

\* apply_file_change: whatever is there now makes place, unless it is right.
ChangeFile ==
  /\ At("files")
  /\ \E n \in run.todo :
       /\ Turn(n)
       /\ file' = [file EXCEPT ![Asset(Plan.host, n)] = Plan.files[n].after]
       /\ Done(n)
  /\ alone' = alone \cap {run.op}
  /\ UNCHANGED <<bridgeOf, mode, link, bridge, record, plans, applied, build, bounds, late, halted>>

ChangeBridge ==
  /\ At("files") /\ run.todo = {}
  /\ bridge' = IF Plan.bridged THEN [bridge EXCEPT ![bridgeOf[Plan.host]] = Plan.after] ELSE bridge
  /\ GoTo("links", DOMAIN Plan.links) /\ alone' = alone \cap {run.op}
  /\ UNCHANGED <<bridgeOf, mode, file, link, record, plans, applied, build, bounds, late, halted>>

\* apply_link_change: a link is removed whatever it leads to; none is
\* made where something stands.
ChangeLink ==
  /\ At("links")
  /\ \E n \in run.todo :
       /\ Turn(n)
       /\ IF Plan.links[n] /\ link[Plan.host][n] = Edited
            THEN Stop /\ UNCHANGED <<link, alone>>
            ELSE /\ link' = [link EXCEPT ![Plan.host][n] = IF Plan.links[n] THEN 1 ELSE Gone]
                 /\ Done(n) /\ alone' = alone \cap {run.op}
                 /\ UNCHANGED <<plans, halted>>
  /\ UNCHANGED <<bridgeOf, mode, file, bridge, record, applied, build, bounds, late>>

\* finalize_ownership.
Verified ==
  LET h == Plan.host
  IN IF Plan.action = "install"
       THEN ManagedState(h, [release |-> build, text |-> Plan.after]) = "current"
       ELSE record[h].release # 0 =>
              /\ \A p \in PlanPaths(Plan) : p \in {Asset(h, n) : n \in Owned(h)} => file[p] = Gone
              /\ mode[h] = "symlink" => \A n \in Owned(h) : link[h][n] = Gone
              /\ HasBridge(h) => bridge[bridgeOf[h]] = Plan.after
\* save_installation, remove_installation.
RecordOf(plan) ==
  IF plan.action = "install" THEN [release |-> build, text |-> plan.after] ELSE NoRecord

FinalizeOwnership ==
  /\ At("links") /\ run.todo = {}
  /\ IF ~Verified THEN Stop /\ UNCHANGED <<record, alone>>
     ELSE /\ record' = [record EXCEPT ![Plan.host] = RecordOf(Plan)]
          /\ GoTo("result", {}) /\ alone' = alone \cap {run.op}
          /\ UNCHANGED <<plans, halted>>
  /\ UNCHANGED <<bridgeOf, mode, file, link, bridge, applied, build, bounds, late>>

FaultySaveResult ==
  /\ At("result")
  /\ applied' = IF Plan.kept THEN applied \cup {run.op} ELSE applied
  /\ plans' = [plans EXCEPT ![run.op] = NoPlan]
  /\ UNCHANGED <<run, bridgeOf, mode, file, link, bridge, record, build, bounds, late, alone, halted>>

\* save_skill_result, which also removes the plan; an update keeps no result.
SaveResult ==
  /\ At("result")
  /\ applied' = IF Plan.kept THEN applied \cup {run.op} ELSE applied
  /\ plans' = [plans EXCEPT ![run.op] = NoPlan]
  /\ run' = Idle
  /\ UNCHANGED <<bridgeOf, mode, file, link, bridge, record, build, bounds, late, alone, halted>>

\* The process dies, or a write fails: nothing is undone.
Interrupt ==
  /\ run # Idle /\ stops < MaxStops /\ edits = 0
  /\ stops' = stops + 1
  /\ Stop
  /\ UNCHANGED <<bridgeOf, mode, file, link, bridge, record, applied, build, edits, late, alone>>

\* The user changes or removes a file, a link or the bridge that an
\* installation may use; where there was an interruption (a bound), between
\* that and the next run, and in the interrupted installation.
Edit ==
  /\ edits < MaxEdits /\ edits' = edits + 1
  /\ stops > 0 => run = Idle
  /\ late' = (run # Idle) /\ alone' = {}
  /\ \/ \E h \in Hosts, n \in Names \cup {Old}, to \in {Gone, Edited} :
          LET p == Asset(h, n) IN
          /\ file[p] # to
          /\ stops > 0 => \E o \in halted : p \in PlanPaths(plans[o])
          /\ file' = [file EXCEPT ![p] = to]
          /\ UNCHANGED <<link, bridge>>
     \/ \E h \in Hosts, n \in Names :
          /\ mode[h] = "symlink" /\ link[h][n] # Edited
          /\ stops > 0 => \E o \in halted : plans[o].host = h
          /\ link' = [link EXCEPT ![h][n] = Edited]
          /\ UNCHANGED <<file, bridge>>
     \/ \E b \in Bridges :
          /\ bridge[b] # Missing
          /\ stops > 0 => \E o \in halted : plans[o].bridged
          /\ \E t \in {Missing, Append(bridge[b], "tail"), <<"words", "broken block">>} :
               bridge' = [bridge EXCEPT ![b] = t]
          /\ UNCHANGED <<file, link>>
  /\ UNCHANGED <<bridgeOf, mode, record, plans, applied, run, build, stops, halted>>

\* A newer release of kb replaces this one; no run is under way.
Upgrade ==
  /\ run = Idle /\ build = 1
  /\ build' = 2 /\ alone' = {}
  /\ UNCHANGED <<bridgeOf, mode, file, link, bridge, record, plans, applied, run, bounds, late, halted>>

Next ==
  \/ \E o \in Ops, h \in Hosts, kept \in BOOLEAN : PlanChange(o, h, kept)
  \/ \E o \in Ops : Start(o)
  \/ ChangeFile \/ ChangeBridge \/ ChangeLink
  \/ FinalizeOwnership \/ SaveResult
  \/ Interrupt \/ Edit \/ Upgrade

Spec == Init /\ [][Next]_vars

-----------------------------------------------------------------------------
(* Properties.                                                             *)

Contents == {Gone, 1, 2, Edited}
Texts == {Missing} \cup Seq(Blocks \cup {"words", "tail", "broken block"})
PlanType(p) ==
  /\ p.host \in Hosts /\ p.action \in {"install", "uninstall"}
  /\ DOMAIN p.files \subseteq Names \cup {Old} /\ DOMAIN p.links \subseteq Names \cup {Old}
  /\ \A n \in DOMAIN p.files : /\ p.files[n].before \in Contents \ {Edited}
                               /\ p.files[n].after \in Contents \ {Edited}
  /\ p.links \in [DOMAIN p.links -> BOOLEAN]
  /\ p.before \in Texts /\ p.after \in Texts
  /\ p.bridged => HasBridge(p.host)

\* Every variable holds a value of its kind: links only where an
\* installation is linked, and a run only of a plan that is there.
TypeOK ==
  /\ bridgeOf \in Placements
  /\ mode \in [Hosts -> {"copy", "symlink"}]
  /\ file \in [Paths -> Contents]
  /\ link \in [Hosts -> [Names \cup {Old} -> {Gone, 1, Edited}]]
  /\ \A h \in Hosts, n \in Names \cup {Old} : mode[h] = "copy" => link[h][n] = Gone
  /\ bridge \in [Bridges -> Texts]
  /\ record \in [Hosts -> [release : 0..2, text : Texts]]
  /\ DOMAIN plans = Ops /\ \A o \in Ops : plans[o] # NoPlan => PlanType(plans[o])
  /\ run # Idle =>
       /\ run \in [op : Ops, at : {"files", "links", "result"}, todo : SUBSET (Names \cup {Old})]
       /\ plans[run.op] # NoPlan
       /\ run.todo \subseteq (IF run.at = "files" THEN DOMAIN Plan.files
                             ELSE IF run.at = "links" THEN DOMAIN Plan.links ELSE {})
  /\ build \in 1..2 /\ edits \in 0..MaxEdits /\ stops \in 0..MaxStops
  /\ late \in BOOLEAN
  /\ applied \subseteq Ops /\ alone \subseteq Ops /\ halted \subseteq Ops

\* Blocks come and go at the end, or are replaced in place: the rest keeps its place.
UserText(t) == [k \in DOMAIN Text(t) \ Places(Text(t)) |-> t[k]]

\* What a user put into a file, a link or the bridge is never overwritten or
\* removed by a run, unless it was put there after that run's preflight
\* (docs: only unmodified managed content is changed; skill_plan.rs preflight).
UserContentIsKept ==
  [][ edits' = edits /\ ~late =>
      /\ \A p \in Paths : file[p] = Edited => file'[p] = Edited
      /\ \A h \in Hosts, n \in Names : link[h][n] = Edited => link'[h][n] = Edited
      /\ \A b \in Bridges : UserText(bridge'[b]) = UserText(bridge[b]) ]_vars

\* A change to one installation never takes away a file that the record of
\* another names, upgrades of a shared suite excepted (skill_plan.rs
\* removable_managed_assets; an uninstall keeps what another still uses).
SharedAssetsStay ==
  [][ edits' = edits /\ run # Idle /\ ~Plan.upgrade =>
      \A h \in Hosts \ {Plan.host}, n \in Names :
        n \in Owned(h) /\ file[Asset(h, n)] # Gone => file'[Asset(h, n)] # Gone ]_vars

\* While nothing was interrupted and no user interfered, every Skill in the
\* shared directory is one that some record owns (the record is the durable
\* proof of it, kb-core/src/skill.rs:88): two uninstalls, planned in any order,
\* do not both leave the files to the other (validate_uninstall_plan asks again).
SharedSuiteIsOwned ==
  run = Idle /\ stops = 0 /\ edits = 0 =>
    \A n \in Names : file[<<Canonical, n>>] # Gone =>
      \E h \in Hosts : mode[h] = "symlink" /\ n \in Owned(h)

\* An installation that stopped half way, and that nothing else has touched,
\* is accepted when it is tried again with the same plan: a first
\* installation, or the move of a copied old Skill.
InterruptedInstallIsRetryable ==
  run = Idle => \A o \in halted \cap alone :
    LET p == plans[o]
    IN p.action = "install" /\ ~p.upgrade /\ (mode[p.host] = "copy" \/ Old \notin DOMAIN p.files)
         => Acceptable(p)
=============================================================================
