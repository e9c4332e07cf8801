------------------------- MODULE SkillChangeProofs -------------------------
(***************************************************************************)
(* What holds of the changes of Agent Skills for every set of              *)
(* installations, bridge files and operations, every suite, and any number *)
(* of edits and of runs that stop.                                         *)
(*                                                                         *)
(* Nothing is journalled, so the invariant IInv is about plans: what a     *)
(* stored plan knows of the installation it was made for (PlansKnown,      *)
(* LegacyPlanned, UpgradePlanned), what its validation has shown to the    *)
(* run that follows it (RunValid), what that run still finds as it was     *)
(* checked (RunChecked), and that a plan which only its own runs have come *)
(* between is accepted again (Retried).  Where nobody interferes a run     *)
(* finds just what it has written (RunWrote), its verification succeeds,   *)
(* and no Skill of the shared directory is left without an owner           *)
(* (SharedOwned).                                                          *)
(***************************************************************************)
EXTENDS SkillChange, TLAPS

Planned(o) == plans[o] # NoPlan
Installs(p) == p.action = "install"
Linked(h) == mode[h] = "symlink"

\* What a plan is from the start: only Skills of the suite are written and linked to, by
\* an installation; and the user's text stays as it was.
PlanKnown(p) ==
  /\ p.bridged => UserText(p.after) = UserText(p.before)
  /\ mode[p.host] = "copy" => DOMAIN p.links = {}
  /\ \A n \in DOMAIN p.links : p.links[n] => n \in Names
  /\ \A n \in DOMAIN p.files :
       /\ p.files[n].after \in 0..build
       /\ p.files[n].after # Gone => Installs(p) /\ n \in Names
       /\ Installs(p) /\ ~p.upgrade /\ n \in Names => p.files[n].after # Gone

PlansKnown == \A o \in Ops : Planned(o) => PlanKnown(plans[o])

\* An installation removes the old Skill if that is there and untouched ...
LegacyPlanned ==
  \A o \in Ops, h \in Hosts :
    Planned(o) /\ Installs(plans[o]) /\ plans[o].host = h /\ LegacyIntact(h) =>
      Old \in DOMAIN plans[o].files

\* ... so that it is not there any more where the suite is recorded.
Migrated == \A h \in Hosts : record[h].release # 0 => ~LegacyIntact(h)

\* No record is of a release to come.
Recorded == \A h \in Hosts : record[h].release \in 0..build

\* A plan of the second release covers all that the first one's record names.
UpgradePlanned ==
  build = 2 => \A o \in Ops : Planned(o) /\ Installs(plans[o]) =>
    LET p == plans[o]
    IN (\E n \in DOMAIN p.files : p.files[n].after = 2) /\ record[p.host].release = 1 =>
         Suite[1] \subseteq DOMAIN p.files

\* What the validation has shown, for as long as the run follows its plan.
InstallValid(p) ==
  LET h == p.host
  IN /\ Suite[build] \subseteq DOMAIN p.files
     /\ \A n \in DOMAIN p.files : p.files[n].after = (IF n \in Suite[build] THEN build ELSE Gone)
     /\ p.bridged = HasBridge(h) /\ (p.bridged => ManagedBlock(p.after) = Block(build))
     /\ Linked(h) => Suite[build] \subseteq DOMAIN p.links
     /\ \A n \in DOMAIN p.links : p.links[n] = (n \in Suite[build])

\* Another linked installation owns a Skill, too.
Shared(h, n) == Linked(h) /\ \E g \in Hosts \ {h} : Linked(g) /\ n \in Owned(g)

UninstallValid(p) ==
  LET h == p.host
  IN /\ \A n \in DOMAIN p.files : n \in Names => n \in Owned(h) /\ ~Shared(h, n)
     /\ record[h].release # 0 =>
          /\ p.bridged = HasBridge(h)
          /\ Linked(h) => \A n \in Owned(h) : /\ n \in DOMAIN p.files \/ Shared(h, n)
                                              /\ n \in DOMAIN p.links /\ ~p.links[n]

RunValid ==
  run # Idle =>
    /\ Installs(Plan) => InstallValid(Plan)
    /\ ~Installs(Plan) /\ ~At("result") => UninstallValid(Plan)
    /\ At("result") => record[Plan.host].release = IF Installs(Plan) THEN build ELSE 0

\* A run of an installation has taken the old Skill away.
RunMigrated ==
  \A h \in Hosts :
    run # Idle /\ Installs(Plan) /\ Plan.host = h /\ (At("files") => Old \notin run.todo) =>
      ~LegacyIntact(h)

\* What a run still finds as its preflight has seen it, if no user interferes.
RunChecked ==
  run # Idle /\ ~late =>
    /\ At("files") =>
         /\ \A n \in run.todo : file[Asset(Plan.host, n)] # Edited
         /\ Plan.bridged => bridge[bridgeOf[Plan.host]] \in {Plan.before, Plan.after}
    /\ ~At("result") =>
         \A n \in DOMAIN Plan.links :
           (At("links") => n \in run.todo) => link[Plan.host][n] # Edited

\* Nobody has interfered.
Quiet == stops = 0 /\ edits = 0

NothingEdited ==
  Quiet => /\ \A p \in Paths : file[p] # Edited
           /\ \A h \in Hosts, n \in Names \cup {Old} : link[h][n] # Edited

\* What the run has done so far is there.
RunWrote ==
  Quiet /\ run # Idle =>
    /\ \A n \in DOMAIN Plan.files : (At("files") => n \notin run.todo) =>
         file[Asset(Plan.host, n)] = Plan.files[n].after
    /\ ~At("files") /\ Plan.bridged => bridge[bridgeOf[Plan.host]] = Plan.after
    /\ \A n \in DOMAIN Plan.links :
         ~At("files") /\ (At("links") => n \notin run.todo) =>
           link[Plan.host][n] = IF Plan.links[n] THEN 1 ELSE Gone

\* A Skill of the shared directory is owned, or about to be.
SharedOwned ==
  Quiet => \A n \in Names : file[<<Canonical, n>>] # Gone =>
    \/ \E h \in Hosts : Linked(h) /\ n \in Owned(h)
    \/ /\ run # Idle /\ Installs(Plan) /\ Linked(Plan.host)
       /\ n \in DOMAIN Plan.files /\ Plan.files[n].after # Gone

\* A first installation that was accepted once would be accepted again, as long as only its
\* own runs change anything.
FirstInstall(p) == Installs(p) /\ ~p.upgrade
Ready(p) ==
  /\ DOMAIN p.files \ {Old} = Suite[build]
  /\ \A n \in DOMAIN p.files : p.files[n].after = (IF n \in Suite[build] THEN build ELSE Gone)
  /\ p.bridged = HasBridge(p.host) /\ (p.bridged => ManagedBlock(p.after) = Block(build))
  /\ IF Linked(p.host)
       THEN /\ Old \notin DOMAIN p.files /\ DOMAIN p.links \ {Old} = Suite[build]
            /\ \A n \in DOMAIN p.links : p.links[n] = (n \in Suite[build])
       ELSE DOMAIN p.links = {}
  /\ Preflight(p)

Retried ==
  \A o \in alone : LET p == plans[o] IN
    Planned(o) /\ FirstInstall(p) =>
      /\ record[p.host].release \in {0, build}
      /\ (o \in halted \/ run.op = o) /\ (Linked(p.host) => Old \notin DOMAIN p.files) => Ready(p)

IInv == /\ TypeOK /\ PlansKnown /\ LegacyPlanned /\ Migrated /\ Recorded /\ UpgradePlanned
        /\ RunValid /\ RunMigrated /\ RunChecked /\ NothingEdited /\ RunWrote /\ SharedOwned /\ Retried

-----------------------------------------------------------------------------
(* Constants and texts                                                     *)

\* Suites are sets of names; the old Skill and the shared directory are none of them.
LEMMA ConstantsTyped ==
  /\ \A r \in 1..2 : Suite[r] \subseteq Names /\ Suite[r] # {}
  /\ Old \notin Names
  /\ Canonical \notin Hosts /\ NoOp \notin Ops /\ NoBridge \notin Bridges
  /\ Placements \subseteq [Hosts -> Bridges \cup {NoBridge}]
BY SkillAssumption

\* An installation's Skills are where its mode says, each at a path of its own.
LEMMA AssetTyped ==
  ASSUME NEW h \in Hosts, NEW n \in Names \cup {Old}
  PROVE  Asset(h, n) \in Paths
BY DEF Asset, AssetRoot, Paths, Roots

LEMMA AssetsDiffer ==
  ASSUME NEW h, NEW n, NEW m, Asset(h, n) = Asset(h, m)
  PROVE  n = m
BY DEF Asset

\* Only linked installations share a directory.
LEMMA AssetsShared ==
  ASSUME NEW g \in Hosts, NEW h \in Hosts, NEW n, NEW m, Asset(g, n) = Asset(h, m), g # h,
         mode \in [Hosts -> {"copy", "symlink"}]
  PROVE  Linked(g) /\ Linked(h) /\ n = m
BY ConstantsTyped DEF Asset, AssetRoot, Linked

LEMMA CanonicalAsset ==
  ASSUME NEW h \in Hosts, NEW n, NEW m, mode \in [Hosts -> {"copy", "symlink"}]
  PROVE  Asset(h, n) = <<Canonical, m>> <=> Linked(h) /\ n = m
BY ConstantsTyped DEF Asset, AssetRoot, Linked

Pieces == Blocks \cup {"words", "tail", "broken block"}

\* Missing is no text, and no text that ends with a block.
LEMMA TextTyped ==
  ASSUME NEW t \in Texts
  PROVE  /\ Text(t) \in Seq(Pieces)
         /\ t # Missing => Text(t) = t
         /\ Missing \notin Seq(Pieces)
<1>1. Missing \notin Seq(Pieces)
  <2>1. SUFFICES ASSUME Missing \in Seq(Pieces)
        PROVE  FALSE
    OBVIOUS
  <2>2. Missing[1] \in Pieces
    <3>1. Len(Missing) = 1
      BY DEF Missing
    <3> QED
      BY <2>1, <3>1
  <2>3. Missing[1] = "no file"
    BY DEF Missing
  <2> QED
    BY <2>2, <2>3 DEF Pieces, Blocks
<1>2. t = Missing \/ t \in Seq(Pieces)
  BY DEF Texts, Pieces
<1>3. <<>> \in Seq(Pieces)
  OBVIOUS
<1> QED
  BY <1>1, <1>2, <1>3 DEF Text

\* Installing a block leaves the user's text.
LEMMA InstallKeepsText ==
  ASSUME build \in 1..2, NEW t \in Texts, MayInstallText(t)
  PROVE  InstallText(t) \in Texts /\ UserText(InstallText(t)) = UserText(t)
<1> DEFINE s == Text(t)
           b == Block(build)
           u == IF Known(t) THEN AllButLast(t) ELSE s
<1>1. s \in Seq(Pieces) /\ b \in Blocks /\ b \in Pieces /\ "block0" \in Blocks
  BY TextTyped DEF Block, Blocks, Pieces
<1>2. Known(t) => t # Missing /\ t = s /\ s # <<>> /\ s[Len(s)] \in Blocks
  BY <1>1, TextTyped DEF Known, EndsWith, Text
<1>3. u \in Seq(Pieces)
  <2>1. CASE Known(t)
    <3>1. SubSeq(s, 1, Len(s) - 1) \in Seq(Pieces)
      BY <1>1, <1>2, <2>1
    <3> QED
      BY <1>2, <2>1, <3>1 DEF AllButLast
  <2>2. CASE ~Known(t)
    BY <1>1, <2>2
  <2> QED
    BY <2>1, <2>2
<1>4. InstallText(t) = Append(u, b)
  BY DEF InstallText
<1> DEFINE v == Append(u, b)
<1>5. v \in Seq(Pieces) /\ Len(v) = Len(u) + 1 /\ v[Len(u) + 1] = b /\ \A k \in 1..Len(u) : v[k] = u[k]
  BY <1>1, <1>3
<1>6. Text(v) = v /\ v \in Texts
  BY <1>5, TextTyped DEF Text, Texts, Pieces
<1>7. Len(u) <= Len(s) /\ \A k \in 1..Len(u) : u[k] = s[k]
  <2>1. CASE Known(t)
    BY <1>1, <1>2, <2>1 DEF AllButLast
  <2>2. CASE ~Known(t)
    BY <1>1, <2>2
  <2> QED
    BY <2>1, <2>2
<1>8. \A k \in DOMAIN s : k \in 1..Len(u) \/ s[k] \in Blocks
  <2>1. CASE Known(t)
    BY <1>1, <1>2, <2>1 DEF AllButLast
  <2>2. CASE ~Known(t)
    BY <1>1, <2>2
  <2> QED
    BY <2>1, <2>2
<1> HIDE DEF v, u, b
<1>9. DOMAIN v \ Places(v) = DOMAIN s \ Places(s)
  <2>1. DOMAIN v = 1..(Len(u) + 1) /\ DOMAIN s = 1..Len(s) /\ Len(u) \in Nat /\ Len(s) \in Nat
    BY <1>1, <1>3, <1>5
  <2>2. ASSUME NEW k \in DOMAIN v, k \notin Places(v)
        PROVE  k \in DOMAIN s /\ k \notin Places(s)
    <3>1. k # Len(u) + 1
      BY <1>1, <1>5, <2>1, <2>2 DEF Places
    <3>2. k \in 1..Len(u)
      BY <2>1, <2>2, <3>1
    <3> QED
      BY <1>5, <1>7, <2>1, <2>2, <3>2 DEF Places
  <2>3. ASSUME NEW k \in DOMAIN s, k \notin Places(s)
        PROVE  k \in DOMAIN v /\ k \notin Places(v)
    BY <1>5, <1>7, <1>8, <2>1, <2>3 DEF Places
  <2> QED
    BY <2>2, <2>3
<1>10. \A k \in DOMAIN s \ Places(s) : v[k] = t[k]
  <2>1. ASSUME NEW k \in DOMAIN s \ Places(s)
        PROVE  v[k] = s[k] /\ t[k] = s[k]
    <3>1. k \in 1..Len(u)
      BY <1>8, <2>1 DEF Places
    <3>2. t # Missing
      BY <2>1 DEF Text
    <3> QED
      BY <1>5, <1>7, <3>1, <3>2, TextTyped
  <2> QED
    BY <2>1
<1>11. UserText(v) = [k \in DOMAIN v \ Places(v) |-> v[k]]
  BY <1>6 DEF UserText
<1>12. UserText(t) = [k \in DOMAIN s \ Places(s) |-> t[k]]
  BY DEF UserText
<1>13. UserText(v) = UserText(t)
  BY <1>9, <1>10, <1>11, <1>12
<1> QED
  BY <1>4, <1>6, <1>13 DEF v

\* Replacing the block in place does.
LEMMA UpdateKeepsText ==
  ASSUME build \in 1..2, NEW t \in Texts, ManagedBlock(t) # "none"
  PROVE  UpdateText(t) \in Texts /\ UserText(UpdateText(t)) = UserText(t)
<1> DEFINE v == UpdateText(t)
           b == Block(build)
<1>1. b \in Blocks /\ b \in Pieces
  BY DEF Block, Blocks, Pieces
<1>2. t # Missing
  <2>1. Places(Missing) = {}
    <3>1. DOMAIN Missing = {1} /\ Missing[1] = "no file"
      BY DEF Missing
    <3> QED
      BY <3>1 DEF Places, Blocks
  <2> QED
    BY <2>1 DEF ManagedBlock
<1>3. t \in Seq(Pieces) /\ Text(t) = t
  BY <1>2, TextTyped
<1>4. DOMAIN v = 1..Len(t) /\ \A k \in DOMAIN t : v[k] = (IF t[k] \in Blocks THEN b ELSE t[k])
  BY <1>3 DEF UpdateText
<1>5. v \in Seq(Pieces)
  <2>1. \A k \in 1..Len(t) : v[k] \in Pieces
    BY <1>1, <1>3, <1>4
  <2>2. v \in [1..Len(t) -> Pieces] /\ Len(t) \in Nat
    BY <1>3, <1>4, <2>1 DEF UpdateText
  <2> QED
    BY <2>2
<1>6. v \in Texts /\ Text(v) = v
  BY <1>5, TextTyped DEF Text, Texts, Pieces
<1> HIDE DEF v
<1>7. DOMAIN v \ Places(v) = DOMAIN t \ Places(t)
  BY <1>1, <1>3, <1>4 DEF Places
<1>8. \A k \in DOMAIN t \ Places(t) : v[k] = t[k]
  BY <1>4 DEF Places
<1>9. UserText(v) = [k \in DOMAIN v \ Places(v) |-> v[k]] /\ UserText(t) = [k \in DOMAIN t \ Places(t) |-> t[k]]
  BY <1>3, <1>6 DEF UserText
<1>10. UserText(v) = UserText(t)
  BY <1>7, <1>8, <1>9
<1> QED
  BY <1>6, <1>10 DEF v

\* Taking it from the end does.
LEMMA UninstallKeepsText ==
  ASSUME build \in 1..2, NEW t \in Texts, t # Missing, Known(t)
  PROVE  UninstallText(t) \in Texts /\ UserText(UninstallText(t)) = UserText(t)
<1>1. t \in Seq(Pieces) /\ Text(t) = t
  BY TextTyped
<1>2. t # <<>> /\ t[Len(t)] \in Blocks
  BY <1>1 DEF Known, EndsWith, Block, Blocks
<1>3. UserText(t) = [k \in DOMAIN t \ Places(t) |-> t[k]]
  BY <1>1 DEF UserText
<1>4. CASE Len(t) = 1
  <2>1. UninstallText(t) = Missing /\ Missing \in Texts
    BY <1>4 DEF UninstallText, Texts
  <2>2. DOMAIN t \ Places(t) = {}
    <3>1. DOMAIN t = {1}
      BY <1>1, <1>4
    <3> QED
      BY <1>2, <1>4, <3>1 DEF Places
  <2>3. UserText(Missing) = [k \in {} |-> Missing[k]]
    BY DEF UserText, Text, Places
  <2>4. UserText(Missing) = UserText(t)
    BY <1>3, <2>2, <2>3
  <2> QED
    BY <2>1, <2>4
<1>5. CASE Len(t) # 1
  <2> DEFINE v == SubSeq(t, 1, Len(t) - 1)
  <2>1. UninstallText(t) = v
    BY <1>5 DEF UninstallText, AllButLast
  <2>2. v \in Seq(Pieces) /\ Len(v) = Len(t) - 1 /\ \A k \in 1..(Len(t) - 1) : v[k] = t[k]
    <3>0. Len(t) \in Nat /\ Len(t) # 0
      BY <1>1, <1>2
    <3>1. Len(t) \in Nat /\ Len(t) >= 2
      BY <3>0, <1>5
    <3>2. v \in Seq(Pieces)
      BY <1>1, <3>1
    <3>3. Len(v) = Len(t) - 1
      BY <1>1, <3>1
    <3>4. ASSUME NEW k \in 1..(Len(t) - 1) PROVE v[k] = t[k]
      BY <1>1, <3>1
    <3> QED
      BY <3>2, <3>3, <3>4
  <2>3. v \in Texts /\ Text(v) = v
    BY <2>2, TextTyped DEF Text, Texts, Pieces
  <2> HIDE DEF v
  <2>4. DOMAIN v \ Places(v) = DOMAIN t \ Places(t)
    <3>1. DOMAIN v = 1..(Len(t) - 1) /\ DOMAIN t = 1..Len(t) /\ Len(t) \in Nat
      BY <1>1, <2>2
    <3> QED
      BY <1>2, <2>2, <3>1 DEF Places
  <2>5. \A k \in DOMAIN v : v[k] = t[k]
    BY <2>2
  <2>6. UserText(v) = [k \in DOMAIN v \ Places(v) |-> v[k]]
    BY <2>3 DEF UserText
  <2>7. UserText(v) = UserText(t)
    BY <1>3, <2>4, <2>5, <2>6
  <2> QED
    BY <2>1, <2>3, <2>7
<1> QED
  BY <1>4, <1>5

-----------------------------------------------------------------------------
(* Plans                                                                   *)

\* What the states of an installation mean.
LEMMA StatusKnown ==
  ASSUME NEW h \in Hosts
  PROVE  /\ Status(h) = "legacy" => LegacyIntact(h)
         /\ Status(h) \in {"current", "outdated"} =>
              ~LegacyHere(h) /\ record[h].release # 0 /\ ManagedState(h, record[h]) = Status(h)
         /\ Status(h) = "absent" => ~LegacyHere(h) /\ record[h].release = 0
         /\ Status(h) \in {"legacy", "current", "outdated", "absent", "modified", "partial", "external"}
         /\ LegacyIntact(h) => Status(h) = "legacy"
<1>1. LegacyState(h) \in {"legacy", "external", "modified"}
      /\ (LegacyState(h) = "legacy" <=> LegacyIntact(h))
  BY DEF LegacyState
<1>2. ManagedState(h, record[h]) \in {"modified", "partial", "current", "outdated"}
  BY DEF ManagedState
<1> QED
  BY <1>1, <1>2 DEF Status, LegacyIntact

\* What an intact installation means.
LEMMA ManagedKnown ==
  ASSUME NEW h \in Hosts, NEW rec, ManagedState(h, rec) \in {"current", "outdated"}
  PROVE  /\ \A n \in Suite[rec.release] : /\ file[Asset(h, n)] \notin {Gone} \ {rec.release}
                                          /\ file[Asset(h, n)] \in {Gone, rec.release}
                                          /\ file[Asset(h, n)] # Gone
                                          /\ Linked(h) => link[h][n] \notin {Gone, Edited}
         /\ HasBridge(h) => bridge[bridgeOf[h]] # Missing
         /\ ManagedState(h, rec) = "current" => rec.release = build
BY DEF ManagedState, Linked

\* An installation that may be planned.
LEMMA InstallPlanned ==
  ASSUME TypeOK, Migrated, NEW h \in Hosts, NEW kept \in BOOLEAN, MayInstall(h)
  PROVE  LET p == InstallPlan(h, kept)
         IN /\ PlanType(p) /\ PlanKnown(p) /\ p.host = h /\ Installs(p)
            /\ LegacyIntact(h) => Old \in DOMAIN p.files
            /\ build = 2 /\ record[h].release = 1 => Suite[1] \subseteq DOMAIN p.files
            /\ ~p.upgrade => record[h].release \in {0, build}
<1> DEFINE p == InstallPlan(h, kept)
           text == IF HasBridge(h) THEN bridge[bridgeOf[h]] ELSE Missing
           upgrade == Status(h) = "outdated"
<1>1. /\ p.host = h /\ p.action = "install" /\ p.upgrade = upgrade
      /\ DOMAIN p.files = Suite[build] \cup Dropped(h) \cup LegacyFiles(h)
      /\ \A n \in DOMAIN p.files : /\ p.files[n].before = file[Asset(h, n)]
                                   /\ p.files[n].after = IF n \in Suite[build] THEN build ELSE Gone
      /\ p.bridged = HasBridge(h) /\ p.before = text
      /\ p.after = IF ~HasBridge(h) THEN Missing
                   ELSE IF upgrade THEN UpdateText(text) ELSE InstallText(text)
      /\ DOMAIN p.links = (IF mode[h] = "copy" THEN {} ELSE Suite[build] \cup Dropped(h)) \cup LegacyLinks(h)
      /\ p.links = [n \in DOMAIN p.links |-> n \in Suite[build]]
  BY DEF InstallPlan, FileChange
<1> HIDE DEF p
<1>2. /\ build \in 1..2 /\ Suite[build] \subseteq Names /\ Suite[1] \subseteq Names /\ Old \notin Names
      /\ record[h].release \in 0..2 /\ record[h].text \in Texts
      /\ mode[h] \in {"copy", "symlink"} /\ file \in [Paths -> Contents]
  BY ConstantsTyped DEF TypeOK
<1>3. Status(h) \in {"legacy", "current", "outdated", "absent"}
  BY StatusKnown DEF MayInstall
<1>4. Owned(h) \subseteq Names /\ Dropped(h) \subseteq Owned(h) /\ LegacyFiles(h) \subseteq {Old}
      /\ LegacyLinks(h) \subseteq {Old} /\ (mode[h] = "copy" => LegacyLinks(h) = {})
  BY <1>2, ConstantsTyped DEF Owned, Dropped, LegacyFiles, LegacyLinks
<1>5. DOMAIN p.files \subseteq Names \cup {Old} /\ DOMAIN p.links \subseteq Names \cup {Old}
  BY <1>1, <1>2, <1>4
<1>6. text \in Texts /\ (HasBridge(h) => bridgeOf[h] \in Bridges /\ text = bridge[bridgeOf[h]])
  <2>1. Missing \in Texts
    BY DEF Texts
  <2>2. HasBridge(h) => bridgeOf[h] \in Bridges
    BY ConstantsTyped DEF TypeOK, HasBridge
  <2> QED
    BY <2>1, <2>2 DEF TypeOK
<1>7. p.after \in Texts /\ (p.bridged => UserText(p.after) = UserText(p.before))
  <2>1. CASE ~HasBridge(h)
    BY <1>1, <2>1 DEF Texts
  <2>2. CASE HasBridge(h) /\ upgrade
    <3>1. ManagedBlock(text) # "none"
      BY <2>2 DEF MayInstall
    <3> QED
      BY <1>1, <1>2, <1>6, <2>2, <3>1, UpdateKeepsText
  <2>3. CASE HasBridge(h) /\ ~upgrade
    <3>1. MayInstallText(text)
      BY <2>3 DEF MayInstall
    <3> QED
      BY <1>1, <1>2, <1>6, <2>3, <3>1, InstallKeepsText
  <2> QED
    BY <2>1, <2>2, <2>3
<1>8. ASSUME NEW n \in DOMAIN p.files
      PROVE  file[Asset(h, n)] \in Contents \ {Edited}
  <2>0. n \in Names \cup {Old} /\ file[Asset(h, n)] \in Contents
    BY <1>2, <1>5, <1>8, AssetTyped
  <2>1. CASE n \in LegacyFiles(h)
    <3>1. LegacyIntact(h) /\ n = Old
      BY <2>1, StatusKnown DEF LegacyFiles
    <3> QED
      BY <3>1 DEF LegacyIntact, Contents, Edited
  <2>2. CASE upgrade /\ n \in Owned(h)
    <3>1. record[h].release # 0 /\ ManagedState(h, record[h]) = "outdated"
      BY <2>2, StatusKnown
    <3>2. n \in Suite[record[h].release]
      BY <2>2, <3>1 DEF Owned
    <3> QED
      BY <1>2, <2>0, <3>1, <3>2, ManagedKnown DEF Contents, Gone, Edited
  <2>3. CASE n \in Suite[build] /\ ~(upgrade /\ n \in Owned(h))
    <3>1. file[Asset(h, n)] \in {Gone, build}
      BY <2>3 DEF MayInstall
    <3> QED
      BY <1>2, <2>0, <3>1 DEF Gone, Edited
  <2> QED
    BY <1>1, <1>4, <1>8, <2>1, <2>2, <2>3 DEF Dropped
<1>9. PlanType(p)
  <2>1. p.links \in [DOMAIN p.links -> BOOLEAN]
    <3> DEFINE D == DOMAIN p.links
    <3>1. \A n \in D : (n \in Suite[build]) \in BOOLEAN
      OBVIOUS
    <3>2. [n \in D |-> n \in Suite[build]] \in [D -> BOOLEAN]
      BY <3>1, Zenon
    <3>3. p.links = [n \in D |-> n \in Suite[build]]
      BY <1>1
    <3> QED
      BY <3>2, <3>3, Zenon
  <2>2. \A n \in DOMAIN p.files : p.files[n].before \in Contents \ {Edited}
    BY <1>1, <1>8
  <2>3. \A n \in DOMAIN p.files : p.files[n].after \in Contents \ {Edited}
    BY <1>1, <1>2 DEF Contents, Gone, Edited
  <2>4. p.before \in Texts /\ p.after \in Texts /\ (p.bridged => HasBridge(p.host))
    BY <1>1, <1>6, <1>7
  <2> QED
    BY <1>1, <1>5, <2>1, <2>2, <2>3, <2>4 DEF PlanType
<1>10. PlanKnown(p)
  <2>1. \A n \in DOMAIN p.files : p.files[n].after \in 0..build
    BY <1>1, <1>2 DEF Gone
  <2>2. ~upgrade => Dropped(h) = {}
    BY DEF Dropped
  <2>3. \A n \in DOMAIN p.files : ~upgrade /\ n \in Names => n \in Suite[build]
    BY <1>1, <1>2, <1>4, <2>2
  <2>4. \A n \in DOMAIN p.files : p.files[n].after # Gone => n \in Names
    BY <1>1, <1>2
  <2>5. \A n \in DOMAIN p.files : ~p.upgrade /\ n \in Names => p.files[n].after # Gone
    <3>1. ~p.upgrade => ~upgrade
      BY <1>1, Zenon
    <3>2. \A n \in DOMAIN p.files : ~upgrade /\ n \in Names => p.files[n].after = build /\ build # Gone
      BY <1>1, <1>2, <2>3 DEF Gone
    <3> QED
      BY <3>1, <3>2
  <2>6. mode[h] = "copy" => DOMAIN p.links = {}
    BY <1>1, <1>4
  <2>7. \A n \in DOMAIN p.links : p.links[n] => n \in Names
    BY <1>1, <1>2
  <2> QED
    BY <1>1, <1>7, <2>1, <2>4, <2>5, <2>6, <2>7 DEF PlanKnown, Installs
<1>11. LegacyIntact(h) => Old \in DOMAIN p.files
  BY <1>1, StatusKnown DEF LegacyFiles
<1>12. record[h].release # 0 => Status(h) # "legacy"
  BY StatusKnown DEF Migrated
<1>13. build = 2 /\ record[h].release = 1 => Suite[1] \subseteq DOMAIN p.files
  <2>1. SUFFICES ASSUME build = 2, record[h].release = 1
        PROVE  Suite[1] \subseteq DOMAIN p.files
    OBVIOUS
  <2>2. Status(h) = "outdated"
    <3>1. Status(h) # "absent" /\ Status(h) # "legacy"
      BY <1>12, <2>1, StatusKnown
    <3>2. Status(h) # "current"
      BY <2>1, StatusKnown, ManagedKnown
    <3> QED
      BY <1>3, <3>1, <3>2
  <2>3. Suite[1] = Owned(h)
    BY <2>1 DEF Owned
  <2> QED
    BY <1>1, <2>2, <2>3 DEF Dropped
<1>14. ~p.upgrade => record[h].release \in {0, build}
  <2>1. SUFFICES ASSUME ~upgrade, record[h].release # 0
        PROVE  record[h].release = build
    BY <1>1
  <2>2. Status(h) = "current"
    BY <1>3, <1>12, <2>1, StatusKnown
  <2> QED
    BY <2>2, StatusKnown, ManagedKnown
<1> QED
  BY <1>1, <1>9, <1>10, <1>11, <1>13, <1>14 DEF p, Installs

\* A removal that may be planned.
LEMMA UninstallPlanned ==
  ASSUME TypeOK, NEW h \in Hosts, NEW kept \in BOOLEAN, MayUninstall(h)
  PROVE  LET p == UninstallPlan(h, kept)
         IN PlanType(p) /\ PlanKnown(p) /\ p.host = h /\ p.action = "uninstall"
<1> DEFINE p == UninstallPlan(h, kept)
           text == IF HasBridge(h) THEN bridge[bridgeOf[h]] ELSE Missing
           touch == HasBridge(h) /\ text # Missing /\ Known(text)
           legacy == Status(h) = "legacy"
<1>1. /\ p.host = h /\ p.action = "uninstall"
      /\ DOMAIN p.files = (IF legacy THEN {Old} ELSE Removable(h))
      /\ \A n \in DOMAIN p.files : p.files[n].before = file[Asset(h, n)] /\ p.files[n].after = Gone
      /\ p.bridged = touch /\ p.before = text
      /\ p.after = IF touch THEN UninstallText(text) ELSE Missing
      /\ DOMAIN p.links = (IF mode[h] = "copy" THEN {} ELSE IF legacy THEN {Old} ELSE Owned(h))
      /\ p.links = [n \in DOMAIN p.links |-> FALSE]
  BY DEF UninstallPlan, FileChange
<1> HIDE DEF p
<1>2. /\ build \in 1..2 /\ Old \notin Names /\ record[h].release \in 0..2
      /\ mode[h] \in {"copy", "symlink"} /\ file \in [Paths -> Contents]
  BY ConstantsTyped DEF TypeOK
<1>3. Owned(h) \subseteq Names /\ Removable(h) \subseteq Owned(h)
  BY <1>2, ConstantsTyped DEF Owned, Removable
<1>4. DOMAIN p.files \subseteq Names \cup {Old} /\ DOMAIN p.links \subseteq Names \cup {Old}
  BY <1>1, <1>3
<1>5. text \in Texts
  <2>1. HasBridge(h) => bridgeOf[h] \in Bridges
    BY ConstantsTyped DEF TypeOK, HasBridge
  <2> QED
    BY <2>1 DEF TypeOK, Texts
<1>6. p.after \in Texts /\ (p.bridged => UserText(p.after) = UserText(p.before))
  <2>1. CASE touch
    BY <1>1, <1>2, <1>5, <2>1, UninstallKeepsText
  <2>2. CASE ~touch
    BY <1>1, <2>2 DEF Texts
  <2> QED
    BY <2>1, <2>2
<1>7. ASSUME NEW n \in DOMAIN p.files
      PROVE  file[Asset(h, n)] \in Contents \ {Edited}
  <2>0. n \in Names \cup {Old} /\ file[Asset(h, n)] \in Contents
    BY <1>2, <1>4, <1>7, AssetTyped
  <2>1. CASE legacy
    <3>1. LegacyIntact(h) /\ n = Old
      BY <1>1, <1>7, <2>1, StatusKnown
    <3> QED
      BY <3>1 DEF LegacyIntact, Contents, Edited
  <2>2. CASE ~legacy
    <3>1. record[h].release # 0 /\ ManagedState(h, record[h]) \in {"current", "outdated"}
      BY <2>2, StatusKnown DEF MayUninstall
    <3>2. n \in Suite[record[h].release]
      BY <1>1, <1>3, <1>7, <2>2, <3>1 DEF Owned
    <3> QED
      BY <1>2, <2>0, <3>1, <3>2, ManagedKnown DEF Contents, Gone, Edited
  <2> QED
    BY <2>1, <2>2
<1>8. PlanType(p)
  <2>1. p.links \in [DOMAIN p.links -> BOOLEAN]
    BY <1>1
  <2>2. \A n \in DOMAIN p.files : p.files[n].before \in Contents \ {Edited}
    BY <1>1, <1>7
  <2>3. \A n \in DOMAIN p.files : p.files[n].after \in Contents \ {Edited}
    BY <1>1, <1>2 DEF Contents, Gone, Edited
  <2>4. p.before \in Texts /\ p.after \in Texts /\ (p.bridged => HasBridge(p.host))
    BY <1>1, <1>5, <1>6
  <2> QED
    BY <1>1, <1>4, <2>1, <2>2, <2>3, <2>4 DEF PlanType
<1>9. PlanKnown(p)
  BY <1>1, <1>2, <1>6 DEF PlanKnown, Installs, Gone
<1> QED
  BY <1>1, <1>8, <1>9 DEF p

-----------------------------------------------------------------------------
(* Validation                                                              *)

\* What an accepted installation covers.
LEMMA InstallAccepted ==
  ASSUME NEW p, p.host \in Hosts, PlanKnown(p), Installs(p), Valid(p), build \in 1..2,
         mode \in [Hosts -> {"copy", "symlink"}]
  PROVE  InstallValid(p)
<1>1. ValidInstall(p)
  BY DEF Valid, Installs
<1>2. Suite[build] \subseteq DOMAIN p.files
  <2>1. ASSUME NEW n \in Suite[build] PROVE n \in DOMAIN p.files
    <3>1. Asset(p.host, n) \in PlanPaths(p)
      BY <1>1 DEF ValidInstall
    <3> QED
      BY <3>1, AssetsDiffer DEF PlanPaths
  <2> QED
    BY <2>1
<1>3. /\ \A n \in DOMAIN p.files : p.files[n].after = (IF n \in Suite[build] THEN build ELSE Gone)
      /\ p.bridged = HasBridge(p.host) /\ (p.bridged => ManagedBlock(p.after) = Block(build))
  BY <1>1 DEF ValidInstall
<1>4. \E dropped : ValidLinks(p, dropped)
  BY <1>1 DEF ValidInstall
<1>5. /\ Linked(p.host) => Suite[build] \subseteq DOMAIN p.links
      /\ \A n \in DOMAIN p.links : p.links[n] = (n \in Suite[build])
  BY <1>4 DEF ValidLinks, Linked
<1> QED
  BY <1>2, <1>3, <1>5 DEF InstallValid

\* What may be removed is owned and not shared.
LEMMA RemovableIs ==
  ASSUME NEW h \in Hosts, NEW n, mode \in [Hosts -> {"copy", "symlink"}]
  PROVE  n \in Removable(h) <=> n \in Owned(h) /\ ~Shared(h, n)
BY DEF Removable, Shared, Linked

\* What an accepted removal covers.
LEMMA UninstallAccepted ==
  ASSUME NEW p, p.host \in Hosts, PlanKnown(p), ~Installs(p), Valid(p),
         mode \in [Hosts -> {"copy", "symlink"}]
  PROVE  UninstallValid(p)
<1> DEFINE h == p.host
<1>1. CASE IsLegacyOperation(p)
  <2>1. mode[h] = "copy" /\ PlanPaths(p) = {<<h, Old>>} /\ p.bridged = HasBridge(h)
    BY <1>1 DEF IsLegacyOperation
  <2>2. \A n \in DOMAIN p.files : n = Old
    <3>1. \A n \in DOMAIN p.files : Asset(h, n) = <<h, Old>>
      BY <2>1 DEF PlanPaths
    <3> QED
      BY <3>1 DEF Asset
  <2> QED
    BY <2>1, <2>2, ConstantsTyped DEF UninstallValid, Linked
<1>2. CASE ~IsLegacyOperation(p) /\ record[h].release = 0
  <2>1. PlanPaths(p) \subseteq LegacyPaths(h)
    BY <1>2 DEF Valid, Installs, ValidUninstall
  <2>2. \A n \in DOMAIN p.files : Asset(h, n) \in {<<h, Old>>, Asset(h, Old)}
    BY <2>1 DEF PlanPaths, LegacyPaths
  <2>3. \A n \in DOMAIN p.files : n = Old
    BY <2>2 DEF Asset
  <2> QED
    BY <1>2, <2>3, ConstantsTyped DEF UninstallValid
<1>3. CASE ~IsLegacyOperation(p) /\ record[h].release # 0
  <2>1. /\ ValidRecordLinks(p) /\ p.bridged = HasBridge(h)
        /\ PlanPaths(p) = {Asset(h, n) : n \in Removable(h)}
    BY <1>3 DEF Valid, Installs, ValidUninstall
  <2>2. DOMAIN p.files = Removable(h)
    <3>1. \A n \in DOMAIN p.files : \E m \in Removable(h) : Asset(h, n) = Asset(h, m)
      BY <2>1 DEF PlanPaths
    <3>2. \A m \in Removable(h) : \E n \in DOMAIN p.files : Asset(h, m) = Asset(h, n)
      BY <2>1 DEF PlanPaths
    <3> QED
      BY <3>1, <3>2, AssetsDiffer
  <2>3. Linked(h) => DOMAIN p.links = Owned(h) /\ \A n \in DOMAIN p.links : ~p.links[n]
    BY <2>1 DEF ValidRecordLinks, Linked
  <2> QED
    BY <2>1, <2>2, <2>3, RemovableIs DEF UninstallValid
<1> QED
  BY <1>1, <1>2, <1>3

-----------------------------------------------------------------------------
(* Steps                                                                   *)

\* One file, one link, the record; and a run that ends half way, because it dies, something
\* stands where a link should be, or the verification fails.
FileStep(n) ==
  /\ At("files") /\ n \in run.todo
  /\ file' = [file EXCEPT ![Asset(Plan.host, n)] = Plan.files[n].after]
  /\ Done(n) /\ alone' = alone \cap {run.op}
  /\ UNCHANGED <<bridgeOf, mode, link, bridge, record, plans, applied, build, bounds, late, halted>>

LinkStep(n) ==
  /\ At("links") /\ n \in run.todo
  /\ link' = [link EXCEPT ![Plan.host][n] = IF Plan.links[n] THEN 1 ELSE Gone]
  /\ Done(n) /\ alone' = alone \cap {run.op}
  /\ UNCHANGED <<bridgeOf, mode, file, bridge, record, plans, applied, build, bounds, late, halted>>

RecordStep ==
  /\ At("links") /\ run.todo = {}
  /\ record' = [record EXCEPT ![Plan.host] = RecordOf(Plan)]
  /\ GoTo("result", {}) /\ alone' = alone \cap {run.op}
  /\ UNCHANGED <<bridgeOf, mode, file, link, bridge, plans, applied, build, bounds, late, halted>>

Halts ==
  /\ run # Idle /\ Stop
  /\ \/ stops' = stops + 1
     \/ /\ stops' = stops /\ At("links")
        /\ \/ \E n \in run.todo : Plan.links[n] /\ link[Plan.host][n] = Edited
           \/ run.todo = {} /\ ~Verified
  /\ UNCHANGED <<bridgeOf, mode, file, link, bridge, record, applied, build, edits, late, alone>>

LEMMA Steps ==
  [Next]_vars =>
    \/ \E o \in Ops, h \in Hosts, kept \in BOOLEAN : PlanChange(o, h, kept)
    \/ \E o \in Ops : Start(o)
    \/ \E n \in run.todo : FileStep(n)
    \/ ChangeBridge
    \/ \E n \in run.todo : LinkStep(n)
    \/ RecordStep \/ SaveResult \/ Halts \/ Edit \/ Upgrade \/ UNCHANGED vars
<1>1. ChangeFile => \E n \in run.todo : FileStep(n)
  BY DEF ChangeFile, FileStep
<1>2. ChangeLink => Halts \/ \E n \in run.todo : LinkStep(n)
  BY DEF ChangeLink, LinkStep, Halts, bounds, At
<1>3. FinalizeOwnership => Halts \/ RecordStep
  BY DEF FinalizeOwnership, RecordStep, Halts, bounds, At
<1>4. Interrupt => Halts
  BY DEF Interrupt, Halts
<1> QED
  BY <1>1, <1>2, <1>3, <1>4 DEF Next

-----------------------------------------------------------------------------
(* Types                                                                   *)

TargetTyped ==
  /\ bridgeOf \in Placements
  /\ mode \in [Hosts -> {"copy", "symlink"}]
  /\ file \in [Paths -> Contents]
  /\ link \in [Hosts -> [Names \cup {Old} -> {Gone, 1, Edited}]]
  /\ \A h \in Hosts, n \in Names \cup {Old} : mode[h] = "copy" => link[h][n] = Gone
  /\ bridge \in [Bridges -> Texts]
  /\ record \in [Hosts -> [release : 0..2, text : Texts]]

PlansTyped == DOMAIN plans = Ops /\ \A o \in Ops : Planned(o) => PlanType(plans[o])

RunTyped ==
  run # Idle =>
    /\ run \in [op : Ops, at : {"files", "links", "result"}, todo : SUBSET (Names \cup {Old})]
    /\ plans[run.op] # NoPlan
    /\ run.todo \subseteq (IF run.at = "files" THEN DOMAIN Plan.files
                          ELSE IF run.at = "links" THEN DOMAIN Plan.links ELSE {})

HistoryTyped ==
  /\ build \in 1..2 /\ edits \in 0..MaxEdits /\ stops \in Nat
  /\ late \in BOOLEAN
  /\ applied \subseteq Ops /\ alone \subseteq Ops /\ halted \subseteq Ops

LEMMA TypeParts ==
  TypeOK <=> TargetTyped /\ PlansTyped /\ RunTyped /\ HistoryTyped /\ stops \in 0..MaxStops
<1>1. 0..MaxStops \subseteq Nat
  BY SkillAssumption
<1>2. TypeOK => TargetTyped /\ PlansTyped /\ HistoryTyped /\ stops \in 0..MaxStops
  BY <1>1 DEF TypeOK, TargetTyped, PlansTyped, HistoryTyped, Planned
<1>3. TypeOK => RunTyped
  BY DEF TypeOK, RunTyped
<1>4. TargetTyped /\ PlansTyped /\ RunTyped /\ HistoryTyped /\ stops \in 0..MaxStops => TypeOK
  BY DEF TypeOK, TargetTyped, PlansTyped, RunTyped, HistoryTyped, Planned
<1> QED
  BY <1>2, <1>3, <1>4

\* A plan that is made.
LEMMA PlanMade ==
  ASSUME TypeOK, Migrated, NEW o \in Ops, NEW h \in Hosts, NEW kept \in BOOLEAN, PlanChange(o, h, kept)
  PROVE  \E p : /\ plans' = [plans EXCEPT ![o] = p]
                /\ PlanType(p) /\ PlanKnown(p) /\ p.host = h
                /\ Installs(p) =>
                     /\ LegacyIntact(h) => Old \in DOMAIN p.files
                     /\ build = 2 /\ record[h].release = 1 => Suite[1] \subseteq DOMAIN p.files
                     /\ ~p.upgrade => record[h].release \in {0, build}
<1>1. CASE MayInstall(h) /\ plans' = [plans EXCEPT ![o] = InstallPlan(h, kept)]
  BY <1>1, InstallPlanned
<1>2. CASE MayUninstall(h) /\ plans' = [plans EXCEPT ![o] = UninstallPlan(h, kept)]
  BY <1>2, UninstallPlanned DEF Installs
<1> QED
  BY <1>1, <1>2 DEF PlanChange

\* What a run works on.
LEMMA RunKnown ==
  ASSUME TypeOK, run # Idle
  PROVE  /\ run.op \in Ops /\ Plan \in {plans[o] : o \in Ops} /\ Plan = plans[run.op] /\ Planned(run.op)
         /\ PlanType(Plan) /\ Plan.host \in Hosts
         /\ run.at \in {"files", "links", "result"} /\ DOMAIN run = {"op", "at", "todo"}
         /\ run = [op |-> run.op, at |-> run.at, todo |-> run.todo]
         /\ run.todo \subseteq Names \cup {Old} /\ run.op # NoOp
         /\ At("files") => run.todo \subseteq DOMAIN Plan.files
         /\ At("links") => run.todo \subseteq DOMAIN Plan.links
<1>1. run \in [op : Ops, at : {"files", "links", "result"}, todo : SUBSET (Names \cup {Old})]
  BY DEF TypeOK
<1>2. run.op \in Ops /\ run.op # NoOp
  BY <1>1, ConstantsTyped
<1>3. PlanType(plans[run.op])
  BY <1>2 DEF TypeOK
<1> QED
  BY <1>1, <1>2, <1>3 DEF TypeOK, Plan, Planned, At, PlanType

\* Disk and records keep their types.
LEMMA NextTargetTyped == TypeOK /\ PlansKnown /\ [Next]_vars => TargetTyped'
<1> SUFFICES ASSUME TypeOK, PlansKnown, [Next]_vars PROVE TargetTyped'
  OBVIOUS
<1>1. ASSUME NEW o \in Ops, NEW h \in Hosts, NEW kept \in BOOLEAN, PlanChange(o, h, kept)
      PROVE  TargetTyped'
  BY <1>1 DEF PlanChange, bounds, TypeOK, TargetTyped
<1>2. ASSUME NEW o \in Ops, Start(o)
      PROVE  TargetTyped'
  BY <1>2 DEF Start, bounds, TypeOK, TargetTyped
<1>3. ASSUME NEW n \in run.todo, FileStep(n)
      PROVE  TargetTyped'
  <2>1. Plan.files[n].after \in Contents
    BY <1>3, RunKnown DEF FileStep, At, PlanType
  <2> QED
    BY <1>3, <2>1 DEF FileStep, TypeOK, TargetTyped, bounds
<1>4. CASE ChangeBridge
  <2>1. Plan.after \in Texts
    BY <1>4, RunKnown DEF ChangeBridge, At, PlanType
  <2> QED
    BY <1>4, <2>1 DEF ChangeBridge, TypeOK, TargetTyped, bounds
<1>5. ASSUME NEW n \in run.todo, LinkStep(n)
      PROVE  TargetTyped'
  <2>1. run # Idle /\ n \in DOMAIN Plan.links
    BY <1>5, RunKnown DEF LinkStep, At
  <2>2. Plan.host \in Hosts /\ mode[Plan.host] # "copy"
    BY <2>1, RunKnown DEF PlansKnown, PlanKnown
  <2> QED
    BY <1>5, <2>1, <2>2 DEF LinkStep, TypeOK, TargetTyped, bounds
<1>6. CASE RecordStep
  <2>1. Plan.after \in Texts /\ Missing \in Texts /\ build \in 1..2
    BY <1>6, RunKnown DEF RecordStep, At, PlanType, TypeOK, Texts
  <2>2. RecordOf(Plan) \in [release : 0..2, text : Texts]
    BY <2>1 DEF RecordOf, NoRecord
  <2> QED
    BY <1>6, <2>2 DEF RecordStep, TypeOK, TargetTyped, bounds
<1>7. CASE SaveResult
  BY <1>7 DEF SaveResult, At, bounds, TypeOK, TargetTyped
<1>8. CASE Halts
  BY <1>8 DEF Halts, Stop, TypeOK, TargetTyped
<1>9. CASE Edit
  <2>1. TargetTyped
    BY TypeParts
  <2>2. UNCHANGED <<bridgeOf, mode, record>>
    BY <1>9 DEF Edit
  <2>3. CASE /\ UNCHANGED <<link, bridge>>
             /\ \E h \in Hosts, n \in Names \cup {Old}, to \in {Gone, Edited} :
                  file' = [file EXCEPT ![Asset(h, n)] = to]
    <3>1. {Gone, Edited} \subseteq Contents
      BY DEF Contents
    <3> QED
      BY <2>1, <2>2, <2>3, <3>1 DEF TargetTyped
  <2>4. CASE /\ UNCHANGED <<file, bridge>>
             /\ \E h \in Hosts, n \in Names : mode[h] = "symlink" /\ link' = [link EXCEPT ![h][n] = Edited]
    <3>1. PICK h \in Hosts, n \in Names : mode[h] # "copy" /\ link' = [link EXCEPT ![h][n] = Edited]
      BY <2>4
    <3> QED
      BY <2>1, <2>2, <2>4, <3>1 DEF TargetTyped
  <2>5. CASE /\ UNCHANGED <<file, link>>
             /\ \E b \in Bridges : /\ bridge[b] # Missing
                  /\ \E t \in {Missing, Append(bridge[b], "tail"), <<"words", "broken block">>} :
                       bridge' = [bridge EXCEPT ![b] = t]
    <3>8. \A s \in Seq(Pieces), piece \in Pieces : Append(s, piece) \in Seq(Pieces)
      OBVIOUS
    <3>9. \A piece, other \in Pieces : <<piece, other>> \in Seq(Pieces)
      OBVIOUS
    <3>0. PICK b \in Bridges : /\ bridge[b] # Missing
            /\ \E t \in {Missing, Append(bridge[b], "tail"), <<"words", "broken block">>} :
                 bridge' = [bridge EXCEPT ![b] = t]
      BY <2>5
    <3>2. bridge[b] \in Seq(Pieces)
      BY <2>1, <3>0 DEF TargetTyped, Texts, Pieces
    <3>3. "tail" \in Pieces /\ "words" \in Pieces /\ "broken block" \in Pieces
      BY DEF Pieces
    <3>6. Append(bridge[b], "tail") \in Seq(Pieces)
      BY <3>2, <3>3, <3>8
    <3>7. <<"words", "broken block">> \in Seq(Pieces)
      BY <3>3, <3>9
    <3>1. PICK t \in {Missing, Append(bridge[b], "tail"), <<"words", "broken block">>} :
            bridge[b] # Missing /\ bridge' = [bridge EXCEPT ![b] = t]
      BY <3>0
    <3>4. t = Missing \/ t \in Seq(Pieces)
      BY <3>1, <3>6, <3>7
    <3>5. t \in Texts
      BY <3>4 DEF Texts, Pieces
    <3> QED
      BY <2>1, <2>2, <2>5, <3>1, <3>5 DEF TargetTyped
  <2> QED
    BY <1>9, <2>3, <2>4, <2>5 DEF Edit
<1>10. CASE Upgrade
  BY <1>10 DEF Upgrade, bounds, TypeOK, TargetTyped
<1>11. CASE UNCHANGED vars
  BY <1>11 DEF vars, bounds, TypeOK, TargetTyped
<1> QED
  BY Steps, <1>1, <1>2, <1>3, <1>4, <1>5, <1>6, <1>7, <1>8, <1>9, <1>10, <1>11

\* Plans keep their types.
LEMMA NextPlansTyped == TypeOK /\ Migrated /\ [Next]_vars => PlansTyped'
<1> SUFFICES ASSUME TypeOK, Migrated, [Next]_vars PROVE PlansTyped'
  OBVIOUS
<1>1. ASSUME NEW o \in Ops, NEW h \in Hosts, NEW kept \in BOOLEAN, PlanChange(o, h, kept)
      PROVE  PlansTyped'
  <2>1. PICK p : plans' = [plans EXCEPT ![o] = p] /\ PlanType(p)
    BY <1>1, PlanMade
  <2>2. PlanType(p)' /\ \A q \in Ops : PlanType(plans[q]) => PlanType(plans[q])'
    BY <1>1, <2>1 DEF PlanChange, PlanType, HasBridge, TypeOK
  <2> QED
    BY <1>1, <2>1, <2>2 DEF TypeOK, PlansTyped, Planned, PlanType, PlanChange, HasBridge
<1>2. ASSUME NEW o \in Ops, Start(o)
      PROVE  PlansTyped'
  BY <1>2 DEF Start, bounds, TypeOK, PlansTyped, Planned, PlanType, HasBridge
<1>3. ASSUME NEW n \in run.todo, FileStep(n)
      PROVE  PlansTyped'
  BY <1>3 DEF FileStep, At, Done, bounds, TypeOK, PlansTyped, Planned, PlanType, HasBridge
<1>4. CASE ChangeBridge
  BY <1>4 DEF ChangeBridge, At, GoTo, bounds, TypeOK, PlansTyped, Planned, PlanType,
       HasBridge
<1>5. ASSUME NEW n \in run.todo, LinkStep(n)
      PROVE  PlansTyped'
  BY <1>5 DEF LinkStep, At, Done, bounds, TypeOK, PlansTyped, Planned, PlanType, HasBridge
<1>6. CASE RecordStep
  BY <1>6 DEF RecordStep, At, GoTo, bounds, TypeOK, PlansTyped, Planned, PlanType, HasBridge
<1>7. CASE SaveResult
  BY <1>7 DEF SaveResult, At, bounds, TypeOK, PlansTyped, Planned, PlanType, HasBridge
<1>8. CASE Halts
  BY <1>8 DEF Halts, Stop, TypeOK, PlansTyped, Planned, PlanType, HasBridge
<1>9. CASE Edit
  BY <1>9 DEF Edit, TypeOK, PlansTyped, Planned, PlanType, HasBridge
<1>10. CASE Upgrade
  BY <1>10 DEF Upgrade, bounds, TypeOK, PlansTyped, Planned, PlanType, HasBridge
<1>11. CASE UNCHANGED vars
  BY <1>11 DEF vars, bounds, TypeOK, PlansTyped, Planned, PlanType, HasBridge
<1> QED
  BY Steps, <1>1, <1>2, <1>3, <1>4, <1>5, <1>6, <1>7, <1>8, <1>9, <1>10, <1>11

\* A run keeps its plan and knows what is left of it.
LEMMA NextRunTyped == TypeOK /\ Migrated /\ [Next]_vars => RunTyped'
<1> SUFFICES ASSUME TypeOK, Migrated, [Next]_vars PROVE RunTyped'
  OBVIOUS
<1>1. ASSUME NEW o \in Ops, NEW h \in Hosts, NEW kept \in BOOLEAN, PlanChange(o, h, kept)
      PROVE  RunTyped'
  <2>1. run' = run /\ (run # Idle => run.op # o)
    BY <1>1 DEF PlanChange, Running
  <2>2. run # Idle => plans'[run.op] = plans[run.op]
    <3>1. PICK p : plans' = [plans EXCEPT ![o] = p]
      BY <1>1, PlanMade
    <3> QED
      BY <2>1, <3>1, RunKnown DEF TypeOK
  <2> QED
    BY <2>1, <2>2, TypeParts DEF RunTyped, Plan
<1>2. ASSUME NEW o \in Ops, Start(o)
      PROVE  RunTyped'
  <2>1. plans[o] # NoPlan /\ plans' = plans /\ run' = [op |-> o, at |-> "files", todo |-> DOMAIN plans[o].files]
    BY <1>2 DEF Start
  <2>2. DOMAIN plans[o].files \subseteq Names \cup {Old}
    BY <2>1 DEF TypeOK, PlanType
  <2> QED
    BY <2>1, <2>2 DEF RunTyped, Plan
<1>3. ASSUME NEW n \in run.todo, FileStep(n)
      PROVE  RunTyped'
  <2>1. run # Idle /\ run.at = "files" /\ run' = [run EXCEPT !.todo = @ \ {n}] /\ plans' = plans
    BY <1>3 DEF FileStep, At, Done
  <2> QED
    BY <2>1, RunKnown DEF RunTyped, Plan, At, Planned
<1>4. CASE ChangeBridge
  <2>1. run # Idle /\ run' = [run EXCEPT !.at = "links", !.todo = DOMAIN Plan.links] /\ plans' = plans
    BY <1>4 DEF ChangeBridge, At, GoTo
  <2>2. DOMAIN Plan.links \subseteq Names \cup {Old}
    BY <2>1, RunKnown DEF PlanType
  <2> QED
    BY <2>1, <2>2, RunKnown DEF RunTyped, Plan, Planned
<1>5. ASSUME NEW n \in run.todo, LinkStep(n)
      PROVE  RunTyped'
  <2>1. run # Idle /\ run.at = "links" /\ run' = [run EXCEPT !.todo = @ \ {n}] /\ plans' = plans
    BY <1>5 DEF LinkStep, At, Done
  <2> QED
    BY <2>1, RunKnown DEF RunTyped, Plan, At, Planned
<1>6. CASE RecordStep
  <2>1. run # Idle /\ run' = [run EXCEPT !.at = "result", !.todo = {}] /\ plans' = plans
    BY <1>6 DEF RecordStep, At, GoTo
  <2> QED
    BY <2>1, RunKnown DEF RunTyped, Plan, Planned
<1>7. CASE SaveResult \/ Halts
  BY <1>7, TypeParts DEF SaveResult, At, bounds, Halts, Stop, RunTyped, Plan
<1>8. CASE Edit
  BY <1>8, TypeParts DEF Edit, RunTyped, Plan
<1>9. CASE Upgrade
  BY <1>9, TypeParts DEF Upgrade, bounds, RunTyped, Plan
<1>10. CASE UNCHANGED vars
  BY <1>10, TypeParts DEF vars, bounds, RunTyped, Plan
<1> QED
  BY Steps, <1>1, <1>2, <1>3, <1>4, <1>5, <1>6, <1>7, <1>8, <1>9, <1>10

\* Counters and sets keep their types.
LEMMA NextHistoryTyped == TypeOK /\ [Next]_vars => HistoryTyped'
<1> SUFFICES ASSUME TypeOK, [Next]_vars PROVE HistoryTyped'
  OBVIOUS
<1>1. ASSUME NEW o \in Ops, NEW h \in Hosts, NEW kept \in BOOLEAN, PlanChange(o, h, kept)
      PROVE  HistoryTyped'
  BY <1>1, TypeParts DEF PlanChange, bounds, HistoryTyped
<1>2. ASSUME NEW o \in Ops, Start(o)
      PROVE  HistoryTyped'
  BY <1>2, TypeParts DEF Start, bounds, HistoryTyped
<1>3. ASSUME NEW n \in run.todo, FileStep(n)
      PROVE  HistoryTyped'
  BY <1>3, TypeParts DEF FileStep, At, Done, bounds, HistoryTyped
<1>4. CASE ChangeBridge
  BY <1>4, TypeParts DEF ChangeBridge, At, GoTo, bounds, HistoryTyped
<1>5. ASSUME NEW n \in run.todo, LinkStep(n)
      PROVE  HistoryTyped'
  BY <1>5, TypeParts DEF LinkStep, At, Done, bounds, HistoryTyped
<1>6. CASE RecordStep
  BY <1>6, TypeParts DEF RecordStep, At, GoTo, bounds, HistoryTyped
<1>7. CASE SaveResult
  <2>1. run.op \in Ops
    BY <1>7, RunKnown DEF SaveResult, At
  <2> QED
    BY <1>7, <2>1, TypeParts DEF SaveResult, HistoryTyped, bounds
<1>8. CASE Halts
  <2>1. run.op \in Ops
    BY <1>8, RunKnown DEF Halts
  <2>2. stops' \in Nat
    BY <1>8, SkillAssumption DEF Halts, TypeOK
  <2> QED
    BY <1>8, <2>1, <2>2 DEF Halts, Stop, TypeOK, HistoryTyped, bounds
<1>9. CASE Edit
  <2>1. late' \in BOOLEAN
    BY <1>9 DEF Edit
  <2>2. edits' \in 0..MaxEdits
    <3>1. edits < MaxEdits /\ edits' = edits + 1
      BY <1>9 DEF Edit
    <3> QED
      BY <3>1, SkillAssumption DEF TypeOK
  <2> QED
    BY <1>9, <2>1, <2>2, TypeParts DEF Edit, HistoryTyped
<1>10. CASE Upgrade
  BY <1>10, TypeParts DEF Upgrade, bounds, HistoryTyped
<1>11. CASE UNCHANGED vars
  BY <1>11, TypeParts DEF vars, bounds, HistoryTyped
<1> QED
  BY Steps, <1>1, <1>2, <1>3, <1>4, <1>5, <1>6, <1>7, <1>8, <1>9, <1>10, <1>11

\* Every step keeps the types.
LEMMA NextTyped == TypeOK /\ PlansKnown /\ Migrated /\ [Next]_vars => TypeOK'
<1> SUFFICES ASSUME TypeOK, PlansKnown, Migrated, [Next]_vars PROVE TypeOK'
  OBVIOUS
<1>1. stops' \in 0..MaxStops
  <2>1. \/ stops' = stops
        \/ stops < MaxStops /\ stops' = stops + 1
    <3>1. CASE Interrupt
      BY <3>1 DEF Interrupt
    <3>2. CASE Edit
      BY <3>2 DEF Edit
    <3>3. ASSUME NEW o \in Ops, NEW h \in Hosts, NEW kept \in BOOLEAN, PlanChange(o, h, kept) \/ Start(o)
          PROVE  stops' = stops
      BY <3>3 DEF PlanChange, Start, bounds
    <3>4. CASE ChangeFile \/ ChangeBridge \/ ChangeLink \/ FinalizeOwnership \/ SaveResult
      BY <3>4 DEF ChangeFile, ChangeBridge, ChangeLink, FinalizeOwnership, SaveResult, bounds
    <3>5. CASE Upgrade \/ UNCHANGED vars
      BY <3>5 DEF Upgrade, vars, bounds
    <3>6. CASE \E o \in Ops : Start(o)
      BY <3>6 DEF Start, bounds
    <3> QED
      BY <3>1, <3>2, <3>3, <3>4, <3>5, <3>6 DEF Next
  <2> QED
    BY <2>1, SkillAssumption DEF TypeOK
<1>2. TargetTyped' /\ PlansTyped' /\ RunTyped' /\ HistoryTyped'
  BY NextTargetTyped, NextPlansTyped, NextRunTyped, NextHistoryTyped
<1>3. (TypeOK <=> TargetTyped /\ PlansTyped /\ RunTyped /\ HistoryTyped /\ stops \in 0..MaxStops)'
  BY TypeParts, PTL
<1> QED
  BY <1>1, <1>2, <1>3

\* What a plan is it stays.
LEMMA NextPlansKnown == TypeOK /\ PlansKnown /\ Migrated /\ [Next]_vars => PlansKnown'
<1> SUFFICES ASSUME TypeOK, PlansKnown, Migrated, [Next]_vars PROVE PlansKnown'
  OBVIOUS
<1>1. ASSUME NEW o \in Ops, NEW h \in Hosts, NEW kept \in BOOLEAN, PlanChange(o, h, kept)
      PROVE  PlansKnown'
  <2>1. PICK p : plans' = [plans EXCEPT ![o] = p] /\ PlanType(p) /\ PlanKnown(p)
    BY <1>1, PlanMade
  <2>2. mode' = mode /\ build' = build
    BY <1>1 DEF PlanChange
  <2>3. PlanKnown(p)' /\ \A q \in Ops : Planned(q) => PlanKnown(plans[q])'
    BY <2>1, <2>2 DEF PlansKnown, PlanKnown, Installs
  <2> QED
    BY <2>1, <2>3 DEF TypeOK, PlansKnown, Planned, PlanKnown, Installs
<1>2. ASSUME NEW o \in Ops, Start(o)
      PROVE  PlansKnown'
  BY <1>2, TypeParts DEF Start, bounds, PlansKnown, PlanKnown, Planned, Installs, TypeOK
<1>3. ASSUME NEW n \in run.todo, FileStep(n)
      PROVE  PlansKnown'
  BY <1>3, TypeParts DEF FileStep, At, Done, bounds, PlansKnown, PlanKnown, Planned,
       Installs, TypeOK
<1>4. CASE ChangeBridge
  BY <1>4, TypeParts DEF ChangeBridge, At, GoTo, bounds, PlansKnown, PlanKnown, Planned,
       Installs, TypeOK
<1>5. ASSUME NEW n \in run.todo, LinkStep(n)
      PROVE  PlansKnown'
  BY <1>5, TypeParts DEF LinkStep, At, Done, bounds, PlansKnown, PlanKnown, Planned,
       Installs, TypeOK
<1>6. CASE RecordStep
  BY <1>6, TypeParts DEF RecordStep, At, GoTo, bounds, PlansKnown, PlanKnown, Planned,
       Installs, TypeOK
<1>7. CASE SaveResult
  BY <1>7, TypeParts DEF SaveResult, At, bounds, PlansKnown, PlanKnown, Planned, Installs,
       TypeOK
<1>8. CASE Halts
  BY <1>8, TypeParts DEF Halts, Stop, PlansKnown, PlanKnown, Planned, Installs, TypeOK
<1>9. CASE Edit
  BY <1>9, TypeParts DEF Edit, PlansKnown, PlanKnown, Planned, Installs, TypeOK
<1>10. CASE Upgrade
  <2>1. build = 1 /\ build' = 2 /\ mode' = mode /\ plans' = plans
    BY <1>10 DEF Upgrade
  <2>2. 0..build \subseteq 0..build'
    BY <2>1
  <2> QED
    BY <2>1, <2>2 DEF PlansKnown, PlanKnown, Planned, Installs
<1>11. CASE UNCHANGED vars
  BY <1>11, TypeParts DEF vars, bounds, PlansKnown, PlanKnown, Planned, Installs, TypeOK
<1> QED
  BY Steps, <1>1, <1>2, <1>3, <1>4, <1>5, <1>6, <1>7, <1>8, <1>9, <1>10, <1>11

-----------------------------------------------------------------------------
(* The old Skill                                                           *)

\* The old Skill is there and untouched if its file is, and a link leads to it.
LEMMA LegacyIs ==
  ASSUME TypeOK, NEW h \in Hosts
  PROVE  LegacyIntact(h) <=> file[Asset(h, Old)] = 1 /\ (Linked(h) => link[h][Old] = 1)
<1>1. CASE mode[h] = "symlink"
  BY <1>1 DEF LegacyIntact, LegacyHere, Linked, Gone
<1>2. CASE mode[h] = "copy"
  <2>1. Asset(h, Old) = <<h, Old>>
    BY <1>2 DEF Asset, AssetRoot
  <2> QED
    BY <1>2, <2>1 DEF LegacyIntact, LegacyHere, Linked, Gone
<1> QED
  BY <1>1, <1>2 DEF TypeOK

\* Nothing brings the old Skill back.
LegacyGone ==
  \A h \in Hosts : /\ file'[Asset(h, Old)] = 1 => file[Asset(h, Old)] = 1
                   /\ link'[h][Old] = 1 => link[h][Old] = 1

LEMMA NextLegacy == TypeOK /\ PlansKnown /\ [Next]_vars => LegacyGone
<1> SUFFICES ASSUME TypeOK, PlansKnown, [Next]_vars PROVE LegacyGone
  OBVIOUS
<1> USE DEF LegacyGone
<1>1. ASSUME NEW o \in Ops, NEW h \in Hosts, NEW kept \in BOOLEAN, PlanChange(o, h, kept)
      PROVE  LegacyGone
  BY <1>1 DEF PlanChange, bounds
<1>2. ASSUME NEW o \in Ops, Start(o)
      PROVE  LegacyGone
  BY <1>2 DEF Start, bounds
<1>3. ASSUME NEW n \in run.todo, FileStep(n)
      PROVE  LegacyGone
  <2>1. run # Idle /\ n \in DOMAIN Plan.files /\ Asset(Plan.host, n) \in Paths
    BY <1>3, RunKnown, AssetTyped DEF FileStep, At
  <2>2. Plan.files[n].after # Gone => n \in Names
    BY <2>1, RunKnown DEF PlansKnown, PlanKnown
  <2>3. ASSUME NEW h \in Hosts, file'[Asset(h, Old)] # file[Asset(h, Old)]
        PROVE  file'[Asset(h, Old)] # 1
    <3>1. Asset(h, Old) = Asset(Plan.host, n)
      BY <1>3, <2>1, <2>3 DEF FileStep, TypeOK
    <3>2. n = Old
      BY <3>1 DEF Asset
    <3> QED
      BY <1>3, <2>1, <2>2, <3>1, <3>2, ConstantsTyped DEF FileStep, TypeOK, Gone
  <2> QED
    BY <1>3, <2>3 DEF FileStep
<1>4. ASSUME NEW n \in run.todo, LinkStep(n)
      PROVE  LegacyGone
  <2>1. run # Idle /\ n \in DOMAIN Plan.links /\ Plan.host \in Hosts /\ n \in Names \cup {Old}
    BY <1>4, RunKnown DEF LinkStep, At
  <2>2. Plan.links[n] => n \in Names
    BY <2>1, RunKnown DEF PlansKnown, PlanKnown
  <2>3. n = Old => link' = [link EXCEPT ![Plan.host][n] = Gone]
    BY <1>4, <2>1, <2>2, ConstantsTyped DEF LinkStep
  <2> QED
    BY <1>4, <2>1, <2>3, ConstantsTyped DEF LinkStep, TypeOK, Gone
<1>5. CASE ChangeBridge \/ RecordStep \/ SaveResult \/ Halts
  BY <1>5 DEF ChangeBridge, At, GoTo, bounds, RecordStep, SaveResult, Halts, Stop
<1>6. CASE Edit
  <2>1. CASE /\ UNCHANGED <<link, bridge>>
             /\ \E h \in Hosts, n \in Names \cup {Old}, to \in {Gone, Edited} :
                  file' = [file EXCEPT ![Asset(h, n)] = to]
    <3>1. PICK h \in Hosts, n \in Names \cup {Old}, to \in {Gone, Edited} :
            file' = [file EXCEPT ![Asset(h, n)] = to]
      BY <2>1
    <3> QED
      BY <2>1, <3>1 DEF TypeOK, Gone, Edited
  <2>2. CASE UNCHANGED file /\ \E h \in Hosts, n \in Names : link' = [link EXCEPT ![h][n] = Edited]
    <3>1. PICK h \in Hosts, n \in Names : link' = [link EXCEPT ![h][n] = Edited]
      BY <2>2
    <3> QED
      BY <2>2, <3>1, ConstantsTyped DEF TypeOK, Edited
  <2>3. CASE UNCHANGED <<file, link>>
    BY <2>3
  <2> QED
    BY <1>6, <2>1, <2>2, <2>3 DEF Edit
<1>7. CASE Upgrade
  BY <1>7 DEF Upgrade, bounds
<1>8. CASE UNCHANGED vars
  BY <1>8 DEF vars, bounds
<1> QED
  BY Steps, <1>1, <1>2, <1>3, <1>4, <1>5, <1>6, <1>7, <1>8

LEMMA LegacyStays ==
  TypeOK /\ PlansKnown /\ Migrated /\ [Next]_vars =>
    /\ mode' = mode
    /\ \A h \in Hosts : LegacyIntact(h)' => LegacyIntact(h) /\ file'[Asset(h, Old)] = 1
<1> SUFFICES ASSUME TypeOK, PlansKnown, Migrated, [Next]_vars
    PROVE  /\ mode' = mode
           /\ \A h \in Hosts : LegacyIntact(h)' => LegacyIntact(h) /\ file'[Asset(h, Old)] = 1
  OBVIOUS
<1>1. mode' = mode
  BY Steps DEF vars, PlanChange, Start, FileStep, ChangeBridge, LinkStep, RecordStep, SaveResult,
     Halts, Edit, Upgrade
<1>2. LegacyGone
  BY NextLegacy
<1>3. TypeOK'
  BY NextTyped
<1>4. ASSUME NEW h \in Hosts
      PROVE  LegacyIntact(h)' => file'[Asset(h, Old)] = 1 /\ (Linked(h) => link'[h][Old] = 1)
  BY <1>1, <1>3 DEF TypeOK, LegacyIntact, LegacyHere, Linked, Asset, AssetRoot, Gone
<1>5. ASSUME NEW h \in Hosts
      PROVE  LegacyIntact(h)' => LegacyIntact(h)
  BY <1>2, <1>4, <1>5, LegacyIs DEF LegacyGone
<1> QED
  BY <1>1, <1>4, <1>5

\* Plans come from planning, and go.
Made(p) ==
  /\ PlanType(p) /\ PlanKnown(p)
  /\ Installs(p) =>
       /\ LegacyIntact(p.host) => Old \in DOMAIN p.files
       /\ build = 2 /\ record[p.host].release = 1 => Suite[1] \subseteq DOMAIN p.files
       /\ ~p.upgrade => record[p.host].release \in {0, build}

PlanStep(q) ==
  \/ plans'[q] \in {plans[q], NoPlan}
  \/ Made(plans'[q]) /\ UNCHANGED <<bridgeOf, mode, file, link, bridge, record, build>>

LEMMA NextPlans == TypeOK /\ Migrated /\ [Next]_vars => \A q \in Ops : PlanStep(q)
<1> SUFFICES ASSUME TypeOK, Migrated, [Next]_vars PROVE \A q \in Ops : PlanStep(q)
  OBVIOUS
<1>1. ASSUME NEW o \in Ops, NEW h \in Hosts, NEW kept \in BOOLEAN, PlanChange(o, h, kept)
      PROVE  \A q \in Ops : PlanStep(q)
  <2>1. PICK p : plans' = [plans EXCEPT ![o] = p] /\ Made(p)
    BY <1>1, PlanMade DEF Made
  <2> QED
    BY <1>1, <2>1 DEF PlanStep, PlanChange, TypeOK
<1>2. ASSUME NEW o \in Ops, Start(o)
      PROVE  \A q \in Ops : PlanStep(q)
  BY <1>2, RunKnown DEF Start, bounds, PlanStep, TypeOK
<1>3. ASSUME NEW n \in run.todo, FileStep(n)
      PROVE  \A q \in Ops : PlanStep(q)
  BY <1>3, RunKnown DEF FileStep, At, Done, bounds, PlanStep, TypeOK
<1>4. CASE ChangeBridge
  BY <1>4, RunKnown DEF ChangeBridge, At, GoTo, bounds, PlanStep, TypeOK
<1>5. ASSUME NEW n \in run.todo, LinkStep(n)
      PROVE  \A q \in Ops : PlanStep(q)
  BY <1>5, RunKnown DEF LinkStep, At, Done, bounds, PlanStep, TypeOK
<1>6. CASE RecordStep
  BY <1>6, RunKnown DEF RecordStep, At, GoTo, bounds, PlanStep, TypeOK
<1>7. CASE SaveResult
  BY <1>7, RunKnown DEF SaveResult, At, bounds, PlanStep, TypeOK
<1>8. CASE Halts
  BY <1>8, RunKnown DEF Halts, Stop, PlanStep, TypeOK
<1>9. CASE Edit
  BY <1>9, RunKnown DEF Edit, PlanStep, TypeOK
<1>10. CASE Upgrade
  BY <1>10, RunKnown DEF Upgrade, bounds, PlanStep, TypeOK
<1>11. CASE UNCHANGED vars
  BY <1>11, RunKnown DEF vars, bounds, PlanStep, TypeOK
<1> QED
  BY Steps, <1>1, <1>2, <1>3, <1>4, <1>5, <1>6, <1>7, <1>8, <1>9, <1>10, <1>11

\* A stored installation covers the old Skill.
LEMMA NextLegacyPlanned ==
  TypeOK /\ PlansKnown /\ Migrated /\ LegacyPlanned /\ [Next]_vars => LegacyPlanned'
<1> SUFFICES ASSUME TypeOK, PlansKnown, Migrated, LegacyPlanned, [Next]_vars,
                    NEW q \in Ops, NEW h \in Hosts,
                    Planned(q)', Installs(plans'[q]), plans'[q].host = h, LegacyIntact(h)'
    PROVE  Old \in DOMAIN plans'[q].files
  BY DEF LegacyPlanned, Installs
<1>3. LegacyIntact(h)
  BY LegacyStays
<1>1. CASE plans'[q] = plans[q]
  BY <1>1, <1>3 DEF LegacyPlanned, Planned
<1>2. CASE Made(plans'[q])
  BY <1>2, <1>3 DEF Made
<1> QED
  BY <1>1, <1>2, NextPlans DEF PlanStep, Planned

\* A record is replaced at the end of a run, by one of the installed release or none.
RecordReplaced ==
  \A h \in Hosts :
    \/ record'[h] = record[h]
    \/ /\ RecordStep /\ Plan.host = h /\ record'[h] = RecordOf(Plan) /\ build' = build
       /\ record'[h].release = IF Installs(Plan) THEN build ELSE 0

LEMMA NextRecord == TypeOK /\ [Next]_vars => RecordReplaced
<1> SUFFICES ASSUME TypeOK, [Next]_vars PROVE RecordReplaced
  OBVIOUS
<1>1. ASSUME NEW o \in Ops, NEW h \in Hosts, NEW kept \in BOOLEAN, PlanChange(o, h, kept)
      PROVE  RecordReplaced
  BY <1>1 DEF PlanChange, bounds, RecordOf, NoRecord, TypeOK, RecordReplaced
<1>2. ASSUME NEW o \in Ops, Start(o)
      PROVE  RecordReplaced
  BY <1>2 DEF Start, bounds, RecordOf, NoRecord, TypeOK, RecordReplaced
<1>3. ASSUME NEW n \in run.todo, FileStep(n)
      PROVE  RecordReplaced
  BY <1>3 DEF FileStep, At, Done, bounds, RecordOf, NoRecord, TypeOK, RecordReplaced
<1>4. CASE ChangeBridge
  BY <1>4 DEF ChangeBridge, At, GoTo, bounds, RecordOf, NoRecord, TypeOK, RecordReplaced
<1>5. ASSUME NEW n \in run.todo, LinkStep(n)
      PROVE  RecordReplaced
  BY <1>5 DEF LinkStep, At, Done, bounds, RecordOf, NoRecord, TypeOK, RecordReplaced
<1>6. CASE RecordStep
  BY <1>6, RunKnown
     DEF Installs, RecordStep, At, GoTo, bounds, RecordOf, NoRecord, TypeOK, RecordReplaced
<1>7. CASE SaveResult
  BY <1>7 DEF SaveResult, At, bounds, RecordOf, NoRecord, TypeOK, RecordReplaced
<1>8. CASE Halts
  BY <1>8 DEF Halts, Stop, RecordOf, NoRecord, TypeOK, RecordReplaced
<1>9. CASE Edit
  BY <1>9 DEF Edit, RecordOf, NoRecord, TypeOK, RecordReplaced
<1>10. CASE Upgrade
  BY <1>10 DEF Upgrade, bounds, RecordOf, NoRecord, TypeOK, RecordReplaced
<1>11. CASE UNCHANGED vars
  BY <1>11 DEF vars, bounds, RecordOf, NoRecord, TypeOK, RecordReplaced
<1> QED
  BY Steps, <1>1, <1>2, <1>3, <1>4, <1>5, <1>6, <1>7, <1>8, <1>9, <1>10, <1>11

\* A run of an installation has taken the old Skill away.
LEMMA NextRunMigrated ==
  TypeOK /\ PlansKnown /\ Migrated /\ LegacyPlanned /\ RunMigrated /\
  [Next]_vars => RunMigrated'
<1> SUFFICES ASSUME TypeOK, PlansKnown, Migrated, LegacyPlanned, RunMigrated, [Next]_vars
             PROVE  RunMigrated'
  OBVIOUS
<1>1. ASSUME NEW o \in Ops, NEW h \in Hosts, NEW kept \in BOOLEAN, PlanChange(o, h, kept)
      PROVE  RunMigrated'
  <2>1. run' = run /\ run.op # o
    BY <1>1 DEF PlanChange, Running
  <2>2. run # Idle => plans'[run.op] = plans[run.op]
    <3>1. PICK p : plans' = [plans EXCEPT ![o] = p]
      BY <1>1, PlanMade
    <3> QED
      BY <2>1, <3>1, RunKnown DEF TypeOK
  <2> QED
    BY <2>1, <2>2, LegacyStays DEF RunMigrated, Plan, Installs, At
<1>2. ASSUME NEW o \in Ops, Start(o)
      PROVE  RunMigrated'
  <2>1. plans[o] # NoPlan /\ plans' = plans /\ run' = [op |-> o, at |-> "files", todo |-> DOMAIN plans[o].files]
    BY <1>2 DEF Start
  <2>2. Plan' = plans[o]
    BY <2>1 DEF Plan
  <2>3. \A h \in Hosts :
          Installs(plans[o]) /\ plans[o].host = h /\ LegacyIntact(h) => Old \in DOMAIN plans[o].files
    BY <2>1 DEF LegacyPlanned, Planned
  <2> QED
    BY <2>1, <2>2, <2>3, LegacyStays DEF RunMigrated, Installs, At
<1>3. ASSUME NEW n \in run.todo, FileStep(n)
      PROVE  RunMigrated'
  <2>1. run # Idle /\ run.at = "files" /\ run' = [run EXCEPT !.todo = @ \ {n}] /\ plans' = plans
    BY <1>3 DEF FileStep, At, Done
  <2>2. run'.at = "files" /\ run'.op = run.op /\ run'.todo = run.todo \ {n} /\ Plan' = Plan
    BY <2>1, RunKnown DEF Plan
  <2>3. ASSUME NEW h \in Hosts, Plan.host = h, n = Old
        PROVE  ~LegacyIntact(h)'
    <3>1. Asset(h, Old) \in Paths
      BY <2>3, AssetTyped
    <3>2. Plan.files[n].after = Gone
      BY <1>3, <2>1, <2>3, RunKnown, ConstantsTyped DEF FileStep, At, PlansKnown, PlanKnown
    <3>3. file'[Asset(h, Old)] = Gone
      BY <1>3, <2>3, <3>1, <3>2 DEF FileStep, TypeOK
    <3> QED
      BY <3>3, LegacyStays DEF Gone
  <2> QED
    BY <2>1, <2>2, <2>3, LegacyStays DEF RunMigrated, Installs, At
<1>4. CASE ChangeBridge
  BY <1>4, LegacyStays DEF ChangeBridge, At, GoTo, bounds, RunMigrated, Plan, Installs, At
<1>5. ASSUME NEW n \in run.todo, LinkStep(n)
      PROVE  RunMigrated'
  BY <1>5, LegacyStays DEF LinkStep, At, Done, bounds, RunMigrated, Plan, Installs, At
<1>6. CASE RecordStep
  BY <1>6, LegacyStays DEF RecordStep, At, GoTo, bounds, RunMigrated, Plan, Installs, At
<1>7. CASE SaveResult
  BY <1>7, LegacyStays DEF SaveResult, At, bounds, RunMigrated, Plan, Installs, At
<1>8. CASE Halts
  BY <1>8, LegacyStays DEF Halts, Stop, RunMigrated, Plan, Installs, At
<1>9. CASE Edit
  BY <1>9, LegacyStays DEF Edit, RunMigrated, Plan, Installs, At
<1>10. CASE Upgrade
  BY <1>10, LegacyStays DEF Upgrade, bounds, RunMigrated, Plan, Installs, At
<1>11. CASE UNCHANGED vars
  BY <1>11, LegacyStays DEF vars, bounds, RunMigrated, Plan, Installs, At
<1> QED
  BY Steps, <1>1, <1>2, <1>3, <1>4, <1>5, <1>6, <1>7, <1>8, <1>9, <1>10, <1>11

\* The old Skill is gone where the suite is recorded.
LEMMA NextMigrated ==
  TypeOK /\ PlansKnown /\ Migrated /\ RunMigrated /\ [Next]_vars => Migrated'
<1> SUFFICES ASSUME TypeOK, PlansKnown, Migrated, RunMigrated, [Next]_vars,
                    NEW h \in Hosts, record'[h].release # 0
    PROVE  ~LegacyIntact(h)'
  BY DEF Migrated
<1>1. CASE record'[h] = record[h]
  BY <1>1, LegacyStays DEF Migrated
<1>2. CASE RecordStep /\ Plan.host = h /\ Installs(Plan)
  <2>1. ~LegacyIntact(h)
    BY <1>2 DEF RecordStep, RunMigrated, At
  <2> QED
    BY <2>1, LegacyStays
<1> QED
  BY <1>1, <1>2, NextRecord DEF RecordReplaced

\* What a new plan of the second release covers stays all that is recorded of the first.
LEMMA NextUpgradePlanned ==
  TypeOK /\ PlansKnown /\ Migrated /\ UpgradePlanned /\ [Next]_vars => UpgradePlanned'
<1> SUFFICES ASSUME TypeOK, PlansKnown, Migrated, UpgradePlanned, [Next]_vars,
                    build' = 2, NEW q \in Ops, Planned(q)', Installs(plans'[q]),
                    \E n \in DOMAIN plans'[q].files : plans'[q].files[n].after = 2,
                    record'[plans'[q].host].release = 1
    PROVE  Suite[1] \subseteq DOMAIN plans'[q].files
  BY DEF UpgradePlanned, Installs
<1>1. plans'[q].host \in Hosts
  BY NextTyped DEF TypeOK, Planned, PlanType
<1>2. CASE plans'[q] = plans[q]
  <2>1. Planned(q) /\ PlanKnown(plans[q])
    BY <1>2 DEF Planned, PlansKnown
  <2>2. build = 2
    BY <1>2, <2>1 DEF PlanKnown, TypeOK
  <2>3. record[plans[q].host].release = 1
    BY <1>1, <1>2, <2>2, NextRecord DEF RecordReplaced
  <2> QED
    BY <1>2, <2>1, <2>2, <2>3 DEF UpgradePlanned
<1>3. CASE Made(plans'[q]) /\ UNCHANGED <<bridgeOf, mode, file, link, bridge, record, build>>
  BY <1>3 DEF Made
<1> QED
  BY <1>2, <1>3, NextPlans DEF PlanStep, Planned

-----------------------------------------------------------------------------
(* Runs                                                                    *)

\* Planning leaves the run and its plan alone.
LEMMA PlanKeepsRun ==
  ASSUME TypeOK, Migrated, NEW o \in Ops, NEW h \in Hosts, NEW kept \in BOOLEAN, PlanChange(o, h, kept)
  PROVE  /\ run' = run /\ run.op # o
         /\ run # Idle => plans'[run.op] = plans[run.op]
         /\ UNCHANGED <<bridgeOf, mode, file, link, bridge, record, build, late, edits, stops>>
<1>1. run' = run /\ run.op # o
  BY DEF PlanChange, Running
<1>2. PICK p : plans' = [plans EXCEPT ![o] = p]
  BY PlanMade
<1> QED
  BY <1>1, <1>2, RunKnown DEF PlanChange, TypeOK, bounds

\* Where the steps of a run take it.
LEMMA RunMoves ==
  ASSUME TypeOK
  PROVE  /\ \A o \in Ops : Start(o) => /\ run = Idle /\ plans' = plans /\ run'.op = o /\ run' # Idle
                                       /\ run'.at = "files" /\ run'.todo = DOMAIN plans[o].files
                                       /\ Planned(o) /\ Plan' = plans[o]
         /\ \A n \in run.todo :
              FileStep(n) \/ LinkStep(n) => /\ run # Idle /\ plans' = plans /\ Plan' = Plan
                                            /\ run'.op = run.op /\ run'.at = run.at
                                            /\ run'.todo = run.todo \ {n} /\ run' # Idle
         /\ ChangeBridge => /\ run # Idle /\ run.at = "files" /\ run.todo = {} /\ plans' = plans /\ Plan' = Plan
                            /\ run'.op = run.op /\ run'.at = "links"
                            /\ run'.todo = DOMAIN Plan.links /\ run' # Idle
         /\ RecordStep => /\ run # Idle /\ run.at = "links" /\ run.todo = {} /\ plans' = plans /\ Plan' = Plan
                          /\ run'.op = run.op /\ run'.at = "result"
                          /\ run'.todo = {} /\ run' # Idle
         /\ SaveResult \/ Halts => run' = Idle
<1>1. ASSUME NEW o \in Ops, Start(o)
      PROVE  /\ run = Idle /\ plans' = plans /\ run'.op = o /\ run' # Idle
             /\ run'.at = "files" /\ run'.todo = DOMAIN plans[o].files
             /\ Planned(o) /\ Plan' = plans[o]
  BY <1>1, ConstantsTyped DEF Start, LocksAreFree, Idle, Planned, Plan
<1>2. ASSUME NEW n \in run.todo, FileStep(n) \/ LinkStep(n)
      PROVE  /\ run # Idle /\ plans' = plans /\ Plan' = Plan
             /\ run'.op = run.op /\ run'.at = run.at
             /\ run'.todo = run.todo \ {n} /\ run' # Idle
  <2>1. run # Idle /\ plans' = plans /\ run' = [run EXCEPT !.todo = @ \ {n}]
    BY <1>2 DEF FileStep, LinkStep, At, Done
  <2> QED
    BY <2>1, RunKnown DEF Plan, Idle
<1>3. ASSUME ChangeBridge
      PROVE  /\ run # Idle /\ run.at = "files" /\ run.todo = {} /\ plans' = plans /\ Plan' = Plan
             /\ run'.op = run.op /\ run'.at = "links"
             /\ run'.todo = DOMAIN Plan.links /\ run' # Idle
  <2>1. run # Idle /\ run.at = "files" /\ run.todo = {} /\ plans' = plans
        /\ run' = [run EXCEPT !.at = "links", !.todo = DOMAIN Plan.links]
    BY <1>3 DEF ChangeBridge, At, GoTo
  <2> QED
    BY <2>1, RunKnown DEF Plan, Idle
<1>4. ASSUME RecordStep
      PROVE  /\ run # Idle /\ run.at = "links" /\ run.todo = {} /\ plans' = plans /\ Plan' = Plan
             /\ run'.op = run.op /\ run'.at = "result"
             /\ run'.todo = {} /\ run' # Idle
  <2>1. run # Idle /\ run.at = "links" /\ run.todo = {} /\ plans' = plans
        /\ run' = [run EXCEPT !.at = "result", !.todo = {}]
    BY <1>4 DEF RecordStep, At, GoTo
  <2> QED
    BY <2>1, RunKnown DEF Plan, Idle
<1>5. SaveResult \/ Halts => run' = Idle
  BY DEF SaveResult, Halts, Stop
<1> QED
  BY <1>1, <1>2, <1>3, <1>4, <1>5

\* What the validation has shown stays so as long as the run holds the locks.
LEMMA NextRunValid == TypeOK /\ PlansKnown /\ Migrated /\ RunValid /\ [Next]_vars => RunValid'
<1> SUFFICES ASSUME TypeOK, PlansKnown, Migrated, RunValid, [Next]_vars PROVE RunValid'
  OBVIOUS
<1>1. ASSUME NEW o \in Ops, NEW h \in Hosts, NEW kept \in BOOLEAN, PlanChange(o, h, kept)
      PROVE  RunValid'
  BY <1>1, PlanKeepsRun
     DEF RunValid, InstallValid, UninstallValid, Shared, Owned, HasBridge, Linked, Installs, At,
         Plan
<1>2. ASSUME NEW o \in Ops, Start(o)
      PROVE  RunValid'
  <2>1. UNCHANGED <<bridgeOf, mode, record, build>> /\ Valid(plans[o])
    BY <1>2 DEF Start, Acceptable
  <2>2. PlanKnown(plans[o]) /\ plans[o].host \in Hosts
    BY <1>2, RunMoves DEF PlansKnown, TypeOK, Planned, PlanType
  <2>3. /\ Installs(plans[o]) => InstallValid(plans[o])
        /\ ~Installs(plans[o]) => UninstallValid(plans[o])
    BY <2>1, <2>2, InstallAccepted, UninstallAccepted DEF TypeOK
  <2>4. /\ run'.at = "files" /\ Plan' = plans[o]
    BY <1>2, RunMoves
  <2> QED
    BY <2>1, <2>3, <2>4
       DEF RunValid, InstallValid, UninstallValid, Shared, Owned, HasBridge, Linked, Installs,
           At, Plan
<1>3. ASSUME NEW n \in run.todo, FileStep(n)
      PROVE  RunValid'
  <2>1. UNCHANGED <<bridgeOf, mode, record, build>>
    BY <1>3 DEF FileStep
  <2> QED
    BY <1>3, <2>1, RunMoves, SMTT(30)
       DEF RunValid, InstallValid, UninstallValid, Shared, Owned, HasBridge, Linked, Installs,
           At, Plan
<1>4. CASE ChangeBridge
  <2>1. UNCHANGED <<bridgeOf, mode, record, build>>
    BY <1>4 DEF ChangeBridge
  <2> QED
    BY <1>4, <2>1, RunMoves
       DEF RunValid, InstallValid, UninstallValid, Shared, Owned, HasBridge, Linked, Installs,
           At, Plan
<1>5. ASSUME NEW n \in run.todo, LinkStep(n)
      PROVE  RunValid'
  <2>1. UNCHANGED <<bridgeOf, mode, record, build>>
    BY <1>5 DEF LinkStep
  <2> QED
    BY <1>5, <2>1, RunMoves
       DEF RunValid, InstallValid, UninstallValid, Shared, Owned, HasBridge, Linked, Installs,
           At, Plan
<1>6. CASE RecordStep
  <2>1. UNCHANGED <<bridgeOf, mode, build>> /\ record' = [record EXCEPT ![Plan.host] = RecordOf(Plan)]
    BY <1>6 DEF RecordStep
  <2>2. run # Idle /\ Plan' = Plan /\ run'.at = "result" /\ Plan.host \in Hosts
    BY <1>6, RunMoves, RunKnown
  <2>3. record'[Plan.host].release = IF Installs(Plan) THEN build ELSE 0
    BY <2>1, <2>2 DEF TypeOK, RecordOf, NoRecord, Installs
  <2> QED
    BY <2>1, <2>2, <2>3
       DEF RunValid, InstallValid, UninstallValid, Shared, Owned, HasBridge, Linked, Installs,
           At, Plan
<1>7. CASE SaveResult \/ Halts
  BY <1>7, RunMoves DEF SaveResult, At, bounds, Halts, Stop, RunValid, InstallValid,
       UninstallValid, Shared, Owned, HasBridge, Linked, Installs, At, Plan
<1>8. CASE Edit
  <2>1. UNCHANGED <<bridgeOf, mode, record, build, run, plans>>
    BY <1>8 DEF Edit
  <2> QED
    BY <2>1
       DEF RunValid, InstallValid, UninstallValid, Shared, Owned, HasBridge, Linked, Installs,
           At, Plan
<1>9. CASE Upgrade
  BY <1>9 DEF Upgrade, RunValid
<1>10. CASE UNCHANGED vars
  BY <1>10, RunMoves DEF vars, bounds, RunValid, InstallValid, UninstallValid, Shared,
       Owned, HasBridge, Linked, Installs, At, Plan
<1> QED
  BY Steps, <1>1, <1>2, <1>3, <1>4, <1>5, <1>6, <1>7, <1>8, <1>9, <1>10

\* What the preflight has seen is still there, if no user has come between.
LEMMA NextRunChecked == TypeOK /\ PlansKnown /\ Migrated /\ RunChecked /\ [Next]_vars => RunChecked'
<1> SUFFICES ASSUME TypeOK, PlansKnown, Migrated, RunChecked, [Next]_vars PROVE RunChecked'
  OBVIOUS
<1>1. ASSUME NEW o \in Ops, NEW h \in Hosts, NEW kept \in BOOLEAN, PlanChange(o, h, kept)
      PROVE  RunChecked'
  BY <1>1, PlanKeepsRun DEF RunChecked, At, Plan, Asset, AssetRoot
<1>2. ASSUME NEW o \in Ops, Start(o)
      PROVE  RunChecked'
  <2>1. UNCHANGED <<bridgeOf, mode, file, link, bridge>> /\ Preflight(plans[o])
    BY <1>2 DEF Start, Acceptable
  <2>2. PlanType(plans[o])
    BY <1>2, RunMoves DEF TypeOK, Planned
  <2>3. \A n \in DOMAIN plans[o].files : file[Asset(plans[o].host, n)] # Edited
    BY <2>1, <2>2 DEF PlanType, Preflight
  <2>4. \A n \in DOMAIN plans[o].links : link[plans[o].host][n] # Edited
    BY <2>1 DEF Preflight, LinkIs, Gone, Edited
  <2>5. plans[o].bridged => bridge[bridgeOf[plans[o].host]] \in {plans[o].before, plans[o].after}
    BY <2>1 DEF Preflight
  <2>6. /\ run'.at = "files" /\ Plan' = plans[o] /\ run'.todo = DOMAIN plans[o].files
    BY <1>2, RunMoves
  <2> QED
    BY <2>1, <2>3, <2>4, <2>5, <2>6 DEF RunChecked, At, Plan, Asset, AssetRoot
<1>3. ASSUME NEW n \in run.todo, FileStep(n)
      PROVE  RunChecked'
  <2>1. UNCHANGED <<bridgeOf, mode, link, bridge, late>> /\ run.at = "files"
    BY <1>3 DEF FileStep, At
  <2>2. run # Idle /\ Plan' = Plan /\ run'.at = run.at /\ run'.todo = run.todo \ {n}
    BY <1>3, RunMoves
  <2>3. Plan.files[n].after # Edited
    BY <1>3, <2>1, <2>2, RunKnown DEF PlanType, At
  <2>4. \A p \in Paths : file[p] # Edited => file'[p] # Edited
    BY <1>3, <2>3 DEF FileStep, TypeOK
  <2>5. \A m \in run.todo : Asset(Plan.host, m) \in Paths
    BY <2>2, RunKnown, AssetTyped
  <2> QED
    BY <2>1, <2>2, <2>4, <2>5 DEF RunChecked, At, Plan, Asset, AssetRoot
<1>4. CASE ChangeBridge
  <2>1. UNCHANGED <<mode, link, late>>
    BY <1>4 DEF ChangeBridge
  <2> QED
    BY <1>4, <2>1, RunMoves DEF RunChecked, At, Plan, Asset, AssetRoot
<1>5. ASSUME NEW n \in run.todo, LinkStep(n)
      PROVE  RunChecked'
  <2>1. /\ UNCHANGED <<mode, late>> /\ run.at = "links"
        /\ link' = [link EXCEPT ![Plan.host][n] = IF Plan.links[n] THEN 1 ELSE Gone]
    BY <1>5 DEF LinkStep, At
  <2>2. run # Idle /\ Plan' = Plan /\ run'.at = run.at /\ run'.todo = run.todo \ {n}
    BY <1>5, RunMoves
  <2>3. \A m \in run.todo : m # n => link'[Plan.host][m] = link[Plan.host][m]
    BY <2>1, <2>2, RunKnown DEF TypeOK
  <2> QED
    BY <2>1, <2>2, <2>3 DEF RunChecked, At, Plan, Asset, AssetRoot
<1>6. CASE RecordStep
  <2>1. late' = late
    BY <1>6 DEF RecordStep
  <2> QED
    BY <1>6, <2>1, RunMoves DEF RunChecked, At, Plan, Asset, AssetRoot
<1>7. CASE SaveResult \/ Halts
  BY <1>7, RunMoves DEF SaveResult, At, bounds, Halts, Stop, RunChecked, At, Plan, Asset,
       AssetRoot
<1>8. CASE Edit
  <2>1. run' = run /\ late' = (run # Idle)
    BY <1>8 DEF Edit
  <2> QED
    BY <2>1 DEF RunChecked, At, Plan, Asset, AssetRoot
<1>9. CASE Upgrade
  BY <1>9, RunMoves DEF Upgrade, bounds, RunChecked, At, Plan, Asset, AssetRoot
<1>10. CASE UNCHANGED vars
  BY <1>10, RunMoves DEF vars, bounds, RunChecked, At, Plan, Asset, AssetRoot
<1> QED
  BY Steps, <1>1, <1>2, <1>3, <1>4, <1>5, <1>6, <1>7, <1>8, <1>9, <1>10

\* Who is quiet was quiet.
LEMMA QuietWas ==
  TypeOK /\ [Next]_vars /\ Quiet' => Quiet /\ UNCHANGED <<edits, stops>> /\ ~Edit
<1> SUFFICES ASSUME TypeOK, [Next]_vars, Quiet' PROVE Quiet /\ UNCHANGED <<edits, stops>> /\ ~Edit
  OBVIOUS
<1>1. edits \in Nat /\ stops \in Nat
  BY SkillAssumption DEF TypeOK
<1>2. ~Edit
  <2>1. Edit => edits' = edits + 1
    BY DEF Edit
  <2> QED
    BY <1>1, <2>1 DEF Quiet
<1>3. CASE Halts
  BY <1>1, <1>2, <1>3 DEF Halts, Quiet
<1>4. ASSUME NEW o \in Ops, NEW h \in Hosts, NEW kept \in BOOLEAN, PlanChange(o, h, kept) \/ Start(o)
      PROVE  UNCHANGED <<edits, stops>>
  BY <1>4 DEF PlanChange, Start, bounds
<1>5. ASSUME NEW n \in run.todo, FileStep(n) \/ LinkStep(n)
      PROVE  UNCHANGED <<edits, stops>>
  BY <1>5 DEF FileStep, LinkStep, bounds
<1>6. ASSUME ChangeBridge \/ RecordStep \/ SaveResult \/ Upgrade \/ UNCHANGED vars
      PROVE  UNCHANGED <<edits, stops>>
  BY <1>6 DEF ChangeBridge, RecordStep, SaveResult, Upgrade, vars, bounds
<1>7. ASSUME \E o \in Ops : Start(o)
      PROVE  UNCHANGED <<edits, stops>>
  BY <1>7 DEF Start, bounds
<1>8. UNCHANGED <<edits, stops>>
  BY <1>2, <1>3, <1>4, <1>5, <1>6, <1>7, Steps
<1> QED
  BY <1>2, <1>8 DEF Quiet

\* Runs write no content of a user's.
LEMMA NextNothingEdited == TypeOK /\ PlansKnown /\ NothingEdited /\ [Next]_vars => NothingEdited'
<1> SUFFICES ASSUME TypeOK, PlansKnown, NothingEdited, [Next]_vars PROVE NothingEdited'
  OBVIOUS
<1>1. ASSUME NEW o \in Ops, NEW h \in Hosts, NEW kept \in BOOLEAN, PlanChange(o, h, kept)
      PROVE  NothingEdited'
  BY <1>1, QuietWas DEF PlanChange, bounds, NothingEdited
<1>2. ASSUME NEW o \in Ops, Start(o)
      PROVE  NothingEdited'
  BY <1>2, QuietWas DEF Start, bounds, NothingEdited
<1>3. ASSUME NEW n \in run.todo, FileStep(n)
      PROVE  NothingEdited'
  <2>1. Plan.files[n].after # Edited /\ link' = link
    BY <1>3, RunKnown DEF FileStep, At, PlanType
  <2>2. \A p \in Paths : file[p] # Edited => file'[p] # Edited
    BY <1>3, <2>1 DEF FileStep, TypeOK
  <2> QED
    BY <2>1, <2>2, QuietWas DEF NothingEdited
<1>4. ASSUME NEW n \in run.todo, LinkStep(n)
      PROVE  NothingEdited'
  <2>1. file' = file /\ link' = [link EXCEPT ![Plan.host][n] = IF Plan.links[n] THEN 1 ELSE Gone]
    BY <1>4 DEF LinkStep
  <2>2. \A h \in Hosts, m \in Names \cup {Old} : link[h][m] # Edited => link'[h][m] # Edited
    BY <2>1 DEF TypeOK, Gone, Edited
  <2> QED
    BY <2>1, <2>2, QuietWas DEF NothingEdited
<1>5. CASE ChangeBridge \/ RecordStep \/ SaveResult \/ Halts
  BY <1>5, QuietWas DEF ChangeBridge, At, GoTo, bounds, RecordStep, SaveResult, Halts, Stop,
       NothingEdited
<1>6. CASE Edit
  BY <1>6, QuietWas DEF NothingEdited
<1>7. CASE Upgrade
  BY <1>7, QuietWas DEF Upgrade, bounds, NothingEdited
<1>8. CASE UNCHANGED vars
  BY <1>8, QuietWas DEF vars, bounds, NothingEdited
<1> QED
  BY Steps, <1>1, <1>2, <1>3, <1>4, <1>5, <1>6, <1>7, <1>8

\* Where nobody interferes, what a run has done is there.
LEMMA NextRunWrote == TypeOK /\ PlansKnown /\ Migrated /\ RunWrote /\ [Next]_vars => RunWrote'
<1> SUFFICES ASSUME TypeOK, PlansKnown, Migrated, RunWrote, [Next]_vars PROVE RunWrote'
  OBVIOUS
<1>1. ASSUME NEW o \in Ops, NEW h \in Hosts, NEW kept \in BOOLEAN, PlanChange(o, h, kept)
      PROVE  RunWrote'
  BY <1>1, PlanKeepsRun, QuietWas DEF RunWrote, At, Plan, Asset, AssetRoot
<1>2. ASSUME NEW o \in Ops, Start(o)
      PROVE  RunWrote'
  BY <1>2, RunMoves, QuietWas DEF RunWrote, At, Plan, Asset, AssetRoot
<1>3. ASSUME NEW n \in run.todo, FileStep(n)
      PROVE  RunWrote'
  <2>1. UNCHANGED <<bridgeOf, mode, link, bridge>> /\ run.at = "files"
    BY <1>3 DEF FileStep, At
  <2>2. run # Idle /\ Plan' = Plan /\ run'.at = run.at /\ run'.todo = run.todo \ {n}
    BY <1>3, RunMoves
  <2>3. \A m \in DOMAIN Plan.files : Asset(Plan.host, m) \in Paths
    BY <2>2, RunKnown, AssetTyped DEF PlanType
  <2>4. n \in DOMAIN Plan.files
    BY <2>1, <2>2, RunKnown DEF At
  <2>5. file'[Asset(Plan.host, n)] = Plan.files[n].after
    BY <1>3, <2>3, <2>4 DEF FileStep, TypeOK
  <2>6. \A m \in DOMAIN Plan.files : m # n => file'[Asset(Plan.host, m)] = file[Asset(Plan.host, m)]
    BY <1>3, <2>3, AssetsDiffer DEF FileStep, TypeOK
  <2> QED
    BY <2>1, <2>2, <2>5, <2>6, QuietWas DEF RunWrote, At, Plan, Asset, AssetRoot
<1>4. CASE ChangeBridge
  <2>1. UNCHANGED <<bridgeOf, mode, file, link>>
    BY <1>4 DEF ChangeBridge
  <2>2. /\ run # Idle /\ run.at = "files" /\ run.todo = {} /\ Plan' = Plan
        /\ run'.at = "links" /\ run'.todo = DOMAIN Plan.links
    BY <1>4, RunMoves
  <2>3. Plan.bridged => bridgeOf[Plan.host] \in Bridges
    <3>1. Plan.host \in Hosts /\ (Plan.bridged => HasBridge(Plan.host))
      BY <2>2, RunKnown DEF PlanType
    <3> QED
      BY <3>1, ConstantsTyped DEF HasBridge, TypeOK
  <2>4. Plan.bridged => bridge'[bridgeOf[Plan.host]] = Plan.after
    BY <1>4, <2>3 DEF ChangeBridge, TypeOK
  <2> QED
    BY <2>1, <2>2, <2>4, QuietWas DEF RunWrote, At, Plan, Asset, AssetRoot
<1>5. ASSUME NEW n \in run.todo, LinkStep(n)
      PROVE  RunWrote'
  <2>1. /\ UNCHANGED <<bridgeOf, mode, file, bridge>> /\ run.at = "links"
        /\ link' = [link EXCEPT ![Plan.host][n] = IF Plan.links[n] THEN 1 ELSE Gone]
    BY <1>5 DEF LinkStep, At
  <2>2. run # Idle /\ Plan' = Plan /\ run'.at = run.at /\ run'.todo = run.todo \ {n}
    BY <1>5, RunMoves
  <2>3. \A m \in DOMAIN Plan.links : link'[Plan.host][m] =
          IF m = n THEN (IF Plan.links[n] THEN 1 ELSE Gone) ELSE link[Plan.host][m]
    <3>1. Plan.host \in Hosts /\ DOMAIN Plan.links \subseteq Names \cup {Old}
      BY <2>2, RunKnown DEF PlanType
    <3>2. n \in DOMAIN Plan.links
      BY <2>1, <2>2, RunKnown DEF At
    <3> QED
      BY <2>1, <3>1, <3>2 DEF TypeOK
  <2> QED
    BY <2>1, <2>2, <2>3, QuietWas DEF RunWrote, At, Plan, Asset, AssetRoot
<1>6. CASE RecordStep
  <2>1. UNCHANGED <<bridgeOf, mode, file, link, bridge>>
    BY <1>6 DEF RecordStep
  <2> QED
    BY <1>6, <2>1, RunMoves, QuietWas DEF RunWrote, At, Plan, Asset, AssetRoot
<1>7. CASE SaveResult \/ Halts
  BY <1>7, RunMoves, QuietWas DEF SaveResult, At, bounds, Halts, Stop, RunWrote, At, Plan,
       Asset, AssetRoot
<1>8. CASE Edit
  BY <1>8, QuietWas DEF RunWrote
<1>9. CASE Upgrade
  BY <1>9, RunMoves, QuietWas DEF Upgrade, bounds, RunWrote, At, Plan, Asset, AssetRoot
<1>10. CASE UNCHANGED vars
  BY <1>10, RunMoves, QuietWas DEF vars, bounds, RunWrote, At, Plan, Asset, AssetRoot
<1> QED
  BY Steps, <1>1, <1>2, <1>3, <1>4, <1>5, <1>6, <1>7, <1>8, <1>9, <1>10

\* No record is of a release to come.
LEMMA NextRecorded == TypeOK /\ Recorded /\ [Next]_vars => Recorded'
<1> SUFFICES ASSUME TypeOK, Recorded, [Next]_vars, NEW h \in Hosts
             PROVE  record'[h].release \in 0..build'
  BY DEF Recorded
<1>1. build \in 1..2 /\ build' \in {build, 2}
  BY Steps DEF TypeOK, vars, PlanChange, Start, FileStep, ChangeBridge, LinkStep, RecordStep,
     SaveResult, Halts, Edit, Upgrade
<1>2. 0..build \subseteq 0..build'
  BY <1>1
<1>3. CASE record'[h] = record[h]
  BY <1>2, <1>3 DEF Recorded
<1>4. CASE build' = build /\ record'[h].release \in {0, build}
  BY <1>1, <1>4
<1> QED
  BY <1>3, <1>4, NextRecord DEF RecordReplaced

-----------------------------------------------------------------------------
(* The shared directory                                                    *)

\* Where nobody interferes, the verification of what a run has done succeeds.
LEMMA QuietVerified ==
  ASSUME TypeOK, PlansKnown, RunValid, RunWrote, Quiet, At("links"), run.todo = {}
  PROVE  Verified
<1> DEFINE h == Plan.host
<1>1. run # Idle /\ ~At("files") /\ ~At("result") /\ h \in Hosts /\ PlanType(Plan) /\ PlanKnown(Plan)
  BY RunKnown DEF At, PlansKnown
<1>2. /\ \A n \in DOMAIN Plan.files : file[Asset(h, n)] = Plan.files[n].after
      /\ Plan.bridged => bridge[bridgeOf[h]] = Plan.after
      /\ \A n \in DOMAIN Plan.links : link[h][n] = IF Plan.links[n] THEN 1 ELSE Gone
  BY <1>1 DEF RunWrote
<1>3. CASE Installs(Plan)
  <2>1. InstallValid(Plan) /\ build \in 1..2
    BY <1>1, <1>3 DEF RunValid, TypeOK
  <2>2. \A n \in Suite[build] : file[Asset(h, n)] = build /\ build # Gone
    BY <1>2, <2>1 DEF InstallValid, Gone
  <2>3. mode[h] = "symlink" => \A n \in Suite[build] : link[h][n] = 1
    BY <1>2, <2>1 DEF InstallValid, Linked
  <2>4. HasBridge(h) => bridge[bridgeOf[h]] = Plan.after /\ ManagedBlock(Plan.after) = Block(build)
    BY <1>2, <2>1 DEF InstallValid
  <2>5. ManagedBlock(Missing) # Block(build)
    <3>1. DOMAIN Missing = {1} /\ Missing[1] = "no file"
      BY DEF Missing
    <3>2. Places(Missing) = {}
      BY <3>1 DEF Places, Blocks
    <3> QED
      BY <3>2 DEF ManagedBlock, Block
  <2> DEFINE rec == [release |-> build, text |-> Plan.after]
  <2>6. rec.release = build /\ rec.text = Plan.after
    OBVIOUS
  <2> HIDE DEF rec
  <2>7. ManagedState(h, rec) = "current"
    BY <2>2, <2>3, <2>4, <2>5, <2>6 DEF ManagedState, Gone, Edited
  <2> QED
    BY <1>3, <2>7 DEF Verified, Installs, rec
<1>4. CASE ~Installs(Plan)
  <2>1. UninstallValid(Plan)
    BY <1>1, <1>4 DEF RunValid
  <2>2. \A n \in DOMAIN Plan.files : file[Asset(h, n)] = Gone
    BY <1>1, <1>2, <1>4 DEF PlanKnown
  <2>3. \A p \in PlanPaths(Plan) : file[p] = Gone
    BY <2>2 DEF PlanPaths
  <2>4. record[h].release # 0 /\ mode[h] = "symlink" => \A n \in Owned(h) : link[h][n] = Gone
    BY <1>2, <2>1 DEF UninstallValid, Linked
  <2>5. record[h].release # 0 /\ HasBridge(h) => bridge[bridgeOf[h]] = Plan.after
    BY <1>2, <2>1 DEF UninstallValid
  <2> QED
    BY <1>4, <2>3, <2>4, <2>5 DEF Verified, Installs
<1> QED
  BY <1>3, <1>4

\* A Skill of the shared directory is owned, or about to be.
LEMMA NextSharedOwned ==
  TypeOK /\ PlansKnown /\ Migrated /\ Recorded /\ UpgradePlanned /\ RunValid /\ NothingEdited /\
  RunWrote /\ SharedOwned /\ [Next]_vars => SharedOwned'
<1> SUFFICES ASSUME TypeOK, PlansKnown, Migrated, Recorded, UpgradePlanned, RunValid,
                    NothingEdited, RunWrote, SharedOwned, [Next]_vars
             PROVE  SharedOwned'
  OBVIOUS
<1>1. ASSUME NEW o \in Ops, NEW h \in Hosts, NEW kept \in BOOLEAN, PlanChange(o, h, kept)
      PROVE  SharedOwned'
  BY <1>1, PlanKeepsRun, QuietWas DEF SharedOwned, Linked, Owned, Installs, Plan
<1>2. ASSUME NEW o \in Ops, Start(o)
      PROVE  SharedOwned'
  <2>1. UNCHANGED <<mode, file, record>>
    BY <1>2 DEF Start
  <2> QED
    BY <1>2, <2>1, RunMoves, QuietWas DEF SharedOwned, Linked, Owned, Installs, Plan
<1>3. ASSUME NEW n \in run.todo, FileStep(n)
      PROVE  SharedOwned'
  <2>1. UNCHANGED <<mode, record>> /\ At("files")
    BY <1>3 DEF FileStep
  <2>2. run # Idle /\ run' # Idle /\ Plan' = Plan /\ n \in DOMAIN Plan.files /\ Plan.host \in Hosts
    BY <1>3, <2>1, RunMoves, RunKnown DEF At
  <2>3. ASSUME NEW m \in Names, file'[<<Canonical, m>>] # file[<<Canonical, m>>], file'[<<Canonical, m>>] # Gone
        PROVE  Installs(Plan) /\ Linked(Plan.host) /\ m \in DOMAIN Plan.files /\ Plan.files[m].after # Gone
    <3>1. <<Canonical, m>> = Asset(Plan.host, n) /\ file'[<<Canonical, m>>] = Plan.files[n].after
      BY <1>3, <2>2, <2>3 DEF FileStep, TypeOK, Paths, Roots
    <3>2. Linked(Plan.host) /\ m = n
      <4>1. mode \in [Hosts -> {"copy", "symlink"}] /\ Asset(Plan.host, n) = <<Canonical, m>>
        BY <3>1 DEF TypeOK
      <4> QED
        BY <2>2, <4>1, CanonicalAsset
    <3> QED
      BY <2>2, <2>3, <3>1, <3>2, RunKnown DEF PlansKnown, PlanKnown
  <2> QED
    BY <2>1, <2>2, <2>3, QuietWas DEF SharedOwned, Linked, Owned, Installs, Plan
<1>4. CASE ChangeBridge
  <2>1. UNCHANGED <<mode, file, record>>
    BY <1>4 DEF ChangeBridge
  <2> QED
    BY <1>4, <2>1, RunMoves, QuietWas DEF SharedOwned, Linked, Owned, Installs, Plan
<1>5. ASSUME NEW n \in run.todo, LinkStep(n)
      PROVE  SharedOwned'
  <2>1. UNCHANGED <<mode, file, record>>
    BY <1>5 DEF LinkStep
  <2> QED
    BY <1>5, <2>1, RunMoves, QuietWas DEF SharedOwned, Linked, Owned, Installs, Plan
<1>6. CASE RecordStep
  <2> DEFINE h == Plan.host
  <2>1. UNCHANGED <<mode, file, build>> /\ run # Idle /\ At("links") /\ run.todo = {} /\ h \in Hosts
    BY <1>6, RunKnown DEF RecordStep, At
  <2>2. /\ record'[h].release = (IF Installs(Plan) THEN build ELSE 0)
        /\ \A g \in Hosts : g # h => record'[g] = record[g]
    BY <1>6, <2>1, RunKnown DEF RecordStep, RecordOf, NoRecord, TypeOK, Installs
  <2>3. PlanKnown(Plan) /\ build \in 1..2
    BY <2>1, RunKnown DEF PlansKnown, TypeOK
  <2>4. SUFFICES ASSUME Quiet', NEW n \in Names, file[<<Canonical, n>>] # Gone
        PROVE  \E g \in Hosts : Linked(g)' /\ n \in Owned(g)'
    BY <2>1 DEF SharedOwned
  <2>5. Quiet
    BY <2>4, QuietWas
  <2>6. ASSUME Linked(h), n \in DOMAIN Plan.files
        PROVE  Plan.files[n].after # Gone
    <3>1. Asset(h, n) = <<Canonical, n>>
      BY <2>1, <2>6, CanonicalAsset DEF TypeOK
    <3>2. file[Asset(h, n)] = Plan.files[n].after
      BY <2>1, <2>5, <2>6 DEF RunWrote, At
    <3> QED
      BY <2>4, <3>1, <3>2
  <2>7. ASSUME Installs(Plan), Linked(h), n \in Suite[build]
        PROVE  \E g \in Hosts : Linked(g)' /\ n \in Owned(g)'
    <3>1. ASSUME NEW g \in Hosts, g = h PROVE Linked(g)' /\ n \in Owned(g)'
      BY <2>1, <2>2, <2>3, <2>7, <3>1 DEF Linked, Owned
    <3> QED
      BY <2>1, <3>1
  <2>8. CASE Linked(h) /\ n \in Owned(h) /\ Installs(Plan)
    <3>1. InstallValid(Plan)
      BY <2>1, <2>8 DEF RunValid
    <3>2. CASE n \in DOMAIN Plan.files
      <4>1. n \in Suite[build]
        BY <2>6, <2>8, <3>1, <3>2 DEF InstallValid
      <4> QED
        BY <2>1, <2>7, <2>8, <4>1
    <3>3. CASE n \notin DOMAIN Plan.files
      <4>1. n \notin Suite[build] /\ n \in Suite[record[h].release] /\ record[h].release # 0
        BY <2>8, <3>1, <3>3 DEF InstallValid, Owned
      <4>2. record[h].release \in 0..build
        BY <2>1 DEF Recorded
      <4>3. build = 2 /\ record[h].release = 1
        BY <2>3, <4>1, <4>2
      <4>4. PICK m \in Suite[2] : TRUE
        BY ConstantsTyped
      <4>5. m \in DOMAIN Plan.files /\ Plan.files[m].after = 2
        BY <3>1, <4>3, <4>4 DEF InstallValid
      <4>6. Suite[1] \subseteq DOMAIN Plan.files
        BY <2>1, <2>8, <4>3, <4>5, RunKnown DEF UpgradePlanned
      <4> QED
        BY <3>3, <4>1, <4>3, <4>6
    <3> QED
      BY <3>2, <3>3
  <2>9. CASE Linked(h) /\ n \in Owned(h) /\ ~Installs(Plan)
    <3>1. UninstallValid(Plan) /\ record[h].release # 0
      BY <2>1, <2>9 DEF RunValid, At, Owned
    <3>2. n \notin DOMAIN Plan.files
      BY <2>3, <2>6, <2>9 DEF PlanKnown
    <3>3. Shared(h, n)
      BY <2>9, <3>1, <3>2 DEF UninstallValid
    <3> QED
      BY <2>1, <2>2, <3>3 DEF Shared, Linked, Owned
  <2>10. CASE Installs(Plan) /\ Linked(h) /\ n \in DOMAIN Plan.files /\ Plan.files[n].after # Gone
    <3>1. n \in Suite[build]
      BY <2>1, <2>10 DEF RunValid, InstallValid
    <3> QED
      BY <2>1, <2>7, <2>10, <3>1
  <2>11. CASE \E g \in Hosts : g # h /\ Linked(g) /\ n \in Owned(g)
    BY <2>1, <2>2, <2>11 DEF Linked, Owned
  <2> QED
    BY <2>4, <2>5, <2>8, <2>9, <2>10, <2>11 DEF SharedOwned
<1>7. CASE SaveResult
  <2>1. UNCHANGED <<mode, file, record>> /\ run' = Idle /\ run # Idle /\ At("result")
    BY <1>7, RunMoves DEF SaveResult, At
  <2>2. Plan.host \in Hosts /\ build \in 1..2
    BY <2>1, RunKnown DEF TypeOK
  <2>3. Installs(Plan) => /\ record[Plan.host].release = build
                         /\ \A n \in DOMAIN Plan.files : Plan.files[n].after # Gone => n \in Suite[build]
    BY <2>1 DEF RunValid, InstallValid
  <2>4. ASSUME Quiet, NEW n \in Names, file[<<Canonical, n>>] # Gone
        PROVE  \E h \in Hosts : Linked(h) /\ n \in Owned(h)
    BY <2>2, <2>3, <2>4 DEF SharedOwned, Owned
  <2> QED
    BY <2>1, <2>4, QuietWas DEF SharedOwned, Linked, Owned
<1>8. CASE Halts
  <2>1. SUFFICES ASSUME Quiet' PROVE FALSE
    BY DEF SharedOwned
  <2>2. Quiet /\ stops' = stops /\ stops \in Nat
    <3>1. Quiet /\ UNCHANGED <<edits, stops>>
      BY <2>1, QuietWas
    <3> QED
      BY <3>1 DEF Quiet
  <2>3. At("links")
    BY <1>8, <2>2 DEF Halts
  <2>4. CASE \E n \in run.todo : Plan.links[n] /\ link[Plan.host][n] = Edited
    BY <2>2, <2>3, <2>4, RunKnown DEF NothingEdited, At
  <2>5. CASE run.todo = {} /\ ~Verified
    BY <2>2, <2>3, <2>5, QuietVerified
  <2> QED
    BY <1>8, <2>2, <2>4, <2>5 DEF Halts
<1>9. CASE Edit
  BY <1>9, QuietWas DEF SharedOwned
<1>10. CASE Upgrade
  BY <1>10, QuietWas DEF Upgrade, bounds, SharedOwned, Linked, Owned, Installs, Plan
<1>11. CASE UNCHANGED vars
  BY <1>11, QuietWas DEF vars, bounds, SharedOwned, Linked, Owned, Installs, Plan
<1> QED
  BY Steps, <1>1, <1>2, <1>3, <1>4, <1>5, <1>6, <1>7, <1>8, <1>9, <1>10, <1>11

-----------------------------------------------------------------------------
(* Trying again                                                            *)

\* A first installation whose record is of this release or none, and that finds no old Skill
\* in the shared directory, drops nothing: what its acceptance asks is Ready.
LEMMA ReadyIs ==
  ASSUME TypeOK, NEW p, PlanType(p), PlanKnown(p), FirstInstall(p),
         record[p.host].release \in {0, build}, Linked(p.host) => Old \notin DOMAIN p.files
  PROVE  Acceptable(p) <=> Ready(p)
<1> DEFINE h == p.host
           dropped == IF OutdatedNow(h) THEN Owned(h) \ Suite[build] ELSE {}
           assets == {Asset(h, n) : n \in Suite[build]}
<1>1. /\ h \in Hosts /\ build \in 1..2 /\ Old \notin Suite[build]
      /\ mode \in [Hosts -> {"copy", "symlink"}] /\ DOMAIN p.files \subseteq Names \cup {Old}
  BY ConstantsTyped DEF TypeOK, PlanType
<1>2. dropped = {}
  BY DEF Owned, OutdatedNow
<1>3. Valid(p) <=> ValidInstall(p)
  BY DEF Valid, FirstInstall, Installs
<1>4. ValidInstall(p) <=>
        /\ PlanPaths(p) = assets \cup (LegacyPaths(h) \cap PlanPaths(p))
        /\ p.bridged = HasBridge(h) /\ (p.bridged => ManagedBlock(p.after) = Block(build))
        /\ \A n \in DOMAIN p.files : p.files[n].after = (IF n \in Suite[build] THEN build ELSE Gone)
        /\ ValidLinks(p, {})
  <2>1. {Asset(h, n) : n \in {}} = {}
    OBVIOUS
  <2> QED
    BY <1>2, <2>1 DEF ValidInstall
<1>5. ASSUME PlanPaths(p) = assets \cup (LegacyPaths(h) \cap PlanPaths(p))
      PROVE  DOMAIN p.files \ {Old} = Suite[build]
  <2>1. \A n : Asset(h, n) \in LegacyPaths(h) => n = Old
    BY DEF LegacyPaths, Asset
  <2>2. \A n : Asset(h, n) \in assets => n \in Suite[build]
    BY AssetsDiffer
  <2>3. \A n \in DOMAIN p.files : Asset(h, n) \in assets \/ Asset(h, n) \in LegacyPaths(h)
    BY <1>5 DEF PlanPaths
  <2>4. \A n \in Suite[build] : \E m \in DOMAIN p.files : Asset(h, n) = Asset(h, m)
    BY <1>5 DEF PlanPaths
  <2>5. Suite[build] \subseteq DOMAIN p.files
    BY <2>4, AssetsDiffer
  <2> QED
    BY <1>1, <2>1, <2>2, <2>3, <2>5
<1>6. ASSUME DOMAIN p.files \ {Old} = Suite[build]
      PROVE  PlanPaths(p) = assets \cup (LegacyPaths(h) \cap PlanPaths(p))
  <2>1. Old \in DOMAIN p.files => Asset(h, Old) \in LegacyPaths(h)
    BY DEF LegacyPaths, Asset, AssetRoot, Linked
  <2>2. assets \subseteq PlanPaths(p)
    BY <1>6 DEF PlanPaths
  <2>3. \A n \in DOMAIN p.files : Asset(h, n) \in assets \/ Asset(h, n) \in LegacyPaths(h)
    BY <1>6, <2>1
  <2>4. PlanPaths(p) \subseteq assets \cup LegacyPaths(h)
    BY <2>3 DEF PlanPaths
  <2> QED
    BY <2>2, <2>4
<1>7. ValidLinks(p, {}) <=> IF Linked(h)
                              THEN /\ DOMAIN p.links \ {Old} = Suite[build]
                                   /\ \A n \in DOMAIN p.links : p.links[n] = (n \in Suite[build])
                              ELSE DOMAIN p.links = {}
  BY <1>1 DEF ValidLinks, Linked
<1> QED
  BY <1>3, <1>4, <1>5, <1>6, <1>7 DEF Acceptable, Ready

\* Readiness is about the disk only.
LEMMA ReadyKeeps ==
  ASSUME NEW p, UNCHANGED <<bridgeOf, mode, file, link, bridge, build>>
  PROVE  Ready(p)' <=> Ready(p)
<1>1. Preflight(p)' <=> Preflight(p)
  BY DEF Preflight, LinkIs, Asset, AssetRoot
<1>2. Linked(p.host)' <=> Linked(p.host)
  BY DEF Linked
<1>3. HasBridge(p.host)' = HasBridge(p.host) /\ Block(build)' = Block(build)
  BY DEF HasBridge
<1> QED
  BY <1>1, <1>2, <1>3 DEF Ready, Block

\* What a run does keeps its own plan ready.
LEMMA RunKeepsReady ==
  ASSUME TypeOK, run # Idle, FirstInstall(Plan), Ready(Plan),
         ChangeBridge \/ \E n \in run.todo : FileStep(n) \/ LinkStep(n)
  PROVE  \A p : p = Plan => Ready(p)'
<1> SUFFICES ASSUME NEW p, p = Plan PROVE Ready(p)'
  OBVIOUS
<1>1. UNCHANGED <<bridgeOf, mode, build>>
  BY DEF ChangeBridge, FileStep, LinkStep
<1>2. Linked(p.host)' <=> Linked(p.host)
  BY <1>1 DEF Linked
<1>3. HasBridge(p.host)' = HasBridge(p.host) /\ Block(build)' = Block(build)
  BY <1>1 DEF HasBridge
<1>4. Ready(p) /\ p.host \in Hosts /\ PlanType(p) /\ Preflight(p)
  BY RunKnown DEF Ready
<1>5. Preflight(p)'
  <2>1. CASE ChangeBridge
    <3>1. UNCHANGED <<bridgeOf, mode, file, link>>
      BY <2>1 DEF ChangeBridge
    <3>2. bridge' = IF p.bridged THEN [bridge EXCEPT ![bridgeOf[p.host]] = p.after] ELSE bridge
      BY <2>1 DEF ChangeBridge
    <3>3. p.bridged => bridgeOf[p.host] \in DOMAIN bridge
      BY <1>4, ConstantsTyped DEF PlanType, HasBridge, TypeOK
    <3>4. p.bridged => bridge'[bridgeOf[p.host]] = p.after
      BY <3>2, <3>3
    <3> QED
      BY <1>4, <3>1, <3>4 DEF Preflight, LinkIs, Asset, AssetRoot
  <2>2. ASSUME NEW n \in run.todo, FileStep(n)
        PROVE  Preflight(p)'
    <3>1. UNCHANGED <<bridgeOf, mode, bridge, link>> /\ At("files")
      BY <2>2 DEF FileStep
    <3>2. file' = [file EXCEPT ![Asset(p.host, n)] = p.files[n].after]
      BY <2>2 DEF FileStep
    <3>3. \A m \in DOMAIN p.files : Asset(p.host, m) \in DOMAIN file
      BY <1>4, AssetTyped DEF PlanType, TypeOK
    <3>4. \A m \in DOMAIN p.files : file'[Asset(p.host, m)] \in {p.files[m].before, p.files[m].after}
      BY <1>4, <3>2, <3>3, AssetsDiffer DEF Preflight
    <3>5. \A m : Asset(p.host, m)' = Asset(p.host, m)
      BY <3>1 DEF Asset, AssetRoot
    <3> QED
      BY <1>4, <3>1, <3>4, <3>5 DEF Preflight, LinkIs
  <2>3. ASSUME NEW n \in run.todo, LinkStep(n)
        PROVE  Preflight(p)'
    <3>1. UNCHANGED <<bridgeOf, mode, bridge, file>> /\ At("links")
      BY <2>3 DEF LinkStep
    <3>2. link' = [link EXCEPT ![p.host][n] = IF p.links[n] THEN 1 ELSE Gone]
      BY <2>3 DEF LinkStep
    <3>3. n \in DOMAIN p.links /\ DOMAIN p.links \subseteq Names \cup {Old} /\ p.links[n] \in BOOLEAN
      BY <1>4, <3>1, RunKnown DEF PlanType
    <3>4. link'[p.host][n] = IF p.links[n] = FALSE THEN Gone ELSE 1
      BY <1>4, <3>2, <3>3 DEF TypeOK
    <3>5. \A m \in DOMAIN p.links : m # n => link'[p.host][m] = link[p.host][m]
      BY <1>4, <3>2 DEF TypeOK
    <3>6. \A m \in DOMAIN p.links : \E before \in BOOLEAN : LinkIs(p, m, before)'
      <4>1. LinkIs(p, n, FALSE)'
        BY <3>4 DEF LinkIs
      <4>2. ASSUME NEW m \in DOMAIN p.links, m # n PROVE \E before \in BOOLEAN : LinkIs(p, m, before)'
        BY <1>4, <3>5, <4>2 DEF Preflight, LinkIs
      <4> QED
        BY <4>1, <4>2
    <3>7. \A m : Asset(p.host, m)' = Asset(p.host, m)
      BY <3>1 DEF Asset, AssetRoot
    <3> QED
      BY <1>4, <3>1, <3>6, <3>7 DEF Preflight
  <2> QED
    BY <2>1, <2>2, <2>3
<1> QED
  BY <1>1, <1>2, <1>3, <1>4, <1>5 DEF Ready, Block

\* What was accepted once and is not disturbed is accepted again.
LEMMA NextRetried == TypeOK /\ PlansKnown /\ Migrated /\ Retried /\ [Next]_vars => Retried'
<1> DEFINE Again(o, p) ==
             (o \in halted \/ run.op = o) /\ (Linked(p.host) => Old \notin DOMAIN p.files) => Ready(p)
           Goal(o, p) == record[p.host].release \in {0, build} /\ Again(o, p)
<1> SUFFICES ASSUME TypeOK, PlansKnown, Migrated, Retried, [Next]_vars,
                    NEW o \in alone', NEW p, p = plans'[o], p # NoPlan, FirstInstall(p)
             PROVE  Goal(o, p)'
  BY DEF Retried, Planned
<1>1. ASSUME o \in alone, plans[o] = p
      PROVE  Goal(o, p) /\ o \in Ops /\ PlanType(p) /\ PlanKnown(p) /\ p.host \in Hosts
  BY <1>1 DEF Retried, Planned, TypeOK, PlansKnown, PlanType
<1>2. \* Where neither disk nor record is touched, and the plan is not run or stopped now.
      ASSUME o \in alone, plans[o] = p, UNCHANGED <<bridgeOf, mode, file, link, bridge, record, build>>,
             o \in halted' \/ run'.op = o => o \in halted \/ run.op = o
      PROVE  Goal(o, p)'
  <2>1. Ready(p)' <=> Ready(p)
    BY <1>2, ReadyKeeps
  <2>2. Linked(p.host)' <=> Linked(p.host)
    BY <1>2 DEF Linked
  <2> QED
    BY <1>1, <1>2, <2>1, <2>2
<1>3. ASSUME NEW q \in Ops, NEW h \in Hosts, NEW kept \in BOOLEAN, PlanChange(q, h, kept)
      PROVE  Goal(o, p)'
  <2>1. UNCHANGED <<bridgeOf, mode, file, link, bridge, record, build>> /\ run' = run /\ run.op # q
    BY <1>3, PlanKeepsRun
  <2>2. alone' = alone \cup {q} /\ halted' = halted \ {q}
    BY <1>3 DEF PlanChange
  <2>3. PICK made : plans' = [plans EXCEPT ![q] = made] /\ made.host = h
                    /\ ((Installs(made) /\ ~made.upgrade) => record[h].release \in {0, build})
    BY <1>3, PlanMade
  <2>4. CASE o = q
    <3>1. p = made
      BY <2>3, <2>4 DEF TypeOK
    <3>2. record[p.host].release \in {0, build}
      BY <2>3, <3>1 DEF FirstInstall
    <3> QED
      BY <2>1, <2>2, <2>4, <3>2
  <2>5. CASE o # q
    <3>1. o \in alone /\ plans[o] = p
      BY <2>2, <2>3, <2>5
    <3> QED
      BY <1>2, <2>1, <2>2, <3>1
  <2> QED
    BY <2>4, <2>5
<1>4. ASSUME NEW q \in Ops, Start(q)
      PROVE  Goal(o, p)'
  <2>1. /\ UNCHANGED <<bridgeOf, mode, file, link, bridge, record, build, plans, alone, halted>>
        /\ run'.op = q /\ Acceptable(plans[q])
    BY <1>4, RunMoves DEF Start, bounds
  <2>2. CASE o # q
    BY <1>2, <2>1, <2>2
  <2>3. CASE o = q
    <3>1. Goal(o, p) /\ PlanType(p) /\ PlanKnown(p)
      BY <1>1, <2>1
    <3>2. (Linked(p.host) => Old \notin DOMAIN p.files) => Ready(p)
      BY <2>1, <2>3, <3>1, ReadyIs
    <3>3. Ready(p)' <=> Ready(p)
      BY <2>1, ReadyKeeps
    <3>4. Linked(p.host)' <=> Linked(p.host)
      BY <2>1 DEF Linked
    <3> QED
      BY <2>1, <3>1, <3>2, <3>3, <3>4
  <2> QED
    BY <2>2, <2>3
<1>5. CASE ChangeBridge \/ \E n \in run.todo : FileStep(n) \/ LinkStep(n)
  <2>1. UNCHANGED <<mode, record, build, halted>> /\ alone' = alone \cap {run.op}
    BY <1>5 DEF ChangeBridge, FileStep, LinkStep
  <2>2. run # Idle /\ plans' = plans
    BY <1>5, RunMoves
  <2>3. o \in alone /\ o = run.op /\ p = plans[o] /\ p = Plan
    BY <2>1, <2>2 DEF Plan
  <2>4. Goal(o, p)
    BY <1>1, <2>3
  <2>5. Linked(p.host)' <=> Linked(p.host)
    BY <2>1 DEF Linked
  <2>6. Ready(p) => Ready(p)'
    BY <1>5, <2>2, <2>3, RunKeepsReady
  <2> QED
    BY <2>1, <2>3, <2>4, <2>5, <2>6
<1>6. CASE RecordStep
  <2>1. UNCHANGED <<bridgeOf, mode, file, link, bridge, build, halted>> /\ alone' = alone \cap {run.op}
    BY <1>6 DEF RecordStep
  <2>2. run # Idle /\ plans' = plans /\ run'.op = run.op
    BY <1>6, RunMoves
  <2>3. o \in alone /\ o = run.op /\ p = plans[o] /\ p = Plan
    BY <2>1, <2>2 DEF Plan
  <2>4. Goal(o, p) /\ p.host \in Hosts
    BY <1>1, <2>3
  <2>5. record'[p.host].release \in {0, build}
    BY <2>4, <2>3, NextRecord DEF RecordReplaced
  <2>6. Ready(p)' <=> Ready(p)
    BY <2>1, ReadyKeeps
  <2>7. Linked(p.host)' <=> Linked(p.host)
    BY <2>1 DEF Linked
  <2> QED
    BY <2>1, <2>2, <2>3, <2>4, <2>5, <2>6, <2>7
<1>7. CASE SaveResult
  <2>1. /\ UNCHANGED <<bridgeOf, mode, file, link, bridge, record, build, alone, halted>>
        /\ run # Idle /\ run' = Idle /\ plans' = [plans EXCEPT ![run.op] = NoPlan]
    BY <1>7 DEF SaveResult, At
  <2>2. o \in alone /\ o \in Ops /\ o # NoOp /\ plans[o] = p
    BY <2>1, ConstantsTyped DEF TypeOK
  <2>3. run'.op = NoOp
    BY <2>1 DEF Idle
  <2> QED
    BY <1>2, <2>1, <2>2, <2>3
<1>8. CASE Halts
  <2>1. /\ UNCHANGED <<bridgeOf, mode, file, link, bridge, record, build, alone>>
        /\ run # Idle /\ run' = Idle /\ halted' = halted \cup {run.op}
        /\ plans' = IF Plan.kept THEN plans ELSE [plans EXCEPT ![run.op] = NoPlan]
    BY <1>8 DEF Halts, Stop
  <2>2. o \in alone /\ o \in Ops /\ o # NoOp /\ plans[o] = p
    BY <2>1, ConstantsTyped DEF TypeOK
  <2>3. run'.op = NoOp
    BY <2>1 DEF Idle
  <2> QED
    BY <1>2, <2>1, <2>2, <2>3
<1>9. CASE Edit \/ Upgrade
  BY <1>9 DEF Edit, Upgrade
<1>10. CASE UNCHANGED vars
  BY <1>2, <1>10 DEF vars
<1> QED
  BY Steps, <1>3, <1>4, <1>5, <1>6, <1>7, <1>8, <1>9, <1>10

-----------------------------------------------------------------------------
(* The invariant                                                           *)

LEMMA InitTyped == Init => TypeOK
<1> SUFFICES ASSUME Init PROVE TypeOK
  OBVIOUS
<1>1. /\ bridgeOf \in Placements /\ mode \in [Hosts -> {"copy", "symlink"}]
      /\ plans = [o \in Ops |-> NoPlan] /\ applied = {} /\ run = Idle /\ build = 1
      /\ edits = 0 /\ stops = 0 /\ late = FALSE /\ alone = {} /\ halted = {}
  BY DEF Init
<1>2. /\ file \in [Paths -> Contents]
      /\ link \in [Hosts -> [Names \cup {Old} -> {Gone, 1, Edited}]]
      /\ \A h \in Hosts, n \in Names \cup {Old} : mode[h] = "copy" => link[h][n] = Gone
  BY <1>1 DEF Init, Contents
<1>3. <<"words">> \in Texts /\ <<"words", "block1">> \in Texts /\ <<"words", "block0">> \in Texts
  BY DEF Texts, Blocks
<1>4. Missing \in Texts
  BY DEF Texts
<1>5. bridge \in [Bridges -> Texts]
  BY <1>3 DEF Init
<1>6. record \in [Hosts -> [release : 0..2, text : Texts]]
  <2>1. \A h \in Hosts :
          record[h] \in {NoRecord, [release |-> 1, text |-> <<"words", "block1">>],
                         [release |-> 1, text |-> Missing]}
    BY DEF Init
  <2>2. {NoRecord, [release |-> 1, text |-> Missing]} \subseteq [release : 0..2, text : Texts]
    BY <1>4 DEF NoRecord
  <2>3. [release |-> 1, text |-> <<"words", "block1">>] \in [release : 0..2, text : Texts]
    BY <1>3
  <2>4. record = [h \in Hosts |-> record[h]]
    BY DEF Init
  <2> QED
    BY <2>1, <2>2, <2>3, <2>4
<1>7. 0 \in 0..MaxEdits /\ 0 \in 0..MaxStops
  BY SkillAssumption
<1>8. late \in BOOLEAN
  BY <1>1
<1>9. DOMAIN plans = Ops /\ \A o \in Ops : plans[o] = NoPlan
  BY <1>1
<1>10. TargetTyped
  BY <1>1, <1>2, <1>5, <1>6 DEF TargetTyped
<1>11. PlansTyped /\ RunTyped
  BY <1>1, <1>9 DEF PlansTyped, RunTyped, Planned
<1>12. HistoryTyped
  BY <1>1, <1>7, <1>8 DEF HistoryTyped
<1> QED
  BY <1>1, <1>7, <1>10, <1>11, <1>12, TypeParts

LEMMA InitIInv == Init => IInv
<1> SUFFICES ASSUME Init PROVE IInv
  OBVIOUS
<1>1. TypeOK
  BY InitTyped
<1>2. /\ run = Idle /\ alone = {} /\ build = 1 /\ \A o \in Ops : ~Planned(o)
  BY DEF Init, Planned
<1>3. PlansKnown /\ LegacyPlanned /\ UpgradePlanned /\ Retried
  BY <1>2 DEF PlansKnown, LegacyPlanned, UpgradePlanned, Retried
<1>4. RunValid /\ RunMigrated /\ RunChecked /\ RunWrote
  BY <1>2 DEF RunValid, RunMigrated, RunChecked, RunWrote
<1> DEFINE Has(how, r, n) == \E h \in Hosts :
             /\ AssetRoot(h) = r
             /\ \/ how[h] = "owned" /\ n \in Suite[1]
                \/ how[h] = "legacy" /\ n = Old
           LinkHas(how, h, n) == (how[h] = "owned" /\ n \in Suite[1]) \/ (how[h] = "legacy" /\ n = Old)
<1>5. PICK how \in [Hosts -> Beginnings] :
        /\ \A p \in Paths : file[p] \in {1, Gone} /\ (file[p] # Gone => Has(how, p[1], p[2]))
        /\ \A h \in Hosts, n \in Names \cup {Old} :
             link[h][n] \in {1, Gone} /\ (link[h][n] # Gone => LinkHas(how, h, n))
        /\ \A h \in Hosts : record[h].release = IF how[h] = "owned" THEN 1 ELSE 0
  <2>1. PICK how \in [Hosts -> Beginnings] :
          /\ file = [p \in Paths |-> IF Has(how, p[1], p[2]) THEN 1 ELSE Gone]
          /\ link = [h \in Hosts |-> [n \in Names \cup {Old} |->
                       IF mode[h] = "symlink" /\ LinkHas(how, h, n) THEN 1 ELSE Gone]]
          /\ record = [h \in Hosts |->
                         IF how[h] # "owned" THEN NoRecord
                         ELSE [release |-> 1, text |-> IF HasBridge(h) THEN <<"words", "block1">> ELSE Missing]]
    BY DEF Init
  <2>2. \A h \in Hosts : record[h].release = IF how[h] = "owned" THEN 1 ELSE 0
    BY <2>1 DEF NoRecord
  <2> HIDE DEF Has, LinkHas
  <2>3. \A p \in Paths : file[p] \in {1, Gone} /\ (file[p] # Gone => Has(how, p[1], p[2]))
    BY <2>1
  <2>4. \A h \in Hosts, n \in Names \cup {Old} :
          link[h][n] \in {1, Gone} /\ (link[h][n] # Gone => LinkHas(how, h, n))
    BY <2>1
  <2> QED
    BY <2>2, <2>3, <2>4
<1>6. Recorded
  <2>1. \A h \in Hosts : record[h].release \in {0, 1}
    BY <1>5
  <2>2. 0 \in 0..build /\ 1 \in 0..build
    BY <1>2
  <2> QED
    BY <2>1, <2>2 DEF Recorded
<1>7. NothingEdited
  BY <1>5 DEF NothingEdited, Gone, Edited
<1>8. /\ \A h \in Hosts : AssetRoot(h) \in {h, Canonical} /\ (AssetRoot(h) = Canonical => Linked(h))
      /\ Canonical \notin Hosts /\ Old \notin Names /\ Suite[1] \subseteq Names
  BY ConstantsTyped DEF AssetRoot, Linked
<1>9. ASSUME NEW h \in Hosts, how[h] = "owned", LegacyIntact(h)
      PROVE  FALSE
  <2>1. CASE mode[h] = "symlink"
    BY <1>5, <1>8, <1>9, <2>1 DEF LegacyIntact, LegacyHere
  <2>2. CASE mode[h] # "symlink"
    <3>1. file[<<h, Old>>] # Gone /\ <<h, Old>> \in Paths
      BY <1>9, <2>2 DEF LegacyIntact, LegacyHere, Paths, Roots
    <3>2. PICK g \in Hosts : AssetRoot(g) = h /\ how[g] = "legacy"
      BY <1>5, <1>8, <3>1
    <3> QED
      BY <1>8, <1>9, <3>2
  <2> QED
    BY <2>1, <2>2
<1>10. Migrated
  BY <1>5, <1>9 DEF Migrated
<1>11. ASSUME NEW n \in Names, file[<<Canonical, n>>] # Gone
       PROVE  \E h \in Hosts : Linked(h) /\ n \in Owned(h)
  <2>1. <<Canonical, n>> \in Paths
    BY DEF Paths, Roots
  <2>2. PICK h \in Hosts : AssetRoot(h) = Canonical /\ how[h] = "owned" /\ n \in Suite[1]
    BY <1>5, <1>8, <1>11, <2>1
  <2> QED
    BY <1>5, <1>8, <2>2 DEF Owned
<1>12. SharedOwned
  BY <1>11 DEF SharedOwned
<1> QED
  BY <1>1, <1>3, <1>4, <1>6, <1>7, <1>10, <1>12 DEF IInv

LEMMA NextIInv == IInv /\ [Next]_vars => IInv'
<1> SUFFICES ASSUME IInv, [Next]_vars PROVE IInv'
  OBVIOUS
<1>1. TypeOK' /\ PlansKnown'
  BY NextTyped, NextPlansKnown DEF IInv
<1>2. LegacyPlanned' /\ Migrated' /\ RunMigrated'
  BY NextLegacyPlanned, NextMigrated, NextRunMigrated DEF IInv
<1>3. Recorded' /\ UpgradePlanned'
  BY NextRecorded, NextUpgradePlanned DEF IInv
<1>4. RunValid' /\ RunChecked'
  BY NextRunValid, NextRunChecked DEF IInv
<1>5. NothingEdited' /\ RunWrote'
  BY NextNothingEdited, NextRunWrote DEF IInv
<1>6. SharedOwned' /\ Retried'
  BY NextSharedOwned, NextRetried DEF IInv
<1> QED
  BY <1>1, <1>2, <1>3, <1>4, <1>5, <1>6 DEF IInv

\* The inductive invariant holds in every reachable state.
THEOREM SkillsInvariant == Spec => []IInv
BY InitIInv, NextIInv, PTL DEF Spec

\* The variables keep their types: whatever users and interrupted runs do, links stay where an
\* installation is linked, and a run has a plan (the state of skill_plan.rs).
THEOREM SkillsTypeCorrect == Spec => []TypeOK
<1>1. IInv => TypeOK
  BY DEF IInv
<1> QED
  BY <1>1, SkillsInvariant, PTL

\* The shared directory, undisturbed, holds only what some record owns, whatever order installs
\* and uninstalls were planned and applied in (removable_managed_assets, validate_uninstall_plan).
THEOREM SharedSuite == Spec => []SharedSuiteIsOwned
<1>1. IInv => SharedSuiteIsOwned
  <2> SUFFICES ASSUME IInv, run = Idle, Quiet, NEW n \in Names, file[<<Canonical, n>>] # Gone
               PROVE  \E h \in Hosts : mode[h] = "symlink" /\ n \in Owned(h)
    BY DEF SharedSuiteIsOwned, Quiet
  <2> QED
    BY DEF IInv, SharedOwned, Linked
<1> QED
  BY <1>1, SkillsInvariant, PTL

\* An installation that stopped half way, wherever, is accepted when it is tried again and
\* nothing else has changed (preflight: each change is as reviewed or done).
THEOREM InterruptedInstall == Spec => []InterruptedInstallIsRetryable
<1>1. IInv => InterruptedInstallIsRetryable
  <2> SUFFICES ASSUME IInv, run = Idle, NEW o \in halted \cap alone,
                      plans[o].action = "install", ~plans[o].upgrade,
                      mode[plans[o].host] = "copy" \/ Old \notin DOMAIN plans[o].files
               PROVE  Acceptable(plans[o])
    BY DEF InterruptedInstallIsRetryable
  <2>1. TypeOK /\ PlansKnown /\ Retried /\ o \in Ops
    BY DEF IInv, TypeOK
  <2>2. Planned(o)
    BY DEF Planned, NoPlan
  <2>3. PlanType(plans[o]) /\ PlanKnown(plans[o]) /\ FirstInstall(plans[o])
    BY <2>1, <2>2 DEF TypeOK, PlansKnown, FirstInstall, Installs, Planned
  <2>4. Linked(plans[o].host) => Old \notin DOMAIN plans[o].files
    BY DEF Linked
  <2>5. record[plans[o].host].release \in {0, build} /\ Ready(plans[o])
    BY <2>1, <2>2, <2>3, <2>4 DEF Retried
  <2> QED
    BY <2>1, <2>3, <2>4, <2>5, ReadyIs
<1> QED
  BY <1>1, SkillsInvariant, PTL

\* A run never overwrites or removes what a user has put into a file, a link or the bridge
\* before its check of the digests (preflight; managed_bridge keeps the rest of the text).
THEOREM SkillUserContentKept == Spec => UserContentIsKept
<1>1. IInv /\ [Next]_vars =>
        [ edits' = edits /\ ~late =>
          /\ \A p \in Paths : file[p] = Edited => file'[p] = Edited
          /\ \A h \in Hosts, n \in Names : link[h][n] = Edited => link'[h][n] = Edited
          /\ \A b \in Bridges : UserText(bridge'[b]) = UserText(bridge[b]) ]_vars
  <2> DEFINE Kept == /\ \A p \in Paths : file[p] = Edited => file'[p] = Edited
                     /\ \A h \in Hosts, n \in Names : link[h][n] = Edited => link'[h][n] = Edited
                     /\ \A b \in Bridges : UserText(bridge'[b]) = UserText(bridge[b])
  <2> SUFFICES ASSUME IInv, [Next]_vars, edits' = edits, ~late PROVE Kept
    OBVIOUS
  <2>1. TypeOK /\ PlansKnown /\ RunChecked
    BY DEF IInv
  <2>2. CASE UNCHANGED <<file, link, bridge>>
    BY <2>2
  <2>3. ASSUME NEW n \in run.todo, FileStep(n)
        PROVE  Kept
    <3>1. /\ UNCHANGED <<link, bridge>> /\ At("files")
          /\ file' = [file EXCEPT ![Asset(Plan.host, n)] = Plan.files[n].after]
      BY <2>3 DEF FileStep
    <3>2. file[Asset(Plan.host, n)] # Edited
      BY <2>1, <3>1 DEF RunChecked, At
    <3>3. DOMAIN file = Paths
      BY <2>1 DEF TypeOK
    <3> QED
      BY <3>1, <3>2, <3>3
  <2>4. ASSUME NEW n \in run.todo, LinkStep(n)
        PROVE  Kept
    <3>1. /\ UNCHANGED <<file, bridge>> /\ At("links") /\ run # Idle /\ ~At("result")
          /\ link' = [link EXCEPT ![Plan.host][n] = IF Plan.links[n] THEN 1 ELSE Gone]
      BY <2>4 DEF LinkStep, At
    <3>2. n \in DOMAIN Plan.links /\ Plan.host \in Hosts
      BY <2>1, <3>1, RunKnown
    <3>3. link[Plan.host][n] # Edited
      BY <2>1, <3>1, <3>2 DEF RunChecked
    <3> QED
      BY <2>1, <3>1, <3>2, <3>3 DEF TypeOK
  <2>5. CASE ChangeBridge
    <3>1. /\ UNCHANGED <<file, link>> /\ At("files") /\ run # Idle
          /\ bridge' = IF Plan.bridged THEN [bridge EXCEPT ![bridgeOf[Plan.host]] = Plan.after] ELSE bridge
      BY <2>5 DEF ChangeBridge, At
    <3>2. PlanKnown(Plan)
      BY <2>1, <3>1, RunKnown DEF PlansKnown
    <3>3. Plan.bridged => UserText(Plan.after) = UserText(bridge[bridgeOf[Plan.host]])
      BY <2>1, <3>1, <3>2 DEF PlanKnown, RunChecked
    <3>4. DOMAIN bridge = Bridges
      BY <2>1 DEF TypeOK
    <3>5. \A b \in Bridges : UserText(bridge'[b]) = UserText(bridge[b])
      BY <3>1, <3>3, <3>4
    <3> QED
      BY <3>1, <3>5
  <2>6. \/ UNCHANGED <<file, link, bridge>> \/ ChangeBridge \/ Edit
        \/ \E n \in run.todo : FileStep(n) \/ LinkStep(n)
    BY Steps DEF vars, PlanChange, Start, RecordStep, SaveResult, Halts, Upgrade
  <2>7. ~Edit
    <3>1. edits \in Nat
      BY <2>1, SkillAssumption DEF TypeOK
    <3>2. Edit => edits' = edits + 1
      BY DEF Edit
    <3> QED
      BY <3>1, <3>2
  <2> QED
    BY <2>2, <2>3, <2>4, <2>5, <2>6, <2>7
<1> QED
  BY <1>1, SkillsInvariant, PTL DEF Spec, UserContentIsKept

\* A change of one installation takes no file away that another one owns
\* (removable_managed_assets).
THEOREM SharedAssets == Spec => SharedAssetsStay
<1>1. IInv /\ [Next]_vars =>
        [ edits' = edits /\ run # Idle /\ ~Plan.upgrade =>
          \A h \in Hosts \ {Plan.host}, n \in Names :
            n \in Owned(h) /\ file[Asset(h, n)] # Gone => file'[Asset(h, n)] # Gone ]_vars
  <2> SUFFICES ASSUME IInv, [Next]_vars, edits' = edits, run # Idle, ~Plan.upgrade,
                      NEW h \in Hosts, h # Plan.host, NEW n \in Names, n \in Owned(h),
                      file[Asset(h, n)] # Gone
               PROVE  file'[Asset(h, n)] # Gone
    OBVIOUS
  <2>1. TypeOK /\ PlansKnown /\ RunValid /\ PlanKnown(Plan) /\ Plan.host \in Hosts
    BY RunKnown DEF IInv, PlansKnown
  <2>2. ~Edit
    <3>1. edits \in Nat
      BY <2>1, SkillAssumption DEF TypeOK
    <3>2. Edit => edits' = edits + 1
      BY DEF Edit
    <3> QED
      BY <3>1, <3>2
  <2>3. CASE file' = file
    BY <2>3
  <2>4. ASSUME NEW m \in run.todo, FileStep(m)
        PROVE  file'[Asset(h, n)] # Gone
    <3>1. /\ At("files") /\ ~At("result") /\ m \in DOMAIN Plan.files
          /\ file' = [file EXCEPT ![Asset(Plan.host, m)] = Plan.files[m].after]
      BY <2>1, <2>4, RunKnown DEF FileStep, At
    <3>2. Asset(h, n) \in DOMAIN file
      BY <2>1, AssetTyped DEF TypeOK
    <3>3. CASE Asset(h, n) # Asset(Plan.host, m)
      BY <3>1, <3>2, <3>3
    <3>4. CASE Asset(h, n) = Asset(Plan.host, m)
      <4>1. Linked(h) /\ Linked(Plan.host) /\ n = m
        <5>1. mode \in [Hosts -> {"copy", "symlink"}]
          BY <2>1 DEF TypeOK
        <5> QED
          BY <2>1, <3>4, <5>1, AssetsShared
      <4>2. Installs(Plan)
        <5>1. Shared(Plan.host, n)
          BY <4>1 DEF Shared
        <5> QED
          BY <2>1, <3>1, <4>1, <5>1 DEF RunValid, UninstallValid
      <4>3. Plan.files[n].after # Gone
        BY <2>1, <3>1, <4>1, <4>2 DEF PlanKnown
      <4> QED
        BY <3>1, <3>2, <3>4, <4>1, <4>3
    <3> QED
      BY <3>3, <3>4
  <2>5. file' = file \/ Edit \/ \E m \in run.todo : FileStep(m)
    BY Steps
       DEF vars, PlanChange, Start, ChangeBridge, LinkStep, RecordStep, SaveResult, Halts,
           Upgrade
  <2> QED
    BY <2>2, <2>3, <2>4, <2>5
<1> QED
  BY <1>1, SkillsInvariant, PTL DEF Spec, SharedAssetsStay

=============================================================================
