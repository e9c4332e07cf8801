------------------------------ MODULE UpdateRun ------------------------------
(***************************************************************************)
(* `kb update` (kb-app/src/update_*.rs, template_state.rs, kb-update, and  *)
(* the driver in kb-cli/src/main.rs): an update is planned by the release  *)
(* that is to be installed, stored as a preview, confirmed by its token,   *)
(* and applied component by component: the executable by a helper process  *)
(* that outlives kb, then the Agent Skills, the search index and the       *)
(* Vault's template by the program now installed, each checked again and   *)
(* each with a receipt.                                                    *)
(*                                                                         *)
(* Three processes share the store without a lock: the CLI, a long-running *)
(* adapter (MCP or HTTP, of the first release), and the helper with the    *)
(* child that it starts.  Every write of an operation is a read, and a     *)
(* write of the changed copy as a later step.  Users edit what is updated  *)
(* whenever they like, and processes die.                                  *)
(*                                                                         *)
(* The model has one Vault; contents are numbers of releases.              *)
(***************************************************************************)
EXTENDS ReleaseFetch

CONSTANTS
  Ops,        \* operations
  NoOp,
  CliScopes,  \* scopes that kb update may be run with: a mode, and whether the Vault is in it
  Beginnings, \* what may be on the disk at the start
  Offers,     \* what the release service may answer to one fetch
  MaxEdits,   \* bound on what users change
  MaxStops    \* bound on processes that die or meet an IO error

Gone == 0
Edited == 9                   \* content that is the user's, or nobody's that we know
Broken == 8                   \* KB.md without one ordered pair of markers
Unmarked == 7                 \* the KB.md of the first releases
Nothing == <<Gone, "plain">>  \* KB.md: its region of rules, and the user's text around it
Releases == 1..2

Cli == "cli"
Adapter == "adapter"
Helper == "helper"
Processes == {Cli, Adapter, Helper}

TemplateFiles == {"schema", "manifest", "rules"}
Files == {"kb", "skill", "index"} \cup TemplateFiles
Parts == {"executable", "skill", "index", "template"}
Order == <<"skill", "index", "template">>       \* of the components' ids
WriteOrder == <<"schema", "manifest", "rules">> \* of the paths in .kb, then KB.md

\* What a file can hold.
Contents(f) ==
  CASE f = "rules" -> {Gone, 1, 2, Unmarked, Broken, Edited} \X {"plain", "noted"}
    [] f = "index" -> {0, 1, 2}
    [] OTHER -> {Gone, 1, 2, Edited}

AdapterScope == [mode |-> "selected", vault |-> TRUE]

ASSUME UpdateAssumption ==
  /\ NoOp \notin Ops
  /\ CliScopes \subseteq [mode : {"current", "selected", "registered"}, vault : BOOLEAN]
  /\ \A d \in Beginnings : /\ DOMAIN d = Files /\ \A f \in Files : d[f] \in Contents(f)
                           /\ d["kb"] # Gone
  /\ MaxEdits \in Nat /\ MaxStops \in Nat

VARIABLES
  disk,      \* [Files -> content]: what the update manages
  there,     \* the Vault is where it was registered
  published, \* the latest release; it stays the latest
  store,     \* [Ops -> operation, or Absent]: updates/<id>/
  staged,    \* [Ops -> the verified executable in the operation's stage]
  backup,    \* [Ops -> the replaced executable]
  latest,    \* the operation that updates/latest names
  run,       \* [Processes -> what the process is doing]
  lock,      \* the process that holds the Vault lock
  expired,   \* operations whose hour has passed
  edits, stops,
  told,      \* history: operations whose token was given to the user
  done,      \* history: components that were applied, with their operation
  late,      \* history: files a user changed after an updater had checked them
  excused    \* history: operations that a death, a lost Vault or an adapter left behind

vars == <<disk, there, published, store, staged, backup, latest, run, lock, expired,
          edits, stops, told, done, late, excused>>
world == <<there, published, expired, edits, told, late>>

Absent == [state |-> "absent"]
Removed == [state |-> "removed"]
States == {"preview", "confirmed", "replacing", "replaced", "applying",
           "completed", "skips", "partial", "failed"}
Terminal == {"completed", "skips", "partial", "failed"}

-----------------------------------------------------------------------------
(* Planning (template_state.rs, update_plan.rs).  A component is its state *)
(* and its changes: of each file, what it was and what it will be.         *)

NoChange == [f \in {} |-> Gone]
Part(state, changes) == [state |-> state, changes |-> changes]
Conflict == Part("skipped", NoChange)

Target(b, d, f) ==
  CASE f = "rules" -> <<b, d.rules[2]>> [] f = "schema" -> 1 [] f = "manifest" -> b

TemplatePart(b, d, files) ==
  IF files = {} THEN Part("unchanged", NoChange)
  ELSE Part("pending", [f \in files |-> [from |-> d[f], to |-> Target(b, d, f)]])

\* plan_from_manifest: what the Vault says was installed, and still is.
FromManifest(b, d) ==
  LET outdated == {f \in {"rules"} : d.manifest # b} \cup {f \in {"schema"} : d.schema = Gone}
  IN IF d.rules[1] # d.manifest \/ d.schema = Edited THEN Conflict
     ELSE TemplatePart(b, d, IF outdated = {} THEN {} ELSE outdated \cup {"manifest"})

\* plan_without_manifest: texts that some release is known to have installed.
WithoutManifest(b, d) ==
  LET whole == d.rules \in {Nothing, <<Unmarked, "plain">>}
      known == whole \/ d.rules[1] \in 1..b
  IN IF ~known \/ d.schema = Edited THEN Conflict
     ELSE TemplatePart(b, d, {f \in {"rules"} : whole} \cup {f \in {"schema"} : d.schema = Gone}
                             \cup {"manifest"})

TooNew(b, d) == d.manifest \in Releases /\ d.manifest > b
PlanTemplate(b, d) ==
  CASE d.manifest = Edited -> Conflict
    [] d.manifest = Gone   -> WithoutManifest(b, d)
    [] OTHER               -> FromManifest(b, d)

PlanIndex(d) ==
  IF d.index = 1 THEN Part("unchanged", NoChange)
  ELSE Part("rebuild", [f \in {"index"} |-> [from |-> d.index, to |-> 1]])

\* skill_component, for an installation with an ownership record.
PlanSkill(b, d) ==
  CASE d.skill = b      -> Part("unchanged", NoChange)
    [] d.skill = Edited -> Conflict
    [] OTHER            -> Part("pending", [f \in {"skill"} |-> [from |-> d.skill, to |-> b]])

\* executable_component: an adapter does not replace the program it runs.
PlanExecutable(p, b, d) ==
  IF p = Adapter THEN Part("skipped", NoChange)
  ELSE IF d.kb = b THEN Part("unchanged", NoChange)
  ELSE Part("pending", [f \in {"kb"} |-> [from |-> d.kb, to |-> b]])

NoPart == Part("none", NoChange)

\* create_target_update_plan, by release b.
Plan(p, b, d, scope) == [c \in Parts |->
  CASE c = "executable"                    -> PlanExecutable(p, b, d)
    [] c = "skill" /\ d.skill # Gone       -> PlanSkill(b, d)
    [] c = "index" /\ scope.vault          -> PlanIndex(d)
    [] c = "template" /\ scope.vault       -> PlanTemplate(b, d)
    [] OTHER                               -> NoPart]

HasChanges(plan) == \E c \in Parts : plan[c].state \in {"pending", "rebuild"}

-----------------------------------------------------------------------------
(* The store (update_store.rs).                                            *)

FaultyOperation(scope, plan) ==
  [state |-> plan["executable"].state, scope |-> scope, plan |-> plan,
   parts |-> [c \in Parts |-> plan[c].state]]

Operation(scope, plan) ==
  [state |-> "preview", scope |-> scope, plan |-> plan,
   parts |-> [c \in Parts |-> plan[c].state]]

FaultyLegal(now, next) ==
  \/ now = "confirmed" /\ next \in {"replacing", "applying"}
  \/ now = "replacing" /\ next = "replaced"
  \/ now = "replaced" /\ next = "applying"
  \/ now = "applying" /\ next \in Terminal

Legal(now, next) ==
  \/ now = "confirmed" /\ next \in {"replacing", "applying", "failed"}
  \/ now = "replacing" /\ next \in {"replaced", "failed"}
  \/ now = "replaced" /\ next \in {"applying", "failed"}
  \/ now = "applying" /\ next \in Terminal

\* What a process does: where it is, for which operation, with which build of
\* kb, the operation as it last read or wrote it, the components or files
\* that it still has to do, and where it goes once the copy is written.
Task(at, o, build, copy, todo, then) ==
  [at |-> at, op |-> o, build |-> build, copy |-> copy, todo |-> todo, then |-> then]
Idle == Task("idle", NoOp, 0, Absent, {}, "idle")

Op(p) == run[p].op
Stored(p) == store[Op(p)]
At(p, at) == run[p].at = at
Goes(p, at) == run' = [run EXCEPT ![p] = IF at = "idle" THEN Idle ELSE [@ EXCEPT !.at = at]]

\* Read the operation, and go on to write it back changed.
Writes(p, operation, then) ==
  run' = [run EXCEPT ![p].at = "write", ![p].copy = operation, ![p].then = then]

\* A command that meets an error ends; the helper marks the operation first.
Fails(p) == Goes(p, IF p = Helper THEN "fail" ELSE "idle")

CanStop == stops < MaxStops
Stops == CanStop /\ stops' = stops + 1

\* A transition of the store; it fails if the store is elsewhere.
Transition(p, next, then) ==
  IF Legal(Stored(p).state, next)
    THEN Writes(p, [Stored(p) EXCEPT !.state = next], then)
    ELSE Fails(p)

Write(p) ==
  /\ At(p, "write")
  /\ IF Stored(p).state = "removed"
       THEN Fails(p) /\ UNCHANGED store
       ELSE /\ store' = [store EXCEPT ![Op(p)] = run[p].copy]
            /\ Goes(p, run[p].then)
  /\ UNCHANGED <<disk, staged, backup, latest, lock, stops, done, excused, world>>

-----------------------------------------------------------------------------
(* Preparing a preview (plan_update, and run_update in main.rs).           *)

\* The build that a command of process p runs with.
Build(p) == IF p = Adapter THEN 1 ELSE disk.kb

\* Nothing is waiting, as far as updates/latest tells.
MayPlan == latest # NoOp => store[latest].state \in Terminal

\* The releases that some fetch by an older one gets, to the staged executable.
Fetchable ==
  {pair \in Releases \X Releases : \E offer \in Offers : Fetched(offer, pair[1], pair[2])}

\* The latest release, once fetched and verified, plans its own installation.
Planner(p) == IF published > Build(p) THEN published ELSE Build(p)

\* resolve_update_scope: the Vault of a path or of the current directory must be
\* there; of the registered Vaults, one that is not is left out.
ScopeResolves(scope) == (scope.mode # "registered" \/ scope.vault) => there

\* invoke_target_planner: the executable of release b is run to plan.
TargetPlan(p, b, scope) == Plan(p, b, disk, scope)

\* A new identity.
Unused(o) == store[o].state = "absent" /\ \A p \in Processes : Op(p) # o

Prepare(p, scope, o) ==
  LET b == Planner(p)
      plan == TargetPlan(p, b, scope)
  IN /\ At(p, "idle") /\ Build(p) \in Releases
     /\ published > Build(p) => <<Build(p), published>> \in Fetchable
     /\ ScopeResolves(scope)
     /\ MayPlan
     /\ scope.vault => ~TooNew(b, disk)
     /\ Unused(o) /\ HasChanges(plan)
     /\ run' = [run EXCEPT ![p] = Task("create", o, b, Operation(scope, plan), {}, "idle")]
     /\ UNCHANGED <<disk, store, staged, backup, latest, lock, stops, done, excused, world>>

Create(p) ==
  /\ At(p, "create")
  /\ store' = [store EXCEPT ![Op(p)] = run[p].copy]
  /\ Goes(p, "point")
  /\ UNCHANGED <<disk, staged, backup, latest, lock, stops, done, excused, world>>

Point(p) ==
  /\ At(p, "point")
  /\ latest' = Op(p)
  /\ Goes(p, "attach")
  /\ UNCHANGED <<disk, store, staged, backup, lock, stops, done, excused, world>>

\* attach_stage, when a release was fetched; then the token is shown.
Attach(p) ==
  /\ At(p, "attach")
  /\ staged' = [staged EXCEPT ![Op(p)] = IF run[p].build > Build(p) THEN run[p].build ELSE Gone]
  /\ told' = told \cup {Op(p)}
  /\ Goes(p, IF p = Cli THEN "ask" ELSE "idle")
  /\ UNCHANGED <<disk, store, backup, latest, lock, stops, done, excused,
                 there, published, expired, edits, late>>

\* kb update --json leaves the question to its caller.
Leave == /\ At(Cli, "ask") \/ At(Cli, "leaving")
         /\ Goes(Cli, "idle")
         /\ UNCHANGED <<disk, store, staged, backup, latest, lock, stops, done, excused, world>>

\* remove_cancelled, for a no at the prompt or a scope that is to be changed.
Cancel ==
  /\ At(Cli, "ask")
  /\ IF Stored(Cli).state = "preview"
       THEN /\ store' = [store EXCEPT ![Op(Cli)] = Removed]
            /\ staged' = [staged EXCEPT ![Op(Cli)] = Gone]
            /\ Goes(Cli, "forget")
       ELSE Goes(Cli, "idle") /\ UNCHANGED <<store, staged>>
  /\ UNCHANGED <<disk, backup, latest, lock, stops, done, excused, world>>

Forget ==
  /\ At(Cli, "forget")
  /\ latest' = IF latest = Op(Cli) THEN NoOp ELSE latest
  /\ Goes(Cli, "idle")
  /\ UNCHANGED <<disk, store, staged, backup, lock, stops, done, excused, world>>

-----------------------------------------------------------------------------
(* Confirming it (confirm_update, confirm_and_schedule).                   *)

\* confirmation_token: a digest of the whole plan, known to whom it was shown.
Token(o) == o \in told

Confirm(p) ==
  /\ At(p, "idle") \/ (At(p, "ask") /\ Op(p) = latest)
  /\ Build(p) \in Releases
  /\ latest # NoOp /\ Token(latest) /\ latest \notin expired /\ store[latest].state = "preview"
  /\ p = Adapter => store[latest].scope.vault
  /\ run' = [run EXCEPT ![p] =
       Task("write", latest, Build(p), [store[latest] EXCEPT !.state = "confirmed"], {}, "confirmed")]
  /\ UNCHANGED <<disk, store, staged, backup, latest, lock, stops, done, excused, world>>

ReplacesKb(operation) == operation.parts["executable"] = "pending"

\* Only the CLI starts the helper that an executable needs.
Confirmed(p) ==
  /\ At(p, "confirmed")
  /\ CASE ~ReplacesKb(run[p].copy) -> Goes(p, "resume") /\ UNCHANGED excused
       [] ReplacesKb(run[p].copy) /\ p = Adapter ->
            Goes(p, "idle") /\ excused' = excused \cup {Op(p)}
       [] OTHER ->
            /\ At(Helper, "idle")
            /\ run' = [run EXCEPT ![p].at = "leaving", ![Helper] =
                         Task("start", Op(p), Gone, run[p].copy, {}, "idle")]
            /\ UNCHANGED excused
  /\ UNCHANGED <<disk, store, staged, backup, latest, lock, stops, done, world>>

\* The helper cannot be copied or started.
ScheduleFails ==
  /\ At(Cli, "confirmed") /\ ReplacesKb(run[Cli].copy) /\ Stops
  /\ Goes(Cli, "fail")
  /\ UNCHANGED <<disk, store, staged, backup, latest, lock, done, excused, world>>

Fail(p) ==
  /\ At(p, "fail")
  /\ IF Legal(Stored(p).state, "failed")
       THEN Writes(p, [Stored(p) EXCEPT !.state = "failed"], "idle")
       ELSE Goes(p, "idle")
  /\ UNCHANGED <<disk, store, staged, backup, latest, lock, stops, done, excused, world>>

-----------------------------------------------------------------------------
(* Replacing the executable (run_replace_update, replace_with_backup).     *)

Change(p, c, f) == run[p].copy.plan[c].changes[f]

HelperStarts ==
  /\ At(Helper, "start")
  /\ IF Legal(Stored(Helper).state, "replacing")
       THEN Writes(Helper, [Stored(Helper) EXCEPT !.state = "replacing"], "check")
       ELSE Goes(Helper, "idle")
  /\ UNCHANGED <<disk, store, staged, backup, latest, lock, stops, done, excused, world>>

HasStage(o) == staged[o] # Gone   \* load_stage
KbIsBefore == disk.kb = Change(Helper, "executable", "kb").from

HelperChecks ==
  /\ At(Helper, "check")
  /\ IF HasStage(Op(Helper)) /\ KbIsBefore THEN Goes(Helper, "wait") ELSE Fails(Helper)
  /\ UNCHANGED <<disk, store, staged, backup, latest, lock, stops, done, excused, world>>

\* wait_for_parent_exit: at most five minutes.
ParentExits ==
  /\ At(Helper, "wait") /\ ~At(Cli, "leaving")
  /\ Goes(Helper, "away")
  /\ UNCHANGED <<disk, store, staged, backup, latest, lock, stops, done, excused, world>>

ParentLingers ==
  /\ At(Helper, "wait") /\ At(Cli, "leaving") /\ Stops
  /\ Goes(Helper, "fail")
  /\ UNCHANGED <<disk, store, staged, backup, latest, lock, done, excused, world>>

MoveAway ==
  /\ At(Helper, "away")
  /\ IF disk.kb # Gone /\ backup[Op(Helper)] = Gone
       THEN /\ backup' = [backup EXCEPT ![Op(Helper)] = disk.kb]
            /\ disk' = [disk EXCEPT !.kb = Gone]
            /\ Goes(Helper, "in")
       ELSE Fails(Helper) /\ UNCHANGED <<disk, backup>>
  /\ UNCHANGED <<store, staged, latest, lock, stops, done, excused, world>>

MoveIn ==
  /\ At(Helper, "in")
  /\ disk' = [disk EXCEPT !.kb = staged[Op(Helper)]]
  /\ staged' = [staged EXCEPT ![Op(Helper)] = Gone]
  /\ Goes(Helper, "verify")
  /\ UNCHANGED <<store, backup, latest, lock, stops, done, excused, world>>

RestoreKb ==
  /\ disk' = [disk EXCEPT !.kb = backup[Op(Helper)]]
  /\ backup' = [backup EXCEPT ![Op(Helper)] = Gone]
  /\ Fails(Helper)

MoveInFails ==
  /\ At(Helper, "in") /\ Stops
  /\ RestoreKb
  /\ UNCHANGED <<store, staged, latest, lock, done, excused, world>>

FaultyVerifyKb ==
  /\ At(Helper, "verify")
  /\ IF disk.kb = Change(Helper, "executable", "kb").to
       THEN Goes(Helper, "installed") /\ UNCHANGED <<disk, backup>>
       ELSE /\ disk' = [disk EXCEPT !.kb = Gone]
            /\ backup' = [backup EXCEPT ![Op(Helper)] = Gone]
            /\ Fails(Helper)
  /\ UNCHANGED <<store, staged, latest, lock, stops, done, excused, world>>

VerifyKb ==
  /\ At(Helper, "verify")
  /\ IF disk.kb = Change(Helper, "executable", "kb").to
       THEN Goes(Helper, "installed") /\ UNCHANGED <<disk, backup>>
       ELSE RestoreKb
  /\ UNCHANGED <<store, staged, latest, lock, stops, done, excused, world>>

\* The backup is removed, and the child started that resumes the update.
HelperReplaced ==
  /\ At(Helper, "installed")
  /\ backup' = [backup EXCEPT ![Op(Helper)] = Gone]
  /\ Transition(Helper, "replaced", "resume")
  /\ UNCHANGED <<disk, store, staged, latest, lock, stops, done, excused, world>>

KeepsBackup ==
  /\ At(Helper, "installed") /\ Stops
  /\ Goes(Helper, "fail")
  /\ UNCHANGED <<disk, store, staged, backup, latest, lock, done, excused, world>>

-----------------------------------------------------------------------------
(* Applying the components (update_apply.rs).                              *)

\* The child of the helper is the program that is installed now.
Resume(p) ==
  /\ At(p, "resume")
  /\ LET b == IF p = Helper THEN disk.kb ELSE run[p].build
         task == [run EXCEPT ![p].build = b]
     IN CASE b \notin Releases -> Fails(p)
          [] b \in Releases /\ Stored(p).state \in {"confirmed", "replaced"} ->
               run' = [task EXCEPT ![p].at = "write", ![p].then = "resolve",
                                   ![p].copy = [Stored(p) EXCEPT !.state = "applying"]]
          [] b \in Releases /\ Stored(p).state = "applying" ->
               run' = [task EXCEPT ![p].at = "resolve", ![p].copy = Stored(p)]
          [] b \in Releases /\ Stored(p).state \in Terminal -> Goes(p, "idle")
          [] OTHER -> Fails(p)
  /\ UNCHANGED <<disk, store, staged, backup, latest, lock, stops, done, excused, world>>

\* record_component: read, and write later what became of component c.
Records(p, c, result, rest) ==
  IF Stored(p).state = "applying"
    THEN run' = [run EXCEPT ![p].at = "write", ![p].then = "next", ![p].todo = rest,
                            ![p].copy = [Stored(p) EXCEPT !.parts[c] = result]]
    ELSE Fails(p)

Remaining(parts) == {c \in Parts \ {"executable"} : parts[c] \in {"pending", "rebuild"}}

\* resolve_operation_vaults: the Vault is found again by its identity.
VaultsResolve(operation) == operation.scope.vault => there

\* verify_executable_result
KbIsAfter(p) == disk.kb = Change(p, "executable", "kb").to

\* First the Vaults; then the executable gets its receipt.
\* The loop is then over the components as they are now.
Resolve(p) ==
  /\ At(p, "resolve")
  /\ CASE Op(p) # NoOp /\ ~VaultsResolve(run[p].copy) ->
            Fails(p) /\ excused' = excused \cup {Op(p)} /\ UNCHANGED done
       [] ReplacesKb(run[p].copy) /\ VaultsResolve(run[p].copy) ->
            /\ Records(p, "executable", IF KbIsAfter(p) THEN "applied" ELSE "failed",
                       Remaining(run[p].copy.parts))
            /\ done' = IF KbIsAfter(p) THEN done \cup {<<Op(p), "executable">>} ELSE done
            /\ UNCHANGED excused
       [] OTHER -> /\ run' = [run EXCEPT ![p].at = "next", ![p].todo = Remaining(run[p].copy.parts)]
                   /\ UNCHANGED <<excused, done>>
  /\ UNCHANGED <<disk, store, staged, backup, latest, lock, stops, world>>

\* The first in order of what p has to do.
First(p, order, x) ==
  /\ x \in run[p].todo
  /\ \A j, k \in DOMAIN order : order[k] = x /\ order[j] \in run[p].todo => k <= j

Turn(p, c) == At(p, "next") /\ First(p, Order, c)
Changes(p, c) == run[p].copy.plan[c].changes

FaultyFresh(p, c) == TRUE

\* target_request_for_resume: component c as this build would plan it now.
Replanned(p, c) ==
  IF c = "skill" THEN PlanSkill(run[p].build, disk) ELSE PlanTemplate(run[p].build, disk)

\* Is component c as it was when it was planned?
Fresh(p, c) ==
  LET now == Replanned(p, c) IN now.changes = Changes(p, c) /\ now.state # "skipped"

Ends(p, c, result) ==
  /\ Records(p, c, result, (run[p].todo \cap Parts) \ {c})
  /\ done' = IF result = "applied" THEN done \cup {<<Op(p), c>>} ELSE done

ApplySkill(p) ==
  /\ Turn(p, "skill")
  /\ IF disk.skill # Gone /\ Fresh(p, "skill")
       THEN disk' = [disk EXCEPT !.skill = run[p].build] /\ Ends(p, "skill", "applied")
       ELSE Ends(p, "skill", "stale") /\ UNCHANGED disk
  /\ UNCHANGED <<store, staged, backup, latest, lock, stops, excused, world>>

\* SkillChange stops half way.
ApplySkillFails(p) ==
  /\ Turn(p, "skill") /\ Fresh(p, "skill") /\ disk.skill # Gone /\ Stops
  /\ disk' = [disk EXCEPT !.skill = Edited]
  /\ Ends(p, "skill", "failed")
  /\ UNCHANGED <<store, staged, backup, latest, lock, excused, world>>

CanRebuild(p) ==
  disk.index = Changes(p, "index")["index"].from /\ there /\ lock = "free"

ApplyIndex(p) ==
  /\ Turn(p, "index")
  /\ IF CanRebuild(p)
       THEN disk' = [disk EXCEPT !.index = 1] /\ Ends(p, "index", "applied")
       ELSE Ends(p, "index", "rebuild") /\ UNCHANGED disk
  /\ UNCHANGED <<store, staged, backup, latest, lock, stops, excused, world>>

ApplyIndexFails(p) ==
  /\ Turn(p, "index") /\ CanRebuild(p) /\ Stops
  /\ Ends(p, "index", "rebuild")
  /\ UNCHANGED <<disk, store, staged, backup, latest, lock, excused, world>>

BeginTemplate(p) ==
  /\ Turn(p, "template")
  /\ CASE ~there \/ lock # "free" \/ TooNew(run[p].build, disk) ->
            Ends(p, "template", "failed") /\ UNCHANGED lock
       [] there /\ lock = "free" /\ ~TooNew(run[p].build, disk) /\ Fresh(p, "template") ->
            /\ lock' = p
            /\ run' = [run EXCEPT ![p].at = "template", ![p].todo = DOMAIN Changes(p, "template")]
            /\ UNCHANGED done
       [] OTHER -> Ends(p, "template", "stale") /\ UNCHANGED lock
  /\ UNCHANGED <<disk, store, staged, backup, latest, stops, excused, world>>

Missing(f, content) == IF f = "rules" THEN content = Nothing ELSE content = Gone

\* restore_applied: the files written so far are put back.
RestoreTemplate(p) ==
  /\ disk' = [f \in Files |-> IF f \in DOMAIN Changes(p, "template") \ run[p].todo
                                THEN Changes(p, "template")[f].from ELSE disk[f]]
  /\ lock' = "free"
  /\ Ends(p, "template", "failed")

\* A file that was missing is created, never replaced.
WriteFile(p) ==
  /\ At(p, "template")
  /\ \E f \in TemplateFiles :
       /\ First(p, WriteOrder, f)
       /\ LET change == Changes(p, "template")[f]
          IN IF Missing(f, change.from) /\ ~Missing(f, disk[f])
               THEN RestoreTemplate(p)
               ELSE /\ disk' = [disk EXCEPT ![f] = change.to]
                    /\ run' = [run EXCEPT ![p].todo = @ \ {f}]
                    /\ UNCHANGED <<lock, done>>
  /\ UNCHANGED <<store, staged, backup, latest, stops, excused, world>>

TemplateFails(p) ==
  /\ At(p, "template") /\ Stops
  /\ RestoreTemplate(p)
  /\ UNCHANGED <<store, staged, backup, latest, excused, world>>

TemplateWritten(p) ==
  /\ At(p, "template") /\ run[p].todo = {}
  /\ lock' = "free"
  /\ Ends(p, "template", "applied")
  /\ UNCHANGED <<disk, store, staged, backup, latest, stops, excused, world>>

FaultyAggregate(parts) ==
  IF \E c \in Parts : parts[c] = "failed" THEN "failed" ELSE "completed"

\* aggregate_state, over the operation as this process knows it.
Aggregate(parts) ==
  LET any(states) == \E c \in Parts : parts[c] \in states
  IN IF any({"stale", "failed", "rebuild", "pending"})
       THEN IF any({"applied", "unchanged"}) THEN "partial" ELSE "failed"
     ELSE IF any({"skipped"}) THEN "skips" ELSE "completed"

Finish(p) ==
  /\ At(p, "next") /\ run[p].todo = {}
  /\ Transition(p, Aggregate(run[p].copy.parts), "idle")
  /\ UNCHANGED <<disk, store, staged, backup, latest, lock, stops, done, excused, world>>

-----------------------------------------------------------------------------
(* Everybody else.                                                         *)

\* A file that an updater has checked and may still write.
Checked(f) ==
  \/ f = "kb" /\ run[Helper].at \in {"wait", "away", "in", "verify"}
  \/ \E p \in Processes : At(p, "template") /\ f \in DOMAIN Changes(p, "template")

Edits(f) ==
  CASE f = "rules" -> {Nothing, <<Edited, disk.rules[2]>>, <<Broken, disk.rules[2]>>,
                       <<disk.rules[1], "noted">>}
    [] f = "index" -> {0, 1, 2}
    [] f \in {"kb", "skill"} -> {Edited}
    [] OTHER -> {Gone, Edited}

Edit(f) ==
  /\ edits < MaxEdits
  /\ \E content \in Edits(f) : content # disk[f] /\ disk' = [disk EXCEPT ![f] = content]
  /\ edits' = edits + 1
  /\ late' = IF Checked(f) THEN late \cup {f} ELSE late
  /\ UNCHANGED <<there, published, store, staged, backup, latest, run, lock, expired,
                 stops, told, done, excused>>

MoveVault ==
  /\ edits < MaxEdits
  /\ there' = ~there /\ edits' = edits + 1
  /\ UNCHANGED <<disk, published, store, staged, backup, latest, run, lock, expired,
                 stops, told, done, late, excused>>

Expire(o) ==
  /\ store[o].state = "preview" /\ o \in told \ expired
  /\ expired' = expired \cup {o}
  /\ UNCHANGED <<disk, there, published, store, staged, backup, latest, run, lock,
                 edits, stops, told, done, late, excused>>

Die(p) ==
  /\ ~At(p, "idle") /\ Stops
  /\ run' = [run EXCEPT ![p] = Idle]
  /\ lock' = IF lock = p THEN "free" ELSE lock
  /\ excused' = excused \cup {Op(p)}
  /\ UNCHANGED <<disk, store, staged, backup, latest, done, world>>

Init ==
  /\ disk \in Beginnings
  /\ there = TRUE /\ published \in Releases
  /\ store = [o \in Ops |-> Absent]
  /\ staged = [o \in Ops |-> Gone] /\ backup = staged
  /\ latest = NoOp /\ lock = "free"
  /\ run = [p \in Processes |-> Idle]
  /\ expired = {} /\ told = {} /\ done = {} /\ late = {} /\ excused = {}
  /\ edits = 0 /\ stops = 0

\* The steps that a command, or a helper, takes once it has begun.
Replaces ==
  \/ HelperStarts \/ HelperChecks \/ ParentExits \/ MoveAway \/ MoveIn
  \/ VerifyKb \/ HelperReplaced
Continue(p) ==
  \/ Create(p) \/ Point(p) \/ Attach(p) \/ Write(p) \/ Confirmed(p) \/ Fail(p)
  \/ Resume(p) \/ Resolve(p) \/ ApplySkill(p) \/ ApplyIndex(p)
  \/ BeginTemplate(p) \/ WriteFile(p) \/ TemplateWritten(p) \/ Finish(p)
  \/ p = Cli /\ (Leave \/ Forget)
  \/ p = Helper /\ Replaces

Begin == \/ \E o \in Ops : \/ \E s \in CliScopes : Prepare(Cli, s, o)
                           \/ Prepare(Adapter, AdapterScope, o)
         \/ \E p \in {Cli, Adapter} : Confirm(p)
         \/ Cancel

IoError == \/ ScheduleFails \/ ParentLingers \/ MoveInFails \/ KeepsBackup
           \/ \E p \in Processes : ApplySkillFails(p) \/ ApplyIndexFails(p) \/ TemplateFails(p)

Other == \/ \E f \in Files : Edit(f)
         \/ MoveVault
         \/ \E o \in Ops : Expire(o)

Next == \/ \E p \in Processes : Continue(p) \/ Die(p)
        \/ Begin \/ IoError \/ Other

Spec == Init /\ [][Next]_vars /\ \A p \in Processes : WF_vars(Continue(p))

-----------------------------------------------------------------------------
(* Properties.                                                             *)

\* Types.
TypeOK ==
  /\ DOMAIN disk = Files /\ \A f \in Files : disk[f] \in Contents(f)
  /\ \A o \in Ops : store[o].state \in States \cup {"absent", "removed"}
  /\ latest \in Ops \cup {NoOp} /\ lock \in Processes \cup {"free"}
  /\ staged \in [Ops -> {Gone} \cup Releases]
  /\ backup \in [Ops -> {Gone, Edited} \cup Releases]
  /\ \A p \in Processes : Op(p) \in Ops \cup {NoOp} /\ run[p].copy.state \in States \cup {"absent"}
  /\ done \subseteq Ops \X Parts

\* While the executable is being replaced, and wherever that stops, either it
\* or its backup is there.
ExecutableIsRecoverable == disk.kb # Gone \/ \E o \in Ops : backup[o] # Gone

\* The update never replaces what a user changed before it looked: neither a
\* customised file nor the user's own text in KB.md.  (The executable is
\* looked at before the wait for kb to exit, the template before its first
\* file is written: a change after that may be lost.)
Custom(f, content) ==
  IF f = "rules" THEN content[1] \in {Edited, Broken} ELSE content = Edited
UserContentIsKept ==
  [][\A f \in Files \ late :
        edits' = edits /\ disk'[f] # disk[f] =>
          /\ ~Custom(f, disk[f])
          /\ f = "rules" => disk'[f][2] = disk[f][2]]_vars

\* An operation that ended as completed, even with skips, applied every
\* component it was confirmed for, whichever of the helper, its child and the
\* concurrent confirmations resumed it.
CompletedMeansApplied ==
  \A o \in Ops : store[o].state \in {"completed", "skips"} =>
    \A c \in Parts : store[o].plan[c].state \in {"pending", "rebuild"} => <<o, c>> \in done

\* A process that plans an update may have fetched it.  Whatever a request
\* was answered, it was tried again only while no answer was final, at most
\* three times and with at most three seconds of waiting; it succeeded if and
\* only if one of the attempts that this allows did.
PolicyWait(answers, k) == IF k = 1 THEN 0 ELSE
  Delay(1, answers[1]) + (IF k = 3 THEN Delay(2, answers[2]) ELSE 0)
Allowed(answers, k) ==
  PolicyWait(answers, k) <= 3 /\ \A j \in 1..(k - 1) : Retryable(answers[j])
MeetsPolicy(answers) ==
  LET outcome == Retry(answers)
      allowed == {k \in 1..3 : Allowed(answers, k)}
  IN /\ outcome.attempts \in allowed /\ outcome.waited = PolicyWait(answers, outcome.attempts)
     /\ outcome.result = "ok" <=> \E k \in allowed : answers[k].why = "ok"
RetryPolicyHolds == \A answers \in [1..3 -> Answers] : MeetsPolicy(answers)
RetryMeetsItsPolicy == \A p \in Processes : At(p, "create") => RetryPolicyHolds

\* Once its hour is over and nobody is asking about it, a preview no longer
\* stands in the way of a new one.
ExpiredPreviewIsReplaceable ==
  latest \in expired /\ (\A p \in Processes : At(p, "idle")) => MayPlan

\* A confirmed operation ends, and says how, unless a process working on it
\* died, its Vault moved, or an adapter confirmed what only the CLI can do.
ConfirmedUpdateEnds ==
  \A o \in Ops : store[o].state = "confirmed" ~> store[o].state \in Terminal \/ o \in excused
=============================================================================
