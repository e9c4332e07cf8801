--------------------------- MODULE UpdateRunProofs ---------------------------
(***************************************************************************)
(* What holds of an update for every set of operations, every disk to      *)
(* begin with, every answer of the release service, and any number of      *)
(* edits, of processes that die and of IO errors.                          *)
(*                                                                         *)
(* Every write of an operation is a read and a later write of the changed  *)
(* copy, and three processes do that without a lock: the store may be      *)
(* behind, and so may each copy.  IInv therefore says of every version of  *)
(* an operation, stored or in a process's hands, that it has the plan that *)
(* it was created with (PlansAgree) and that what it says of a component   *)
(* is true (OperationsTruthful).  Of the two that write without another    *)
(* check, the helper and the writer of the template, it says what they     *)
(* still find as they checked it (KbKept, TemplateKept).                   *)
(*                                                                         *)
(* A step is taken apart into what it does to the tasks (TaskStep) and to  *)
(* the store (StoreStep); what is invariant about operations follows from  *)
(* these alone.                                                            *)
(***************************************************************************)
EXTENDS UpdateRun, TLAPS

\* What a process can be at, and where it can go after it has written.
Places == {"idle", "create", "point", "attach", "ask", "leaving", "forget", "write", "confirmed",
           "fail", "start", "check", "wait", "away", "in", "verify", "installed",
           "resume", "resolve", "next", "template"}
Continuations == {"idle", "check", "confirmed", "resume", "resolve", "next"}

\* Operations, as the store keeps them.
Scopes == [mode : {"current", "selected", "registered"}, vault : BOOLEAN]
PlanStates == {"none", "unchanged", "skipped", "pending", "rebuild"}
PartStates == PlanStates \cup {"applied", "failed", "stale"}
OperationTyped(operation) ==
  /\ DOMAIN operation = {"state", "scope", "plan", "parts"}
  /\ operation.state \in States /\ operation.scope \in Scopes
  /\ DOMAIN operation.plan = Parts /\ \A c \in Parts : operation.plan[c].state \in PlanStates
  /\ operation.parts \in [Parts -> PartStates]

\* A process that plans or applies has a build that is a release.
HasBuild(task) ==
  \/ task.at \in {"create", "point", "attach", "resolve", "next", "template"}
  \/ task.at = "write" /\ task.then \in {"resolve", "next"}

TaskTyped(task) ==
  /\ DOMAIN task = {"at", "op", "build", "copy", "todo", "then"}
  /\ task.at \in Places /\ task.then \in Places
  /\ task.at = "idle" => task = Idle
  /\ task.at # "idle" => task.op \in Ops /\ OperationTyped(task.copy)
  /\ task.at = "write" => task.then \in Continuations
  /\ HasBuild(task) => task.build \in Releases

DiskTyped == DOMAIN disk = Files /\ \A f \in Files : disk[f] \in Contents(f)

StoreTyped ==
  /\ published \in Releases /\ edits \in Nat
  /\ DOMAIN store = Ops
  /\ \A o \in Ops : store[o] = Absent \/ store[o] = Removed \/ OperationTyped(store[o])
  /\ staged \in [Ops -> {Gone} \cup Releases]
  /\ backup \in [Ops -> {Gone, Edited} \cup Releases]
  /\ latest \in Ops \cup {NoOp}
  /\ latest # NoOp => store[latest].state # "absent"
  /\ lock \in Processes \cup {"free"}
  /\ done \subseteq Ops \X Parts

RunTyped == DOMAIN run = Processes /\ \A p \in Processes : TaskTyped(run[p])

Typed == DiskTyped /\ StoreTyped /\ RunTyped

\* An operation that is being created is nobody else's; later its plan does not change.
PlansAgree ==
  \A p \in Processes :
    /\ At(p, "create") => /\ Stored(p).state = "absent"
                          /\ \A q \in Processes : Op(q) = Op(p) => q = p
    /\ run[p].at \notin {"idle", "create"} =>
         /\ Stored(p).state # "absent"
         /\ Stored(p).state # "removed" => run[p].copy.plan = Stored(p).plan

\* What an operation says of its components is true.
ToDo(operation) == {c \in Parts : operation.plan[c].state \in {"pending", "rebuild"}}
Truthful(operation, o, applied) ==
  /\ \A c \in ToDo(operation) :
       operation.parts[c] \in {"pending", "rebuild", "applied", "failed", "stale"}
  /\ \A c \in Parts : operation.parts[c] = "applied" => <<o, c>> \in applied
  /\ \A c \in Parts : operation.parts[c] = "pending" => operation.plan[c].state = "pending"
  /\ operation.state \in {"completed", "skips"} => \A c \in ToDo(operation) : <<o, c>> \in applied
OperationsTruthful ==
  /\ \A o \in Ops : store[o].state \notin {"absent", "removed"} => Truthful(store[o], o, done)
  /\ \A p \in Processes : ~At(p, "idle") => Truthful(run[p].copy, Op(p), done)

\* The executable that a plan replaces is a release, by another.
KbChange(operation) == operation.plan["executable"].changes["kb"]
KbPlanned(operation) ==
  operation.plan["executable"].state = "pending" =>
    KbChange(operation).from \in Releases /\ KbChange(operation).to \in Releases
KbPlans ==
  /\ \A o \in Ops : store[o].state \notin {"absent", "removed"} => KbPlanned(store[o])
  /\ \A p \in Processes : ~At(p, "idle") => KbPlanned(run[p].copy)

\* While the helper replaces the executable, either that or its backup is in place, and
\* unless a user has changed it since the check, it is what the plan says.
Replacing(task) ==
  \/ task.at \in {"start", "check", "wait", "away", "in", "verify"}
  \/ task.at = "write" /\ task.then = "check"
KbKept ==
  /\ Replacing(run[Helper]) => run[Helper].copy.plan["executable"].state = "pending"
  /\ run[Helper].at \in {"wait", "away"} /\ "kb" \notin late =>
       disk["kb"] = KbChange(run[Helper].copy).from
  /\ At(Helper, "in") /\ "kb" \notin late => disk["kb"] = Gone
  /\ At(Helper, "verify") /\ "kb" \notin late => disk["kb"] # Edited
  /\ run[Helper].at \in {"in", "verify"} => backup[Op(Helper)] # Gone
  /\ At(Helper, "installed") => disk["kb"] # Gone

\* While a process writes the template, no other does, and every file that no user has
\* changed since the check is as it was, or as it is to be.
ChangeKeeps(f, change) ==
  /\ change.from \in Contents(f) /\ change.to \in Contents(f)
  /\ ~Custom(f, change.from) /\ ~Custom(f, change.to)
  /\ f = "rules" => change.from[2] = change.to[2]
TemplateKept ==
  \A p \in Processes : At(p, "template") =>
    /\ lock = p
    /\ DOMAIN Changes(p, "template") \subseteq TemplateFiles
    /\ run[p].todo \subseteq DOMAIN Changes(p, "template")
    /\ \A f \in DOMAIN Changes(p, "template") :
         /\ ChangeKeeps(f, Changes(p, "template")[f])
         /\ f \notin late =>
              disk[f] = IF f \in run[p].todo THEN Changes(p, "template")[f].from
                                             ELSE Changes(p, "template")[f].to

IInv == /\ Typed /\ PlansAgree /\ OperationsTruthful /\ KbPlans /\ KbKept /\ TemplateKept
        /\ ExecutableIsRecoverable


-----------------------------------------------------------------------------
(* What a process does to its task, and to the copy that it writes         *)

\* The processes are three, and no constants of the model meet.
LEMMA ProcessesTyped ==
  /\ Cli \in Processes /\ Adapter \in Processes /\ Helper \in Processes
  /\ Cli # Adapter /\ Cli # Helper /\ Helper # Adapter
  /\ \A p \in Processes : p # "free"
BY DEF Cli, Adapter, Helper, Processes

Others(p) == DOMAIN run' = Processes /\ \A q \in Processes \ {p} : run'[q] = run[q]

\* Task p is as it was, but for where it is and what it has to do.
Kept(p) ==
  /\ run'[p].op = run[p].op /\ run'[p].build = run[p].build /\ run'[p].copy = run[p].copy
  /\ run'[p].then = run[p].then /\ DOMAIN run'[p] = DOMAIN run[p]

\* Going somewhere ends the task or changes its place alone.
LEMMA GoesEffect ==
  ASSUME RunTyped, NEW p \in Processes, NEW a, Goes(p, a)
  PROVE  /\ Others(p)
         /\ a = "idle" => run'[p] = Idle
         /\ a # "idle" => Kept(p) /\ run'[p].at = a /\ run'[p].todo = run[p].todo
BY DEF Goes, RunTyped, TaskTyped, Others, Kept

\* Writing changes the copy, and where to go then.
LEMMA WritesEffect ==
  ASSUME RunTyped, NEW p \in Processes, NEW r, NEW a, Writes(p, r, a)
  PROVE  /\ Others(p)
         /\ run'[p].at = "write" /\ run'[p].then = a /\ run'[p].copy = r
         /\ run'[p].op = run[p].op /\ run'[p].build = run[p].build
         /\ run'[p].todo = run[p].todo /\ DOMAIN run'[p] = DOMAIN run[p]
BY DEF Writes, RunTyped, TaskTyped, Others

\* So does recording what became of a component.
LEMMA RecordsEffect ==
  ASSUME RunTyped, NEW p \in Processes, NEW c, NEW x, NEW rest, Records(p, c, x, rest),
         Stored(p).state = "applying"
  PROVE  /\ Others(p)
         /\ run'[p].at = "write" /\ run'[p].then = "next"
         /\ run'[p].copy = [Stored(p) EXCEPT !.parts[c] = x]
         /\ run'[p].op = run[p].op /\ run'[p].build = run[p].build
         /\ run'[p].todo = rest /\ DOMAIN run'[p] = DOMAIN run[p]
BY DEF Records, RunTyped, TaskTyped, Others

\* A new state leaves the rest of an operation alone ...
LEMMA StateEffect ==
  ASSUME NEW r, OperationTyped(r), NEW x \in States
  PROVE  /\ OperationTyped([r EXCEPT !.state = x])
         /\ [r EXCEPT !.state = x].state = x
         /\ [r EXCEPT !.state = x].plan = r.plan
         /\ [r EXCEPT !.state = x].parts = r.parts
BY DEF OperationTyped

\* ... and so does what became of a component.
LEMMA PartEffect ==
  ASSUME NEW r, OperationTyped(r), NEW c \in Parts, NEW x \in PartStates
  PROVE  /\ OperationTyped([r EXCEPT !.parts[c] = x])
         /\ [r EXCEPT !.parts[c] = x].state = r.state
         /\ [r EXCEPT !.parts[c] = x].plan = r.plan
         /\ [r EXCEPT !.parts[c] = x].parts = [r.parts EXCEPT ![c] = x]
BY DEF OperationTyped

\* A stored operation with a state of the table is one.
LEMMA StoredTyped ==
  ASSUME StoreTyped, NEW o \in Ops, store[o].state \in States
  PROVE  OperationTyped(store[o])
BY DEF StoreTyped, Absent, Removed, States

\* What the table of transitions leads to and from.
LEMMA LegalTyped ==
  ASSUME NEW s, NEW t, Legal(s, t)
  PROVE  s \in States \ {"preview"} /\ t \in States \ {"preview", "confirmed"}
BY DEF Legal, States, Terminal

\* A plan has a state for each component.
LEMMA PlanTyped ==
  ASSUME NEW p, NEW b, NEW d, NEW s \in Scopes
  PROVE  OperationTyped(Operation(s, Plan(p, b, d, s)))
<1> SUFFICES ASSUME NEW plan, plan = Plan(p, b, d, s)
    PROVE  OperationTyped(Operation(s, plan))
  OBVIOUS
<1>1. DOMAIN plan = Parts
  BY DEF Plan
<1>2. ASSUME NEW c \in Parts PROVE plan[c].state \in PlanStates
  <2>1. PlanExecutable(p, b, d).state \in PlanStates
    BY DEF PlanExecutable, Part, PlanStates
  <2>2. PlanSkill(b, d).state \in PlanStates
    BY DEF PlanSkill, Part, PlanStates, Conflict
  <2>3. PlanIndex(d).state \in PlanStates
    BY DEF PlanIndex, Part, PlanStates
  <2>4. PlanTemplate(b, d).state \in PlanStates
    BY DEF PlanTemplate, Part, PlanStates, Conflict, WithoutManifest, FromManifest,
       TemplatePart
  <2>5. NoPart.state \in PlanStates
    BY DEF NoPart, Part, PlanStates
  <2> QED
    BY <2>1, <2>2, <2>3, <2>4, <2>5 DEF Plan
<1>3. Operation(s, plan) = [state |-> "preview", scope |-> s, plan |-> plan,
                            parts |-> [c \in Parts |-> plan[c].state]]
  BY DEF Operation
<1> QED
  BY <1>1, <1>2, <1>3 DEF OperationTyped, States, PartStates


-----------------------------------------------------------------------------
(* Tasks are typed                                                         *)

\* One typed task among the others.
LEMMA OneTyped ==
  ASSUME RunTyped, NEW p \in Processes, Others(p), TaskTyped(run'[p])
  PROVE  RunTyped'
BY DEF RunTyped, Others

\* Going somewhere, with a build where one is needed.
LEMMA GoesTyped ==
  ASSUME RunTyped, NEW p \in Processes, ~At(p, "idle"), NEW a \in Places \ {"write"},
         Goes(p, a),
         a \in {"create", "point", "attach", "resolve", "next", "template"} =>
           run[p].build \in Releases
  PROVE  RunTyped'
<1>1. TaskTyped(run[p]) /\ run[p].at # "idle"
  BY DEF RunTyped, At
<1>2. CASE a = "idle"
  <2>1. run'[p] = Idle /\ Others(p)
    BY <1>2, GoesEffect
  <2>2. TaskTyped(Idle)
    BY DEF TaskTyped, Idle, Task, HasBuild, Places
  <2> QED
    BY <2>1, <2>2, OneTyped
<1>3. CASE a # "idle"
  <2>1. Kept(p) /\ run'[p].at = a /\ Others(p)
    BY <1>3, GoesEffect
  <2>2. DOMAIN run'[p] = {"at", "op", "build", "copy", "todo", "then"}
    BY <1>1, <2>1 DEF Kept, TaskTyped
  <2>3. run'[p].op \in Ops /\ OperationTyped(run'[p].copy) /\ run'[p].then \in Places
    BY <1>1, <2>1 DEF Kept, TaskTyped
  <2>4. HasBuild(run'[p]) => run'[p].build \in Releases
    BY <2>1 DEF Kept, HasBuild
  <2>5. TaskTyped(run'[p])
    BY <1>3, <2>1, <2>2, <2>3, <2>4 DEF TaskTyped
  <2> QED
    BY <2>1, <2>5, OneTyped
<1> QED
  BY <1>2, <1>3

\* An error leads a helper to say so, and another process to end.
LEMMA FailsTyped ==
  ASSUME RunTyped, NEW p \in Processes, ~At(p, "idle"), Fails(p)
  PROVE  RunTyped'
<1>1. CASE p = Helper
  BY <1>1, GoesTyped DEF Fails, Places
<1>2. CASE p # Helper
  BY <1>2, GoesTyped DEF Fails, Places
<1> QED
  BY <1>1, <1>2

\* Preparing to write an operation.
LEMMA WritingTyped ==
  ASSUME RunTyped, NEW p \in Processes, Others(p),
         DOMAIN run'[p] = {"at", "op", "build", "copy", "todo", "then"},
         run'[p].at = "write", run'[p].op \in Ops, OperationTyped(run'[p].copy),
         run'[p].then \in Continuations,
         run'[p].then \in {"resolve", "next"} => run'[p].build \in Releases
  PROVE  RunTyped'
<1>1. run'[p].then \in Places /\ run'[p].at \in Places
  BY DEF Continuations, Places
<1>2. TaskTyped(run'[p])
  BY <1>1 DEF TaskTyped, HasBuild
<1> QED
  BY <1>2, OneTyped

\* Preparing to write the stored operation with another state.
LEMMA StateTyped ==
  ASSUME StoreTyped, RunTyped, NEW p \in Processes, ~At(p, "idle"),
         Stored(p).state \in States, NEW s \in States,
         NEW a \in {"idle", "check", "confirmed", "resume"},
         Writes(p, [Stored(p) EXCEPT !.state = s], a)
  PROVE  RunTyped'
<1>1. run[p].op \in Ops /\ DOMAIN run[p] = {"at", "op", "build", "copy", "todo", "then"}
  BY DEF RunTyped, TaskTyped, At
<1>2. OperationTyped(Stored(p))
  BY <1>1, StoredTyped DEF Stored, Op
<1>3. OperationTyped([Stored(p) EXCEPT !.state = s])
  BY <1>2, StateEffect
<1>4. a \in Continuations \ {"resolve", "next"}
  BY DEF Continuations
<1> QED
  BY <1>1, <1>3, <1>4, WritesEffect, WritingTyped

\* A transition of the store.
LEMMA TransitionTyped ==
  ASSUME StoreTyped, RunTyped, NEW p \in Processes, ~At(p, "idle"), NEW s,
         NEW a \in {"idle", "check", "confirmed", "resume"}, Transition(p, s, a)
  PROVE  RunTyped'
<1>1. CASE Legal(Stored(p).state, s)
  BY <1>1, LegalTyped, StateTyped DEF Transition
<1>2. CASE ~Legal(Stored(p).state, s)
  BY <1>2, FailsTyped DEF Transition
<1> QED
  BY <1>1, <1>2

\* A record of what became of a component.
LEMMA RecordsTyped ==
  ASSUME StoreTyped, RunTyped, NEW p \in Processes, ~At(p, "idle"),
         run[p].build \in Releases,
         NEW c \in Parts, NEW x \in PartStates, NEW rest, Records(p, c, x, rest)
  PROVE  RunTyped'
<1>1. CASE Stored(p).state = "applying"
  <2>1. run[p].op \in Ops /\ DOMAIN run[p] = {"at", "op", "build", "copy", "todo", "then"}
    BY DEF RunTyped, TaskTyped, At
  <2>2. OperationTyped(Stored(p))
    BY <1>1, <2>1, StoredTyped DEF Stored, Op, States
  <2>3. OperationTyped([Stored(p) EXCEPT !.parts[c] = x])
    BY <2>2, PartEffect
  <2>4. "next" \in Continuations
    BY DEF Continuations
  <2>5. /\ Others(p) /\ run'[p].at = "write" /\ run'[p].then = "next"
        /\ run'[p].copy = [Stored(p) EXCEPT !.parts[c] = x]
        /\ run'[p].op = run[p].op /\ run'[p].build = run[p].build
        /\ DOMAIN run'[p] = DOMAIN run[p]
    BY <1>1 DEF Records, RunTyped, TaskTyped, Others
  <2> QED
    BY <2>1, <2>3, <2>4, <2>5, WritingTyped
<1>2. CASE Stored(p).state # "applying"
  BY <1>2, FailsTyped DEF Records
<1> QED
  BY <1>1, <1>2

\* The end of a component.
LEMMA EndsTyped ==
  ASSUME StoreTyped, RunTyped, NEW p \in Processes, ~At(p, "idle"),
         run[p].build \in Releases,
         NEW c \in Parts, NEW x \in PartStates, Ends(p, c, x)
  PROVE  RunTyped'
BY RecordsTyped DEF Ends

\* A component that ended otherwise than it should is seen in the final state.
LEMMA AggregateFails ==
  ASSUME NEW parts, NEW c \in Parts, parts[c] \in {"stale", "failed", "rebuild", "pending"}
  PROVE  Aggregate(parts) \in {"partial", "failed"}
<1>1. Aggregate(parts) = IF \E d \in Parts : parts[d] \in {"applied", "unchanged"}
                           THEN "partial" ELSE "failed"
  BY DEF Aggregate
<1> QED
  BY <1>1

\* Every step leaves each process with a task.
LEMMA NextRunTyped ==
  ASSUME StoreTyped, RunTyped, [Next]_vars
  PROVE  RunTyped'
<1>1. ASSUME NEW p \in Processes, Create(p) PROVE RunTyped'
  <2>1. run[p].build \in Releases /\ ~At(p, "idle")
    BY <1>1 DEF Create, At, RunTyped, TaskTyped, HasBuild
  <2> QED
    BY <1>1, <2>1, GoesTyped DEF Create, Places
<1>2. ASSUME NEW p \in Processes, Point(p) PROVE RunTyped'
  <2>1. run[p].build \in Releases /\ ~At(p, "idle")
    BY <1>2 DEF Point, At, RunTyped, TaskTyped, HasBuild
  <2> QED
    BY <1>2, <2>1, GoesTyped DEF Point, Places
<1>3. ASSUME NEW p \in Processes, Attach(p) PROVE RunTyped'
  <2>1. ~At(p, "idle")
    BY <1>3 DEF Attach, At
  <2>2. Goes(p, "ask") \/ Goes(p, "idle")
    BY <1>3 DEF Attach
  <2> QED
    BY <2>1, <2>2, GoesTyped DEF Places
<1>4. ASSUME NEW p \in Processes, Write(p) PROVE RunTyped'
  <2>1. ~At(p, "idle") /\ run[p].then \in Continuations
    BY <1>4 DEF Write, At, RunTyped, TaskTyped
  <2>2. run[p].then \in {"resolve", "next"} => run[p].build \in Releases
    BY <1>4 DEF Write, At, RunTyped, TaskTyped, HasBuild
  <2>3. Fails(p) \/ Goes(p, run[p].then)
    BY <1>4 DEF Write
  <2>4. /\ run[p].then \in Places \ {"write"}
        /\ run[p].then \notin {"create", "point", "attach", "template"}
    BY <2>1 DEF Continuations, Places
  <2> QED
    BY <2>1, <2>2, <2>3, <2>4, GoesTyped, FailsTyped
<1>5. ASSUME NEW p \in Processes, Confirmed(p) PROVE RunTyped'
  <2>0. ~At(p, "idle") /\ TaskTyped(run[p]) /\ TaskTyped(run[Helper])
    BY <1>5, ProcessesTyped DEF Confirmed, At, RunTyped
  <2>1. CASE Goes(p, "resume") \/ Goes(p, "idle")
    BY <2>0, <2>1, GoesTyped DEF Places
  <2>2. CASE run' = [run EXCEPT ![p].at = "leaving", ![Helper] =
                       Task("start", Op(p), Gone, run[p].copy, {}, "idle")]
    <3>1. p # Helper \/ run'[p] = Task("start", Op(p), Gone, run[p].copy, {}, "idle")
      BY <2>2 DEF RunTyped
    <3>2. TaskTyped(Task("start", Op(p), Gone, run[p].copy, {}, "idle"))
      BY <2>0 DEF Task, TaskTyped, HasBuild, Places, At, Op
    <3>3. TaskTyped([run[p] EXCEPT !.at = "leaving"])
      BY <2>0 DEF TaskTyped, HasBuild, Places, At
    <3>4. /\ run'[Helper] = Task("start", Op(p), Gone, run[p].copy, {}, "idle")
          /\ p # Helper => run'[p] = [run[p] EXCEPT !.at = "leaving"]
          /\ \A q \in Processes \ {p, Helper} : run'[q] = run[q]
          /\ DOMAIN run' = Processes
      BY <2>2, ProcessesTyped DEF RunTyped
    <3> QED
      BY <3>2, <3>3, <3>4 DEF RunTyped
  <2> QED
    BY <1>5, <2>1, <2>2 DEF Confirmed
<1>6. ASSUME NEW p \in Processes, Fail(p) PROVE RunTyped'
  <2>1. ~At(p, "idle")
    BY <1>6 DEF Fail, At
  <2>2. CASE /\ Legal(Stored(p).state, "failed")
             /\ Writes(p, [Stored(p) EXCEPT !.state = "failed"], "idle")
    BY <2>1, <2>2, LegalTyped, StateTyped
  <2> QED
    BY <1>6, <2>1, <2>2, GoesTyped DEF Fail, Places
<1>7. ASSUME NEW p \in Processes, Resume(p) PROVE RunTyped'
  <2> DEFINE b == IF p = Helper THEN disk.kb ELSE run[p].build
  <2>1. TaskTyped(run[p]) /\ run[p].at = "resume" /\ ~At(p, "idle") /\ Op(p) \in Ops
    BY <1>7 DEF Resume, At, RunTyped, TaskTyped, Op
  <2>2. CASE b \in Releases /\ Stored(p).state \in {"confirmed", "replaced"} /\ run' =
          [[run EXCEPT ![p].build = b] EXCEPT ![p].at = "write", ![p].then = "resolve",
                       ![p].copy = [Stored(p) EXCEPT !.state = "applying"]]
    <3>1. OperationTyped([Stored(p) EXCEPT !.state = "applying"])
      BY <2>1, <2>2, StoredTyped, StateEffect DEF Stored, States
    <3>2. /\ Others(p) /\ run'[p].at = "write" /\ run'[p].then = "resolve"
          /\ run'[p].copy = [Stored(p) EXCEPT !.state = "applying"]
          /\ run'[p].op = run[p].op /\ run'[p].build = b
          /\ DOMAIN run'[p] = DOMAIN run[p]
      BY <2>1, <2>2 DEF RunTyped, TaskTyped, Others
    <3>3. "resolve" \in Continuations
      BY DEF Continuations
    <3> QED
      BY <2>1, <2>2, <3>1, <3>2, <3>3, WritingTyped DEF TaskTyped, Op
  <2>3. CASE b \in Releases /\ Stored(p).state = "applying" /\ run' =
          [[run EXCEPT ![p].build = b] EXCEPT ![p].at = "resolve", ![p].copy = Stored(p)]
    <3>1. OperationTyped(Stored(p))
      BY <2>1, <2>3, StoredTyped DEF Stored, States
    <3>2. /\ Others(p) /\ run'[p].at = "resolve" /\ run'[p].then = run[p].then
          /\ run'[p].copy = Stored(p)
          /\ run'[p].op = run[p].op /\ run'[p].build = b
          /\ DOMAIN run'[p] = DOMAIN run[p]
      BY <2>1, <2>3 DEF RunTyped, TaskTyped, Others
    <3>3. TaskTyped(run'[p])
      BY <2>1, <2>3, <3>1, <3>2 DEF TaskTyped, HasBuild, Places, Op
    <3> QED
      BY <3>2, <3>3, OneTyped
  <2>4. CASE Fails(p) \/ Goes(p, "idle")
    BY <2>1, <2>4, FailsTyped, GoesTyped DEF Places
  <2> QED
    BY <1>7, <2>2, <2>3, <2>4 DEF Resume
<1>8. ASSUME NEW p \in Processes, Resolve(p) PROVE RunTyped'
  <2>1. ~At(p, "idle") /\ run[p].build \in Releases /\ TaskTyped(run[p])
    BY <1>8 DEF Resolve, Turn, At, RunTyped, TaskTyped, HasBuild
  <2>2. CASE Fails(p)
    BY <2>1, <2>2, FailsTyped
  <2>3. ASSUME NEW x \in {"applied", "failed"}, Records(p, "executable", x,
               Remaining(run[p].copy.parts))
        PROVE  RunTyped'
    BY <2>1, <2>3, RecordsTyped DEF Parts, PartStates
  <2>4. CASE run' = [run EXCEPT ![p].at = "next", ![p].todo = Remaining(run[p].copy.parts)]
    <3>1. TaskTyped(run'[p]) /\ Others(p)
      BY <1>8, <2>1, <2>4 DEF Resolve, At, RunTyped, TaskTyped, HasBuild, Places, Others
    <3> QED
      BY <3>1, OneTyped
  <2> QED
    BY <1>8, <2>2, <2>3, <2>4 DEF Resolve
<1>9. ASSUME NEW p \in Processes, ApplySkill(p) PROVE RunTyped'
  <2>1. ~At(p, "idle") /\ run[p].build \in Releases /\ TaskTyped(run[p])
    BY <1>9 DEF ApplySkill, Turn, At, RunTyped, TaskTyped, HasBuild
  <2>2. \E x \in {"applied", "stale"} : Ends(p, "skill", x)
    BY <1>9 DEF ApplySkill
  <2> QED
    BY <2>1, <2>2, EndsTyped DEF Parts, PartStates, PlanStates
<1>10. ASSUME NEW p \in Processes, ApplyIndex(p) PROVE RunTyped'
  <2>1. ~At(p, "idle") /\ run[p].build \in Releases /\ TaskTyped(run[p])
    BY <1>10 DEF ApplyIndex, Turn, At, RunTyped, TaskTyped, HasBuild
  <2>2. \E x \in {"applied", "rebuild"} : Ends(p, "index", x)
    BY <1>10 DEF ApplyIndex
  <2> QED
    BY <2>1, <2>2, EndsTyped DEF Parts, PartStates, PlanStates
<1>11. ASSUME NEW p \in Processes, BeginTemplate(p) PROVE RunTyped'
  <2>1. ~At(p, "idle") /\ run[p].build \in Releases /\ TaskTyped(run[p])
    BY <1>11 DEF BeginTemplate, Turn, At, RunTyped, TaskTyped, HasBuild
  <2>2. ASSUME NEW x \in {"failed", "stale"}, Ends(p, "template", x) PROVE RunTyped'
    BY <2>1, <2>2, EndsTyped DEF Parts, PartStates, PlanStates
  <2>3. CASE run' = [run EXCEPT ![p].at = "template", ![p].todo = DOMAIN Changes(p, "template")]
    <3>1. TaskTyped(run'[p]) /\ Others(p)
      BY <1>11, <2>1, <2>3 DEF BeginTemplate, Turn, At, RunTyped, TaskTyped, HasBuild,
         Places, Others
    <3> QED
      BY <3>1, OneTyped
  <2> QED
    BY <1>11, <2>2, <2>3 DEF BeginTemplate
<1>12. ASSUME NEW p \in Processes, WriteFile(p) PROVE RunTyped'
  <2>1. ~At(p, "idle") /\ run[p].build \in Releases /\ TaskTyped(run[p])
    BY <1>12 DEF WriteFile, Turn, At, RunTyped, TaskTyped, HasBuild
  <2>2. CASE Ends(p, "template", "failed")
    BY <2>1, <2>2, EndsTyped DEF Parts, PartStates, PlanStates
  <2>3. ASSUME NEW f \in TemplateFiles, run' = [run EXCEPT ![p].todo = @ \ {f}]
        PROVE  RunTyped'
    <3>1. TaskTyped(run'[p]) /\ Others(p)
      BY <1>12, <2>1, <2>3 DEF WriteFile, At, RunTyped, TaskTyped, HasBuild, Places, Others
    <3> QED
      BY <3>1, OneTyped
  <2> QED
    BY <1>12, <2>2, <2>3 DEF WriteFile, RestoreTemplate
<1>13. ASSUME NEW p \in Processes, TemplateWritten(p) PROVE RunTyped'
  <2>1. ~At(p, "idle") /\ run[p].build \in Releases /\ TaskTyped(run[p])
    BY <1>13 DEF TemplateWritten, Turn, At, RunTyped, TaskTyped, HasBuild
  <2>2. \E x \in {"applied"} : Ends(p, "template", x)
    BY <1>13 DEF TemplateWritten
  <2> QED
    BY <2>1, <2>2, EndsTyped DEF Parts, PartStates, PlanStates
<1>14. ASSUME NEW p \in Processes, Finish(p) PROVE RunTyped'
  <2>1. ~At(p, "idle")
    BY <1>14 DEF Finish, At
  <2> QED
    BY <1>14, <2>1, TransitionTyped DEF Finish
<1>15. CASE Leave
  <2>1. ~At(Cli, "idle") /\ Cli \in Processes
    BY <1>15, ProcessesTyped DEF Leave, At
  <2>2. Goes(Cli, "idle")
    BY <1>15 DEF Leave
  <2> QED
    BY <2>1, <2>2, GoesTyped DEF Places
<1>16. CASE Forget
  <2>1. ~At(Cli, "idle") /\ Cli \in Processes
    BY <1>16, ProcessesTyped DEF Forget, At
  <2>2. Goes(Cli, "idle")
    BY <1>16 DEF Forget
  <2> QED
    BY <2>1, <2>2, GoesTyped DEF Places
<1>17. CASE HelperStarts
  <2>1. ~At(Helper, "idle") /\ Helper \in Processes
    BY <1>17, ProcessesTyped DEF HelperStarts, At
  <2>2. CASE /\ Legal(Stored(Helper).state, "replacing")
             /\ Writes(Helper, [Stored(Helper) EXCEPT !.state = "replacing"], "check")
    BY <2>1, <2>2, LegalTyped, StateTyped
  <2> QED
    BY <1>17, <2>1, <2>2, GoesTyped DEF HelperStarts, Places
<1>18. CASE HelperChecks
  <2>1. ~At(Helper, "idle") /\ Helper \in Processes
    BY <1>18, ProcessesTyped DEF HelperChecks, At
  <2>2. Goes(Helper, "wait") \/ Fails(Helper)
    BY <1>18 DEF HelperChecks
  <2> QED
    BY <2>1, <2>2, GoesTyped, FailsTyped DEF Places
<1>19. CASE ParentExits
  <2>1. ~At(Helper, "idle") /\ Helper \in Processes
    BY <1>19, ProcessesTyped DEF ParentExits, At
  <2>2. Goes(Helper, "away")
    BY <1>19 DEF ParentExits
  <2> QED
    BY <2>1, <2>2, GoesTyped DEF Places
<1>20. CASE MoveAway
  <2>1. ~At(Helper, "idle") /\ Helper \in Processes
    BY <1>20, ProcessesTyped DEF MoveAway, At
  <2>2. Goes(Helper, "in") \/ Fails(Helper)
    BY <1>20 DEF MoveAway
  <2> QED
    BY <2>1, <2>2, GoesTyped, FailsTyped DEF Places
<1>21. CASE MoveIn
  <2>1. ~At(Helper, "idle") /\ Helper \in Processes
    BY <1>21, ProcessesTyped DEF MoveIn, At
  <2>2. Goes(Helper, "verify")
    BY <1>21 DEF MoveIn
  <2> QED
    BY <2>1, <2>2, GoesTyped DEF Places
<1>22. CASE VerifyKb
  <2>1. ~At(Helper, "idle") /\ Helper \in Processes
    BY <1>22, ProcessesTyped DEF VerifyKb, At
  <2>2. Goes(Helper, "installed") \/ Fails(Helper)
    BY <1>22 DEF VerifyKb, RestoreKb
  <2> QED
    BY <2>1, <2>2, GoesTyped, FailsTyped DEF Places
<1>23. CASE HelperReplaced
  <2>1. ~At(Helper, "idle")
    BY <1>23 DEF HelperReplaced, At
  <2> QED
    BY <1>23, <2>1, ProcessesTyped, TransitionTyped DEF HelperReplaced
<1>24. ASSUME NEW p \in Processes, NEW s \in Scopes, NEW o \in Ops, Prepare(p, s, o)
       PROVE  RunTyped'
  <2> DEFINE b == Planner(p)
             plan == TargetPlan(p, b, s)
  <2>1. run' = [run EXCEPT ![p] = Task("create", o, b, Operation(s, plan), {}, "idle")]
    BY <1>24 DEF Prepare
  <2>2. b \in Releases
    BY <1>24 DEF Prepare, Planner, StoreTyped
  <2>3. OperationTyped(Operation(s, plan))
    BY PlanTyped DEF TargetPlan
  <2> HIDE DEF b, plan
  <2>4. TaskTyped(Task("create", o, b, Operation(s, plan), {}, "idle"))
    BY <2>2, <2>3 DEF Task, TaskTyped, Places
  <2> QED
    BY <2>1, <2>4 DEF RunTyped
<1>25. ASSUME NEW p \in Processes, Confirm(p) PROVE RunTyped'
  <2>1. OperationTyped([store[latest] EXCEPT !.state = "confirmed"]) /\ latest \in Ops
    BY <1>25, StoredTyped, StateEffect DEF Confirm, StoreTyped, States
  <2>2. Build(p) \in Releases /\ run' = [run EXCEPT ![p] =
          Task("write", latest, Build(p), [store[latest] EXCEPT !.state = "confirmed"], {}, "confirmed")]
    BY <1>25 DEF Confirm
  <2>3. TaskTyped(Task("write", latest, Build(p), [store[latest] EXCEPT !.state = "confirmed"], {},
                       "confirmed"))
    BY <2>1, <2>2 DEF Task, TaskTyped, Places, Continuations
  <2> QED
    BY <2>2, <2>3 DEF RunTyped
<1>26. CASE Cancel
  <2>1. ~At(Cli, "idle") /\ Cli \in Processes
    BY <1>26, ProcessesTyped DEF Cancel, At
  <2>2. Goes(Cli, "forget") \/ Goes(Cli, "idle")
    BY <1>26 DEF Cancel
  <2> QED
    BY <2>1, <2>2, GoesTyped DEF Places
<1>27. CASE ScheduleFails
  <2>1. ~At(Cli, "idle") /\ Cli \in Processes
    BY <1>27, ProcessesTyped DEF ScheduleFails, At
  <2>2. Goes(Cli, "fail")
    BY <1>27 DEF ScheduleFails
  <2> QED
    BY <2>1, <2>2, GoesTyped DEF Places
<1>28. CASE ParentLingers
  <2>1. ~At(Helper, "idle") /\ Helper \in Processes
    BY <1>28, ProcessesTyped DEF ParentLingers, At
  <2>2. Goes(Helper, "fail")
    BY <1>28 DEF ParentLingers
  <2> QED
    BY <2>1, <2>2, GoesTyped DEF Places
<1>29. CASE MoveInFails
  <2>1. ~At(Helper, "idle") /\ Helper \in Processes
    BY <1>29, ProcessesTyped DEF MoveInFails, At
  <2>2. Fails(Helper)
    BY <1>29 DEF MoveInFails, RestoreKb
  <2> QED
    BY <2>1, <2>2, GoesTyped, FailsTyped DEF Places
<1>30. CASE KeepsBackup
  <2>1. ~At(Helper, "idle") /\ Helper \in Processes
    BY <1>30, ProcessesTyped DEF KeepsBackup, At
  <2>2. Goes(Helper, "fail")
    BY <1>30 DEF KeepsBackup
  <2> QED
    BY <2>1, <2>2, GoesTyped DEF Places
<1>31. ASSUME NEW p \in Processes, ApplySkillFails(p) PROVE RunTyped'
  <2>1. ~At(p, "idle") /\ run[p].build \in Releases /\ TaskTyped(run[p])
    BY <1>31 DEF ApplySkillFails, Turn, At, RunTyped, TaskTyped, HasBuild
  <2>2. \E x \in {"failed"} : Ends(p, "skill", x)
    BY <1>31 DEF ApplySkillFails
  <2> QED
    BY <2>1, <2>2, EndsTyped DEF Parts, PartStates, PlanStates
<1>32. ASSUME NEW p \in Processes, ApplyIndexFails(p) PROVE RunTyped'
  <2>1. ~At(p, "idle") /\ run[p].build \in Releases /\ TaskTyped(run[p])
    BY <1>32 DEF ApplyIndexFails, Turn, At, RunTyped, TaskTyped, HasBuild
  <2>2. \E x \in {"rebuild"} : Ends(p, "index", x)
    BY <1>32 DEF ApplyIndexFails
  <2> QED
    BY <2>1, <2>2, EndsTyped DEF Parts, PartStates, PlanStates
<1>33. ASSUME NEW p \in Processes, TemplateFails(p) PROVE RunTyped'
  <2>1. ~At(p, "idle") /\ run[p].build \in Releases /\ TaskTyped(run[p])
    BY <1>33 DEF TemplateFails, Turn, At, RunTyped, TaskTyped, HasBuild
  <2>2. \E x \in {"failed"} : Ends(p, "template", x)
    BY <1>33 DEF TemplateFails, RestoreTemplate
  <2> QED
    BY <2>1, <2>2, EndsTyped DEF Parts, PartStates, PlanStates
<1>34. ASSUME NEW p \in Processes, Die(p) PROVE RunTyped'
  <2>1. TaskTyped(Idle)
    BY DEF TaskTyped, Idle, Task, HasBuild, Places
  <2> QED
    BY <1>34, <2>1 DEF Die, RunTyped
<1>35. ASSUME NEW f \in Files, Edit(f) PROVE RunTyped'
  BY <1>35 DEF Edit, RunTyped, TaskTyped
<1>36. ASSUME NEW o \in Ops, Expire(o) PROVE RunTyped'
  BY <1>36 DEF Expire, RunTyped, TaskTyped
<1>37. CASE MoveVault \/ UNCHANGED vars
  BY <1>37 DEF MoveVault, vars, RunTyped, TaskTyped
<1>0. CliScopes \subseteq Scopes /\ AdapterScope \in Scopes
  BY UpdateAssumption DEF Scopes, AdapterScope
<1> QED
  BY ProcessesTyped, <1>0, <1>1, <1>2, <1>3, <1>4, <1>5, <1>6, <1>7, <1>8, <1>9, <1>10,
     <1>11, <1>12, <1>13,
     <1>14, <1>15, <1>16, <1>17, <1>18, <1>19, <1>20, <1>21, <1>22, <1>23, <1>24, <1>25,
     <1>26, <1>27, <1>28, <1>29, <1>30, <1>31, <1>32, <1>33, <1>34, <1>35, <1>36, <1>37 DEF
     Next, Continue, Replaces, Begin, IoError, Other

\* Every step keeps the store typed.
LEMMA NextStoreTyped ==
  ASSUME DiskTyped, StoreTyped, RunTyped, PlansAgree, [Next]_vars
  PROVE  StoreTyped'
<1>1. ASSUME NEW p \in Processes, Create(p) PROVE StoreTyped'
  <2>1. Op(p) \in Ops /\ OperationTyped(run[p].copy)
    BY <1>1 DEF Create, At, Op, RunTyped, TaskTyped
  <2>2. /\ store' = [store EXCEPT ![Op(p)] = run[p].copy]
        /\ UNCHANGED <<staged, backup, latest, lock, done, published, edits>>
    BY <1>1 DEF Create, world
  <2>3. run[p].copy.state \in States
    BY <2>1 DEF OperationTyped
  <2> QED
    BY <2>1, <2>2, <2>3 DEF StoreTyped, States
<1>2. ASSUME NEW p \in Processes, Point(p) PROVE StoreTyped'
  <2>1. Op(p) \in Ops /\ Stored(p).state # "absent"
    BY <1>2 DEF Point, At, Op, RunTyped, TaskTyped, PlansAgree, Stored
  <2> QED
    BY <1>2, <2>1 DEF Point, world, StoreTyped, Stored
<1>3. ASSUME NEW p \in Processes, Attach(p) PROVE StoreTyped'
  <2>1. run[p].build \in Releases /\ Op(p) \in Ops
    BY <1>3 DEF Attach, At, Op, RunTyped, TaskTyped, HasBuild
  <2> QED
    BY <1>3, <2>1 DEF Attach, StoreTyped
<1>4. ASSUME NEW p \in Processes, Write(p) PROVE StoreTyped'
  <2>1. Op(p) \in Ops /\ OperationTyped(run[p].copy)
    BY <1>4 DEF Write, At, Op, RunTyped, TaskTyped
  <2>2. store' = store \/ store' = [store EXCEPT ![Op(p)] = run[p].copy]
    BY <1>4 DEF Write
  <2>3. UNCHANGED <<staged, backup, latest, lock, done, published, edits>>
    BY <1>4 DEF Write, world
  <2>4. run[p].copy.state \in States
    BY <2>1 DEF OperationTyped
  <2> QED
    BY <2>1, <2>2, <2>3, <2>4 DEF StoreTyped, States
<1>5. ASSUME NEW p \in Processes, Resolve(p) PROVE StoreTyped'
  <2>1. Op(p) \in Ops
    BY <1>5 DEF Resolve, At, Op, RunTyped, TaskTyped, Turn
  <2>2. done' \subseteq Ops \X Parts
    BY <1>5, <2>1 DEF Resolve, StoreTyped, Parts, Ends
  <2> QED
    BY <1>5, <2>2 DEF Resolve, StoreTyped, world
<1>6. ASSUME NEW p \in Processes, ApplySkill(p) PROVE StoreTyped'
  <2>1. Op(p) \in Ops
    BY <1>6 DEF ApplySkill, At, Op, RunTyped, TaskTyped, Turn
  <2>2. done' \subseteq Ops \X Parts
    BY <1>6, <2>1 DEF ApplySkill, StoreTyped, Parts, Ends
  <2> QED
    BY <1>6, <2>2 DEF ApplySkill, StoreTyped, world
<1>7. ASSUME NEW p \in Processes, ApplyIndex(p) PROVE StoreTyped'
  <2>1. Op(p) \in Ops
    BY <1>7 DEF ApplyIndex, At, Op, RunTyped, TaskTyped, Turn
  <2>2. done' \subseteq Ops \X Parts
    BY <1>7, <2>1 DEF ApplyIndex, StoreTyped, Parts, Ends
  <2> QED
    BY <1>7, <2>2 DEF ApplyIndex, StoreTyped, world
<1>8. ASSUME NEW p \in Processes, BeginTemplate(p) PROVE StoreTyped'
  <2>1. Op(p) \in Ops
    BY <1>8 DEF BeginTemplate, At, Op, RunTyped, TaskTyped, Turn
  <2>2. done' \subseteq Ops \X Parts
    BY <1>8, <2>1 DEF BeginTemplate, StoreTyped, Parts, Ends
  <2> QED
    BY <1>8, <2>2 DEF BeginTemplate, StoreTyped, world
<1>9. ASSUME NEW p \in Processes, WriteFile(p) PROVE StoreTyped'
  <2>1. Op(p) \in Ops
    BY <1>9 DEF WriteFile, At, Op, RunTyped, TaskTyped, Turn
  <2>2. done' \subseteq Ops \X Parts
    BY <1>9, <2>1 DEF WriteFile, StoreTyped, Parts, Ends, RestoreTemplate
  <2> QED
    BY <1>9, <2>2 DEF WriteFile, StoreTyped, world, RestoreTemplate
<1>10. ASSUME NEW p \in Processes, TemplateWritten(p) PROVE StoreTyped'
  <2>1. Op(p) \in Ops
    BY <1>10 DEF TemplateWritten, At, Op, RunTyped, TaskTyped, Turn
  <2>2. done' \subseteq Ops \X Parts
    BY <1>10, <2>1 DEF TemplateWritten, StoreTyped, Parts, Ends
  <2> QED
    BY <1>10, <2>2 DEF TemplateWritten, StoreTyped, world
<1>11. CASE Forget
  <2> QED
    BY <1>11 DEF Forget, StoreTyped, world
<1>12. CASE MoveAway
  <2>1. Op(Helper) \in Ops /\ disk["kb"] \in {Gone, Edited} \cup Releases
    BY <1>12, ProcessesTyped DEF MoveAway, At, Op, RunTyped, TaskTyped, DiskTyped,
       Contents, Files, Releases
  <2> QED
    BY <1>12, <2>1 DEF MoveAway, StoreTyped, world
<1>13. CASE MoveIn
  <2>1. Op(Helper) \in Ops /\ disk["kb"] \in {Gone, Edited} \cup Releases
    BY <1>13, ProcessesTyped DEF MoveIn, At, Op, RunTyped, TaskTyped, DiskTyped, Contents,
       Files, Releases
  <2> QED
    BY <1>13, <2>1 DEF MoveIn, StoreTyped, world
<1>14. CASE VerifyKb
  <2>1. Op(Helper) \in Ops /\ disk["kb"] \in {Gone, Edited} \cup Releases
    BY <1>14, ProcessesTyped DEF VerifyKb, At, Op, RunTyped, TaskTyped, DiskTyped,
       Contents, Files, Releases
  <2> QED
    BY <1>14, <2>1 DEF VerifyKb, StoreTyped, world, RestoreKb
<1>15. CASE HelperReplaced
  <2>1. Op(Helper) \in Ops /\ disk["kb"] \in {Gone, Edited} \cup Releases
    BY <1>15, ProcessesTyped DEF HelperReplaced, At, Op, RunTyped, TaskTyped, DiskTyped,
       Contents, Files, Releases
  <2> QED
    BY <1>15, <2>1 DEF HelperReplaced, StoreTyped, world
<1>16. ASSUME NEW p \in Processes, NEW s \in Scopes, NEW o \in Ops, Prepare(p, s, o)
       PROVE  StoreTyped'
  BY <1>16 DEF Prepare, world, StoreTyped
<1>17. ASSUME NEW p \in Processes,
             Confirm(p) \/ Die(p) \/ Confirmed(p) \/ Fail(p) \/ Resume(p)
      PROVE  StoreTyped'
  BY <1>17 DEF Confirm, Die, Confirmed, Fail, Resume, world, StoreTyped
<1>18. CASE Cancel
  <2>1. Op(Cli) \in Ops
    BY <1>18, ProcessesTyped DEF Cancel, At, Op, RunTyped, TaskTyped
  <2> QED
    BY <1>18, <2>1 DEF Cancel, StoreTyped, world, Removed
<1>19. CASE MoveInFails
  <2>1. Op(Helper) \in Ops /\ disk["kb"] \in {Gone, Edited} \cup Releases
    BY <1>19, ProcessesTyped DEF MoveInFails, At, Op, RunTyped, TaskTyped, DiskTyped,
       Contents, Files, Releases
  <2> QED
    BY <1>19, <2>1 DEF MoveInFails, StoreTyped, world, RestoreKb
<1>20. ASSUME NEW p \in Processes, ApplySkillFails(p) PROVE StoreTyped'
  <2>1. Op(p) \in Ops
    BY <1>20 DEF ApplySkillFails, At, Op, RunTyped, TaskTyped, Turn
  <2>2. done' \subseteq Ops \X Parts
    BY <1>20, <2>1 DEF ApplySkillFails, StoreTyped, Parts, Ends
  <2> QED
    BY <1>20, <2>2 DEF ApplySkillFails, StoreTyped, world
<1>21. ASSUME NEW p \in Processes, ApplyIndexFails(p) PROVE StoreTyped'
  <2>1. Op(p) \in Ops
    BY <1>21 DEF ApplyIndexFails, At, Op, RunTyped, TaskTyped, Turn
  <2>2. done' \subseteq Ops \X Parts
    BY <1>21, <2>1 DEF ApplyIndexFails, StoreTyped, Parts, Ends
  <2> QED
    BY <1>21, <2>2 DEF ApplyIndexFails, StoreTyped, world
<1>22. ASSUME NEW p \in Processes, TemplateFails(p) PROVE StoreTyped'
  <2>1. Op(p) \in Ops
    BY <1>22 DEF TemplateFails, At, Op, RunTyped, TaskTyped, Turn
  <2>2. done' \subseteq Ops \X Parts
    BY <1>22, <2>1 DEF TemplateFails, StoreTyped, Parts, Ends, RestoreTemplate
  <2> QED
    BY <1>22, <2>2 DEF TemplateFails, StoreTyped, world, RestoreTemplate
<1>23. ASSUME NEW f \in Files, Edit(f) PROVE StoreTyped'
  BY <1>23 DEF Edit, world, StoreTyped
<1>24. ASSUME NEW o \in Ops, Expire(o) PROVE StoreTyped'
  BY <1>24 DEF Expire, world, StoreTyped
<1>25. ASSUME NEW p \in Processes, Finish(p)
      PROVE  StoreTyped'
  BY <1>25 DEF Finish, world, StoreTyped
<1>26. CASE Leave \/ HelperStarts \/ HelperChecks \/ ParentExits \/ ScheduleFails
            \/ ParentLingers \/ KeepsBackup \/ MoveVault \/ UNCHANGED vars
  BY <1>26 DEF Leave, HelperStarts, HelperChecks, ParentExits, ScheduleFails,
     ParentLingers, KeepsBackup, MoveVault, vars, world, StoreTyped
<1>0. CliScopes \subseteq Scopes /\ AdapterScope \in Scopes
  BY UpdateAssumption DEF Scopes, AdapterScope
<1> QED
  BY ProcessesTyped, <1>0, <1>1, <1>2, <1>3, <1>4, <1>5, <1>6, <1>7, <1>8, <1>9, <1>10,
     <1>11, <1>12, <1>13,
     <1>14, <1>15, <1>16, <1>17, <1>18, <1>19, <1>20, <1>21, <1>22, <1>23, <1>24, <1>25,
     <1>26 DEF Next, Continue, Replaces, Begin, IoError, Other

\* Every step keeps the disk typed.
LEMMA NextDiskTyped ==
  ASSUME DiskTyped, StoreTyped, RunTyped, TemplateKept, [Next]_vars
  PROVE  DiskTyped'
<1>1. ASSUME NEW p \in Processes, ApplySkill(p) PROVE DiskTyped'
  <2>1. run[p].build \in Contents("skill")
    BY <1>1 DEF ApplySkill, Turn, At, RunTyped, TaskTyped, HasBuild, Contents, Releases
  <2> QED
    BY <1>1, <2>1 DEF ApplySkill, DiskTyped, Files
<1>2. ASSUME NEW p \in Processes, ApplyIndex(p) PROVE DiskTyped'
  <2>1. 1 \in Contents("index")
    BY DEF Contents
  <2> QED
    BY <1>2, <2>1 DEF ApplyIndex, DiskTyped, Files
<1>3. ASSUME NEW p \in Processes, WriteFile(p) PROVE DiskTyped'
  <2>1. PICK f \in TemplateFiles : First(p, WriteOrder, f) /\
          (RestoreTemplate(p) \/ disk' = [disk EXCEPT ![f] = Changes(p, "template")[f].to])
    BY <1>3 DEF WriteFile
  <2>2. CASE RestoreTemplate(p)
    BY <1>3, <2>2 DEF WriteFile, RestoreTemplate, DiskTyped, TemplateKept, ChangeKeeps
  <2>3. CASE disk' = [disk EXCEPT ![f] = Changes(p, "template")[f].to]
    <3>1. Changes(p, "template")[f].to \in Contents(f)
      BY <1>3, <2>1 DEF WriteFile, First, TemplateKept, ChangeKeeps
    <3> QED
      BY <2>3, <3>1 DEF DiskTyped
  <2> QED
    BY <2>1, <2>2, <2>3
<1>4. CASE MoveAway
  <2>1. Op(Helper) \in Ops
    BY <1>4, ProcessesTyped DEF MoveAway, At, Op, RunTyped, TaskTyped
  <2>2. /\ staged[Op(Helper)] \in Contents("kb")
        /\ backup[Op(Helper)] \in Contents("kb")
        /\ Gone \in Contents("kb")
    BY <2>1 DEF StoreTyped, Contents, Releases
  <2> QED
    BY <1>4, <2>2 DEF MoveAway, RestoreKb, DiskTyped, Files
<1>5. CASE MoveIn
  <2>1. Op(Helper) \in Ops
    BY <1>5, ProcessesTyped DEF MoveIn, At, Op, RunTyped, TaskTyped
  <2>2. /\ staged[Op(Helper)] \in Contents("kb")
        /\ backup[Op(Helper)] \in Contents("kb")
        /\ Gone \in Contents("kb")
    BY <2>1 DEF StoreTyped, Contents, Releases
  <2> QED
    BY <1>5, <2>2 DEF MoveIn, RestoreKb, DiskTyped, Files
<1>6. CASE VerifyKb
  <2>1. Op(Helper) \in Ops
    BY <1>6, ProcessesTyped DEF VerifyKb, At, Op, RunTyped, TaskTyped
  <2>2. /\ staged[Op(Helper)] \in Contents("kb")
        /\ backup[Op(Helper)] \in Contents("kb")
        /\ Gone \in Contents("kb")
    BY <2>1 DEF StoreTyped, Contents, Releases
  <2> QED
    BY <1>6, <2>2 DEF VerifyKb, RestoreKb, DiskTyped, Files
<1>7. ASSUME NEW p \in Processes, NEW s \in Scopes, NEW o \in Ops, Prepare(p, s, o)
      PROVE  DiskTyped'
  BY <1>7 DEF Prepare, world, DiskTyped
<1>8. ASSUME NEW p \in Processes, Confirm(p) \/ Die(p) \/ Create(p) \/ Point(p) \/ Attach(p)
      PROVE  DiskTyped'
  BY <1>8 DEF Confirm, Die, Create, Point, Attach, world, DiskTyped
<1>9. CASE MoveInFails
  <2>1. Op(Helper) \in Ops
    BY <1>9, ProcessesTyped DEF MoveInFails, At, Op, RunTyped, TaskTyped
  <2>2. /\ staged[Op(Helper)] \in Contents("kb")
        /\ backup[Op(Helper)] \in Contents("kb")
        /\ Gone \in Contents("kb")
    BY <2>1 DEF StoreTyped, Contents, Releases
  <2> QED
    BY <1>9, <2>2 DEF MoveInFails, RestoreKb, DiskTyped, Files
<1>10. ASSUME NEW p \in Processes, ApplySkillFails(p) PROVE DiskTyped'
  <2>1. Edited \in Contents("skill")
    BY DEF Contents
  <2> QED
    BY <1>10, <2>1 DEF ApplySkillFails, DiskTyped, Files
<1>11. ASSUME NEW p \in Processes, TemplateFails(p) PROVE DiskTyped'
  BY <1>11 DEF TemplateFails, RestoreTemplate, DiskTyped, TemplateKept, ChangeKeeps
<1>12. ASSUME NEW f \in Files, Edit(f) PROVE DiskTyped'
  <2>1. Edits(f) \subseteq Contents(f)
    BY DEF Edits, Contents, DiskTyped, Files, TemplateFiles, Nothing
  <2> QED
    BY <1>12, <2>1 DEF Edit, DiskTyped
<1>13. ASSUME NEW o \in Ops, Expire(o) PROVE DiskTyped'
  BY <1>13 DEF Expire, world, DiskTyped
<1>14. ASSUME NEW p \in Processes,
             Write(p) \/ Confirmed(p) \/ Fail(p) \/ Resume(p) \/ Resolve(p)
      PROVE  DiskTyped'
  BY <1>14 DEF Write, Confirmed, Fail, Resume, Resolve, world, DiskTyped
<1>15. ASSUME NEW p \in Processes,
             BeginTemplate(p) \/ TemplateWritten(p) \/ Finish(p) \/ ApplyIndexFails(p)
      PROVE  DiskTyped'
  BY <1>15 DEF BeginTemplate, TemplateWritten, Finish, ApplyIndexFails, world, DiskTyped
<1>16. CASE Leave \/ Forget \/ HelperStarts \/ HelperChecks \/ ParentExits
            \/ HelperReplaced \/ Cancel \/ ScheduleFails \/ ParentLingers \/ KeepsBackup
            \/ MoveVault \/ UNCHANGED vars
  BY <1>16 DEF Leave, Forget, HelperStarts, HelperChecks, ParentExits, HelperReplaced,
     Cancel, ScheduleFails, ParentLingers, KeepsBackup, MoveVault, vars, world, DiskTyped
<1>0. CliScopes \subseteq Scopes /\ AdapterScope \in Scopes
  BY UpdateAssumption DEF Scopes, AdapterScope
<1> QED
  BY ProcessesTyped, <1>0, <1>1, <1>2, <1>3, <1>4, <1>5, <1>6, <1>7, <1>8, <1>9, <1>10,
     <1>11, <1>12, <1>13,
     <1>14, <1>15, <1>16 DEF Next, Continue, Replaces, Begin, IoError, Other

-----------------------------------------------------------------------------
(* Operations: which of them a step leaves in the tasks and in the store   *)

\* The task is about an operation that was created.
Busy(task) == task.at \notin {"idle", "create"}

\* No component ended otherwise than it should.
Ended(operation) == \A c \in Parts : operation.parts[c] \notin {"stale", "failed", "rebuild", "pending"}

\* The task is about the operation it was about.
AsBefore(p) ==
  Busy(run[p]) /\ Busy(run'[p]) /\ run'[p].op = Op(p) /\ run'[p].copy = run[p].copy

\* It has created its operation.
Created(p) ==
  /\ At(p, "create") /\ store' = [store EXCEPT ![Op(p)] = run[p].copy]
  /\ Busy(run'[p]) /\ run'[p].op = Op(p) /\ run'[p].copy = run[p].copy

\* It has read its operation and is about to write it, with a new state or result.
Changed(p) ==
  /\ Busy(run[p]) /\ Busy(run'[p]) /\ run'[p].op = Op(p)
  /\ Stored(p).state \in States
  /\ \/ run'[p].copy = Stored(p)
     \/ \E s \in States :
          /\ run'[p].copy = [Stored(p) EXCEPT !.state = s]
          /\ s \in {"completed", "skips"} => Ended(run[p].copy)
     \/ \E c \in Parts, x \in {"applied", "failed", "stale", "rebuild"} :
          /\ run'[p].copy = [Stored(p) EXCEPT !.parts[c] = x]
          /\ x = "applied" => <<Op(p), c>> \in done'

\* It is a new one, of a plan made now, ...
Prepared(p) ==
  /\ Build(p) \in Releases /\ run'[p].at = "create" /\ run'[p].op \in Ops /\ Unused(run'[p].op)
  /\ \E s \in Scopes, b \in Releases : run'[p].copy = Operation(s, Plan(p, b, disk, s))
  /\ \A q \in Processes \ {p} : run'[q] = run[q]

\* ... of a stored preview, ...
Confirms(p) ==
  /\ latest \in Ops /\ store[latest].state = "preview"
  /\ run'[p].at = "write" /\ run'[p].op = latest
  /\ run'[p].copy = [store[latest] EXCEPT !.state = "confirmed"]

\* ... or another process has given it.
Given(p) ==
  /\ run'[p].at = "start"
  /\ \E q \in Processes : Busy(run[q]) /\ run'[p].op = Op(q) /\ run'[p].copy = run[q].copy

\* A step does one of these to the task of each process, or leaves or ends it.
TaskStep(p) ==
  \/ run'[p] = run[p] \/ run'[p] = Idle \/ AsBefore(p) \/ Created(p) \/ Changed(p)
  \/ Prepared(p) \/ Confirms(p) \/ Given(p)

\* A step creates, writes or removes one stored operation, or none.
StoreStep ==
  \/ store' = store
  \/ \E p \in Processes : Created(p)
  \/ \E p \in Processes : /\ At(p, "write") /\ Stored(p).state # "removed"
                          /\ store' = [store EXCEPT ![Op(p)] = run[p].copy]
  \/ \E o \in Ops : store' = [store EXCEPT ![o] = Removed] /\ store[o].state = "preview"

\* Steps that end or go on.
LEMMA GoesStep ==
  ASSUME RunTyped, NEW p \in Processes, Busy(run[p]), NEW a, a # "create", Goes(p, a)
  PROVE  \A q \in Processes : TaskStep(q)
<1>1. \A q \in Processes \ {p} : run'[q] = run[q]
  BY GoesEffect DEF Others
<1>2. run'[p] = Idle \/ AsBefore(p)
  BY GoesEffect DEF Kept, AsBefore, Busy, Op
<1> QED
  BY <1>1, <1>2 DEF TaskStep

\* ... or that fail.
LEMMA FailsStep ==
  ASSUME RunTyped, NEW p \in Processes, Busy(run[p]), Fails(p)
  PROVE  \A q \in Processes : TaskStep(q)
<1>1. Goes(p, "fail") \/ Goes(p, "idle")
  BY DEF Fails
<1> QED
  BY <1>1, GoesStep

\* Steps that read the operation to write it with another state ...
LEMMA StateStep ==
  ASSUME RunTyped, NEW p \in Processes, Busy(run[p]), Stored(p).state \in States,
         NEW s \in States, s \in {"completed", "skips"} => Ended(run[p].copy),
         NEW a, Writes(p, [Stored(p) EXCEPT !.state = s], a)
  PROVE  \A q \in Processes : TaskStep(q)
<1>1. \A q \in Processes \ {p} : run'[q] = run[q]
  BY WritesEffect DEF Others
<1>2. /\ run'[p].at = "write" /\ run'[p].op = run[p].op
      /\ run'[p].copy = [Stored(p) EXCEPT !.state = s]
  BY WritesEffect
<1>3. Changed(p)
  BY <1>2 DEF Changed, Busy, Op
<1> QED
  BY <1>1, <1>3 DEF TaskStep

\* ... that of a transition of the store, ...
LEMMA TransitionStep ==
  ASSUME RunTyped, NEW p \in Processes, Busy(run[p]), NEW s,
         s \in {"completed", "skips"} => Ended(run[p].copy), NEW a, Transition(p, s, a)
  PROVE  \A q \in Processes : TaskStep(q)
<1>1. CASE Legal(Stored(p).state, s)
  BY <1>1, LegalTyped, StateStep DEF Transition
<1>2. CASE ~Legal(Stored(p).state, s)
  BY <1>2, FailsStep DEF Transition
<1> QED
  BY <1>1, <1>2

\* ... or with what became of a component.
LEMMA RecordsStep ==
  ASSUME RunTyped, NEW p \in Processes, Busy(run[p]), NEW c \in Parts,
         NEW x \in {"applied", "failed", "stale", "rebuild"},
         x = "applied" => <<Op(p), c>> \in done',
         NEW rest, Records(p, c, x, rest)
  PROVE  \A q \in Processes : TaskStep(q)
<1>1. CASE Stored(p).state = "applying"
  <2>1. \A q \in Processes \ {p} : run'[q] = run[q]
    BY <1>1 DEF Records, RunTyped
  <2>2. /\ run'[p].at = "write" /\ run'[p].op = run[p].op
        /\ run'[p].copy = [Stored(p) EXCEPT !.parts[c] = x]
    BY <1>1 DEF Records, RunTyped, TaskTyped
  <2>3. Changed(p)
    BY <1>1, <2>2 DEF Changed, Busy, Op, States
  <2> QED
    BY <2>1, <2>3 DEF TaskStep
<1>2. CASE Stored(p).state # "applying"
  BY <1>2, FailsStep DEF Records
<1> QED
  BY <1>1, <1>2

\* ... as when the component ends.
LEMMA EndsStep ==
  ASSUME RunTyped, NEW p \in Processes, Busy(run[p]), NEW c \in Parts,
         NEW x \in {"applied", "failed", "stale", "rebuild"}, Ends(p, c, x)
  PROVE  \A q \in Processes : TaskStep(q)
<1>1. x = "applied" => <<Op(p), c>> \in done'
  BY DEF Ends
<1> QED
  BY <1>1, RecordsStep DEF Ends

\* What a step does to the tasks.
LEMMA NextTaskStep ==
  ASSUME StoreTyped, RunTyped, [Next]_vars
  PROVE  \A q \in Processes : TaskStep(q)
<1>1. ASSUME NEW p \in Processes, Create(p) PROVE \A q \in Processes : TaskStep(q)
  <2>1. \A q \in Processes \ {p} : run'[q] = run[q]
    BY <1>1, GoesEffect DEF Create, Others
  <2>2. Kept(p) /\ run'[p].at = "point"
    BY <1>1, GoesEffect DEF Create
  <2>3. Created(p)
    BY <1>1, <2>2 DEF Create, Created, Busy, Kept, Op
  <2> QED
    BY <2>1, <2>3 DEF TaskStep
<1>2. ASSUME NEW p \in Processes, Point(p) \/ Attach(p)
      PROVE  \A q \in Processes : TaskStep(q)
  <2>1. Busy(run[p]) /\ p \in Processes
    BY <1>2, ProcessesTyped DEF Point, Attach, Busy, At
  <2>2. \E a \in {"attach", "ask", "idle"} : Goes(p, a)
    BY <1>2 DEF Point, Attach
  <2> QED
    BY <2>1, <2>2, GoesStep
<1>3. ASSUME NEW p \in Processes, Write(p) PROVE \A q \in Processes : TaskStep(q)
  <2>1. Busy(run[p]) /\ p \in Processes
    BY <1>3, ProcessesTyped DEF Write, Busy, At
  <2>2. Goes(p, run[p].then) \/ Fails(p)
    BY <1>3 DEF Write
  <2>3. run[p].then # "create"
    BY <1>3 DEF Write, At, RunTyped, TaskTyped, Continuations
  <2> QED
    BY <2>1, <2>2, <2>3, GoesStep, FailsStep
<1>4. ASSUME NEW p \in Processes, Confirmed(p) PROVE \A q \in Processes : TaskStep(q)
  <2>1. Busy(run[p]) /\ p \in Processes
    BY <1>4, ProcessesTyped DEF Confirmed, Busy, At
  <2>2. CASE Goes(p, "resume") \/ Goes(p, "idle")
    BY <2>1, <2>2, GoesStep
  <2>3. CASE run' = [run EXCEPT ![p].at = "leaving", ![Helper] =
                       Task("start", Op(p), Gone, run[p].copy, {}, "idle")]
    <3>1. /\ run'[Helper] = Task("start", Op(p), Gone, run[p].copy, {}, "idle")
          /\ p # Helper => run'[p] = [run[p] EXCEPT !.at = "leaving"]
          /\ \A q \in Processes \ {p, Helper} : run'[q] = run[q]
      BY <2>3, ProcessesTyped DEF RunTyped
    <3>2. Given(Helper)
      BY <2>1, <3>1 DEF Given, Task
    <3>3. p # Helper => AsBefore(p)
      BY <2>1, <3>1 DEF AsBefore, Busy, Op, RunTyped, TaskTyped
    <3> QED
      BY <3>1, <3>2, <3>3 DEF TaskStep
  <2> QED
    BY <1>4, <2>2, <2>3 DEF Confirmed
<1>5. ASSUME NEW p \in Processes, Fail(p) PROVE \A q \in Processes : TaskStep(q)
  <2>1. Busy(run[p]) /\ p \in Processes
    BY <1>5, ProcessesTyped DEF Fail, Busy, At
  <2>2. CASE /\ Legal(Stored(p).state, "failed")
             /\ Writes(p, [Stored(p) EXCEPT !.state = "failed"], "idle")
    BY <2>1, <2>2, LegalTyped, StateStep
  <2> QED
    BY <1>5, <2>1, <2>2, GoesStep DEF Fail
<1>6. ASSUME NEW p \in Processes, Resume(p) PROVE \A q \in Processes : TaskStep(q)
  <2>1. Busy(run[p]) /\ p \in Processes
    BY <1>6, ProcessesTyped DEF Resume, Busy, At
  <2> DEFINE b == IF p = Helper THEN disk.kb ELSE run[p].build
  <2>2. CASE b \in Releases /\ Stored(p).state \in {"confirmed", "replaced"} /\ run' =
          [[run EXCEPT ![p].build = b] EXCEPT ![p].at = "write", ![p].then = "resolve",
                       ![p].copy = [Stored(p) EXCEPT !.state = "applying"]]
    <3>1. /\ \A q \in Processes \ {p} : run'[q] = run[q]
          /\ run'[p].at = "write" /\ run'[p].op = run[p].op
          /\ run'[p].copy = [Stored(p) EXCEPT !.state = "applying"]
      BY <2>2 DEF RunTyped, TaskTyped
    <3>2. Changed(p)
      BY <2>1, <2>2, <3>1 DEF Changed, Busy, Op, States
    <3> QED
      BY <3>1, <3>2 DEF TaskStep
  <2>3. CASE b \in Releases /\ Stored(p).state = "applying" /\ run' =
          [[run EXCEPT ![p].build = b] EXCEPT ![p].at = "resolve", ![p].copy = Stored(p)]
    <3>1. /\ \A q \in Processes \ {p} : run'[q] = run[q]
          /\ run'[p].at = "resolve" /\ run'[p].op = run[p].op /\ run'[p].copy = Stored(p)
      BY <2>3 DEF RunTyped, TaskTyped
    <3>2. Changed(p)
      BY <2>1, <2>3, <3>1 DEF Changed, Busy, Op, States
    <3> QED
      BY <3>1, <3>2 DEF TaskStep
  <2>4. CASE Fails(p) \/ Goes(p, "idle")
    BY <2>1, <2>4, FailsStep, GoesStep
  <2> QED
    BY <1>6, <2>2, <2>3, <2>4 DEF Resume
<1>7. ASSUME NEW p \in Processes, Resolve(p) PROVE \A q \in Processes : TaskStep(q)
  <2>1. Busy(run[p]) /\ p \in Processes
    BY <1>7, ProcessesTyped DEF Resolve, Busy, At
  <2>2. CASE Fails(p)
    BY <2>1, <2>2, FailsStep
  <2>3. ASSUME NEW x \in {"applied", "failed"},
               x = "applied" => <<Op(p), "executable">> \in done',
               Records(p, "executable", x, Remaining(run[p].copy.parts))
        PROVE  \A q \in Processes : TaskStep(q)
    BY <2>1, <2>3, RecordsStep DEF Parts
  <2>4. CASE run' = [run EXCEPT ![p].at = "next", ![p].todo = Remaining(run[p].copy.parts)]
    <3>1. AsBefore(p) /\ \A q \in Processes \ {p} : run'[q] = run[q]
      BY <2>1, <2>4 DEF RunTyped, TaskTyped, AsBefore, Busy, Op
    <3> QED
      BY <3>1 DEF TaskStep
  <2> QED
    BY <1>7, <2>2, <2>3, <2>4 DEF Resolve
<1>8. ASSUME NEW p \in Processes,
             ApplySkill(p) \/ ApplyIndex(p) \/ TemplateWritten(p) \/ ApplySkillFails(p)
             \/ ApplyIndexFails(p) \/ TemplateFails(p)
      PROVE  \A q \in Processes : TaskStep(q)
  <2>1. Busy(run[p]) /\ p \in Processes
    BY <1>8, ProcessesTyped DEF ApplySkill, ApplyIndex, TemplateWritten, ApplySkillFails,
       ApplyIndexFails,
            TemplateFails, Busy, At, Turn
  <2>2. \E c \in Parts, x \in {"applied", "failed", "stale", "rebuild"} : Ends(p, c, x)
    BY <1>8 DEF ApplySkill, ApplyIndex, TemplateWritten, ApplySkillFails, ApplyIndexFails,
            TemplateFails, RestoreTemplate, Parts
  <2> QED
    BY <2>1, <2>2, EndsStep
<1>9. ASSUME NEW p \in Processes, BeginTemplate(p) PROVE \A q \in Processes : TaskStep(q)
  <2>1. Busy(run[p]) /\ p \in Processes
    BY <1>9, ProcessesTyped DEF BeginTemplate, Busy, At, Turn
  <2>2. ASSUME NEW x \in {"failed", "stale"}, Ends(p, "template", x)
        PROVE  \A q \in Processes : TaskStep(q)
    BY <2>1, <2>2, EndsStep DEF Parts
  <2>3. CASE run' = [run EXCEPT ![p].at = "template", ![p].todo = DOMAIN Changes(p, "template")]
    <3>1. AsBefore(p) /\ \A q \in Processes \ {p} : run'[q] = run[q]
      BY <2>1, <2>3 DEF RunTyped, TaskTyped, AsBefore, Busy, Op
    <3> QED
      BY <3>1 DEF TaskStep
  <2> QED
    BY <1>9, <2>2, <2>3 DEF BeginTemplate
<1>10. ASSUME NEW p \in Processes, WriteFile(p) PROVE \A q \in Processes : TaskStep(q)
  <2>1. Busy(run[p]) /\ p \in Processes
    BY <1>10, ProcessesTyped DEF WriteFile, Busy, At
  <2>2. CASE Ends(p, "template", "failed")
    BY <2>1, <2>2, EndsStep DEF Parts
  <2>3. ASSUME NEW f \in TemplateFiles, run' = [run EXCEPT ![p].todo = @ \ {f}]
        PROVE  \A q \in Processes : TaskStep(q)
    <3>1. AsBefore(p) /\ \A q \in Processes \ {p} : run'[q] = run[q]
      BY <1>10, <2>1, <2>3 DEF WriteFile, At, RunTyped, TaskTyped, AsBefore, Busy, Op
    <3> QED
      BY <3>1 DEF TaskStep
  <2> QED
    BY <1>10, <2>2, <2>3 DEF WriteFile, RestoreTemplate
<1>11. ASSUME NEW p \in Processes, Finish(p) PROVE \A q \in Processes : TaskStep(q)
  <2>1. Busy(run[p]) /\ p \in Processes
    BY <1>11, ProcessesTyped DEF Finish, Busy, At
  <2>2. Aggregate(run[p].copy.parts) \in {"completed", "skips"} => Ended(run[p].copy)
    BY AggregateFails DEF Ended
  <2> QED
    BY <1>11, <2>1, <2>2, TransitionStep DEF Finish
<1>12. CASE Leave \/ Forget \/ Cancel \/ ScheduleFails
  <2>1. Busy(run[Cli]) /\ Cli \in Processes
    BY <1>12, ProcessesTyped DEF Leave, Forget, Cancel, ScheduleFails, Busy, At
  <2>2. \E a \in {"idle", "forget", "fail"} : Goes(Cli, a)
    BY <1>12 DEF Leave, Forget, Cancel, ScheduleFails
  <2> QED
    BY <2>1, <2>2, GoesStep
<1>13. CASE HelperStarts
  <2>1. Busy(run[Helper]) /\ Helper \in Processes
    BY <1>13, ProcessesTyped DEF HelperStarts, Busy, At
  <2>2. CASE /\ Legal(Stored(Helper).state, "replacing")
             /\ Writes(Helper, [Stored(Helper) EXCEPT !.state = "replacing"], "check")
    BY <2>1, <2>2, LegalTyped, StateStep
  <2> QED
    BY <1>13, <2>1, <2>2, GoesStep DEF HelperStarts
<1>14. CASE HelperChecks \/ ParentExits \/ MoveAway \/ MoveIn \/ VerifyKb
            \/ ParentLingers \/ MoveInFails \/ KeepsBackup
  <2>1. Busy(run[Helper]) /\ Helper \in Processes
    BY <1>14, ProcessesTyped DEF HelperChecks, ParentExits, MoveAway, MoveIn, VerifyKb,
       ParentLingers, MoveInFails, KeepsBackup, Busy, At
  <2>2. \/ (\E a \in {"wait", "away", "in", "verify", "installed", "fail"} : Goes(Helper, a))
        \/ Fails(Helper)
    BY <1>14 DEF HelperChecks, ParentExits, MoveAway, MoveIn, VerifyKb, ParentLingers,
       MoveInFails, KeepsBackup, RestoreKb
  <2> QED
    BY <2>1, <2>2, GoesStep, FailsStep
<1>15. CASE HelperReplaced
  <2>1. Busy(run[Helper]) /\ Helper \in Processes
    BY <1>15, ProcessesTyped DEF HelperReplaced, Busy, At
  <2> QED
    BY <1>15, <2>1, TransitionStep DEF HelperReplaced
<1>16. ASSUME NEW p \in Processes, NEW s \in Scopes, NEW o \in Ops, Prepare(p, s, o)
       PROVE  \A q \in Processes : TaskStep(q)
  <2> DEFINE b == Planner(p)
             plan == TargetPlan(p, b, s)
  <2>1. run' = [run EXCEPT ![p] = Task("create", o, b, Operation(s, plan), {}, "idle")]
    BY <1>16 DEF Prepare
  <2>2. b \in Releases /\ Build(p) \in Releases /\ Unused(o)
    BY <1>16 DEF Prepare, Planner, StoreTyped
  <2>3. plan = Plan(p, b, disk, s)
    BY DEF TargetPlan
  <2> HIDE DEF b, plan
  <2>4. Prepared(p) /\ \A q \in Processes \ {p} : run'[q] = run[q]
    BY <2>1, <2>2, <2>3 DEF RunTyped, Prepared, Task
  <2> QED
    BY <2>4 DEF TaskStep
<1>17. ASSUME NEW p \in Processes, Confirm(p) PROVE \A q \in Processes : TaskStep(q)
  <2>1. run' = [run EXCEPT ![p] =
          Task("write", latest, Build(p), [store[latest] EXCEPT !.state = "confirmed"], {}, "confirmed")]
    BY <1>17 DEF Confirm
  <2>2. latest \in Ops /\ store[latest].state = "preview"
    BY <1>17 DEF Confirm, StoreTyped
  <2>3. Confirms(p) /\ \A q \in Processes \ {p} : run'[q] = run[q]
    BY <2>1, <2>2 DEF RunTyped, Confirms, Task
  <2> QED
    BY <2>3 DEF TaskStep
<1>18. ASSUME NEW f \in Files, Edit(f) PROVE \A q \in Processes : TaskStep(q)
  BY <1>18 DEF Edit, TaskStep
<1>19. ASSUME NEW o \in Ops, Expire(o) PROVE \A q \in Processes : TaskStep(q)
  BY <1>19 DEF Expire, TaskStep
<1>20. ASSUME NEW p \in Processes, Die(p) PROVE \A q \in Processes : TaskStep(q)
  BY <1>20 DEF Die, RunTyped, TaskStep
<1>21. CASE MoveVault \/ UNCHANGED vars
  BY <1>21 DEF MoveVault, vars, TaskStep
<1>0. CliScopes \subseteq Scopes /\ AdapterScope \in Scopes
  BY UpdateAssumption DEF Scopes, AdapterScope
<1> QED
  BY ProcessesTyped, <1>0, <1>1, <1>2, <1>3, <1>4, <1>5, <1>6, <1>7, <1>8, <1>9, <1>10,
     <1>11, <1>12, <1>13,
     <1>14, <1>15, <1>16, <1>17, <1>18, <1>19, <1>20, <1>21 DEF Next, Continue, Replaces,
     Begin, IoError, Other

\* What a step does to the store, and that nothing applied is forgotten.
LEMMA NextStoreStep ==
  ASSUME RunTyped, [Next]_vars
  PROVE  StoreStep /\ done \subseteq done'
<1>1. ASSUME NEW p \in Processes, Create(p) PROVE StoreStep /\ done \subseteq done'
  <2>1. Kept(p) /\ run'[p].at = "point"
    BY <1>1, GoesEffect DEF Create
  <2>2. Created(p)
    BY <1>1, <2>1 DEF Create, Created, Busy, Kept, Op
  <2> QED
    BY <1>1, <2>2 DEF Create, StoreStep
<1>2. ASSUME NEW p \in Processes,
             Point(p) \/ Attach(p) \/ Confirmed(p) \/ Fail(p) \/ Resume(p)
      PROVE  StoreStep /\ done \subseteq done'
  BY <1>2 DEF Point, Attach, Confirmed, Fail, Resume, world, Ends, RestoreTemplate,
     StoreStep
<1>3. ASSUME NEW p \in Processes, Write(p) PROVE StoreStep /\ done \subseteq done'
  BY <1>3 DEF Write, StoreStep
<1>4. ASSUME NEW p \in Processes,
             Resolve(p) \/ ApplySkill(p) \/ ApplyIndex(p) \/ BeginTemplate(p)
             \/ WriteFile(p)
      PROVE  StoreStep /\ done \subseteq done'
  BY <1>4 DEF Resolve, ApplySkill, ApplyIndex, BeginTemplate, WriteFile, world, Ends,
     RestoreTemplate, StoreStep
<1>5. ASSUME NEW p \in Processes,
             TemplateWritten(p) \/ Finish(p) \/ Confirm(p) \/ ApplySkillFails(p)
             \/ ApplyIndexFails(p)
      PROVE  StoreStep /\ done \subseteq done'
  BY <1>5 DEF TemplateWritten, Finish, Confirm, ApplySkillFails, ApplyIndexFails, world,
     Ends, RestoreTemplate, StoreStep
<1>6. ASSUME NEW p \in Processes, NEW s \in Scopes, NEW o \in Ops, Prepare(p, s, o)
      PROVE  StoreStep /\ done \subseteq done'
  BY <1>6 DEF Prepare, world, Ends, RestoreTemplate, StoreStep
<1>7. CASE Cancel
  <2>1. Op(Cli) \in Ops
    BY <1>7, ProcessesTyped DEF Cancel, At, Op, RunTyped, TaskTyped
  <2> QED
    BY <1>7, <2>1 DEF Cancel, StoreStep, Stored
<1>8. ASSUME NEW p \in Processes, TemplateFails(p) \/ Die(p)
      PROVE  StoreStep /\ done \subseteq done'
  BY <1>8 DEF TemplateFails, Die, world, Ends, RestoreTemplate, StoreStep
<1>9. ASSUME NEW f \in Files, Edit(f) PROVE StoreStep /\ done \subseteq done'
  BY <1>9 DEF Edit, world, Ends, RestoreTemplate, StoreStep
<1>10. ASSUME NEW o \in Ops, Expire(o) PROVE StoreStep /\ done \subseteq done'
  BY <1>10 DEF Expire, world, Ends, RestoreTemplate, StoreStep
<1>11. CASE Leave \/ Forget \/ HelperStarts \/ HelperChecks \/ ParentExits \/ MoveAway
            \/ MoveIn \/ VerifyKb \/ HelperReplaced \/ ScheduleFails \/ ParentLingers
            \/ MoveInFails \/ KeepsBackup \/ MoveVault \/ UNCHANGED vars
  BY <1>11 DEF Leave, Forget, HelperStarts, HelperChecks, ParentExits, MoveAway, MoveIn,
     VerifyKb, HelperReplaced, ScheduleFails, ParentLingers, MoveInFails, KeepsBackup,
     MoveVault, vars, world, Ends, RestoreTemplate, StoreStep
<1>0. CliScopes \subseteq Scopes /\ AdapterScope \in Scopes
  BY UpdateAssumption DEF Scopes, AdapterScope
<1> QED
  BY ProcessesTyped, <1>0, <1>1, <1>2, <1>3, <1>4, <1>5, <1>6, <1>7, <1>8, <1>9, <1>10,
     <1>11 DEF Next, Continue,
     Replaces, Begin, IoError, Other

-----------------------------------------------------------------------------
(* Plans agree, operations are truthful, executables are replaced by plan  *)

\* A process at work has an operation, and the copy of one.
LEMMA BusyTyped ==
  ASSUME RunTyped, NEW p \in Processes, run[p].at # "idle"
  PROVE  Op(p) \in Ops /\ OperationTyped(run[p].copy)
BY DEF RunTyped, TaskTyped, Op

\* What a step can do to a stored operation.
LEMMA StoredOperation ==
  ASSUME StoreTyped, RunTyped, PlansAgree, StoreStep, NEW o \in Ops
  PROVE  \/ store'[o] = store[o]
         \/ \E q \in Processes : /\ Created(q) /\ Op(q) = o /\ store[o].state = "absent"
                                 /\ store'[o] = run[q].copy
         \/ \E q \in Processes : /\ At(q, "write") /\ Op(q) = o
                                 /\ store[o].state \notin {"absent", "removed"}
                                 /\ store'[o] = run[q].copy /\ run[q].copy.plan = store[o].plan
         \/ store'[o] = Removed /\ store[o].state = "preview"
<1>1. ASSUME NEW q \in Processes, Created(q), store'[o] # store[o]
      PROVE  Op(q) = o /\ store[o].state = "absent" /\ store'[o] = run[q].copy
  BY <1>1 DEF Created, PlansAgree, Stored, StoreTyped
<1>2. ASSUME NEW q \in Processes, At(q, "write"), Stored(q).state # "removed",
             store' = [store EXCEPT ![Op(q)] = run[q].copy], store'[o] # store[o]
      PROVE  /\ Op(q) = o /\ store[o].state \notin {"absent", "removed"}
             /\ store'[o] = run[q].copy /\ run[q].copy.plan = store[o].plan
  BY <1>2 DEF PlansAgree, Stored, StoreTyped, At
<1>3. ASSUME NEW r \in Ops, store' = [store EXCEPT ![r] = Removed],
             store[r].state = "preview"
      PROVE  store'[o] = store[o] \/ (store'[o] = Removed /\ store[o].state = "preview")
  BY <1>3 DEF StoreTyped
<1> QED
  BY <1>1, <1>2, <1>3 DEF StoreStep

\* An operation that is there stays there, with its plan, unless it is removed.
LEMMA PlanStays ==
  ASSUME StoreTyped, RunTyped, PlansAgree, StoreStep, NEW o \in Ops, NEW plan,
         store[o].state # "absent", store[o].state # "removed" => plan = store[o].plan
  PROVE  store'[o].state # "absent" /\ (store'[o].state # "removed" => plan = store'[o].plan)
<1>1. CASE store'[o] = store[o]
  BY <1>1
<1>2. ASSUME NEW q \in Processes, At(q, "write"), store[o].state \notin {"absent",
             "removed"},
             store'[o] = run[q].copy, run[q].copy.plan = store[o].plan
      PROVE  store'[o].state # "absent" /\ plan = store'[o].plan
  <2>1. run[q].copy.state \in States
    BY <1>2, BusyTyped DEF At, OperationTyped
  <2> QED
    BY <1>2, <2>1 DEF States
<1>3. CASE store'[o] = Removed
  BY <1>3 DEF Removed
<1> QED
  BY <1>1, <1>2, <1>3, StoredOperation

\* Nobody else comes to an operation that is being created.
LEMMA NobodyElse ==
  ASSUME StoreTyped, RunTyped, PlansAgree, \A q \in Processes : TaskStep(q),
         NEW p \in Processes, NEW o \in Ops, store[o].state = "absent",
         \A q \in Processes \ {p} : Op(q) # o, Op(p) = o => ~Busy(run[p]),
         NEW q \in Processes \ {p}, ~Prepared(q)
  PROVE  run'[q].op # o
<1>1. NoOp # o
  BY UpdateAssumption
<1>2. Op(q) # o /\ TaskStep(q)
  OBVIOUS
<1>3. ~Given(q) \/ run'[q].op # o
  BY DEF Given
<1>4. ~Confirms(q) \/ run'[q].op # o
  BY DEF Confirms
<1> QED
  BY <1>1, <1>2, <1>3, <1>4 DEF TaskStep, AsBefore, Created, Changed, Op, Idle, Task

\* A changed copy has the plan of the stored operation.
LEMMA ChangedPlan ==
  ASSUME StoreTyped, RunTyped, NEW p \in Processes, Changed(p)
  PROVE  run'[p].copy.plan = Stored(p).plan
<1>1. OperationTyped(Stored(p))
  BY BusyTyped, StoredTyped DEF Changed, Busy, Stored
<1>2. ASSUME NEW c \in Parts, NEW x \in {"applied", "failed", "stale", "rebuild"}
      PROVE  [Stored(p) EXCEPT !.parts[c] = x].plan = Stored(p).plan
  BY <1>1, PartEffect DEF PartStates, PlanStates
<1>3. ASSUME NEW s \in States PROVE [Stored(p) EXCEPT !.state = s].plan = Stored(p).plan
  BY <1>1, StateEffect
<1> QED
  BY <1>2, <1>3, ZenonT(40) DEF Changed

\* Every step keeps the plans of stored operations and of the copies alike.
LEMMA NextPlansAgree ==
  ASSUME StoreTyped, RunTyped, PlansAgree, StoreStep, \A q \in Processes : TaskStep(q)
  PROVE  PlansAgree'
<1>1. ASSUME NEW p \in Processes, NEW o \in Ops, store[o].state # "absent", run'[p].op = o,
             store[o].state # "removed" => run'[p].copy.plan = store[o].plan
      PROVE  /\ Stored(p)'.state # "absent"
             /\ Stored(p)'.state # "removed" => run'[p].copy.plan = Stored(p)'.plan
  BY <1>1, PlanStays DEF Stored, Op
<1>2. ASSUME NEW p \in Processes, Busy(run'[p])
      PROVE  /\ Stored(p)'.state # "absent"
             /\ Stored(p)'.state # "removed" => run'[p].copy.plan = Stored(p)'.plan
  <2>1. CASE run'[p] = run[p] \/ AsBefore(p)
    <3>1. Busy(run[p]) /\ Op(p) \in Ops /\ run'[p].op = Op(p) /\ run'[p].copy = run[p].copy
      BY <1>2, <2>1, BusyTyped DEF AsBefore, Busy, Op
    <3> QED
      BY <1>1, <3>1 DEF PlansAgree, Busy, Stored
  <2>2. CASE run'[p] = Idle
    BY <1>2, <2>2 DEF Busy, Idle, Task
  <2>3. CASE Created(p)
    <3>1. Op(p) \in Ops /\ OperationTyped(run[p].copy)
      BY <2>3, BusyTyped DEF Created, At
    <3> QED
      BY <2>3, <3>1 DEF Created, OperationTyped, States, Stored, Op, StoreTyped
  <2>4. CASE Changed(p)
    <3>1. Op(p) \in Ops
      BY <2>4, BusyTyped DEF Changed, Busy
    <3>2. Stored(p).state # "absent"
      BY <2>4 DEF Changed, States
    <3> QED
      BY <1>1, <2>4, <3>1, <3>2, ChangedPlan DEF Changed, Stored
  <2>5. CASE Prepared(p)
    BY <1>2, <2>5 DEF Prepared, Busy
  <2>6. CASE Confirms(p)
    <3>1. [store[latest] EXCEPT !.state = "confirmed"].plan = store[latest].plan
      BY <2>6, StoredTyped, StateEffect DEF Confirms, States
    <3> QED
      BY <1>1, <2>6, <3>1 DEF Confirms
  <2>7. CASE Given(p)
    <3>1. PICK q \in Processes : Busy(run[q]) /\ run'[p].op = Op(q) /\ run'[p].copy = run[q].copy
      BY <2>7 DEF Given
    <3>2. Op(q) \in Ops
      BY <3>1, BusyTyped DEF Busy
    <3> QED
      BY <1>1, <3>1, <3>2 DEF PlansAgree, Busy, Stored
  <2> QED
    BY <2>1, <2>2, <2>3, <2>4, <2>5, <2>6, <2>7 DEF TaskStep
<1>3. ASSUME NEW p \in Processes, run'[p].at = "create"
      PROVE  /\ Stored(p)'.state = "absent"
             /\ \A q \in Processes : Op(q)' = Op(p)' => q = p
  <2>1. CASE run'[p] = run[p]
    <3>1. Op(p) \in Ops /\ Op(p)' = Op(p) /\ At(p, "create")
      BY <1>3, <2>1, BusyTyped DEF At, Op
    <3>2. Stored(p).state = "absent" /\ \A q \in Processes \ {p} : Op(q) # Op(p)
      BY <3>1 DEF PlansAgree
    <3>3. store'[Op(p)] = store[Op(p)]
      BY <1>3, <3>1, <3>2, StoredOperation DEF Created, Busy, Stored
    <3>4. ASSUME NEW q \in Processes \ {p} PROVE run'[q].op # Op(p)
      <4>1. CASE Prepared(q)
        BY <3>1, <4>1 DEF Prepared, Unused
      <4>2. CASE ~Prepared(q)
        BY <3>1, <3>2, <4>2, NobodyElse DEF At, Busy, Stored
      <4> QED
        BY <4>1, <4>2
    <3> QED
      BY <3>1, <3>2, <3>3, <3>4 DEF Stored, Op
  <2>2. CASE Prepared(p)
    <3>1. /\ run'[p].op \in Ops /\ store[run'[p].op].state = "absent"
          /\ \A q \in Processes : Op(q) # run'[p].op
          /\ \A q \in Processes \ {p} : run'[q] = run[q]
      BY <2>2 DEF Prepared, Unused
    <3>2. store'[run'[p].op] = store[run'[p].op]
      BY <3>1, StoredOperation
    <3> QED
      BY <3>1, <3>2 DEF Stored, Op
  <2> QED
    BY <1>3, <2>1, <2>2 DEF TaskStep, AsBefore, Created, Changed, Confirms, Given, Busy,
       Idle, Task
<1> QED
  BY <1>2, <1>3 DEF PlansAgree, At, Busy

-----------------------------------------------------------------------------
(* What operations say of their components                                 *)

\* What was true stays true.
LEMMA TruthfulGrows ==
  ASSUME NEW r, NEW o, NEW d, NEW e, Truthful(r, o, d), d \subseteq e
  PROVE  Truthful(r, o, e)
BY DEF Truthful

\* A new state.
LEMMA TruthfulState ==
  ASSUME NEW r, OperationTyped(r), NEW o, NEW d, Truthful(r, o, d), NEW s \in States,
         s \in {"completed", "skips"} => \A c \in ToDo(r) : <<o, c>> \in d
  PROVE  Truthful([r EXCEPT !.state = s], o, d)
<1> DEFINE n == [r EXCEPT !.state = s]
<1>1. n.state = s /\ n.plan = r.plan /\ n.parts = r.parts
  BY StateEffect
<1> QED
  BY <1>1 DEF Truthful, ToDo

\* What became of a component.
LEMMA TruthfulPart ==
  ASSUME NEW r, OperationTyped(r), NEW o, NEW d, Truthful(r, o, d), NEW c \in Parts,
         NEW x \in {"applied", "failed", "stale", "rebuild"}, x = "applied" => <<o, c>> \in d
  PROVE  Truthful([r EXCEPT !.parts[c] = x], o, d)
<1> DEFINE n == [r EXCEPT !.parts[c] = x]
<1> SUFFICES Truthful(n, o, d)
  OBVIOUS
<1>1. n.state = r.state /\ n.plan = r.plan /\ n.parts = [r.parts EXCEPT ![c] = x]
  BY PartEffect DEF PartStates, PlanStates
<1>2. r.parts \in [Parts -> PartStates]
  BY DEF OperationTyped
<1>3. \A k \in Parts : n.parts[k] = IF k = c THEN x ELSE r.parts[k]
  BY <1>1, <1>2
<1> HIDE DEF n
<1>4. ToDo(n) = ToDo(r)
  BY <1>1 DEF ToDo
<1>5. ToDo(r) \subseteq Parts
  BY DEF ToDo
<1>6. \A k \in ToDo(n) : n.parts[k] \in {"pending", "rebuild", "applied", "failed", "stale"}
  BY <1>3, <1>4, <1>5 DEF Truthful
<1>7. \A k \in Parts : n.parts[k] = "applied" => <<o, k>> \in d
  BY <1>3 DEF Truthful
<1>8. \A k \in Parts : n.parts[k] = "pending" => n.plan[k].state = "pending"
  BY <1>1, <1>3 DEF Truthful
<1>9. n.state \in {"completed", "skips"} => \A k \in ToDo(n) : <<o, k>> \in d
  BY <1>1, <1>4 DEF Truthful
<1> QED
  BY <1>6, <1>7, <1>8, <1>9 DEF Truthful

\* A new operation.
LEMMA TruthfulNew ==
  ASSUME NEW s \in Scopes, NEW plan, OperationTyped(Operation(s, plan)), NEW o, NEW d
  PROVE  Truthful(Operation(s, plan), o, d)
<1> DEFINE n == Operation(s, plan)
<1> SUFFICES Truthful(n, o, d)
  OBVIOUS
<1>1. n.state = "preview" /\ n.plan = plan /\ \A c \in Parts : n.parts[c] = plan[c].state
  BY DEF Operation
<1>2. \A c \in Parts : plan[c].state \in PlanStates
  BY <1>1 DEF OperationTyped
<1>3. ToDo(n) \subseteq Parts /\ \A c \in ToDo(n) : plan[c].state \in {"pending", "rebuild"}
  BY <1>1 DEF ToDo
<1> HIDE DEF n
<1>4. \A c \in ToDo(n) : n.parts[c] \in {"pending", "rebuild", "applied", "failed", "stale"}
  BY <1>1, <1>3
<1>5. \A c \in Parts : n.parts[c] = "applied" => <<o, c>> \in d
  BY <1>1, <1>2 DEF PlanStates
<1>6. \A c \in Parts : n.parts[c] = "pending" => n.plan[c].state = "pending"
  BY <1>1
<1> QED
  BY <1>1, <1>4, <1>5, <1>6 DEF Truthful

\* Every step keeps what operations say true.
LEMMA NextTruthful ==
  ASSUME StoreTyped, RunTyped, PlansAgree, OperationsTruthful, StoreStep,
         done \subseteq done',
         \A q \in Processes : TaskStep(q)
  PROVE  OperationsTruthful'
<1>1. ASSUME NEW o \in Ops, store'[o].state \notin {"absent", "removed"}
      PROVE  Truthful(store'[o], o, done')
  <2>1. CASE store'[o] = store[o]
    BY <1>1, <2>1, TruthfulGrows DEF OperationsTruthful
  <2>2. ASSUME NEW q \in Processes, run[q].at # "idle", Op(q) = o, store'[o] = run[q].copy
        PROVE  Truthful(store'[o], o, done')
    BY <2>2, TruthfulGrows DEF OperationsTruthful, At
  <2>3. CASE store'[o] = Removed
    BY <1>1, <2>3 DEF Removed
  <2> QED
    BY <2>1, <2>2, <2>3, StoredOperation DEF At, Created
<1>2. ASSUME NEW p \in Processes, run'[p].at # "idle"
      PROVE  Truthful(run'[p].copy, run'[p].op, done')
  <2>1. CASE run'[p] = run[p] \/ AsBefore(p)
    <3>1. run[p].at # "idle" /\ run'[p].op = Op(p) /\ run'[p].copy = run[p].copy
      BY <1>2, <2>1 DEF AsBefore, Busy, Op
    <3> QED
      BY <3>1, TruthfulGrows DEF OperationsTruthful, At
  <2>2. CASE run'[p] = Idle
    BY <1>2, <2>2 DEF Idle, Task
  <2>3. CASE Created(p)
    BY <2>3, TruthfulGrows DEF Created, OperationsTruthful, At
  <2>4. CASE Changed(p)
    <3>1. Op(p) \in Ops /\ OperationTyped(Stored(p)) /\ run'[p].op = Op(p) /\ Busy(run[p])
      BY <2>4, BusyTyped, StoredTyped DEF Changed, Busy, Stored
    <3>2. Truthful(Stored(p), Op(p), done')
      BY <2>4, <3>1, TruthfulGrows DEF OperationsTruthful, Changed, Stored, States
    <3>3. CASE run'[p].copy = Stored(p)
      BY <3>1, <3>2, <3>3
    <3>4. ASSUME NEW s \in States, run'[p].copy = [Stored(p) EXCEPT !.state = s],
                 s \in {"completed", "skips"} => Ended(run[p].copy)
          PROVE  Truthful(run'[p].copy, run'[p].op, done')
      <4>1. run[p].copy.plan = Stored(p).plan
        BY <2>4, <3>1 DEF PlansAgree, Changed, Busy, States
      <4>2. Truthful(run[p].copy, Op(p), done')
        BY <3>1, TruthfulGrows DEF OperationsTruthful, Busy, At
      <4>3. ToDo(run[p].copy) = ToDo(Stored(p)) /\ ToDo(Stored(p)) \subseteq Parts
        BY <4>1 DEF ToDo
      <4>4. s \in {"completed", "skips"} => \A c \in ToDo(Stored(p)) : <<Op(p), c>> \in done'
        BY <3>4, <4>2, <4>3 DEF Truthful, Ended
      <4> QED
        BY <3>1, <3>2, <3>4, <4>4, TruthfulState
    <3>5. ASSUME NEW c \in Parts, NEW x \in {"applied", "failed", "stale", "rebuild"},
                 run'[p].copy = [Stored(p) EXCEPT !.parts[c] = x],
                 x = "applied" => <<Op(p), c>> \in done'
          PROVE  Truthful(run'[p].copy, run'[p].op, done')
      <4>1. Truthful([Stored(p) EXCEPT !.parts[c] = x], Op(p), done')
        BY <3>1, <3>2, <3>5, TruthfulPart
      <4> QED
        BY <3>1, <3>5, <4>1
    <3> QED
      BY <2>4, <3>3, <3>4, <3>5 DEF Changed
  <2>5. CASE Prepared(p)
    <3>1. PICK s \in Scopes, b \in Releases : run'[p].copy = Operation(s, Plan(p, b, disk, s))
      BY <2>5 DEF Prepared
    <3> QED
      BY <3>1, PlanTyped, TruthfulNew
  <2>6. CASE Confirms(p)
    <3>1. /\ OperationTyped(store[latest]) /\ run'[p].op = latest
          /\ run'[p].copy = [store[latest] EXCEPT !.state = "confirmed"]
      BY <2>6, StoredTyped DEF Confirms, States
    <3>2. Truthful(store[latest], latest, done')
      BY <2>6, TruthfulGrows DEF OperationsTruthful, Confirms
    <3>3. Truthful([store[latest] EXCEPT !.state = "confirmed"], latest, done')
      BY <3>1, <3>2, TruthfulState DEF States
    <3> QED
      BY <3>1, <3>3
  <2>7. CASE Given(p)
    <3>1. PICK q \in Processes : Busy(run[q]) /\ run'[p].op = Op(q) /\ run'[p].copy = run[q].copy
      BY <2>7 DEF Given
    <3> QED
      BY <3>1, TruthfulGrows DEF OperationsTruthful, Busy, At
  <2> QED
    BY <2>1, <2>2, <2>3, <2>4, <2>5, <2>6, <2>7 DEF TaskStep
<1> QED
  BY <1>1, <1>2 DEF OperationsTruthful, At, Op

\* A plan that replaces the executable is made by it, unless by an adapter.
LEMMA KbPlannedNew ==
  ASSUME NEW p \in Processes, Build(p) \in Releases, NEW b \in Releases, NEW s
  PROVE  KbPlanned(Operation(s, Plan(p, b, disk, s)))
<1>1. Plan(p, b, disk, s)["executable"] = PlanExecutable(p, b, disk)
  BY DEF Plan, Parts
<1>2. Operation(s, Plan(p, b, disk, s)).plan = Plan(p, b, disk, s)
  BY DEF Operation
<1>3. PlanExecutable(p, b, disk).state = "pending" =>
        p # Adapter /\ PlanExecutable(p, b, disk).changes["kb"] = [from |-> disk.kb, to |-> b]
  BY DEF PlanExecutable, Part
<1> QED
  BY <1>1, <1>2, <1>3 DEF KbPlanned, KbChange, Build

\* It is a matter of the plan alone.
LEMMA KbPlannedAgain ==
  ASSUME NEW r, NEW n, n.plan = r.plan, KbPlanned(r)
  PROVE  KbPlanned(n)
BY DEF KbPlanned, KbChange

\* Every step keeps what plans say of the executable.
LEMMA NextKbPlans ==
  ASSUME StoreTyped, RunTyped, PlansAgree, KbPlans, StoreStep,
         \A q \in Processes : TaskStep(q)
  PROVE  KbPlans'
<1>1. ASSUME NEW o \in Ops, store'[o].state \notin {"absent", "removed"}
      PROVE  KbPlanned(store'[o])
  <2>1. CASE store'[o] = store[o]
    BY <1>1, <2>1 DEF KbPlans
  <2>2. ASSUME NEW q \in Processes, run[q].at # "idle", store'[o] = run[q].copy
        PROVE  KbPlanned(store'[o])
    BY <2>2 DEF KbPlans, At
  <2>3. CASE store'[o] = Removed
    BY <1>1, <2>3 DEF Removed
  <2> QED
    BY <2>1, <2>2, <2>3, StoredOperation DEF At, Created
<1>2. ASSUME NEW p \in Processes, run'[p].at # "idle"
      PROVE  KbPlanned(run'[p].copy)
  <2>1. CASE run'[p] = run[p] \/ AsBefore(p) \/ Created(p)
    <3>1. run[p].at # "idle" /\ run'[p].copy = run[p].copy
      BY <1>2, <2>1 DEF AsBefore, Created, Busy, At
    <3> QED
      BY <3>1 DEF KbPlans, At
  <2>2. CASE run'[p] = Idle
    BY <1>2, <2>2 DEF Idle, Task
  <2>3. CASE Changed(p)
    <3>1. Op(p) \in Ops /\ Stored(p).state \in States
      BY <2>3, BusyTyped DEF Changed, Busy
    <3>2. KbPlanned(Stored(p))
      BY <3>1 DEF KbPlans, Stored, States
    <3> QED
      BY <2>3, <3>2, ChangedPlan, KbPlannedAgain
  <2>4. CASE Prepared(p)
    BY <2>4, KbPlannedNew DEF Prepared
  <2>5. CASE Confirms(p)
    <3>1. [store[latest] EXCEPT !.state = "confirmed"].plan = store[latest].plan
      BY <2>5, StoredTyped, StateEffect DEF Confirms, States
    <3>2. KbPlanned(store[latest])
      BY <2>5 DEF Confirms, KbPlans
    <3> QED
      BY <2>5, <3>1, <3>2, KbPlannedAgain DEF Confirms
  <2>6. CASE Given(p)
    BY <2>6 DEF Given, KbPlans, Busy, At
  <2> QED
    BY <2>1, <2>2, <2>3, <2>4, <2>5, <2>6 DEF TaskStep
<1> QED
  BY <1>1, <1>2 DEF KbPlans, At

-----------------------------------------------------------------------------
(* The executable                                                          *)

\* Process p goes on elsewhere than with a replacement, and touches neither
\* the executable nor its backup.
Elsewhere(p) ==
  /\ Others(p)
  /\ ~Replacing(run'[p]) /\ run'[p].at # "installed"
  /\ disk'["kb"] = disk["kb"] /\ backup' = backup /\ late' = late

\* What the helper keeps, and that the executable can be recovered.
KbSafe == KbKept /\ ExecutableIsRecoverable

\* Such a step keeps it so.
LEMMA ElsewhereKeeps ==
  ASSUME KbSafe, NEW p \in Processes, Elsewhere(p)
  PROVE  KbSafe'
<1>1. ExecutableIsRecoverable'
  BY DEF KbSafe, ExecutableIsRecoverable, Elsewhere
<1>2. CASE run'[Helper] = run[Helper]
  BY <1>1, <1>2 DEF KbSafe, KbKept, Elsewhere, At, Op
<1>3. CASE p = Helper
  BY <1>1, <1>3 DEF KbSafe, KbKept, Elsewhere, Replacing, At
<1> QED
  BY <1>2, <1>3, ProcessesTyped DEF Elsewhere, Others

\* A step that goes somewhere is one, ...
LEMMA GoesElsewhere ==
  ASSUME RunTyped, NEW p \in Processes, NEW a, Goes(p, a),
         a \notin {"start", "check", "wait", "away", "in", "verify", "write", "installed"},
         disk'["kb"] = disk["kb"], backup' = backup, late' = late
  PROVE  Elsewhere(p)
<1>1. Others(p) /\ (run'[p] = Idle \/ run'[p].at = a)
  BY GoesEffect
<1>2. ~Replacing(run'[p]) /\ run'[p].at # "installed"
  BY <1>1 DEF Replacing, Idle, Task
<1> QED
  BY <1>1, <1>2 DEF Elsewhere

\* ... one that fails, ...
LEMMA FailsElsewhere ==
  ASSUME RunTyped, NEW p \in Processes, Fails(p),
         disk'["kb"] = disk["kb"], backup' = backup, late' = late
  PROVE  Elsewhere(p)
<1>1. Goes(p, "fail") \/ Goes(p, "idle")
  BY DEF Fails
<1> QED
  BY <1>1, GoesElsewhere

\* ... one that is about to write an operation, but for the helper's first, ...
LEMMA WritesElsewhere ==
  ASSUME RunTyped, NEW p \in Processes, NEW r, NEW a, a # "check", Writes(p, r, a),
         disk'["kb"] = disk["kb"], backup' = backup, late' = late
  PROVE  Elsewhere(p)
BY WritesEffect DEF Elsewhere, Replacing

\* ... also after a transition of the store, ...
LEMMA TransitionElsewhere ==
  ASSUME RunTyped, NEW p \in Processes, NEW s, NEW a, a # "check", Transition(p, s, a),
         disk'["kb"] = disk["kb"], backup' = backup, late' = late
  PROVE  Elsewhere(p)
BY WritesElsewhere, FailsElsewhere DEF Transition

\* ... and one that ends a component.
LEMMA RecordsElsewhere ==
  ASSUME RunTyped, NEW p \in Processes, NEW c, NEW x, NEW rest, Records(p, c, x, rest),
         disk'["kb"] = disk["kb"], backup' = backup, late' = late
  PROVE  Elsewhere(p)
<1>1. CASE Stored(p).state = "applying"
  BY <1>1, RecordsEffect DEF Elsewhere, Replacing
<1>2. CASE Stored(p).state # "applying"
  BY <1>2, FailsElsewhere DEF Records
<1> QED
  BY <1>1, <1>2

\* The helper has the operation that it was given, of which it replaces the executable.
LEMMA HelperTyped ==
  ASSUME RunTyped, KbSafe, KbPlans, Replacing(run[Helper])
  PROVE  /\ Op(Helper) \in Ops /\ run[Helper].copy.plan["executable"].state = "pending"
         /\ KbChange(run[Helper].copy).from \in Releases
         /\ KbChange(run[Helper].copy).to \in Releases
<1>1. run[Helper].at # "idle"
  BY DEF Replacing
<1>2. run[Helper].copy.plan["executable"].state = "pending"
  BY DEF KbSafe, KbKept
<1> QED
  BY <1>1, <1>2, BusyTyped, ProcessesTyped DEF KbPlans, KbPlanned, At

\* A writer of the template changes nothing else.
LEMMA TemplateAlone ==
  ASSUME TemplateKept, DiskTyped, NEW p \in Processes, At(p, "template"),
         \/ RestoreTemplate(p)
         \/ \E f \in TemplateFiles : disk' = [disk EXCEPT ![f] = Changes(p, "template")[f].to]
  PROVE  \A f \in Files \ TemplateFiles : disk'[f] = disk[f]
BY DEF TemplateKept, DiskTyped, RestoreTemplate

\* While the executable is replaced, it or its backup stays.
LEMMA NextKbSafe ==
  ASSUME DiskTyped, StoreTyped, RunTyped, PlansAgree, OperationsTruthful, KbPlans, KbSafe,
         TemplateKept, [Next]_vars
  PROVE  KbSafe'
<1>1. ASSUME NEW p \in Processes, Create(p) \/ Point(p) \/ Attach(p)
      PROVE  KbSafe'
  <2>1. disk'["kb"] = disk["kb"] /\ backup' = backup /\ late' = late /\ p \in Processes
    BY <1>1, ProcessesTyped DEF Create, Point, Attach, world
  <2>2. \E a \in {"point", "attach", "ask", "idle"} : Goes(p, a)
    BY <1>1 DEF Create, Point, Attach
  <2> QED
    BY <2>1, <2>2, ElsewhereKeeps, GoesElsewhere
<1>2. ASSUME NEW p \in Processes, Write(p) PROVE KbSafe'
  <2>1. disk'["kb"] = disk["kb"] /\ backup' = backup /\ late' = late
    BY <1>2 DEF Write, world
  <2>2. CASE Fails(p)
    BY <2>1, <2>2, FailsElsewhere, ElsewhereKeeps
  <2>3. CASE Goes(p, run[p].then) /\ run[p].then # "check"
    <3>1. run[p].then \in {"idle", "confirmed", "resume", "resolve", "next"}
      BY <1>2, <2>3 DEF Write, At, RunTyped, TaskTyped, Continuations
    <3> QED
      BY <2>1, <2>3, <3>1, GoesElsewhere, ElsewhereKeeps
  <2>4. CASE Goes(p, "check") /\ run[p].then = "check"
    <3>1. /\ Others(p)
          /\ run'[p].at = "check"
          /\ run'[p].copy = run[p].copy
          /\ run'[p].op = run[p].op
      BY <2>4, GoesEffect DEF Kept
    <3>2. CASE p = Helper
      <4>1. Replacing(run[Helper])
        BY <1>2, <2>4, <3>2 DEF Replacing, Write, At
      <4> QED
        BY <2>1, <3>1, <3>2, <4>1 DEF KbSafe, KbKept, ExecutableIsRecoverable, Replacing, At
    <3>3. CASE p # Helper
      BY <2>1, <3>1, <3>3, ProcessesTyped
         DEF KbSafe, KbKept, ExecutableIsRecoverable, Others, At, Op
    <3> QED
      BY <3>2, <3>3
  <2> QED
    BY <1>2, <2>2, <2>3, <2>4 DEF Write
<1>3. ASSUME NEW p \in Processes, Confirmed(p) PROVE KbSafe'
  <2>1. disk'["kb"] = disk["kb"] /\ backup' = backup /\ late' = late
    BY <1>3 DEF Confirmed, world
  <2>2. CASE Goes(p, "resume") \/ Goes(p, "idle")
    BY <2>1, <2>2, GoesElsewhere, ElsewhereKeeps
  <2>3. CASE ReplacesKb(run[p].copy) /\ run' = [run EXCEPT ![p].at = "leaving", ![Helper] =
                       Task("start", Op(p), Gone, run[p].copy, {}, "idle")]
    <3>1. run'[Helper].at = "start" /\ run'[Helper].copy = run[p].copy
      BY <2>3, ProcessesTyped DEF RunTyped, Task
    <3>2. Truthful(run[p].copy, Op(p), done)
      BY <1>3 DEF Confirmed, OperationsTruthful, At
    <3>3. run[p].copy.plan["executable"].state = "pending"
      BY <2>3, <3>2 DEF Truthful, ReplacesKb, Parts
    <3> QED
      BY <2>1, <3>1, <3>3 DEF KbSafe, KbKept, ExecutableIsRecoverable, At
  <2> QED
    BY <1>3, <2>2, <2>3 DEF Confirmed
<1>4. ASSUME NEW p \in Processes, Fail(p) PROVE KbSafe'
  <2>1. disk'["kb"] = disk["kb"] /\ backup' = backup /\ late' = late /\ p \in Processes
    BY <1>4, ProcessesTyped DEF Fail, world
  <2>2. Writes(p, [Stored(p) EXCEPT !.state = "failed"], "idle") \/ Goes(p, "idle")
    BY <1>4 DEF Fail
  <2> QED
    BY <2>1, <2>2, ElsewhereKeeps, GoesElsewhere, WritesElsewhere
<1>5. ASSUME NEW p \in Processes, Resume(p) PROVE KbSafe'
  <2> DEFINE b == IF p = Helper THEN disk.kb ELSE run[p].build
  <2>1. disk'["kb"] = disk["kb"] /\ backup' = backup /\ late' = late
    BY <1>5 DEF Resume, world
  <2>2. CASE run' =
          [[run EXCEPT ![p].build = b] EXCEPT ![p].at = "write", ![p].then = "resolve",
                       ![p].copy = [Stored(p) EXCEPT !.state = "applying"]]
    <3>1. Others(p) /\ run'[p].at = "write" /\ run'[p].then = "resolve"
      BY <2>2 DEF RunTyped, TaskTyped, Others
    <3> QED
      BY <2>1, <3>1, ElsewhereKeeps DEF Elsewhere, Replacing
  <2>3. CASE run' = [[run EXCEPT ![p].build = b] EXCEPT ![p].at = "resolve", ![p].copy = Stored(p)]
    <3>1. Others(p) /\ run'[p].at = "resolve"
      BY <2>3 DEF RunTyped, TaskTyped, Others
    <3> QED
      BY <2>1, <3>1, ElsewhereKeeps DEF Elsewhere, Replacing
  <2>4. CASE Fails(p) \/ Goes(p, "idle")
    BY <2>1, <2>4, FailsElsewhere, GoesElsewhere, ElsewhereKeeps
  <2> QED
    BY <1>5, <2>2, <2>3, <2>4 DEF Resume
<1>6. ASSUME NEW p \in Processes, Resolve(p) PROVE KbSafe'
  <2>1. disk'["kb"] = disk["kb"] /\ backup' = backup /\ late' = late
    BY <1>6 DEF Resolve, world
  <2>2. CASE Fails(p)
    BY <2>1, <2>2, FailsElsewhere, ElsewhereKeeps
  <2>3. ASSUME NEW x, Records(p, "executable", x, Remaining(run[p].copy.parts))
        PROVE  KbSafe'
    BY <2>1, <2>3, RecordsElsewhere, ElsewhereKeeps
  <2>4. CASE run' = [run EXCEPT ![p].at = "next", ![p].todo = Remaining(run[p].copy.parts)]
    <3>1. Others(p) /\ run'[p].at = "next"
      BY <2>4 DEF RunTyped, TaskTyped, Others
    <3> QED
      BY <2>1, <3>1, ElsewhereKeeps DEF Elsewhere, Replacing
  <2> QED
    BY <1>6, <2>2, <2>3, <2>4 DEF Resolve
<1>7. ASSUME NEW p \in Processes,
             ApplySkill(p) \/ ApplyIndex(p) \/ TemplateWritten(p) \/ ApplySkillFails(p)
             \/ ApplyIndexFails(p)
      PROVE  KbSafe'
  <2>1. disk'["kb"] = disk["kb"] /\ backup' = backup /\ late' = late
    BY <1>7 DEF ApplySkill, ApplyIndex, TemplateWritten, ApplySkillFails, ApplyIndexFails,
            world, DiskTyped, Files
  <2>2. \E c, x : Ends(p, c, x)
    BY <1>7 DEF ApplySkill, ApplyIndex, TemplateWritten, ApplySkillFails, ApplyIndexFails
  <2> QED
    BY <2>1, <2>2, RecordsElsewhere, ElsewhereKeeps DEF Ends
<1>8. ASSUME NEW p \in Processes, BeginTemplate(p) PROVE KbSafe'
  <2>1. disk'["kb"] = disk["kb"] /\ backup' = backup /\ late' = late
    BY <1>8 DEF BeginTemplate, world
  <2>2. ASSUME NEW x, Ends(p, "template", x) PROVE KbSafe'
    BY <2>1, <2>2, RecordsElsewhere, ElsewhereKeeps DEF Ends
  <2>3. CASE run' = [run EXCEPT ![p].at = "template", ![p].todo = DOMAIN Changes(p, "template")]
    <3>1. Others(p) /\ run'[p].at = "template"
      BY <2>3 DEF RunTyped, TaskTyped, Others
    <3> QED
      BY <2>1, <3>1, ElsewhereKeeps DEF Elsewhere, Replacing
  <2> QED
    BY <1>8, <2>2, <2>3 DEF BeginTemplate
<1>9. ASSUME NEW p \in Processes, WriteFile(p) PROVE KbSafe'
  <2>1. At(p, "template") /\ backup' = backup /\ late' = late
    BY <1>9 DEF WriteFile, world
  <2>2. CASE RestoreTemplate(p)
    <3>1. disk'["kb"] = disk["kb"]
      BY <2>1, <2>2, TemplateAlone DEF Files, TemplateFiles
    <3>2. Ends(p, "template", "failed")
      BY <2>2 DEF RestoreTemplate
    <3> QED
      BY <2>1, <3>1, <3>2, RecordsElsewhere, ElsewhereKeeps DEF Ends
  <2>3. ASSUME NEW f \in TemplateFiles, disk' = [disk EXCEPT ![f] = Changes(p,
               "template")[f].to],
               run' = [run EXCEPT ![p].todo = @ \ {f}]
        PROVE  KbSafe'
    <3>1. disk'["kb"] = disk["kb"]
      BY <2>1, <2>3, TemplateAlone DEF Files, TemplateFiles
    <3>2. Others(p) /\ run'[p].at = "template"
      BY <2>1, <2>3 DEF RunTyped, TaskTyped, Others, At
    <3> QED
      BY <2>1, <3>1, <3>2, ElsewhereKeeps DEF Elsewhere, Replacing
  <2> QED
    BY <1>9, <2>2, <2>3 DEF WriteFile
<1>10. ASSUME NEW p \in Processes, Finish(p) PROVE KbSafe'
  <2>1. disk'["kb"] = disk["kb"] /\ backup' = backup /\ late' = late /\ p \in Processes
    BY <1>10, ProcessesTyped DEF Finish, world
  <2>2. Transition(p, Aggregate(run[p].copy.parts), "idle")
    BY <1>10 DEF Finish
  <2> QED
    BY <2>1, <2>2, ElsewhereKeeps, TransitionElsewhere
<1>11. CASE Leave \/ Forget \/ Cancel \/ ScheduleFails
  <2>1. disk'["kb"] = disk["kb"] /\ backup' = backup /\ late' = late /\ Cli \in Processes
    BY <1>11, ProcessesTyped DEF Leave, Forget, Cancel, ScheduleFails, world
  <2>2. \E a \in {"idle", "forget", "fail"} : Goes(Cli, a)
    BY <1>11 DEF Leave, Forget, Cancel, ScheduleFails
  <2> QED
    BY <2>1, <2>2, ElsewhereKeeps, GoesElsewhere
<1>12. CASE HelperStarts
  <2>1. /\ disk'["kb"] = disk["kb"]
        /\ backup' = backup
        /\ late' = late
        /\ run[Helper].at = "start"
    BY <1>12 DEF HelperStarts, world, At
  <2>2. CASE /\ Legal(Stored(Helper).state, "replacing")
             /\ Writes(Helper, [Stored(Helper) EXCEPT !.state = "replacing"], "check")
    <3>1. /\ run'[Helper].at = "write"
          /\ run'[Helper].copy = [Stored(Helper) EXCEPT !.state = "replacing"]
      BY <2>2, WritesEffect, ProcessesTyped
    <3>2. Op(Helper) \in Ops /\ Stored(Helper).state \in States
      BY <2>1, <2>2, BusyTyped, ProcessesTyped, LegalTyped
    <3>3. run'[Helper].copy.plan = run[Helper].copy.plan
      BY <2>1, <3>1, <3>2, StoredTyped, StateEffect, ProcessesTyped DEF PlansAgree, States,
         Stored
    <3>4. run[Helper].copy.plan["executable"].state = "pending"
      BY <2>1, HelperTyped DEF Replacing
    <3> QED
      BY <2>1, <3>1, <3>3, <3>4 DEF KbSafe, KbKept, ExecutableIsRecoverable, At
  <2>3. CASE Goes(Helper, "idle")
    BY <2>1, <2>3, GoesElsewhere, ElsewhereKeeps, ProcessesTyped
  <2> QED
    BY <1>12, <2>2, <2>3 DEF HelperStarts
<1>13. CASE HelperChecks
  <2>1. /\ disk'["kb"] = disk["kb"]
        /\ backup' = backup
        /\ late' = late
        /\ run[Helper].at = "check"
    BY <1>13 DEF HelperChecks, world, At
  <2>2. CASE KbIsBefore /\ Goes(Helper, "wait")
    <3>1. /\ run'[Helper].at = "wait" /\ run'[Helper].copy = run[Helper].copy
          /\ run'[Helper].op = run[Helper].op
      BY <2>2, GoesEffect, ProcessesTyped DEF Kept
    <3>2. disk["kb"] = KbChange(run[Helper].copy).from
      BY <2>2 DEF KbIsBefore, Change, KbChange
    <3>3. KbChange(run'[Helper].copy) = KbChange(run[Helper].copy)
      BY <3>1
    <3> QED
      BY <2>1, <3>1, <3>2, <3>3 DEF KbSafe, KbKept, ExecutableIsRecoverable, At, Replacing
  <2>3. CASE Fails(Helper)
    BY <2>1, <2>3, FailsElsewhere, ElsewhereKeeps, ProcessesTyped
  <2> QED
    BY <1>13, <2>2, <2>3 DEF HelperChecks
<1>14. CASE ParentExits
  <2>1. /\ disk'["kb"] = disk["kb"]
        /\ backup' = backup
        /\ late' = late
        /\ run[Helper].at = "wait"
    BY <1>14 DEF ParentExits, world, At
  <2>2. Goes(Helper, "away")
    BY <1>14 DEF ParentExits
  <2>3. /\ run'[Helper].at = "away" /\ run'[Helper].copy = run[Helper].copy
        /\ run'[Helper].op = run[Helper].op
    BY <2>2, GoesEffect, ProcessesTyped DEF Kept
  <2> QED
    BY <2>1, <2>3 DEF KbSafe, KbKept, ExecutableIsRecoverable, At, Replacing, KbChange
<1>15. CASE MoveAway
  <2>1. /\ run[Helper].at = "away"
        /\ Op(Helper) \in Ops
        /\ late' = late
        /\ Replacing(run[Helper])
    BY <1>15, BusyTyped, ProcessesTyped DEF MoveAway, At, world, Replacing
  <2>2. CASE /\ disk.kb # Gone /\ backup' = [backup EXCEPT ![Op(Helper)] = disk.kb]
             /\ disk' = [disk EXCEPT !.kb = Gone] /\ Goes(Helper, "in")
    <3>1. /\ run'[Helper].at = "in" /\ run'[Helper].copy = run[Helper].copy
          /\ run'[Helper].op = run[Helper].op
      BY <2>2, GoesEffect, ProcessesTyped DEF Kept
    <3>2. backup'[Op(Helper)] # Gone /\ disk'["kb"] = Gone
      BY <2>1, <2>2 DEF StoreTyped, DiskTyped, Files
    <3> QED
      BY <2>1, <3>1, <3>2 DEF KbSafe, KbKept, ExecutableIsRecoverable, At, Replacing, Op
  <2>3. CASE Fails(Helper) /\ UNCHANGED <<disk, backup>>
    BY <2>1, <2>3, FailsElsewhere, ElsewhereKeeps, ProcessesTyped
  <2> QED
    BY <1>15, <2>2, <2>3 DEF MoveAway
<1>16. CASE MoveIn
  <2>1. run[Helper].at = "in" /\ Op(Helper) \in Ops /\ late' = late /\ backup' = backup
    BY <1>16, BusyTyped, ProcessesTyped DEF MoveIn, At, world
  <2>2. disk'["kb"] \in {Gone} \cup Releases
    BY <1>16, <2>1 DEF MoveIn, StoreTyped, DiskTyped, Files
  <2>3. /\ run'[Helper].at = "verify" /\ run'[Helper].copy = run[Helper].copy
        /\ run'[Helper].op = run[Helper].op
    BY <1>16, GoesEffect, ProcessesTyped DEF Kept, MoveIn
  <2>4. disk'["kb"] # Edited
    BY <2>2 DEF Gone, Edited, Releases
  <2> QED
    BY <2>1, <2>3, <2>4 DEF KbSafe, KbKept, ExecutableIsRecoverable, At, Replacing, Op
<1>17. CASE VerifyKb
  <2>1. run[Helper].at = "verify"
    BY <1>17 DEF VerifyKb, At
  <2>2. CASE RestoreKb
    <3>1. disk'["kb"] # Gone /\ late' = late
      BY <1>17, <2>1, <2>2 DEF VerifyKb, RestoreKb, KbSafe, KbKept, DiskTyped, Files, world
    <3>2. Fails(Helper)
      BY <2>2 DEF RestoreKb
    <3>3. run'[Helper] = Idle \/ run'[Helper].at = "fail"
      BY <3>2, GoesEffect, ProcessesTyped DEF Fails
    <3>4. ~Replacing(run'[Helper]) /\ run'[Helper].at # "installed"
      BY <3>3 DEF Replacing, Idle, Task
    <3> QED
      BY <3>1, <3>4 DEF KbSafe, KbKept, ExecutableIsRecoverable, At, Replacing
  <2>3. CASE /\ disk.kb = Change(Helper, "executable", "kb").to
             /\ Goes(Helper, "installed") /\ UNCHANGED <<disk, backup>>
    <3>1. run'[Helper].at = "installed"
      BY <2>3, GoesEffect, ProcessesTyped
    <3>2. disk'["kb"] \in Releases
      BY <2>1, <2>3, HelperTyped DEF Replacing, Change, KbChange
    <3> QED
      BY <3>1, <3>2 DEF KbSafe, KbKept, ExecutableIsRecoverable, At, Replacing, Gone,
         Releases
  <2> QED
    BY <1>17, <2>2, <2>3 DEF VerifyKb
<1>18. CASE HelperReplaced
  <2>1. disk' = disk /\ disk["kb"] # Gone
    BY <1>18 DEF HelperReplaced, KbSafe, KbKept
  <2>2. Transition(Helper, "replaced", "resume")
    BY <1>18 DEF HelperReplaced
  <2>3. ~Replacing(run'[Helper]) /\ run'[Helper].at # "installed"
    <3>1. CASE Writes(Helper, [Stored(Helper) EXCEPT !.state = "replaced"], "resume")
      BY <3>1, WritesEffect, ProcessesTyped DEF Replacing
    <3>2. CASE Fails(Helper)
      BY <3>2, GoesEffect, ProcessesTyped DEF Fails, Replacing, Idle, Task
    <3> QED
      BY <2>2, <3>1, <3>2 DEF Transition
  <2> QED
    BY <2>1, <2>3 DEF KbSafe, KbKept, ExecutableIsRecoverable, At, Replacing
<1>19. ASSUME NEW p \in Processes, NEW s \in Scopes, NEW o \in Ops, Prepare(p, s, o)
       PROVE  KbSafe'
  <2>1. disk'["kb"] = disk["kb"] /\ backup' = backup /\ late' = late
    BY <1>19 DEF Prepare, world
  <2>2. Others(p) /\ run'[p].at = "create"
    BY <1>19 DEF Prepare, RunTyped, Others, Task
  <2> QED
    BY <2>1, <2>2, ElsewhereKeeps DEF Elsewhere, Replacing
<1>20. ASSUME NEW p \in Processes, Confirm(p) PROVE KbSafe'
  <2>1. disk'["kb"] = disk["kb"] /\ backup' = backup /\ late' = late
    BY <1>20 DEF Confirm, world
  <2>2. Others(p) /\ run'[p].at = "write" /\ run'[p].then = "confirmed"
    BY <1>20 DEF Confirm, RunTyped, Others, Task
  <2> QED
    BY <2>1, <2>2, ElsewhereKeeps DEF Elsewhere, Replacing
<1>21. CASE ParentLingers \/ KeepsBackup
  <2>1. disk'["kb"] = disk["kb"] /\ backup' = backup /\ late' = late /\ Helper \in Processes
    BY <1>21, ProcessesTyped DEF ParentLingers, KeepsBackup, world
  <2>2. Goes(Helper, "fail")
    BY <1>21 DEF ParentLingers, KeepsBackup
  <2> QED
    BY <2>1, <2>2, ElsewhereKeeps, GoesElsewhere
<1>22. CASE MoveInFails
  <2>1. run[Helper].at = "in"
    BY <1>22 DEF MoveInFails, At
  <2>2. RestoreKb
    BY <1>22 DEF MoveInFails
  <2> QED
    <3>1. disk'["kb"] # Gone /\ late' = late
      BY <1>22, <2>1, <2>2 DEF MoveInFails, RestoreKb, KbSafe, KbKept, DiskTyped, Files,
         world
    <3>2. Fails(Helper)
      BY <2>2 DEF RestoreKb
    <3>3. run'[Helper] = Idle \/ run'[Helper].at = "fail"
      BY <3>2, GoesEffect, ProcessesTyped DEF Fails
    <3>4. ~Replacing(run'[Helper]) /\ run'[Helper].at # "installed"
      BY <3>3 DEF Replacing, Idle, Task
    <3> QED
      BY <3>1, <3>4 DEF KbSafe, KbKept, ExecutableIsRecoverable, At, Replacing
<1>23. ASSUME NEW p \in Processes, TemplateFails(p) PROVE KbSafe'
  <2>1. disk'["kb"] = disk["kb"] /\ backup' = backup /\ late' = late
    BY <1>23, TemplateAlone DEF TemplateFails, world, Files, TemplateFiles
  <2>2. Ends(p, "template", "failed")
    BY <1>23 DEF TemplateFails, RestoreTemplate
  <2> QED
    BY <2>1, <2>2, RecordsElsewhere, ElsewhereKeeps DEF Ends
<1>24. ASSUME NEW f \in Files, Edit(f) PROVE KbSafe'
  <2>1. run' = run /\ backup' = backup /\ late \subseteq late'
    BY <1>24 DEF Edit
  <2>2. CASE f = "kb"
    <3>1. disk'["kb"] = Edited
      BY <1>24, <2>2 DEF Edit, Edits, DiskTyped, Files
    <3>2. run[Helper].at \in {"wait", "away", "in", "verify"} => "kb" \in late'
      BY <1>24, <2>2 DEF Edit, Checked
    <3> QED
      BY <2>1, <3>1, <3>2 DEF KbSafe, KbKept, ExecutableIsRecoverable, At, Replacing, Op,
         Gone, Edited
  <2>3. CASE f # "kb"
    <3>1. disk'["kb"] = disk["kb"]
      BY <1>24, <2>3 DEF Edit, DiskTyped
    <3> QED
      BY <2>1, <3>1 DEF KbSafe, KbKept, ExecutableIsRecoverable, At, Op
  <2> QED
    BY <2>2, <2>3
<1>25. ASSUME NEW p \in Processes, Die(p) PROVE KbSafe'
  <2>1. disk'["kb"] = disk["kb"] /\ backup' = backup /\ late' = late
    BY <1>25 DEF Die, world
  <2>2. Others(p) /\ run'[p].at = "idle"
    BY <1>25 DEF Die, RunTyped, Others, Idle, Task
  <2> QED
    BY <2>1, <2>2, ElsewhereKeeps DEF Elsewhere, Replacing
<1>26. CASE MoveVault
  BY <1>26 DEF MoveVault, vars, KbSafe, KbKept, ExecutableIsRecoverable, At, Op
<1>27. ASSUME NEW o \in Ops, Expire(o) PROVE KbSafe'
  BY <1>27 DEF Expire, vars, KbSafe, KbKept, ExecutableIsRecoverable, At, Op
<1>28. CASE UNCHANGED vars
  BY <1>28 DEF vars, vars, KbSafe, KbKept, ExecutableIsRecoverable, At, Op
<1>0. CliScopes \subseteq Scopes /\ AdapterScope \in Scopes
  BY UpdateAssumption DEF Scopes, AdapterScope
<1> QED
  BY ProcessesTyped, <1>0, <1>1, <1>2, <1>3, <1>4, <1>5, <1>6, <1>7, <1>8, <1>9, <1>10,
     <1>11, <1>12, <1>13,
     <1>14, <1>15, <1>16, <1>17, <1>18, <1>19, <1>20, <1>21, <1>22, <1>23, <1>24, <1>25,
     <1>26, <1>27, <1>28 DEF Next, Continue, Replaces, Begin, IoError, Other

-----------------------------------------------------------------------------
(* The template                                                            *)

\* A planned template keeps what is the user's: it is of files that are no
\* user's, as they are now, and of the generated part of KB.md alone.
LEMMA PlanTemplateKeeps ==
  ASSUME DiskTyped, NEW b \in Releases, NEW plan, plan = PlanTemplate(b, disk),
         plan.state # "skipped"
  PROVE  /\ DOMAIN plan.changes \subseteq TemplateFiles
         /\ \A f \in DOMAIN plan.changes : /\ plan.changes[f].from = disk[f]
                                           /\ ChangeKeeps(f, plan.changes[f])
<1> DEFINE Good(files) == /\ files \subseteq TemplateFiles
                          /\ \A f \in files : ~Custom(f, disk[f])
<1>0. /\ disk["rules"] \in {Gone, 1, 2, Unmarked, Broken, Edited} \X {"plain", "noted"}
      /\ disk["schema"] \in {Gone, 1, 2, Edited} /\ disk["manifest"] \in {Gone, 1, 2, Edited}
  BY DEF DiskTyped, Contents, Files, TemplateFiles
<1>1. ASSUME NEW f \in TemplateFiles, ~Custom(f, disk[f])
      PROVE  ChangeKeeps(f, [from |-> disk[f], to |-> Target(b, disk, f)])
  <2>1. disk[f] \in Contents(f)
    BY <1>1 DEF DiskTyped, Files
  <2>2. CASE f = "rules"
    <3>1. Target(b, disk, f) = <<b, disk["rules"][2]>>
      BY <2>2 DEF Target
    <3>2. Target(b, disk, f) \in Contents(f) /\ ~Custom(f, Target(b, disk, f))
      BY <1>0, <2>2, <3>1 DEF Contents, Custom, Releases, Edited, Broken
    <3> QED
      BY <1>1, <2>1, <2>2, <3>1, <3>2 DEF ChangeKeeps
  <2>3. CASE f \in {"schema", "manifest"}
    <3>1. Target(b, disk, f) \in Releases
      BY <2>3 DEF Target, Releases
    <3>2. Target(b, disk, f) \in Contents(f) /\ ~Custom(f, Target(b, disk, f))
      BY <2>3, <3>1 DEF Contents, Custom, Releases, Edited
    <3> QED
      BY <1>1, <2>1, <2>3, <3>2 DEF ChangeKeeps
  <2> QED
    BY <2>2, <2>3 DEF TemplateFiles
<1>2. ASSUME NEW files, Good(files), plan = TemplatePart(b, disk, files)
      PROVE  /\ DOMAIN plan.changes \subseteq TemplateFiles
             /\ \A f \in DOMAIN plan.changes : /\ plan.changes[f].from = disk[f]
                                               /\ ChangeKeeps(f, plan.changes[f])
  <2>1. CASE files = {}
    BY <1>2, <2>1 DEF TemplatePart, Part, NoChange
  <2>2. CASE files # {}
    <3>1. plan.changes = [f \in files |-> [from |-> disk[f], to |-> Target(b, disk, f)]]
      BY <1>2, <2>2 DEF TemplatePart, Part
    <3> QED
      BY <1>1, <1>2, <3>1
  <2> QED
    BY <2>1, <2>2
<1>3. CASE disk["manifest"] = Edited
  BY <1>3 DEF PlanTemplate, Conflict, Part, Gone, Edited
<1>4. CASE disk["manifest"] = Gone
  <2> DEFINE whole == disk.rules \in {Nothing, <<Unmarked, "plain">>}
             files == {f \in {"rules"} : whole} \cup {f \in {"schema"} : disk.schema = Gone}
                        \cup {"manifest"}
  <2>1. plan = WithoutManifest(b, disk)
    BY <1>4 DEF PlanTemplate, Gone, Edited
  <2>2. plan = TemplatePart(b, disk, files)
    BY <2>1 DEF WithoutManifest, Conflict, Part
  <2>3. whole => disk["rules"][1] \in {Gone, Unmarked}
    BY DEF Nothing
  <2>4. Good(files)
    BY <1>4, <2>3 DEF Custom, TemplateFiles, Gone, Edited, Broken, Unmarked
  <2> HIDE DEF files
  <2> QED
    BY <1>2, <2>2, <2>4
<1>5. CASE disk["manifest"] \notin {Edited, Gone}
  <2> DEFINE some == {f \in {"rules"} : disk.manifest # b}
                     \cup {f \in {"schema"} : disk.schema = Gone}
             files == IF some = {} THEN {} ELSE some \cup {"manifest"}
  <2>1. plan = FromManifest(b, disk)
    BY <1>5 DEF PlanTemplate
  <2>2. plan = TemplatePart(b, disk, files) /\ disk["rules"][1] = disk["manifest"]
    BY <2>1 DEF FromManifest, Conflict, Part
  <2>3. disk["manifest"] \in Releases
    BY <1>0, <1>5 DEF Releases
  <2>4. Good(files)
    BY <2>2, <2>3 DEF Custom, TemplateFiles, Gone, Edited, Broken, Releases
  <2> HIDE DEF files
  <2> QED
    BY <1>2, <2>2, <2>4
<1> QED
  BY <1>3, <1>4, <1>5

\* Process p leaves the template alone, and does not go on to it.
Apart(p) ==
  /\ Others(p) /\ run'[p].at # "template"
  /\ \A f \in TemplateFiles : disk'[f] = disk[f]
  /\ late' = late /\ (lock' = lock \/ lock = p)

\* The files of the template, and who holds the lock, stay.
TemplateSame ==
  (\A f \in TemplateFiles : disk'[f] = disk[f]) /\ late' = late /\ lock' = lock

\* Such a step keeps the template of another process.
LEMMA ApartKeeps ==
  ASSUME TemplateKept, NEW p \in Processes, Apart(p)
  PROVE  TemplateKept'
<1> SUFFICES ASSUME NEW q \in Processes, run'[q].at = "template"
             PROVE  /\ lock' = q
                    /\ DOMAIN Changes(q, "template")' \subseteq TemplateFiles
                    /\ run'[q].todo \subseteq DOMAIN Changes(q, "template")'
                    /\ \A f \in DOMAIN Changes(q, "template")' :
                         /\ ChangeKeeps(f, Changes(q, "template")'[f])
                         /\ f \notin late' =>
                              disk'[f] = IF f \in run'[q].todo THEN Changes(q, "template")'[f].from
                                                               ELSE Changes(q, "template")'[f].to
  BY DEF TemplateKept, At
<1>1. run'[q] = run[q] /\ q # p
  BY DEF Apart, Others
<1>2. Changes(q, "template")' = Changes(q, "template") /\ At(q, "template")
  BY <1>1 DEF Changes, At
<1> QED
  BY <1>1, <1>2 DEF TemplateKept, Apart

\* So does a writer's last step.
LEMMA LeavingKeeps ==
  ASSUME TemplateKept, NEW p \in Processes, At(p, "template"), Others(p),
         run'[p].at # "template"
  PROVE  TemplateKept'
BY DEF TemplateKept, At, Others

\* Steps that go elsewhere, ...
LEMMA GoesApart ==
  ASSUME RunTyped, NEW p \in Processes, NEW a, Goes(p, a), a # "template"
  PROVE  Others(p) /\ run'[p].at # "template"
BY GoesEffect DEF Idle, Task

\* ... that fail, ...
LEMMA FailsApart ==
  ASSUME RunTyped, NEW p \in Processes, Fails(p)
  PROVE  Others(p) /\ run'[p].at # "template"
<1>1. Goes(p, "fail") \/ Goes(p, "idle")
  BY DEF Fails
<1> QED
  BY <1>1, GoesApart

\* ... that read an operation for a new state, ...
LEMMA TransitionApart ==
  ASSUME RunTyped, NEW p \in Processes, NEW s, NEW a, Transition(p, s, a)
  PROVE  Others(p) /\ run'[p].at # "template"
BY WritesEffect, FailsApart DEF Transition

\* ... or for what became of a component.
LEMMA RecordsApart ==
  ASSUME RunTyped, NEW p \in Processes, NEW c, NEW x, NEW rest, Records(p, c, x, rest)
  PROVE  Others(p) /\ run'[p].at # "template"
<1>1. CASE Stored(p).state = "applying"
  BY <1>1, RecordsEffect
<1>2. CASE Stored(p).state # "applying"
  BY <1>2, FailsApart DEF Records
<1> QED
  BY <1>1, <1>2

\* Every step keeps the templates that are being written.
LEMMA NextTemplateKept ==
  ASSUME DiskTyped, StoreTyped, RunTyped, TemplateKept, [Next]_vars
  PROVE  TemplateKept'
<1>1. ASSUME NEW p \in Processes, Create(p) \/ Point(p) \/ Attach(p)
      PROVE  TemplateKept'
  <2>1. TemplateSame /\ p \in Processes
    BY <1>1, ProcessesTyped DEF Create, Point, Attach, world, TemplateSame
  <2>2. \E a \in {"point", "attach", "ask", "idle"} : Goes(p, a)
    BY <1>1 DEF Create, Point, Attach
  <2>3. Others(p) /\ run'[p].at # "template"
    BY <2>1, <2>2, GoesApart
  <2> QED
    BY <2>1, <2>3, ApartKeeps DEF Apart, TemplateSame
<1>2. ASSUME NEW p \in Processes, Write(p) PROVE TemplateKept'
  <2>1. TemplateSame
    BY <1>2 DEF Write, world, TemplateSame
  <2>2. run[p].then # "template"
    BY <1>2 DEF Write, At, RunTyped, TaskTyped, Continuations
  <2>3. Others(p) /\ run'[p].at # "template"
    BY <1>2, <2>2, GoesApart, FailsApart DEF Write
  <2> QED
    BY <2>1, <2>3, ApartKeeps DEF Apart, TemplateSame
<1>3. ASSUME NEW p \in Processes, Confirmed(p) PROVE TemplateKept'
  <2>1. TemplateSame
    BY <1>3 DEF Confirmed, world, TemplateSame
  <2>2. CASE Goes(p, "resume") \/ Goes(p, "idle")
    BY <2>1, <2>2, GoesApart, ApartKeeps DEF Apart, TemplateSame
  <2>3. CASE run' = [run EXCEPT ![p].at = "leaving", ![Helper] =
                       Task("start", Op(p), Gone, run[p].copy, {}, "idle")]
    <3>1. \A q \in Processes : run'[q].at = "template" => run'[q] = run[q]
      BY <2>3 DEF RunTyped, TaskTyped, Task
    <3> QED
      BY <2>1, <3>1 DEF TemplateKept, At, Changes, TemplateSame
  <2> QED
    BY <1>3, <2>2, <2>3 DEF Confirmed
<1>4. ASSUME NEW p \in Processes, Fail(p) PROVE TemplateKept'
  <2>1. TemplateSame /\ p \in Processes
    BY <1>4, ProcessesTyped DEF Fail, world, TemplateSame
  <2>2. Writes(p, [Stored(p) EXCEPT !.state = "failed"], "idle") \/ Goes(p, "idle")
    BY <1>4 DEF Fail
  <2>3. Others(p) /\ run'[p].at # "template"
    BY <2>1, <2>2, GoesApart, WritesEffect
  <2> QED
    BY <2>1, <2>3, ApartKeeps DEF Apart, TemplateSame
<1>5. ASSUME NEW p \in Processes, Resume(p) PROVE TemplateKept'
  <2> DEFINE b == IF p = Helper THEN disk.kb ELSE run[p].build
  <2>1. TemplateSame
    BY <1>5 DEF Resume, world, TemplateSame
  <2>2. CASE run' =
          [[run EXCEPT ![p].build = b] EXCEPT ![p].at = "write", ![p].then = "resolve",
                       ![p].copy = [Stored(p) EXCEPT !.state = "applying"]]
    <3>1. Others(p) /\ run'[p].at # "template"
      BY <2>2 DEF RunTyped, TaskTyped, Others
    <3> QED
      BY <2>1, <3>1, ApartKeeps DEF Apart, TemplateSame
  <2>3. CASE run' = [[run EXCEPT ![p].build = b] EXCEPT ![p].at = "resolve", ![p].copy = Stored(p)]
    <3>1. Others(p) /\ run'[p].at # "template"
      BY <2>3 DEF RunTyped, TaskTyped, Others
    <3> QED
      BY <2>1, <3>1, ApartKeeps DEF Apart, TemplateSame
  <2>4. CASE Fails(p) \/ Goes(p, "idle")
    BY <2>1, <2>4, FailsApart, GoesApart, ApartKeeps DEF Apart, TemplateSame
  <2> QED
    BY <1>5, <2>2, <2>3, <2>4 DEF Resume
<1>6. ASSUME NEW p \in Processes, Resolve(p) PROVE TemplateKept'
  <2>1. TemplateSame
    BY <1>6 DEF Resolve, world, TemplateSame
  <2>2. Others(p) /\ run'[p].at # "template"
    <3>1. CASE Fails(p)
      BY <3>1, FailsApart
    <3>2. ASSUME NEW x, Records(p, "executable", x, Remaining(run[p].copy.parts))
          PROVE  Others(p) /\ run'[p].at # "template"
      BY <3>2, RecordsApart
    <3>3. CASE run' = [run EXCEPT ![p].at = "next", ![p].todo = Remaining(run[p].copy.parts)]
      BY <3>3 DEF RunTyped, TaskTyped, Others
    <3> QED
      BY <1>6, <3>1, <3>2, <3>3 DEF Resolve
  <2> QED
    BY <2>1, <2>2, ApartKeeps DEF Apart, TemplateSame
<1>7. ASSUME NEW p \in Processes,
             ApplySkill(p) \/ ApplyIndex(p) \/ ApplySkillFails(p) \/ ApplyIndexFails(p)
      PROVE  TemplateKept'
  <2>1. TemplateSame
    BY <1>7 DEF ApplySkill, ApplyIndex, ApplySkillFails, ApplyIndexFails, world,
       TemplateSame,
            DiskTyped, Files, TemplateFiles
  <2>2. \E c, x : Ends(p, c, x)
    BY <1>7 DEF ApplySkill, ApplyIndex, ApplySkillFails, ApplyIndexFails
  <2> QED
    BY <2>1, <2>2, RecordsApart, ApartKeeps DEF Ends, Apart, TemplateSame
<1>8. ASSUME NEW p \in Processes, BeginTemplate(p) PROVE TemplateKept'
  <2>1. disk' = disk /\ late' = late
    BY <1>8 DEF BeginTemplate, world, TemplateSame
  <2>2. ASSUME NEW x, Ends(p, "template", x), lock' = lock PROVE TemplateKept'
    BY <2>1, <2>2, RecordsApart, ApartKeeps DEF Ends, Apart
  <2>3. CASE /\ lock = "free" /\ Fresh(p, "template") /\ lock' = p
             /\ run' = [run EXCEPT ![p].at = "template", ![p].todo = DOMAIN Changes(p, "template")]
    <3>1. run[p].build \in Releases
      BY <1>8 DEF BeginTemplate, Turn, At, RunTyped, TaskTyped, HasBuild
    <3>2. /\ PlanTemplate(run[p].build, disk).changes = Changes(p, "template")
          /\ PlanTemplate(run[p].build, disk).state # "skipped"
      BY <2>3 DEF Fresh, Replanned
    <3>3. /\ DOMAIN Changes(p, "template") \subseteq TemplateFiles
          /\ \A f \in DOMAIN Changes(p, "template") :
               Changes(p, "template")[f].from = disk[f] /\ ChangeKeeps(f, Changes(p, "template")[f])
      BY <3>1, <3>2, PlanTemplateKeeps
    <3>4. \A q \in Processes \ {p} : run'[q].at # "template"
      BY <2>3, ProcessesTyped DEF TemplateKept, RunTyped, At
    <3>5. /\ Changes(p, "template")' = Changes(p, "template")
          /\ run'[p].todo = DOMAIN Changes(p, "template")
      BY <2>3 DEF Changes, RunTyped, TaskTyped
    <3> QED
      BY <2>1, <2>3, <3>3, <3>4, <3>5, ZenonT(40) DEF TemplateKept, At
  <2> QED
    BY <1>8, <2>2, <2>3 DEF BeginTemplate
<1>9. ASSUME NEW p \in Processes, WriteFile(p) PROVE TemplateKept'
  <2>1. At(p, "template") /\ late' = late
    BY <1>9 DEF WriteFile, world, TemplateSame
  <2>2. CASE RestoreTemplate(p)
    <3>1. Ends(p, "template", "failed")
      BY <2>2 DEF RestoreTemplate
    <3> QED
      BY <2>1, <3>1, RecordsApart, LeavingKeeps DEF Ends
  <2>3. ASSUME NEW f \in TemplateFiles, disk' = [disk EXCEPT ![f] = Changes(p,
               "template")[f].to],
               run' = [run EXCEPT ![p].todo = @ \ {f}], lock' = lock
        PROVE  TemplateKept'
    <3>1. \A q \in Processes \ {p} : run'[q] = run[q] /\ run'[q].at # "template"
      BY <2>1, <2>3 DEF TemplateKept, RunTyped, At
    <3>2. /\ Changes(p, "template")' = Changes(p, "template")
          /\ run'[p].todo = run[p].todo \ {f}
      BY <2>3 DEF Changes, RunTyped, TaskTyped
    <3>3. \A g \in TemplateFiles : disk'[g] = IF g = f THEN Changes(p, "template")[f].to ELSE disk[g]
      BY <2>3 DEF DiskTyped, Files
    <3>4. /\ lock = p /\ DOMAIN Changes(p, "template") \subseteq TemplateFiles
          /\ run[p].todo \subseteq DOMAIN Changes(p, "template")
          /\ \A g \in DOMAIN Changes(p, "template") :
               /\ ChangeKeeps(g, Changes(p, "template")[g])
               /\ g \notin late =>
                    disk[g] = IF g \in run[p].todo THEN Changes(p, "template")[g].from
                                                   ELSE Changes(p, "template")[g].to
      BY <2>1 DEF TemplateKept
    <3>5. \A g \in DOMAIN Changes(p, "template") :
               g \notin late =>
                    disk'[g] = IF g \in run[p].todo \ {f} THEN Changes(p, "template")[g].from
                                                   ELSE Changes(p, "template")[g].to
      BY <3>3, <3>4
    <3>6. \A q \in Processes : run'[q].at = "template" => q = p
      BY <3>1
    <3> QED
      BY <2>1, <2>3, <3>2, <3>4, <3>5, <3>6 DEF TemplateKept, At
  <2> QED
    BY <1>9, <2>2, <2>3 DEF WriteFile
<1>10. ASSUME NEW p \in Processes, TemplateWritten(p) \/ TemplateFails(p)
      PROVE  TemplateKept'
  <2>1. At(p, "template") /\ \E x : Ends(p, "template", x)
    BY <1>10 DEF TemplateWritten, TemplateFails, RestoreTemplate
  <2> QED
    BY <2>1, RecordsApart, LeavingKeeps DEF Ends
<1>11. ASSUME NEW p \in Processes, Finish(p) PROVE TemplateKept'
  <2>1. TemplateSame /\ p \in Processes
    BY <1>11, ProcessesTyped DEF Finish, world, TemplateSame
  <2>2. Transition(p, Aggregate(run[p].copy.parts), "idle")
    BY <1>11 DEF Finish
  <2>3. Others(p) /\ run'[p].at # "template"
    BY <2>1, <2>2, TransitionApart
  <2> QED
    BY <2>1, <2>3, ApartKeeps DEF Apart, TemplateSame
<1>12. CASE Leave \/ Forget \/ Cancel \/ ScheduleFails
  <2>1. TemplateSame /\ Cli \in Processes
    BY <1>12, ProcessesTyped DEF Leave, Forget, Cancel, ScheduleFails, world, TemplateSame
  <2>2. \E a \in {"idle", "forget", "fail"} : Goes(Cli, a)
    BY <1>12 DEF Leave, Forget, Cancel, ScheduleFails
  <2>3. Others(Cli) /\ run'[Cli].at # "template"
    BY <2>1, <2>2, GoesApart
  <2> QED
    BY <2>1, <2>3, ApartKeeps DEF Apart, TemplateSame
<1>13. CASE HelperStarts
  <2>1. TemplateSame /\ Helper \in Processes
    BY <1>13, ProcessesTyped DEF HelperStarts, world, TemplateSame
  <2>2. \/ Writes(Helper, [Stored(Helper) EXCEPT !.state = "replacing"], "check")
        \/ Goes(Helper, "idle")
    BY <1>13 DEF HelperStarts
  <2>3. Others(Helper) /\ run'[Helper].at # "template"
    BY <2>1, <2>2, GoesApart, WritesEffect
  <2> QED
    BY <2>1, <2>3, ApartKeeps DEF Apart, TemplateSame
<1>14. CASE HelperChecks \/ ParentExits \/ MoveAway \/ MoveIn \/ VerifyKb
            \/ ParentLingers \/ MoveInFails \/ KeepsBackup
  <2>1. TemplateSame /\ Helper \in Processes
    BY <1>14, ProcessesTyped DEF HelperChecks, ParentExits, MoveAway, MoveIn, VerifyKb,
       ParentLingers, MoveInFails, KeepsBackup, world, TemplateSame, TemplateFiles,
       DiskTyped, Files, RestoreKb
  <2>2. \/ (\E a \in {"wait", "away", "in", "verify", "installed", "fail"} : Goes(Helper, a))
        \/ Fails(Helper)
    BY <1>14 DEF HelperChecks, ParentExits, MoveAway, MoveIn, VerifyKb, ParentLingers,
       MoveInFails, KeepsBackup, RestoreKb
  <2>3. Others(Helper) /\ run'[Helper].at # "template"
    BY <2>1, <2>2, GoesApart, FailsApart
  <2> QED
    BY <2>1, <2>3, ApartKeeps DEF Apart, TemplateSame
<1>15. CASE HelperReplaced
  <2>1. TemplateSame /\ Helper \in Processes
    BY <1>15, ProcessesTyped DEF HelperReplaced, world, TemplateSame
  <2>2. Transition(Helper, "replaced", "resume")
    BY <1>15 DEF HelperReplaced
  <2>3. Others(Helper) /\ run'[Helper].at # "template"
    BY <2>1, <2>2, TransitionApart
  <2> QED
    BY <2>1, <2>3, ApartKeeps DEF Apart, TemplateSame
<1>16. ASSUME NEW p \in Processes, NEW s \in Scopes, NEW o \in Ops, Prepare(p, s, o)
       PROVE  TemplateKept'
  <2>1. TemplateSame
    BY <1>16 DEF Prepare, world, TemplateSame
  <2>2. Others(p) /\ run'[p].at = "create"
    BY <1>16 DEF Prepare, RunTyped, Others, Task
  <2> QED
    BY <2>1, <2>2, ApartKeeps DEF Apart, TemplateSame
<1>17. ASSUME NEW p \in Processes, Confirm(p) PROVE TemplateKept'
  <2>1. TemplateSame
    BY <1>17 DEF Confirm, world, TemplateSame
  <2>2. Others(p) /\ run'[p].at = "write"
    BY <1>17 DEF Confirm, RunTyped, Others, Task
  <2> QED
    BY <2>1, <2>2, ApartKeeps DEF Apart, TemplateSame
<1>18. ASSUME NEW f \in Files, Edit(f) PROVE TemplateKept'
  <2>1. run' = run /\ lock' = lock /\ late \subseteq late'
    BY <1>18 DEF Edit
  <2>2. ASSUME NEW p \in Processes, At(p, "template"), NEW g \in DOMAIN Changes(p,
               "template"), g \notin late'
        PROVE  disk'[g] = disk[g] /\ g \notin late
    <3>1. g # f
      BY <1>18, <2>2 DEF Edit, Checked
    <3> QED
      BY <1>18, <2>1, <2>2, <3>1 DEF Edit, DiskTyped
  <2>3. \A p \in Processes : /\ Changes(p, "template")' = Changes(p, "template")
                             /\ At(p, "template")' = At(p, "template")
    BY <2>1 DEF Changes, At
  <2> QED
    BY <2>1, <2>2, <2>3 DEF TemplateKept
<1>19. ASSUME NEW p \in Processes, Die(p) PROVE TemplateKept'
  <2>1. disk' = disk /\ late' = late /\ (lock' = lock \/ lock = p)
    BY <1>19 DEF Die, world, TemplateSame
  <2>2. Others(p) /\ run'[p].at = "idle"
    BY <1>19 DEF Die, RunTyped, Others, Idle, Task
  <2> QED
    BY <2>1, <2>2, ApartKeeps DEF Apart, TemplateSame
<1>20. CASE MoveVault
  BY <1>20 DEF MoveVault, vars, TemplateKept, At, Changes
<1>21. ASSUME NEW o \in Ops, Expire(o) PROVE TemplateKept'
  BY <1>21 DEF Expire, vars, TemplateKept, At, Changes
<1>22. CASE UNCHANGED vars
  BY <1>22 DEF vars, vars, TemplateKept, At, Changes
<1>0. CliScopes \subseteq Scopes /\ AdapterScope \in Scopes
  BY UpdateAssumption DEF Scopes, AdapterScope
<1> QED
  BY ProcessesTyped, <1>0, <1>1, <1>2, <1>3, <1>4, <1>5, <1>6, <1>7, <1>8, <1>9, <1>10,
     <1>11, <1>12, <1>13,
     <1>14, <1>15, <1>16, <1>17, <1>18, <1>19, <1>20, <1>21, <1>22 DEF Next, Continue,
     Replaces, Begin, IoError, Other

-----------------------------------------------------------------------------
(* What a user has changed                                                 *)

\* A step keeps what is the user's on the disk.
Keeps == \A f \in Files \ late :
           disk'[f] # disk[f] => ~Custom(f, disk[f]) /\ (f = "rules" => disk'[f][2] = disk[f][2])

\* A step that changes one file, which is no user's, does.
LEMMA OneChanged ==
  ASSUME DiskTyped, NEW f \in Files \ {"rules"}, NEW content,
         disk' = [disk EXCEPT ![f] = content],
         f \notin late => disk[f] # Edited
  PROVE  Keeps
BY DEF Keeps, Custom, DiskTyped

\* So does a skill that is planned again, ...
LEMMA FreshSkill ==
  ASSUME NEW p \in Processes, run[p].build \in Releases, Fresh(p, "skill")
  PROVE  disk["skill"] # Edited
<1>1. PlanSkill(run[p].build, disk).state # "skipped"
  BY DEF Fresh, Replanned
<1> QED
  BY <1>1 DEF PlanSkill, Conflict, Part, Releases, Edited

\* ... and putting back what was written of a template.
LEMMA RestoreKeeps ==
  ASSUME DiskTyped, TemplateKept, NEW p \in Processes, At(p, "template"), RestoreTemplate(p)
  PROVE  Keeps
<1> SUFFICES ASSUME NEW f \in Files \ late, disk'[f] # disk[f]
             PROVE  ~Custom(f, disk[f]) /\ (f = "rules" => disk'[f][2] = disk[f][2])
  BY DEF Keeps
<1>1. /\ f \in DOMAIN Changes(p, "template") \ run[p].todo
      /\ disk'[f] = Changes(p, "template")[f].from
  BY DEF RestoreTemplate
<1> QED
  BY <1>1 DEF TemplateKept, ChangeKeeps

\* Every step but a user's keeps what is the user's.
LEMMA StepKeeps ==
  ASSUME DiskTyped, StoreTyped, RunTyped, KbPlans, KbSafe, TemplateKept, [Next]_vars,
         edits' = edits
  PROVE  Keeps
<1>1. ASSUME NEW p \in Processes, ApplySkill(p) PROVE Keeps
  <2>1. run[p].build \in Releases
    BY <1>1 DEF ApplySkill, Turn, At, RunTyped, TaskTyped, HasBuild
  <2> QED
    BY <1>1, <2>1, FreshSkill, OneChanged DEF ApplySkill, Files, Keeps
<1>2. ASSUME NEW p \in Processes, ApplyIndex(p) PROVE Keeps
  <2>1. disk["index"] # Edited
    BY DEF DiskTyped, Contents, Files, TemplateFiles, Edited
  <2> QED
    BY <1>2, <2>1, OneChanged DEF ApplyIndex, Files, Keeps
<1>3. ASSUME NEW p \in Processes, WriteFile(p) PROVE Keeps
  <2>1. ASSUME NEW f \in TemplateFiles, f \in run[p].todo,
               disk' = [disk EXCEPT ![f] = Changes(p, "template")[f].to]
        PROVE  Keeps
    <3>1. f \in DOMAIN Changes(p, "template") /\ ChangeKeeps(f, Changes(p, "template")[f])
      BY <1>3, <2>1 DEF WriteFile, TemplateKept
    <3>2. f \notin late => disk[f] = Changes(p, "template")[f].from
      BY <1>3, <2>1, <3>1 DEF WriteFile, TemplateKept
    <3> QED
      BY <2>1, <3>1, <3>2 DEF Keeps, ChangeKeeps, DiskTyped
  <2> QED
    BY <1>3, <2>1, RestoreKeeps DEF WriteFile, First
<1>4. CASE MoveAway
  <2>1. run[Helper].at = "away"
    BY <1>4 DEF MoveAway, At
  <2>2. "kb" \notin late => disk["kb"] \in Releases
    BY <2>1, HelperTyped DEF Replacing, KbSafe, KbKept
  <2>3. "kb" \notin late => disk["kb"] # Edited
    BY <2>2 DEF Releases, Edited
  <2> QED
    BY <1>4, <2>3, OneChanged DEF MoveAway, Files, Keeps
<1>5. CASE MoveIn
  <2>1. "kb" \notin late => disk["kb"] # Edited
    BY <1>5 DEF MoveIn, At, KbSafe, KbKept, Gone, Edited
  <2> QED
    BY <1>5, <2>1, OneChanged DEF MoveIn, Files
<1>6. CASE VerifyKb
  <2>1. "kb" \notin late => disk["kb"] # Edited
    BY <1>6 DEF VerifyKb, At, KbSafe, KbKept
  <2> QED
    BY <1>6, <2>1, OneChanged DEF VerifyKb, RestoreKb, Files, Keeps
<1>7. CASE MoveInFails
  <2>1. "kb" \notin late => disk["kb"] # Edited
    BY <1>7 DEF MoveInFails, At, KbSafe, KbKept, Gone, Edited
  <2> QED
    BY <1>7, <2>1, OneChanged DEF MoveInFails, RestoreKb, Files
<1>8. ASSUME NEW p \in Processes, ApplySkillFails(p) PROVE Keeps
  <2>1. run[p].build \in Releases
    BY <1>8 DEF ApplySkillFails, Turn, At, RunTyped, TaskTyped, HasBuild
  <2> QED
    BY <1>8, <2>1, FreshSkill, OneChanged DEF ApplySkillFails, Files, Keeps
<1>9. ASSUME NEW p \in Processes, TemplateFails(p) PROVE Keeps
  BY <1>9, RestoreKeeps DEF TemplateFails
<1>10. ASSUME NEW p \in Processes,
             Create(p) \/ Point(p) \/ Attach(p) \/ Write(p) \/ Confirmed(p)
      PROVE  edits' = edits => Keeps
  BY <1>10 DEF Create, Point, Attach, Write, Confirmed, vars, Keeps
<1>11. ASSUME NEW p \in Processes,
             Fail(p) \/ Resume(p) \/ Resolve(p) \/ BeginTemplate(p) \/ TemplateWritten(p)
      PROVE  edits' = edits => Keeps
  BY <1>11 DEF Fail, Resume, Resolve, BeginTemplate, TemplateWritten, vars, Keeps
<1>12. ASSUME NEW p \in Processes, Finish(p) \/ Confirm(p) \/ ApplyIndexFails(p) \/ Die(p)
      PROVE  edits' = edits => Keeps
  BY <1>12 DEF Finish, Confirm, ApplyIndexFails, Die, vars, Keeps
<1>13. ASSUME NEW p \in Processes, NEW s \in Scopes, NEW o \in Ops, Prepare(p, s, o)
       PROVE  Keeps
  BY <1>13 DEF Prepare, vars, Keeps
<1>14. ASSUME NEW f \in Files, Edit(f) PROVE Keeps
  BY <1>14 DEF Edit, StoreTyped
<1>15. ASSUME NEW o \in Ops, Expire(o) PROVE Keeps
  BY <1>15 DEF Expire, vars, Keeps
<1>16. CASE Leave \/ Forget \/ HelperStarts \/ HelperChecks \/ ParentExits
            \/ HelperReplaced \/ Cancel \/ ScheduleFails \/ ParentLingers \/ KeepsBackup
            \/ MoveVault \/ UNCHANGED vars
  BY <1>16 DEF Leave, Forget, HelperStarts, HelperChecks, ParentExits, HelperReplaced,
     Cancel, ScheduleFails, ParentLingers, KeepsBackup, MoveVault, vars, vars, Keeps
<1>0. CliScopes \subseteq Scopes /\ AdapterScope \in Scopes
  BY UpdateAssumption DEF Scopes, AdapterScope
<1> QED
  BY ProcessesTyped, <1>0, <1>1, <1>2, <1>3, <1>4, <1>5, <1>6, <1>7, <1>8, <1>9, <1>10,
     <1>11, <1>12, <1>13,
     <1>14, <1>15, <1>16 DEF Next, Continue, Replaces, Begin, IoError, Other

-----------------------------------------------------------------------------
(* The retry of a request                                                  *)

\* An answer that may come with any number of seconds in its Retry-After header.
AnyAnswer == [why : {"ok"} \cup Transient \cup Permanent \cup Statuses, after : Nat \cup {Unset}]

\* One turn of the loop of retry, and the function that the turns define.
RetryEnds(k, waited, result) == [result |-> result, attempts |-> k, waited |-> waited]
Attempt(answers, from, k, waited) ==
  IF answers[k].why = "ok" THEN RetryEnds(k, waited, "ok")
  ELSE IF ~Retryable(answers[k]) \/ k = 3 \/ waited + Delay(k, answers[k]) > 3
    THEN RetryEnds(k, waited, "failed")
  ELSE from[k + 1][waited + Delay(k, answers[k])]
From(answers) ==
  CHOOSE from : from = [k \in 1..3 |-> [waited \in 0..3 |-> Attempt(answers, from, k, waited)]]

\* retry starts with the first attempt, not having waited.
LEMMA RetryFrom == \A answers : Retry(answers) = From(answers)[1][0]
BY DEF Retry, MaxAttempts, MaxTotalWait, From, Attempt, RetryEnds

\* The wait before another attempt is a number of seconds.
LEMMA DelayTyped ==
  \A answers \in [1..3 -> AnyAnswer] : \A k \in 1..2 : Delay(k, answers[k]) \in Nat
BY DEF AnyAnswer, Delay, Unset, Backoff

\* A success is final.
LEMMA SuccessIsFinal == \A answer \in AnyAnswer : answer.why = "ok" => ~Retryable(answer)
BY DEF Retryable, Transient

\* There is a function that the attempts define: each looks at the next only, and the
\* last at none.
LEMMA FromAttempts ==
  ASSUME NEW answers \in [1..3 -> AnyAnswer]
  PROVE  From(answers) =
           [k \in 1..3 |-> [waited \in 0..3 |-> Attempt(answers, From(answers), k, waited)]]
<1> DEFINE third == [w \in 0..3 |-> Attempt(answers, <<>>, 3, w)]
           second == [w \in 0..3 |-> Attempt(answers, [k \in 1..3 |-> third], 2, w)]
           first == [w \in 0..3 |-> Attempt(answers, [k \in 1..3 |-> second], 1, w)]
           from == [k \in 1..3 |-> IF k = 1 THEN first ELSE IF k = 2 THEN second ELSE third]
<1>1. third = [w \in 0..3 |-> Attempt(answers, from, 3, w)]
  <2>1. ASSUME NEW w \in 0..3 PROVE Attempt(answers, <<>>, 3, w) = Attempt(answers, from, 3, w)
    BY DEF Attempt
  <2> QED
    BY <2>1
<1>2. second = [w \in 0..3 |-> Attempt(answers, from, 2, w)]
  <2>1. from[3] = third
    OBVIOUS
  <2>2. ASSUME NEW w \in 0..3
        PROVE  Attempt(answers, [k \in 1..3 |-> third], 2, w) = Attempt(answers, from, 2, w)
    <3> HIDE DEF third, from
    <3> QED
      BY <2>1 DEF Attempt
  <2> QED
    BY <2>2
<1>3. first = [w \in 0..3 |-> Attempt(answers, from, 1, w)]
  <2>1. from[2] = second
    OBVIOUS
  <2>2. ASSUME NEW w \in 0..3
        PROVE  Attempt(answers, [k \in 1..3 |-> second], 1, w) = Attempt(answers, from, 1, w)
    <3> HIDE DEF second, from
    <3> QED
      BY <2>1 DEF Attempt
  <2> QED
    BY <2>2
<1>4. from = [k \in 1..3 |-> [w \in 0..3 |-> Attempt(answers, from, k, w)]]
  <2> HIDE DEF first, second, third
  <2> QED
    BY <1>1, <1>2, <1>3
<1> HIDE DEF from
<1>5. \E f : f = [k \in 1..3 |-> [w \in 0..3 |-> Attempt(answers, f, k, w)]]
  BY <1>4
<1> QED
  BY <1>5, Zenon DEF From

\* Whatever a request is answered, with whatever Retry-After, retry makes the attempts that
\* its policy allows and no other, and succeeds exactly if one of them does.
THEOREM RetryMeetsPolicy == \A answers \in [1..3 -> AnyAnswer] : MeetsPolicy(answers)
<1> SUFFICES ASSUME NEW answers \in [1..3 -> AnyAnswer] PROVE MeetsPolicy(answers)
  OBVIOUS
<1> DEFINE from == From(answers)
           wait1 == Delay(1, answers[1])
           wait2 == Delay(2, answers[2])
<1>1. \A k \in 1..3 : \A w \in 0..3 : from[k][w] = Attempt(answers, from, k, w)
  <2>1. from = [k \in 1..3 |-> [w \in 0..3 |-> Attempt(answers, from, k, w)]]
    BY FromAttempts
  <2> HIDE DEF from
  <2> QED
    BY <2>1
<1>2. wait1 \in Nat /\ wait2 \in Nat
  BY DelayTyped
<1>3. Retry(answers) = from[1][0]
  BY RetryFrom
<1>4. \A k \in 1..3 : answers[k].why = "ok" => ~Retryable(answers[k])
  BY SuccessIsFinal
<1> HIDE DEF from, wait1, wait2
<1>5. from[1][0] = IF answers[1].why = "ok" THEN RetryEnds(1, 0, "ok")
        ELSE IF ~Retryable(answers[1]) \/ wait1 > 3 THEN RetryEnds(1, 0, "failed") ELSE from[2][wait1]
  BY <1>1, <1>2 DEF Attempt, wait1
<1>6. wait1 <= 3 => from[2][wait1] =
        IF answers[2].why = "ok" THEN RetryEnds(2, wait1, "ok")
        ELSE IF ~Retryable(answers[2]) \/ wait1 + wait2 > 3 THEN RetryEnds(2, wait1, "failed")
        ELSE from[3][wait1 + wait2]
  BY <1>1, <1>2 DEF Attempt, wait2
<1>7. wait1 + wait2 <= 3 => from[3][wait1 + wait2] =
        IF answers[3].why = "ok" THEN RetryEnds(3, wait1 + wait2, "ok")
        ELSE RetryEnds(3, wait1 + wait2, "failed")
  BY <1>1, <1>2 DEF Attempt
<1>8. /\ PolicyWait(answers, 1) = 0 /\ PolicyWait(answers, 2) = wait1
      /\ PolicyWait(answers, 3) = wait1 + wait2
  BY <1>2 DEF PolicyWait, wait1, wait2
<1>9. /\ Allowed(answers, 1)
      /\ Allowed(answers, 2) <=> wait1 <= 3 /\ Retryable(answers[1])
      /\ Allowed(answers, 3) <=>
           wait1 + wait2 <= 3 /\ Retryable(answers[1]) /\ Retryable(answers[2])
  BY <1>2, <1>8 DEF Allowed
<1>10. CASE answers[1].why = "ok"
  BY <1>2, <1>3, <1>4, <1>5, <1>8, <1>9, <1>10 DEF MeetsPolicy, RetryEnds
<1>11. CASE answers[1].why # "ok" /\ (~Retryable(answers[1]) \/ wait1 > 3)
  BY <1>2, <1>3, <1>4, <1>5, <1>8, <1>9, <1>11 DEF MeetsPolicy, RetryEnds
<1>12. CASE answers[1].why # "ok" /\ Retryable(answers[1]) /\ wait1 <= 3
  BY <1>2, <1>3, <1>4, <1>5, <1>6, <1>7, <1>8, <1>9, <1>12 DEF MeetsPolicy, RetryEnds
<1> QED
  BY <1>2, <1>10, <1>11, <1>12

-----------------------------------------------------------------------------
(* The invariant, and what follows from it                                 *)

\* It holds at the start.
LEMMA InitInvariant == Init => IInv
<1> SUFFICES ASSUME Init PROVE IInv
  OBVIOUS
<1>1. DiskTyped /\ disk["kb"] # Gone
  BY UpdateAssumption DEF Init, DiskTyped
<1>2. StoreTyped
  BY ProcessesTyped DEF Init, StoreTyped, Absent, Gone
<1>3. RunTyped
  BY DEF Init, RunTyped, TaskTyped, Idle, Task, Places, HasBuild
<1>4. \A p \in Processes : run[p] = Idle /\ run[p].at = "idle"
  BY DEF Init, Idle, Task
<1>5. \A o \in Ops : store[o].state = "absent"
  BY DEF Init, Absent
<1>6. PlansAgree /\ OperationsTruthful /\ KbPlans
  BY <1>4, <1>5 DEF PlansAgree, OperationsTruthful, KbPlans, At
<1>7. KbKept /\ TemplateKept /\ ExecutableIsRecoverable
  BY <1>1, <1>4, ProcessesTyped DEF KbKept, TemplateKept, ExecutableIsRecoverable, At,
     Replacing
<1> QED
  BY <1>1, <1>2, <1>3, <1>6, <1>7 DEF IInv, Typed

\* Every step keeps it.
LEMMA NextInvariant ==
  ASSUME IInv, [Next]_vars
  PROVE  IInv'
<1>1. /\ Typed /\ DiskTyped /\ StoreTyped /\ RunTyped /\ PlansAgree /\ OperationsTruthful
      /\ KbPlans /\ KbSafe /\ TemplateKept
  BY DEF IInv, Typed, KbSafe
<1>2. DiskTyped' /\ StoreTyped' /\ RunTyped'
  BY <1>1, NextDiskTyped, NextStoreTyped, NextRunTyped
<1>3. StoreStep /\ done \subseteq done' /\ \A q \in Processes : TaskStep(q)
  BY <1>1, NextTaskStep, NextStoreStep
<1>4. PlansAgree' /\ OperationsTruthful' /\ KbPlans'
  BY <1>1, <1>3, NextPlansAgree, NextTruthful, NextKbPlans
<1>5. KbSafe' /\ TemplateKept'
  BY <1>1, NextKbSafe, NextTemplateKept
<1> QED
  BY <1>2, <1>4, <1>5 DEF IInv, Typed, KbSafe

\* The invariant that the others follow from: tasks and stored operations are
\* typed and agree about their plans, what an operation says of its components
\* is true, and whoever replaces the executable or writes the template still
\* finds what it checked, unless a user changed it since.
THEOREM UpdateInvariant == Spec => []IInv
<1> QED
  BY InitInvariant, NextInvariant, PTL DEF Spec

\* The variables have their types.
THEOREM UpdateTypeCorrect == Spec => []TypeOK
<1>1. ASSUME IInv PROVE TypeOK
  <2>1. DiskTyped /\ StoreTyped /\ RunTyped
    BY <1>1 DEF IInv, Typed
  <2>2. ASSUME NEW p \in Processes
        PROVE  Op(p) \in Ops \cup {NoOp} /\ run[p].copy.state \in States \cup {"absent"}
    BY <2>1 DEF RunTyped, TaskTyped, OperationTyped, Idle, Task, Absent, Op
  <2>3. \A o \in Ops : store[o].state \in States \cup {"absent", "removed"}
    BY <2>1 DEF StoreTyped, OperationTyped, Absent, Removed
  <2> QED
    BY <2>1, <2>2, <2>3 DEF TypeOK, DiskTyped, StoreTyped
<1> QED
  BY <1>1, UpdateInvariant, PTL

\* Wherever the replacement of the executable stops, kb or its backup is there.
THEOREM ExecutableRecoverable == Spec => []ExecutableIsRecoverable
<1>1. IInv => ExecutableIsRecoverable
  BY DEF IInv
<1> QED
  BY <1>1, UpdateInvariant, PTL

\* An operation that ended as completed applied all that it was confirmed
\* for, however many processes confirmed it and whenever they died.
THEOREM CompletedIsApplied == Spec => []CompletedMeansApplied
<1>1. ASSUME IInv PROVE CompletedMeansApplied
  <2> SUFFICES ASSUME NEW o \in Ops, store[o].state \in {"completed", "skips"},
                      NEW c \in Parts, store[o].plan[c].state \in {"pending", "rebuild"}
               PROVE  <<o, c>> \in done
    BY DEF CompletedMeansApplied
  <2>1. Truthful(store[o], o, done)
    BY <1>1 DEF IInv, OperationsTruthful
  <2> QED
    BY <2>1 DEF Truthful, ToDo
<1> QED
  BY <1>1, UpdateInvariant, PTL

\* No step of the update replaces what a user changed before it looked.
THEOREM UserContentKept == Spec => UserContentIsKept
<1>1. ASSUME IInv, [Next]_vars
      PROVE  [\A f \in Files \ late :
                edits' = edits /\ disk'[f] # disk[f] =>
                  /\ ~Custom(f, disk[f])
                  /\ f = "rules" => disk'[f][2] = disk[f][2]]_vars
  <2>1. Typed /\ KbPlans /\ KbSafe /\ TemplateKept
    BY <1>1 DEF IInv, KbSafe
  <2>2. edits' = edits => Keeps
    BY <1>1, <2>1, StepKeeps DEF Typed
  <2> QED
    BY <2>2 DEF Keeps
<1> QED
  BY <1>1, UpdateInvariant, PTL DEF UserContentIsKept, Spec
\* Whenever a process may have fetched a release, each request was tried as the policy says.
THEOREM RetriesMeetPolicy == Spec => []RetryMeetsItsPolicy
<1>1. [1..3 -> Answers] \subseteq [1..3 -> AnyAnswer]
  <2>1. Answers \subseteq AnyAnswer
    BY DEF Answers, AnyAnswer
  <2> QED
    BY <2>1
<1>2. RetryPolicyHolds
  BY <1>1, RetryMeetsPolicy DEF RetryPolicyHolds
<1>3. RetryMeetsItsPolicy
  BY <1>2 DEF RetryMeetsItsPolicy
<1> QED
  BY <1>3, PTL
=============================================================================
