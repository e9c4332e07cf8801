--------------------------- MODULE OperationEvents ---------------------------
(***************************************************************************)
(* The event log of one operation (kb-app/src/operation_events.rs), the    *)
(* knowledge applies that write it (kb-app/src/knowledge_apply.rs) and the *)
(* SSE streams that read it (kb-server/src/lib.rs).                        *)
(*                                                                         *)
(* Recording an event reads the whole log, appends, and replaces the file: *)
(* two steps and no lock of their own.  The apply that holds the Vault's   *)
(* exclusive lock records under it; an apply that ends with an error, the  *)
(* one that found the lock taken included, records `failed` without it.    *)
(*                                                                         *)
(* The files of the Vault are module JournalledSave's business.  Here a    *)
(* save is the number of writes done, a journal and a receipt.             *)
(***************************************************************************)
EXTENDS Integers, SequencesExt

CONSTANTS
  Callers,      \* processes and HTTP requests that may apply the operation
  NoCaller,
  Subscribers,  \* SSE clients
  Total,        \* number of reviewed writes
  Milestones,   \* progress is recorded about this many times: 100 in the code
  MaxEvents,    \* MAX_OPERATION_EVENTS
  MaxFaults     \* bound on deaths, failures, refused calls and dropped connections

ASSUME EventsAssumption ==
  /\ NoCaller \notin Callers
  /\ Total \in Nat \ {0}
  /\ Milestones \in Nat \ {0}
  /\ MaxEvents \in Nat \ {0}
  /\ MaxFaults \in Nat \ {0}

VARIABLES
  log,        \* the events in events.json; an event's id is its index
  receipt,    \* result.json exists
  journal,    \* the progress file exists
  done,       \* writes the running attempt has made
  holder,     \* the caller that holds the exclusive lock
  pc, ev,     \* where each caller is, and the event it records or recorded last
  base,       \* the log as the caller read it
  status, cursor, \* each stream: its state and the last id sent
  got,        \* history: the events each client received, over its reconnections
  overlapped, \* history: two callers were at work at one time
  faults

save == <<receipt, journal, done>>
calls == <<holder, pc, ev, base, overlapped>>
streams == <<status, cursor, got>>
vars == <<log, save, calls, streams, faults>>

NoProgress == -1
Event(kind, completed) == [kind |-> kind, completed |-> completed]
Planned == Event("planned", 0)
Applying == Event("applying", 0)
Recovering == Event("recovering", NoProgress)
Applied == Event("applied", Total)
Failed == Event("failed", NoProgress)
Events ==
  {Planned, Applying, Recovering, Applied, Failed} \cup {Event("progress", n) : n \in 1..Total}

IsTerminal(events) ==
  events # <<>> /\ events[Len(events)].kind \in {"applied", "failed"}

TypeOK ==
  /\ log \in Seq(Events) /\ Len(log) <= MaxEvents
  /\ receipt \in BOOLEAN /\ journal \in BOOLEAN
  /\ done \in 0..Total
  /\ holder \in Callers \cup {NoCaller}
  /\ pc \in [Callers -> {"idle", "read", "add", "recorded", "unrecorded", "preflight", "write"}]
  /\ ev \in [Callers -> Events]
  /\ base \in [Callers -> Seq(Events)]
  /\ status \in [Subscribers -> {"off", "live", "closed", "rejected"}]
  /\ got \in [Subscribers -> Seq(Events)]
  /\ cursor \in [Subscribers -> 0..MaxEvents]
  /\ overlapped \in BOOLEAN
  /\ faults \in 0..MaxFaults
  /\ \A c \in Callers : c # holder /\ pc[c] # "idle" => ev[c] = Failed

\* A plan made by an old version, or cut short while it was saved, has no log: the
\* first of the faults.
Init ==
  /\ log \in {<<>>, <<Planned>>}
  /\ receipt = FALSE
  /\ journal = FALSE
  /\ done = 0
  /\ holder = NoCaller
  /\ pc = [c \in Callers |-> "idle"]
  /\ ev = [c \in Callers |-> Failed]
  /\ base = [c \in Callers |-> <<>>]
  /\ status = [s \in Subscribers |-> "off"]
  /\ cursor = [s \in Subscribers |-> 0]
  /\ got = [s \in Subscribers |-> <<>>]
  /\ overlapped = FALSE
  /\ faults = IF log = <<>> THEN 1 ELSE 0

-----------------------------------------------------------------------------
(* Recording an event                                                      *)

Record(c, event) ==
  /\ pc' = [pc EXCEPT ![c] = "read"]
  /\ ev' = [ev EXCEPT ![c] = event]

\* The call is over and what it knew is gone.
Leave(c) ==
  /\ pc' = [pc EXCEPT ![c] = "idle"]
  /\ ev' = [ev EXCEPT ![c] = Failed]

\* Faulty variant of Known: forgets that a repeated state is recorded once.
FaultyKnown(c) == FALSE

\* Faulty variant of Look: makes room by dropping the oldest event.
FaultyLook(c) ==
  /\ pc[c] = "read"
  /\ IF log # <<>> /\ log[Len(log)] = ev[c]
     THEN pc' = [pc EXCEPT ![c] = "recorded"] /\ UNCHANGED base
     ELSE /\ pc' = [pc EXCEPT ![c] = "add"]
          /\ base' = [base EXCEPT ![c] = IF Len(log) < MaxEvents THEN log ELSE Tail(log)]
  /\ UNCHANGED <<log, save, holder, ev, overlapped, streams, faults>>

Known(c) == log # <<>> /\ log[Len(log)] = ev[c]

\* The log is read: the event is there already, or there is room for it, or not.
Look(c) ==
  /\ pc[c] = "read"
  /\ \/ /\ Known(c)
        /\ pc' = [pc EXCEPT ![c] = "recorded"]
        /\ UNCHANGED base
     \/ /\ ~Known(c)
        /\ Len(log) < MaxEvents
        /\ pc' = [pc EXCEPT ![c] = "add"]
        /\ base' = [base EXCEPT ![c] = log]
     \/ /\ ~Known(c)
        /\ Len(log) >= MaxEvents
        /\ pc' = [pc EXCEPT ![c] = "unrecorded"]
        /\ UNCHANGED base
  /\ UNCHANGED <<log, save, holder, ev, overlapped, streams, faults>>

\* The file is replaced by what was read and the event.
Add(c) ==
  /\ pc[c] = "add"
  /\ log' = Append(base[c], ev[c])
  /\ base' = [base EXCEPT ![c] = <<>>]
  /\ pc' = [pc EXCEPT ![c] = "recorded"]
  /\ UNCHANGED <<save, holder, ev, overlapped, streams, faults>>

-----------------------------------------------------------------------------
(* One apply                                                               *)

Fault ==
  /\ faults < MaxFaults
  /\ faults' = faults + 1

Meets(c) == overlapped' = (overlapped \/ \E d \in Callers \ {c} : pc[d] # "idle")

\* The lock is free.  With a receipt only housekeeping and its event remain.
Call(c) ==
  /\ pc[c] = "idle"
  /\ holder = NoCaller
  /\ holder' = c
  /\ Meets(c)
  /\ \/ receipt /\ journal' = FALSE /\ Record(c, Applied)
     \/ ~receipt /\ Record(c, Applying) /\ UNCHANGED journal
  /\ UNCHANGED <<log, receipt, done, base, streams, faults>>

\* Faulty variant of Busy: goes ahead without the lock.
FaultyBusy(c) ==
  /\ pc[c] = "idle"
  /\ holder # NoCaller
  /\ Meets(c)
  /\ Fault
  /\ Record(c, Applying)
  /\ UNCHANGED <<log, save, holder, base, streams>>

\* The lock is taken: write_busy, an error like any other.
Busy(c) ==
  /\ pc[c] = "idle"
  /\ holder # NoCaller
  /\ Meets(c)
  /\ Fault
  /\ Record(c, Failed)
  /\ UNCHANGED <<log, save, holder, base, streams>>

\* The apply returns an error: the lock is dropped, then `failed` is recorded.
Fail(c) ==
  /\ holder' = NoCaller
  /\ Record(c, Failed)
  /\ done' = 0
  /\ UNCHANGED <<log, receipt, base, overlapped, streams>>

\* An interrupted attempt left its journal: it is restored first.
Recover(c) ==
  /\ pc[c] = "recorded"
  /\ ev[c] = Applying
  /\ journal
  /\ Record(c, Recovering)
  /\ UNCHANGED <<log, save, holder, base, overlapped, streams, faults>>

Restored(c) ==
  /\ pc[c] = "recorded"
  /\ ev[c] = Recovering
  /\ journal' = FALSE
  /\ pc' = [pc EXCEPT ![c] = "preflight"]
  /\ UNCHANGED <<log, receipt, done, holder, ev, base, overlapped, streams, faults>>

InPreflight(c) ==
  \/ pc[c] = "preflight"
  \/ pc[c] = "recorded" /\ ev[c] = Applying /\ ~journal

OpenJournal(c) ==
  /\ InPreflight(c)
  /\ journal' = TRUE
  /\ pc' = [pc EXCEPT ![c] = "write"]
  /\ UNCHANGED <<log, receipt, done, holder, ev, base, overlapped, streams, faults>>

\* should_record_progress: the first write, the last, and evenly between them.
RecordsProgress(completed) ==
  LET step == (Total + Milestones - 1) \div Milestones
  IN  completed \in {1, Total} \/ completed % step = 0

\* One write is journalled and made, and recorded when it is a milestone.
WriteOne(c) ==
  /\ pc[c] = "write"
  /\ done < Total
  /\ done' = done + 1
  /\ \/ RecordsProgress(done') /\ Record(c, Event("progress", done'))
     \/ ~RecordsProgress(done') /\ UNCHANGED <<pc, ev>>
  /\ UNCHANGED <<log, receipt, journal, holder, base, overlapped, streams, faults>>

ProgressRecorded(c) ==
  /\ pc[c] = "recorded"
  /\ ev[c].kind = "progress"
  /\ pc' = [pc EXCEPT ![c] = "write"]
  /\ UNCHANGED <<log, save, holder, ev, base, overlapped, streams, faults>>

\* Faulty variant of Commit: announces the save before its receipt is on disk.
FaultyCommit(c) ==
  /\ pc[c] = "write"
  /\ done = Total
  /\ Record(c, Applied)
  /\ UNCHANGED <<log, save, holder, base, overlapped, streams, faults>>

\* The receipt first, then the event, then the marker and the journal go.
Commit(c) ==
  /\ pc[c] = "write"
  /\ done = Total
  /\ receipt' = TRUE
  /\ Record(c, Applied)
  /\ UNCHANGED <<log, journal, done, holder, base, overlapped, streams, faults>>

Finish(c) ==
  /\ pc[c] = "recorded"
  /\ ev[c] = Applied
  /\ journal' = FALSE
  /\ done' = 0
  /\ holder' = NoCaller
  /\ Leave(c)
  /\ UNCHANGED <<log, receipt, base, overlapped, streams, faults>>

\* Any other error: a restore that must preserve another writer's change, a stale plan,
\* a write that fails and is put back, housekeeping after the receipt.
ApplyFails(c) ==
  /\ holder = c
  /\ pc[c] \in {"recorded", "preflight", "write"}
  /\ Fault
  /\ Fail(c)
  /\ \/ UNCHANGED journal
     \/ (ev[c] # Applying \/ pc[c] = "write") /\ journal' = FALSE

\* The event cannot be recorded, which fails the apply.  Inside the write loop the
\* writes are put back.
Unrecorded(c) ==
  /\ pc[c] = "unrecorded"
  /\ ev[c] # Failed
  /\ Fail(c)
  /\ journal' = (journal /\ ev[c].kind # "progress")
  /\ UNCHANGED faults

\* Whether `failed` could be recorded does not matter any more.
ReturnError(c) ==
  /\ pc[c] \in {"recorded", "unrecorded"}
  /\ ev[c] = Failed
  /\ Leave(c)
  /\ UNCHANGED <<log, save, holder, base, overlapped, streams, faults>>

\* The process dies; the operating system frees its lock.
Crash(c) ==
  /\ pc[c] # "idle"
  /\ Fault
  /\ Leave(c)
  /\ base' = [base EXCEPT ![c] = <<>>]
  /\ \/ holder = c /\ holder' = NoCaller /\ done' = 0
     \/ holder # c /\ UNCHANGED <<holder, done>>
  /\ UNCHANGED <<log, receipt, journal, overlapped, streams>>

-----------------------------------------------------------------------------
(* Streams                                                                 *)

\* What operation_events reports: a single synthetic event while there is no log.
Reported ==
  IF log # <<>> THEN log ELSE IF receipt THEN <<Applied>> ELSE <<Planned>>

Longer(m, n) == IF m > n THEN m ELSE n

\* Faulty variant of Unseen: resumes at the cursor instead of after it.
FaultyUnseen(s, n) == SubSeq(Reported, Longer(cursor[s], 1), n)

\* The events of the report the client has not seen, up to the n-th.
Unseen(s, n) == SubSeq(Reported, cursor[s] + 1, n)

\* n events of the report go out.
SendUpTo(s, n) ==
  /\ got' = [got EXCEPT ![s] = @ \o Unseen(s, n)]
  /\ cursor' = [cursor EXCEPT ![s] = Longer(@, n)]
  /\ UNCHANGED <<log, save, calls>>

\* Faulty variant of Serve: an idle stream stops looking once nothing is running.
FaultyServe(s) ==
  /\ \/ status[s] = "off" /\ cursor[s] <= Len(Reported)
     \/ status[s] = "live" /\ holder # NoCaller
  /\ SendUpTo(s, Len(Reported))
  /\ status' = [status EXCEPT ![s] = IF IsTerminal(Reported) THEN "closed" ELSE "live"]
  /\ UNCHANGED faults

\* One round: a report is read, what is new in it is sent, and the stream ends when
\* the report does.  A connection opens with a round; Last-Event-ID is its cursor.
Serve(s) ==
  /\ \/ status[s] = "off" /\ cursor[s] <= Len(Reported)
     \/ status[s] = "live"
  /\ SendUpTo(s, Len(Reported))
  /\ status' = [status EXCEPT ![s] = IF IsTerminal(Reported) THEN "closed" ELSE "live"]
  /\ UNCHANGED faults

\* A cursor newer than the log is refused.
Reject(s) ==
  /\ status[s] = "off"
  /\ cursor[s] > Len(Reported)
  /\ status' = [status EXCEPT ![s] = "rejected"]
  /\ UNCHANGED <<log, save, calls, cursor, got, faults>>

\* The connection drops in the middle of a round, and the client remembers its last id.
Drop(s) ==
  /\ status[s] = "live"
  /\ Fault
  /\ \E n \in cursor[s]..Len(Reported) : SendUpTo(s, n)
  /\ status' = [status EXCEPT ![s] = "off"]

\* The stream has ended, but the operation is being retried.
Return(s) ==
  /\ status[s] = "closed"
  /\ ~IsTerminal(Reported)
  /\ status' = [status EXCEPT ![s] = "off"]
  /\ UNCHANGED <<log, save, calls, cursor, got, faults>>

-----------------------------------------------------------------------------
Goes(c) ==
  \/ Look(c) \/ Add(c) \/ Recover(c) \/ Restored(c) \/ OpenJournal(c) \/ WriteOne(c)
  \/ ProgressRecorded(c) \/ Commit(c) \/ Finish(c) \/ Unrecorded(c) \/ ReturnError(c)

Next ==
  \/ \E c \in Callers :
       \/ Call(c) \/ Busy(c) \/ Goes(c)
       \/ ApplyFails(c) \/ Crash(c)
  \/ \E s \in Subscribers : Serve(s) \/ Reject(s) \/ Drop(s) \/ Return(s)

Spec == Init /\ [][Next]_vars

\* A running call goes on, a stream is served, and an operation that did not return
\* its result is called again when the lock is free.
Fairness ==
  /\ \A c \in Callers : WF_vars(Goes(c))
  /\ \A s \in Subscribers : WF_vars(Serve(s))
  /\ SF_vars(\E c \in Callers : Call(c))

FairSpec == Spec /\ Fairness

-----------------------------------------------------------------------------
(* Properties                                                              *)

\* Nobody is told that knowledge was saved before the receipt is on disk: neither
\* the log nor any client has seen `applied`.
AppliedHasReceipt ==
  ~receipt => Applied \notin ToSet(log) \cup UNION {ToSet(got[s]) : s \in Subscribers}

\* While applies of the operation do not overlap, an event on disk stays: deaths,
\* retries, failures and a full log only ever add to it.
DurableEventsStay ==
  [][~overlapped' => IsPrefix(log, log')]_vars

\* While applies do not overlap, only a call that fails itself adds an event to the
\* log of a completed operation: a retry returns the result and records nothing.
CompletedLogIsFinal ==
  [][~overlapped' /\ log # <<>> /\ log[Len(log)] = Applied /\ log' # log =>
       \E c \in Callers : ev[c] = Failed /\ pc[c] = "add"]_vars

\* Over all its connections a client receives the log itself, in order, nothing twice
\* and nothing left out, when applies do not overlap and the log began with the plan.
ClientsSeeTheLog ==
  ~overlapped /\ log # <<>> /\ log[1] = Planned =>
    \A s \in Subscribers : status[s] # "rejected" /\ IsPrefix(got[s], log)

\* A stream never hangs on a completed operation: it ends, whatever it had read when
\* the receipt was written, unless the log had no room left for the end.
StreamsEnd ==
  \A s \in Subscribers :
    (receipt /\ status[s] = "live") ~> (status[s] # "live" \/ Len(log) = MaxEvents)
=============================================================================
