------------------------ MODULE OperationEventsProofs ------------------------
(***************************************************************************)
(* What holds of the event log, the applies that write it and the streams  *)
(* that read it, for any number of callers, clients, writes and events.    *)
(***************************************************************************)
EXTENDS OperationEvents, TLAPS

\* Where a call is says what it has read and what it is about to record.
AtWork ==
  \A c \in Callers :
    /\ c # holder => pc[c] \notin {"preflight", "write"}
    /\ pc[c] \in {"preflight", "write"} => ev[c] \notin {Applied, Failed}
    /\ pc[c] = "add" => /\ Len(base[c]) < MaxEvents
                        /\ base[c] # <<>> => base[c][Len(base[c])] # ev[c]
    /\ ev[c] # Planned
    /\ receipt /\ pc[c] # "idle" => ev[c] \in {Applied, Failed}

\* Without a receipt nobody has `applied`: not on disk, not in memory, not on its way.
ReceiptFirst ==
  ~receipt =>
    /\ Applied \notin ToSet(log)
    /\ \A c \in Callers : ev[c] # Applied /\ Applied \notin ToSet(base[c])
    /\ \A s \in Subscribers : Applied \notin ToSet(got[s])

\* Without overlap one call is at work, and the log is as it has read it.
Alone ==
  ~overlapped =>
    /\ \A c, d \in Callers : pc[c] # "idle" /\ pc[d] # "idle" => c = d
    /\ \A c \in Callers : pc[c] = "add" => base[c] = log

\* A client's cursor says how much of a log that began with the plan it has received.
CursorsAgree ==
  ~overlapped /\ log # <<>> /\ log[1] = Planned =>
    \A s \in Subscribers :
      /\ status[s] # "rejected"
      /\ cursor[s] <= Len(log)
      /\ got[s] = SubSeq(log, 1, cursor[s])

IInv == TypeOK /\ AtWork /\ ReceiptFirst /\ Alone /\ CursorsAgree

-----------------------------------------------------------------------------
(* Sequences                                                               *)

\* What is in neither a log nor the new event is not in the longer log.
LEMMA NotInAppended ==
  ASSUME NEW S, NEW s \in Seq(S), NEW e \in S, NEW x, x \notin ToSet(s), x # e
  PROVE  x \notin ToSet(Append(s, e))
BY DEF ToSet

\* What is neither in what a client has nor in the report is not in what it has then.
LEMMA NotInServed ==
  ASSUME NEW S, NEW s \in Seq(S), NEW t \in Seq(S), NEW x, x \notin ToSet(s), x \notin ToSet(t),
         NEW m \in Nat \ {0}, NEW n \in Nat, n <= Len(t)
  PROVE  x \notin ToSet(s \o SubSeq(t, m, n))
BY DEF ToSet

\* The part of a log up to a cursor and the part after it are the log up to the end.
LEMMA PartsJoin ==
  \A s \in Seq(Events), k \in Nat, n \in Nat : k <= n /\ n <= Len(s) =>
    SubSeq(s, 1, k) \o SubSeq(s, k + 1, n) = SubSeq(s, 1, n)
OBVIOUS

\* An event that is added leaves the part before it as it was.
LEMMA AppendKeeps ==
  ASSUME NEW S, NEW s \in Seq(S), NEW e \in S, NEW k \in Nat, k <= Len(s)
  PROVE  SubSeq(Append(s, e), 1, k) = SubSeq(s, 1, k)
OBVIOUS

-----------------------------------------------------------------------------
(* The events                                                              *)

\* The events are told apart by their kind, and each is one.
LEMMA EventsTyped ==
  /\ Planned \in Events /\ Applying \in Events /\ Recovering \in Events
  /\ Applied \in Events /\ Failed \in Events
  /\ \A n \in 1..Total : Event("progress", n) \in Events
  /\ Applied \notin {Planned, Applying, Recovering, Failed}
  /\ Failed \notin {Planned, Applying, Recovering}
  /\ Planned \notin {Applying, Recovering}
  /\ Applying # Recovering
  /\ \A n : Event("progress", n) \notin {Planned, Applying, Recovering, Applied, Failed}
  /\ Applied.kind = "applied" /\ Failed.kind = "failed" /\ Planned.kind = "planned"
  /\ Applying.kind = "applying" /\ Recovering.kind = "recovering"
  /\ \A n : Event("progress", n).kind = "progress"
BY DEF Events, Event, Planned, Applying, Recovering, Applied, Failed

\* A report is a log that is not longer than a log may be.
LEMMA ReportTyped ==
  TypeOK => Reported \in Seq(Events) /\ Len(Reported) \in 1..MaxEvents
BY EventsTyped, EventsAssumption DEF TypeOK, Reported

\* The log is empty or begins with the plan, and nobody has read or sent anything.
LEMMA InitIInv == Init => IInv
<1> SUFFICES ASSUME Init PROVE IInv
  OBVIOUS
<1> USE EventsAssumption, EventsTyped DEF Init
<1>1. <<>> \in Seq(Events) /\ <<Planned>> \in Seq(Events)
  OBVIOUS
<1>2. log \in Seq(Events) /\ Len(log) <= MaxEvents
  <2>1. CASE log = <<>>
    BY <1>1, <2>1
  <2>2. CASE log = <<Planned>>
    BY <1>1, <2>2
  <2> QED
    BY <2>1, <2>2
<1>7. base \in [Callers -> Seq(Events)] /\ got \in [Subscribers -> Seq(Events)]
  BY <1>1
<1>9. faults \in 0..MaxFaults /\ done \in 0..Total
  OBVIOUS
<1>10. /\ ev \in [Callers -> Events] /\ cursor \in [Subscribers -> 0..MaxEvents]
       /\ \A c \in Callers : pc[c] = "idle"
  OBVIOUS
<1>8. TypeOK
  BY <1>2, <1>7, <1>9, <1>10 DEF TypeOK
<1>3. AtWork
  BY DEF AtWork
<1>4. Applied \notin ToSet(<<>>) /\ Applied \notin ToSet(<<Planned>>)
  BY DEF ToSet
<1>5. ReceiptFirst
  BY <1>4 DEF ReceiptFirst
<1>6. Alone /\ CursorsAgree
  BY DEF Alone, CursorsAgree
<1> QED
  BY <1>3, <1>5, <1>6, <1>8 DEF IInv

\* Every step of every call and every stream keeps the invariant.
LEMMA NextIInv == IInv /\ [Next]_vars => IInv'
<1> SUFFICES ASSUME IInv, [Next]_vars PROVE IInv'
  OBVIOUS
<1> USE EventsAssumption, EventsTyped DEF IInv, save, calls, streams
<1>1. ASSUME NEW c \in Callers, Call(c) PROVE IInv'
  <2>1. TypeOK'
    BY <1>1, ZenonT(40) DEF Call, Record, Meets, TypeOK
  <2>2. AtWork'
    BY <1>1 DEF Call, Record, Meets, TypeOK, AtWork
  <2>3. ReceiptFirst'
    BY <1>1 DEF Call, Record, Meets, TypeOK, ReceiptFirst, AtWork
  <2>4. Alone'
    <3>1. pc' = [pc EXCEPT ![c] = "read"] /\ UNCHANGED <<base, log>>
      BY <1>1 DEF Call, Record
    <3>2. ~overlapped' => ~overlapped /\ \A d \in Callers \ {c} : pc[d] = "idle"
      BY <1>1 DEF Call, Meets
    <3> QED
      BY <3>1, <3>2 DEF Alone, TypeOK
  <2>5. CursorsAgree'
    BY <1>1 DEF Call, Record, Meets, TypeOK, CursorsAgree, AtWork, Alone
  <2> QED
    BY <2>1, <2>2, <2>3, <2>4, <2>5
<1>2. ASSUME NEW c \in Callers, Busy(c) PROVE IInv'
  <2>1. TypeOK'
    BY <1>2 DEF Busy, Record, Meets, Fault, TypeOK
  <2>2. AtWork'
    BY <1>2 DEF Busy, Record, Meets, Fault, TypeOK, AtWork
  <2>3. ReceiptFirst'
    BY <1>2 DEF Busy, Record, Meets, Fault, TypeOK, ReceiptFirst, AtWork
  <2>4. Alone'
    BY <1>2 DEF Busy, Record, Meets, Fault, TypeOK, Alone, AtWork
  <2>5. CursorsAgree'
    BY <1>2 DEF Busy, Record, Meets, Fault, TypeOK, CursorsAgree, AtWork, Alone
  <2> QED
    BY <2>1, <2>2, <2>3, <2>4, <2>5
<1>3. ASSUME NEW c \in Callers, Look(c) PROVE IInv'
  <2>1. TypeOK'
    BY <1>3 DEF Look, Known, TypeOK
  <2>2. AtWork'
    BY <1>3 DEF Look, Known, TypeOK, AtWork
  <2>3. ReceiptFirst'
    BY <1>3 DEF Look, Known, TypeOK, ReceiptFirst, AtWork
  <2>4. Alone'
    <3>1. \A d \in Callers : pc'[d] # "idle" <=> pc[d] # "idle"
      BY <1>3 DEF Look, TypeOK
    <3>2. ASSUME NEW d \in Callers, pc'[d] = "add" PROVE base'[d] = log \/ (base'[d] = base[d] /\ pc[d] = "add")
      <4>1. CASE d = c
        <5>1. pc'[c] = "add" /\ c \in DOMAIN base
          BY <3>2, <4>1 DEF TypeOK
        <5>2. base' = [base EXCEPT ![c] = log] \/ pc' = [pc EXCEPT ![c] = "recorded"]
                \/ pc' = [pc EXCEPT ![c] = "unrecorded"]
          BY <1>3, Zenon DEF Look
        <5> QED
          BY <4>1, <5>1, <5>2 DEF TypeOK
      <4>2. CASE d # c
        BY <1>3, <3>2, <4>2 DEF Look, TypeOK
      <4> QED
        BY <4>1, <4>2
    <3> QED
      BY <1>3, <3>1, <3>2 DEF Look, Alone
  <2>5. CursorsAgree'
    BY <1>3 DEF Look, Known, TypeOK, CursorsAgree, AtWork, Alone
  <2> QED
    BY <2>1, <2>2, <2>3, <2>4, <2>5
<1>4. ASSUME NEW c \in Callers, Add(c) PROVE IInv'
  <2>1. TypeOK'
    <3>1. base[c] \in Seq(Events) /\ ev[c] \in Events /\ Len(base[c]) < MaxEvents
      BY <1>4 DEF Add, TypeOK, AtWork
    <3>2. log' \in Seq(Events) /\ Len(log') <= MaxEvents
      BY <1>4, <3>1 DEF Add, TypeOK
    <3>3. base' \in [Callers -> Seq(Events)]
      <4>1. <<>> \in Seq(Events)
        OBVIOUS
      <4> QED
        BY <1>4, <4>1 DEF Add, TypeOK
    <3>4. pc' \in [Callers -> {"idle", "read", "add", "recorded", "unrecorded", "preflight", "write"}]
      BY <1>4 DEF Add, TypeOK
    <3>5. \A d \in Callers : d # holder /\ pc'[d] # "idle" => ev[d] = Failed
      BY <1>4 DEF Add, TypeOK
    <3> QED
      BY <1>4, <3>2, <3>3, <3>4, <3>5 DEF Add, TypeOK
  <2>2. AtWork'
    BY <1>4 DEF Add, TypeOK, AtWork
  <2>3. ReceiptFirst'
    <3> SUFFICES ASSUME ~receipt PROVE Applied \notin ToSet(log') /\ \A d \in Callers : Applied \notin ToSet(base'[d])
      BY <1>4 DEF Add, ReceiptFirst
    <3>1. base[c] \in Seq(Events) /\ ev[c] \in Events /\ Applied \notin ToSet(base[c]) /\ ev[c] # Applied
      BY DEF TypeOK, ReceiptFirst
    <3>2. Applied \notin ToSet(log')
      BY <1>4, <3>1, NotInAppended DEF Add
    <3>3. Applied \notin ToSet(<<>>)
      BY DEF ToSet
    <3> QED
      BY <1>4, <3>2, <3>3 DEF Add, TypeOK, ReceiptFirst
  <2>4. Alone'
    BY <1>4 DEF Add, TypeOK, Alone, AtWork
  <2>5. CursorsAgree'
    BY <1>4 DEF Add, TypeOK, CursorsAgree, AtWork, Alone
  <2> QED
    BY <2>1, <2>2, <2>3, <2>4, <2>5
<1>5. ASSUME NEW c \in Callers, Recover(c) PROVE IInv'
  <2>1. TypeOK'
    BY <1>5 DEF Recover, Record, TypeOK
  <2>2. AtWork'
    BY <1>5 DEF Recover, Record, TypeOK, AtWork
  <2>3. ReceiptFirst'
    BY <1>5 DEF Recover, Record, TypeOK, ReceiptFirst, AtWork
  <2>4. Alone'
    BY <1>5 DEF Recover, Record, TypeOK, Alone, AtWork
  <2>5. CursorsAgree'
    BY <1>5 DEF Recover, Record, TypeOK, CursorsAgree, AtWork, Alone
  <2> QED
    BY <2>1, <2>2, <2>3, <2>4, <2>5
<1>6. ASSUME NEW c \in Callers, Restored(c) PROVE IInv'
  <2>1. TypeOK'
    BY <1>6 DEF Restored, TypeOK
  <2>2. AtWork'
    BY <1>6 DEF Restored, TypeOK, AtWork
  <2>3. ReceiptFirst'
    BY <1>6 DEF Restored, TypeOK, ReceiptFirst, AtWork
  <2>4. Alone'
    BY <1>6 DEF Restored, TypeOK, Alone, AtWork
  <2>5. CursorsAgree'
    BY <1>6 DEF Restored, TypeOK, CursorsAgree, AtWork, Alone
  <2> QED
    BY <2>1, <2>2, <2>3, <2>4, <2>5
<1>7. ASSUME NEW c \in Callers, OpenJournal(c) PROVE IInv'
  <2>1. TypeOK'
    BY <1>7 DEF OpenJournal, InPreflight, TypeOK
  <2>2. AtWork'
    BY <1>7 DEF OpenJournal, InPreflight, TypeOK, AtWork
  <2>3. ReceiptFirst'
    BY <1>7 DEF OpenJournal, InPreflight, TypeOK, ReceiptFirst, AtWork
  <2>4. Alone'
    BY <1>7 DEF OpenJournal, InPreflight, TypeOK, Alone, AtWork
  <2>5. CursorsAgree'
    BY <1>7 DEF OpenJournal, InPreflight, TypeOK, CursorsAgree, AtWork, Alone
  <2> QED
    BY <2>1, <2>2, <2>3, <2>4, <2>5
<1>8. ASSUME NEW c \in Callers, WriteOne(c) PROVE IInv'
  <2>1. TypeOK'
    <3>1. c = holder /\ done' \in 1..Total
      BY <1>8 DEF WriteOne, TypeOK, AtWork
    <3>2. /\ pc' \in [Callers -> {"idle", "read", "add", "recorded", "unrecorded", "preflight", "write"}]
          /\ ev' \in [Callers -> Events]
          /\ \A d \in Callers \ {c} : pc'[d] = pc[d] /\ ev'[d] = ev[d]
      <4>1. Event("progress", done') \in Events
        BY <3>1
      <4>2. CASE Record(c, Event("progress", done'))
        BY <4>1, <4>2 DEF Record, TypeOK
      <4>3. CASE UNCHANGED <<pc, ev>>
        BY <4>3 DEF TypeOK
      <4> QED
        BY <1>8, <4>2, <4>3 DEF WriteOne
    <3> QED
      BY <1>8, <3>1, <3>2 DEF WriteOne, TypeOK
  <2>2. AtWork'
    BY <1>8 DEF WriteOne, Record, TypeOK, AtWork
  <2>3. ReceiptFirst'
    BY <1>8 DEF WriteOne, Record, TypeOK, ReceiptFirst, AtWork
  <2>4. Alone'
    <3>1. \A d \in Callers : (pc'[d] # "idle" => pc[d] # "idle") /\ (pc'[d] = "add" => pc[d] = "add")
      <4>1. CASE Record(c, Event("progress", done'))
        BY <1>8, <4>1 DEF WriteOne, Record, TypeOK
      <4>2. CASE UNCHANGED <<pc, ev>>
        BY <4>2
      <4> QED
        BY <1>8, <4>1, <4>2 DEF WriteOne
    <3>2. UNCHANGED <<log, base, overlapped>>
      BY <1>8 DEF WriteOne
    <3> QED
      BY <3>1, <3>2 DEF Alone
  <2>5. CursorsAgree'
    BY <1>8 DEF WriteOne, Record, TypeOK, CursorsAgree, AtWork, Alone
  <2> QED
    BY <2>1, <2>2, <2>3, <2>4, <2>5
<1>9. ASSUME NEW c \in Callers, ProgressRecorded(c) PROVE IInv'
  <2>1. TypeOK'
    BY <1>9 DEF ProgressRecorded, TypeOK
  <2>2. AtWork'
    BY <1>9 DEF ProgressRecorded, TypeOK, AtWork
  <2>3. ReceiptFirst'
    BY <1>9 DEF ProgressRecorded, TypeOK, ReceiptFirst, AtWork
  <2>4. Alone'
    BY <1>9 DEF ProgressRecorded, TypeOK, Alone, AtWork
  <2>5. CursorsAgree'
    BY <1>9 DEF ProgressRecorded, TypeOK, CursorsAgree, AtWork, Alone
  <2> QED
    BY <2>1, <2>2, <2>3, <2>4, <2>5
<1>10. ASSUME NEW c \in Callers, Commit(c) PROVE IInv'
  <2>1. TypeOK'
    <3>1. c = holder
      BY <1>10 DEF Commit, AtWork
    <3> QED
      BY <1>10, <3>1 DEF Commit, Record, TypeOK
  <2>2. AtWork'
    BY <1>10 DEF Commit, Record, TypeOK, AtWork
  <2>3. ReceiptFirst'
    BY <1>10 DEF Commit, Record, TypeOK, ReceiptFirst, AtWork
  <2>4. Alone'
    BY <1>10 DEF Commit, Record, TypeOK, Alone, AtWork
  <2>5. CursorsAgree'
    BY <1>10 DEF Commit, Record, TypeOK, CursorsAgree, AtWork, Alone
  <2> QED
    BY <2>1, <2>2, <2>3, <2>4, <2>5
<1>11. ASSUME NEW c \in Callers, Finish(c) PROVE IInv'
  <2>1. TypeOK'
    <3>1. c = holder
      BY <1>11 DEF Finish, TypeOK
    <3> QED
      <4>1. /\ pc' = [pc EXCEPT ![c] = "idle"] /\ ev' = [ev EXCEPT ![c] = Failed]
            /\ holder' = NoCaller /\ journal' = FALSE /\ done' = 0
            /\ UNCHANGED <<log, receipt, base, overlapped, streams, faults>>
        BY <1>11 DEF Finish, Leave
      <4>4. done' \in 0..Total /\ holder' \in Callers \cup {NoCaller}
        BY <4>1
      <4>5. journal' \in BOOLEAN
        BY <4>1, Zenon
      <4>2. \A d \in Callers : pc'[d] # "idle" => ev'[d] = Failed
        BY <3>1, <4>1 DEF TypeOK
      <4>3. /\ pc' \in [Callers -> {"idle", "read", "add", "recorded", "unrecorded", "preflight", "write"}]
            /\ ev' \in [Callers -> Events]
        BY <4>1 DEF TypeOK
      <4> QED
        BY <4>1, <4>2, <4>3, <4>4, <4>5 DEF TypeOK
  <2>2. AtWork'
    BY <1>11 DEF Finish, Leave, TypeOK, AtWork
  <2>3. ReceiptFirst'
    BY <1>11 DEF Finish, Leave, TypeOK, ReceiptFirst, AtWork
  <2>4. Alone'
    BY <1>11 DEF Finish, Leave, TypeOK, Alone, AtWork
  <2>5. CursorsAgree'
    BY <1>11 DEF Finish, Leave, TypeOK, CursorsAgree, AtWork, Alone
  <2> QED
    BY <2>1, <2>2, <2>3, <2>4, <2>5
<1>12. ASSUME NEW c \in Callers, Unrecorded(c) PROVE IInv'
  <2>1. TypeOK'
    BY <1>12 DEF Unrecorded, Fail, Record, TypeOK
  <2>2. AtWork'
    BY <1>12 DEF Unrecorded, Fail, Record, TypeOK, AtWork
  <2>3. ReceiptFirst'
    BY <1>12 DEF Unrecorded, Fail, Record, TypeOK, ReceiptFirst, AtWork
  <2>4. Alone'
    BY <1>12 DEF Unrecorded, Fail, Record, TypeOK, Alone, AtWork
  <2>5. CursorsAgree'
    BY <1>12 DEF Unrecorded, Fail, Record, TypeOK, CursorsAgree, AtWork, Alone
  <2> QED
    BY <2>1, <2>2, <2>3, <2>4, <2>5
<1>13. ASSUME NEW c \in Callers, ReturnError(c) PROVE IInv'
  <2>1. TypeOK'
    BY <1>13 DEF ReturnError, Leave, TypeOK
  <2>2. AtWork'
    BY <1>13 DEF ReturnError, Leave, TypeOK, AtWork
  <2>3. ReceiptFirst'
    BY <1>13 DEF ReturnError, Leave, TypeOK, ReceiptFirst, AtWork
  <2>4. Alone'
    BY <1>13 DEF ReturnError, Leave, TypeOK, Alone, AtWork
  <2>5. CursorsAgree'
    BY <1>13 DEF ReturnError, Leave, TypeOK, CursorsAgree, AtWork, Alone
  <2> QED
    BY <2>1, <2>2, <2>3, <2>4, <2>5
<1>14. ASSUME NEW c \in Callers, ApplyFails(c) PROVE IInv'
  <2>1. TypeOK'
    <3>1. /\ holder' = NoCaller /\ faults' \in 0..MaxFaults /\ done' = 0 /\ journal' \in BOOLEAN
          /\ pc' = [pc EXCEPT ![c] = "read"] /\ ev' = [ev EXCEPT ![c] = Failed]
          /\ UNCHANGED <<log, receipt, base, overlapped, streams>>
      <4>1. journal' \in BOOLEAN /\ Fault /\ Fail(c)
        BY <1>14 DEF ApplyFails, TypeOK
      <4> QED
        BY <4>1 DEF Fault, Fail, Record, TypeOK
    <3>2. \A d \in Callers : d # holder' /\ pc'[d] # "idle" => ev'[d] = Failed
      BY <1>14, <3>1 DEF ApplyFails, TypeOK
    <3>3. /\ pc' \in [Callers -> {"idle", "read", "add", "recorded", "unrecorded", "preflight", "write"}]
          /\ ev' \in [Callers -> Events]
      BY <3>1 DEF TypeOK
    <3> QED
      BY <3>1, <3>2, <3>3 DEF TypeOK
  <2>2. AtWork'
    BY <1>14 DEF ApplyFails, Fail, Record, Fault, TypeOK, AtWork
  <2>3. ReceiptFirst'
    BY <1>14 DEF ApplyFails, Fail, Record, Fault, TypeOK, ReceiptFirst, AtWork
  <2>4. Alone'
    BY <1>14 DEF ApplyFails, Fail, Record, Fault, TypeOK, Alone, AtWork
  <2>5. CursorsAgree'
    BY <1>14 DEF ApplyFails, Fail, Record, Fault, TypeOK, CursorsAgree, AtWork, Alone
  <2> QED
    BY <2>1, <2>2, <2>3, <2>4, <2>5
<1>15. ASSUME NEW c \in Callers, Crash(c) PROVE IInv'
  <2>1. TypeOK'
    BY <1>15 DEF Crash, Leave, Fault, TypeOK
  <2>2. AtWork'
    BY <1>15 DEF Crash, Leave, Fault, TypeOK, AtWork
  <2>3. ReceiptFirst'
    <3>1. Applied \notin ToSet(<<>>)
      BY DEF ToSet
    <3>2. ASSUME ~receipt, NEW d \in Callers PROVE ev'[d] # Applied /\ Applied \notin ToSet(base'[d])
      BY <1>15, <3>1, <3>2 DEF Crash, Leave, TypeOK, ReceiptFirst
    <3> QED
      BY <1>15, <3>2 DEF Crash, ReceiptFirst
  <2>4. Alone'
    BY <1>15 DEF Crash, Leave, Fault, TypeOK, Alone, AtWork
  <2>5. CursorsAgree'
    BY <1>15 DEF Crash, Leave, Fault, TypeOK, CursorsAgree, AtWork, Alone
  <2> QED
    BY <2>1, <2>2, <2>3, <2>4, <2>5
<1>16. ASSUME NEW s \in Subscribers, Serve(s) PROVE IInv'
  <2>1. TypeOK'
    <3>1. PICK n \in 0..Len(Reported) : SendUpTo(s, n)
      BY <1>16, ReportTyped DEF Serve, TypeOK
    <3>2. Unseen(s, n) \in Seq(Events)
      BY <3>1, ReportTyped DEF Unseen, TypeOK
    <3>3. got' \in [Subscribers -> Seq(Events)]
      <4>1. got[s] \o Unseen(s, n) \in Seq(Events)
        BY <3>2 DEF TypeOK
      <4> QED
        BY <3>1, <4>1 DEF SendUpTo, TypeOK
    <3>4. cursor' \in [Subscribers -> 0..MaxEvents]
      BY <3>1, ReportTyped DEF SendUpTo, Longer, TypeOK
    <3>5. status' \in [Subscribers -> {"off", "live", "closed", "rejected"}] /\ faults' \in 0..MaxFaults
      BY <1>16 DEF Serve, Fault, TypeOK
    <3> QED
      BY <3>1, <3>3, <3>4, <3>5 DEF SendUpTo, TypeOK
  <2>2. AtWork'
    BY <1>16 DEF Serve, SendUpTo, TypeOK, AtWork
  <2>3. ReceiptFirst'
    <3>1. PICK n \in 0..Len(Reported) : SendUpTo(s, n)
      BY <1>16, ReportTyped DEF Serve, TypeOK
    <3>2. ASSUME ~receipt PROVE Applied \notin ToSet(got[s] \o Unseen(s, n))
      <4>1. Applied \notin ToSet(Reported)
        BY <3>2 DEF ReceiptFirst, Reported, ToSet
      <4>2. cursor[s] + 1 \in Nat \ {0} /\ got[s] \in Seq(Events)
        BY DEF TypeOK
      <4> QED
        BY <3>2, <4>1, <4>2, ReportTyped, NotInServed DEF Unseen, ReceiptFirst
    <3> QED
      BY <3>1, <3>2 DEF SendUpTo, ReceiptFirst, TypeOK
  <2>4. Alone'
    BY <1>16 DEF Serve, SendUpTo, TypeOK, Alone, AtWork
  <2>5. CursorsAgree'
    <3> SUFFICES ASSUME ~overlapped, log # <<>>, log[1] = Planned
        PROVE  CursorsAgree'
      <4>1. UNCHANGED <<log, overlapped>>
        BY <1>16 DEF Serve, SendUpTo
      <4> QED
        BY <4>1 DEF CursorsAgree
    <3>1. /\ Reported = log /\ log \in Seq(Events)
          /\ cursor[s] \in Nat /\ cursor[s] <= Len(log) /\ got[s] = SubSeq(log, 1, cursor[s])
      BY DEF Reported, CursorsAgree, TypeOK
    <3>2. PICK n \in Nat : cursor[s] <= n /\ n <= Len(log) /\ SendUpTo(s, n)
      BY <1>16, <3>1 DEF Serve, TypeOK
    <3>3. got'[s] = SubSeq(log, 1, n) /\ cursor'[s] = n
      <4>1. got'[s] = SubSeq(log, 1, cursor[s]) \o SubSeq(log, cursor[s] + 1, n)
        BY <3>1, <3>2 DEF SendUpTo, Unseen, TypeOK
      <4>2. SubSeq(log, 1, cursor[s]) \o SubSeq(log, cursor[s] + 1, n) = SubSeq(log, 1, n)
        <5>1. /\ log \in Seq(Events) /\ cursor[s] \in Nat /\ n \in Nat
              /\ cursor[s] <= n /\ n <= Len(log)
          BY <3>1, <3>2
        <5> QED
          BY <5>1, PartsJoin, Zenon
      <4>3. cursor'[s] = n
        BY <3>1, <3>2 DEF SendUpTo, Longer, TypeOK
      <4> QED
        BY <4>1, <4>2, <4>3
    <3>4. status'[s] # "rejected"
      BY <1>16 DEF Serve, TypeOK
    <3>5. \A t \in Subscribers \ {s} : status'[t] = status[t] /\ cursor'[t] = cursor[t] /\ got'[t] = got[t]
      BY <1>16, <3>2 DEF Serve, SendUpTo, TypeOK
    <3> QED
      BY <3>2, <3>3, <3>4, <3>5 DEF SendUpTo, CursorsAgree
  <2> QED
    BY <2>1, <2>2, <2>3, <2>4, <2>5
<1>17. ASSUME NEW s \in Subscribers, Reject(s) PROVE IInv'
  <2>1. TypeOK'
    BY <1>17 DEF Reject, TypeOK
  <2>2. AtWork'
    BY <1>17 DEF Reject, TypeOK, AtWork
  <2>3. ReceiptFirst'
    BY <1>17 DEF Reject, TypeOK, ReceiptFirst, AtWork
  <2>4. Alone'
    BY <1>17 DEF Reject, TypeOK, Alone, AtWork
  <2>5. CursorsAgree'
    <3>1. ~(~overlapped /\ log # <<>> /\ log[1] = Planned)
      BY <1>17 DEF Reject, CursorsAgree, Reported, TypeOK
    <3> QED
      BY <1>17, <3>1 DEF Reject, CursorsAgree
  <2> QED
    BY <2>1, <2>2, <2>3, <2>4, <2>5
<1>18. ASSUME NEW s \in Subscribers, Drop(s) PROVE IInv'
  <2>1. TypeOK'
    <3>1. PICK n \in 0..Len(Reported) : SendUpTo(s, n)
      BY <1>18, ReportTyped DEF Drop, TypeOK
    <3>2. Unseen(s, n) \in Seq(Events)
      BY <3>1, ReportTyped DEF Unseen, TypeOK
    <3>3. got' \in [Subscribers -> Seq(Events)]
      <4>1. got[s] \o Unseen(s, n) \in Seq(Events)
        BY <3>2 DEF TypeOK
      <4> QED
        BY <3>1, <4>1 DEF SendUpTo, TypeOK
    <3>4. cursor' \in [Subscribers -> 0..MaxEvents]
      BY <3>1, ReportTyped DEF SendUpTo, Longer, TypeOK
    <3>5. status' \in [Subscribers -> {"off", "live", "closed", "rejected"}] /\ faults' \in 0..MaxFaults
      BY <1>18 DEF Drop, Fault, TypeOK
    <3> QED
      BY <3>1, <3>3, <3>4, <3>5 DEF SendUpTo, TypeOK
  <2>2. AtWork'
    BY <1>18 DEF Drop, SendUpTo, Fault, TypeOK, AtWork
  <2>3. ReceiptFirst'
    <3>1. PICK n \in 0..Len(Reported) : SendUpTo(s, n)
      BY <1>18, ReportTyped DEF Drop, TypeOK
    <3>2. ASSUME ~receipt PROVE Applied \notin ToSet(got[s] \o Unseen(s, n))
      <4>1. Applied \notin ToSet(Reported)
        BY <3>2 DEF ReceiptFirst, Reported, ToSet
      <4>2. cursor[s] + 1 \in Nat \ {0} /\ got[s] \in Seq(Events)
        BY DEF TypeOK
      <4> QED
        BY <3>2, <4>1, <4>2, ReportTyped, NotInServed DEF Unseen, ReceiptFirst
    <3> QED
      BY <3>1, <3>2 DEF SendUpTo, ReceiptFirst, TypeOK
  <2>4. Alone'
    BY <1>18 DEF Drop, SendUpTo, Fault, TypeOK, Alone, AtWork
  <2>5. CursorsAgree'
    <3> SUFFICES ASSUME ~overlapped, log # <<>>, log[1] = Planned
        PROVE  CursorsAgree'
      <4>1. UNCHANGED <<log, overlapped>>
        BY <1>18 DEF Drop, SendUpTo
      <4> QED
        BY <4>1 DEF CursorsAgree
    <3>1. /\ Reported = log /\ log \in Seq(Events)
          /\ cursor[s] \in Nat /\ cursor[s] <= Len(log) /\ got[s] = SubSeq(log, 1, cursor[s])
      BY DEF Reported, CursorsAgree, TypeOK
    <3>2. PICK n \in Nat : cursor[s] <= n /\ n <= Len(log) /\ SendUpTo(s, n)
      BY <1>18, <3>1 DEF Drop, TypeOK
    <3>3. got'[s] = SubSeq(log, 1, n) /\ cursor'[s] = n
      <4>1. got'[s] = SubSeq(log, 1, cursor[s]) \o SubSeq(log, cursor[s] + 1, n)
        BY <3>1, <3>2 DEF SendUpTo, Unseen, TypeOK
      <4>2. SubSeq(log, 1, cursor[s]) \o SubSeq(log, cursor[s] + 1, n) = SubSeq(log, 1, n)
        <5>1. /\ log \in Seq(Events) /\ cursor[s] \in Nat /\ n \in Nat
              /\ cursor[s] <= n /\ n <= Len(log)
          BY <3>1, <3>2
        <5> QED
          BY <5>1, PartsJoin, Zenon
      <4>3. cursor'[s] = n
        BY <3>1, <3>2 DEF SendUpTo, Longer, TypeOK
      <4> QED
        BY <4>1, <4>2, <4>3
    <3>4. status'[s] # "rejected"
      BY <1>18 DEF Drop, TypeOK
    <3>5. \A t \in Subscribers \ {s} : status'[t] = status[t] /\ cursor'[t] = cursor[t] /\ got'[t] = got[t]
      BY <1>18, <3>2 DEF Drop, SendUpTo, TypeOK
    <3> QED
      BY <3>2, <3>3, <3>4, <3>5 DEF SendUpTo, CursorsAgree
  <2> QED
    BY <2>1, <2>2, <2>3, <2>4, <2>5
<1>19. ASSUME NEW s \in Subscribers, Return(s) PROVE IInv'
  <2>1. TypeOK'
    BY <1>19 DEF Return, TypeOK
  <2>2. AtWork'
    BY <1>19 DEF Return, TypeOK, AtWork
  <2>3. ReceiptFirst'
    BY <1>19 DEF Return, TypeOK, ReceiptFirst, AtWork
  <2>4. Alone'
    BY <1>19 DEF Return, TypeOK, Alone, AtWork
  <2>5. CursorsAgree'
    BY <1>19 DEF Return, TypeOK, CursorsAgree, AtWork, Alone
  <2> QED
    BY <2>1, <2>2, <2>3, <2>4, <2>5
<1>20. CASE UNCHANGED vars
  <2>1. TypeOK'
    BY <1>20 DEF vars, TypeOK
  <2>2. AtWork'
    BY <1>20 DEF vars, TypeOK, AtWork
  <2>3. ReceiptFirst'
    BY <1>20 DEF vars, TypeOK, ReceiptFirst, AtWork
  <2>4. Alone'
    BY <1>20 DEF vars, TypeOK, Alone, AtWork
  <2>5. CursorsAgree'
    BY <1>20 DEF vars, TypeOK, CursorsAgree, AtWork, Alone
  <2> QED
    BY <2>1, <2>2, <2>3, <2>4, <2>5
<1> QED
  BY <1>1, <1>2, <1>3, <1>4, <1>5, <1>6, <1>7, <1>8, <1>9, <1>10, <1>11, <1>12, <1>13,
     <1>14, <1>15, <1>16, <1>17, <1>18, <1>19, <1>20 DEF Next, Goes

-----------------------------------------------------------------------------
(* Theorems                                                                *)

\* The inductive invariant holds in every reachable state.
THEOREM EventsInvariant == Spec => []IInv
<1> QED
  BY InitIInv, NextIInv, PTL DEF Spec

\* The log never outgrows its limit, no event is malformed, and a call without the lock
\* has nothing but `failed` to record.
THEOREM EventsTypeCorrect == Spec => []TypeOK
<1>1. IInv => TypeOK
  BY DEF IInv
<1> QED
  BY <1>1, EventsInvariant, PTL

\* `applied` reaches the log and the clients only after result.json is on disk.
THEOREM AppliedComesAfterReceipt == Spec => []AppliedHasReceipt
<1>1. IInv => AppliedHasReceipt
  BY DEF IInv, ReceiptFirst, AppliedHasReceipt
<1> QED
  BY <1>1, EventsInvariant, PTL

\* Only the step that replaces the file changes the log.
LEMMA OnlyAddChangesLog ==
  ASSUME [Next]_vars, log' # log
  PROVE  \E c \in Callers : Add(c)
BY DEF Next, Goes, vars, streams, Call, Busy, Look, Recover, Restored, OpenJournal, WriteOne,
       ProgressRecorded, Commit, Finish, Unrecorded, Fail, ReturnError, ApplyFails, Crash,
       Serve, SendUpTo, Reject, Drop, Return

\* Recording never loses an event while the applies of the operation do not overlap:
\* what record_event replaces the file by begins with what the file held.
THEOREM EventsAreDurable == Spec => DurableEventsStay
<1>1. IInv /\ [Next]_vars => [~overlapped' => IsPrefix(log, log')]_vars
  <2> SUFFICES ASSUME IInv, [Next]_vars, ~overlapped' PROVE IsPrefix(log, log')
    OBVIOUS
  <2>1. CASE log' = log
    BY <2>1 DEF IInv, TypeOK, IsPrefix
  <2>2. CASE log' # log
    <3>1. PICK c \in Callers : Add(c)
      BY <2>2, OnlyAddChangesLog
    <3>2. log' = Append(log, ev[c]) /\ log \in Seq(Events) /\ ev[c] \in Events
      BY <3>1 DEF Add, IInv, Alone, TypeOK
    <3>3. SubSeq(log', 1, Len(log)) = SubSeq(log, 1, Len(log))
      BY <3>2, AppendKeeps
    <3> QED
      BY <3>2, <3>3 DEF IsPrefix
  <2> QED
    BY <2>1, <2>2
<1> QED
  BY <1>1, EventsInvariant, PTL DEF Spec, DurableEventsStay

\* A retry of a completed operation records nothing: only a call that fails itself adds
\* to a log that ends with `applied`.
THEOREM CompletedLogsAreFinal == Spec => CompletedLogIsFinal
<1>1. IInv /\ [Next]_vars =>
        [~overlapped' /\ log # <<>> /\ log[Len(log)] = Applied /\ log' # log =>
           \E c \in Callers : ev[c] = Failed /\ pc[c] = "add"]_vars
  <2> SUFFICES ASSUME IInv, [Next]_vars, ~overlapped', log # <<>>, log[Len(log)] = Applied,
                      log' # log
      PROVE  \E c \in Callers : ev[c] = Failed /\ pc[c] = "add"
    OBVIOUS
  <2>1. PICK c \in Callers : Add(c)
    BY OnlyAddChangesLog
  <2>2. pc[c] = "add" /\ base[c] = log /\ ev[c] # Applied
    BY <2>1 DEF Add, IInv, Alone, AtWork
  <2>3. receipt
    <3>1. Len(log) \in DOMAIN log
      BY DEF IInv, TypeOK
    <3>2. Applied \in ToSet(log)
      BY <3>1 DEF ToSet
    <3> QED
      BY <3>2 DEF IInv, ReceiptFirst
  <2>4. ev[c] = Failed
    BY <2>2, <2>3 DEF IInv, AtWork
  <2> QED
    BY <2>2, <2>4
<1> QED
  BY <1>1, EventsInvariant, PTL DEF Spec, CompletedLogIsFinal

\* Over all its connections an SSE client receives the log in order, nothing twice and
\* nothing left out, and is never refused.
THEOREM StreamsShowTheLog == Spec => []ClientsSeeTheLog
<1>1. IInv => ClientsSeeTheLog
  <2> SUFFICES ASSUME IInv, ~overlapped, log # <<>>, log[1] = Planned, NEW s \in Subscribers
      PROVE  status[s] # "rejected" /\ IsPrefix(got[s], log)
    BY DEF ClientsSeeTheLog
  <2>1. /\ status[s] # "rejected" /\ cursor[s] <= Len(log) /\ cursor[s] \in Nat
        /\ got[s] = SubSeq(log, 1, cursor[s]) /\ log \in Seq(Events)
    BY DEF IInv, CursorsAgree, TypeOK
  <2>2. Len(got[s]) = cursor[s] /\ SubSeq(got[s], 1, cursor[s]) = SubSeq(log, 1, cursor[s])
    BY <2>1
  <2> QED
    BY <2>1, <2>2 DEF IsPrefix
<1> QED
  BY <1>1, EventsInvariant, PTL
=============================================================================
