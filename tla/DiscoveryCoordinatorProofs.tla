---------------------- MODULE DiscoveryCoordinatorProofs ----------------------
(***************************************************************************)
(* Theorems about the Discovery coordinator, for every value of its        *)
(* constants.  The lemmas of the first part say what the operators on the  *)
(* job table do to a row; every theorem is then an induction whose step    *)
(* has one case per action.                                                *)
(***************************************************************************)
EXTENDS DiscoveryCoordinator, TLAPS

Tables == [Keys -> Rows]

-------------------------------------------------------------------------------
(* The operators on the job table *)

\* A row of the table keeps its type when its status changes.
LEMMA MoveType ==
    ASSUME NEW tbl \in Tables, NEW S, NEW st \in Statuses
    PROVE  Move(tbl, S, st) \in Tables
  <1>1. ASSUME NEW row \in Rows
        PROVE  [row EXCEPT !.status = st] \in Rows
    BY <1>1, ZenonT(60) DEF Rows
  <1>2. \A k \in Keys : tbl[k] \in Rows
    BY DEF Tables
  <1>3. \A k \in Keys : [tbl[k] EXCEPT !.status = st] \in Rows
    <2> HIDE DEF Rows
    <2>1. QED
      BY <1>1, <1>2
  <1>4. QED
    BY <1>2, <1>3 DEF Move, Tables

\* Inserting a slot leaves every row alone, or fills the empty row of its key.
LEMMA InsertRow ==
    ASSUME NEW tbl \in Tables, NEW gen \in Nat, NEW at \in Nat, NEW version \in Nat,
           NEW k \in Keys
    PROVE  LET result == InsertPendingSlot(tbl, gen, at, version) IN
           \/ result[k] = tbl[k]
           \/ /\ k = <<gen, at>>
              /\ result[k] = NewRow("pending", gen, at, version)
              /\ tbl[k].status = "none"
  BY DEF InsertPendingSlot, Tables

LEMMA NewRowType ==
    ASSUME NEW status \in Statuses, NEW gen \in Nat, NEW at \in Nat, NEW version \in Nat
    PROVE  /\ NewRow(status, gen, at, version) \in Rows
           /\ NewRow(status, gen, at, version).status = status
           /\ NewRow(status, gen, at, version).gen = gen
           /\ NewRow(status, gen, at, version).version = version
           /\ NewRow(status, gen, at, version).attempts = 0
           /\ NewRow(status, gen, at, version).token = 0
  BY DEF NewRow, NoRow, Rows, Null

LEMMA InsertType ==
    ASSUME NEW tbl \in Tables, NEW gen \in Nat, NEW at \in Nat, NEW version \in Nat
    PROVE  InsertPendingSlot(tbl, gen, at, version) \in Tables
  <1>1. "pending" \in Statuses
    BY DEF Statuses, WaitingStatuses
  <1>2. NewRow("pending", gen, at, version) \in Rows
    BY <1>1, NewRowType
  <1>3. QED
    BY <1>2 DEF InsertPendingSlot, Tables

\* Closing a run touches its row only.
LEMMA CloseType ==
    ASSUME NEW tbl \in Tables, NEW k \in Keys, NEW st \in Statuses
    PROVE  /\ Close(tbl, k, st) \in Tables
           /\ Close(tbl, k, st)[k].status = st
           /\ Close(tbl, k, st)[k].token = 0
           /\ Close(tbl, k, st)[k].attempts = tbl[k].attempts
           /\ \A j \in Keys \ {k} : Close(tbl, k, st)[j] = tbl[j]
  <1> DEFINE row == [tbl[k] EXCEPT !.status = st, !.token = 0, !.lease = Null]
  <1>1. tbl[k] \in Rows
    BY DEF Tables
  <1>2. /\ row \in Rows
        /\ row.status = st
        /\ row.token = 0
        /\ row.attempts = tbl[k].attempts
    BY <1>1 DEF Rows
  <1>3. Close(tbl, k, st) = [tbl EXCEPT ![k] = row]
    BY DEF Close
  <1>4. QED
    BY <1>2, <1>3 DEF Tables

LEMMA PromotedRowType ==
    ASSUME NEW row \in Rows, NEW at \in Nat, NEW version \in Nat
    PROVE  [row EXCEPT !.status = "pending", !.runAt = at, !.version = version] \in Rows
  <1>1. "pending" \in Statuses
    BY DEF Statuses, WaitingStatuses
  <1>2. QED
    BY <1>1 DEF Rows

\* The promotion changes nothing, or there was no active run and one deferred
\* run became pending while every pending run was cancelled.
Promotion(tbl, result, d) ==
    /\ d \in Keys
    /\ tbl[d].status = "deferred"
    /\ InStatus(tbl, ActiveStatuses) = {}
    /\ result[d] = [tbl[d] EXCEPT !.status = "pending", !.runAt = now,
                                  !.version = programme.published]
    /\ \A k \in Keys \ {d} :
          result[k] = IF tbl[k].status = "pending"
                      THEN [tbl[k] EXCEPT !.status = "cancelled"]
                      ELSE tbl[k]

LEMMA PromoteRows ==
    ASSUME NEW tbl \in Tables, now \in Nat, programme.published \in Nat
    PROVE  /\ PromoteDeferred(tbl) \in Tables
           /\ \/ PromoteDeferred(tbl) = tbl
              \/ \E d \in Keys : Promotion(tbl, PromoteDeferred(tbl), d)
  <1> DEFINE deferred == InStatus(tbl, {"deferred"})
             moved == Move(tbl, {"pending"}, "cancelled")
             d == CHOOSE k \in deferred : TRUE
  <1>1. CASE InStatus(tbl, ActiveStatuses) # {} \/ deferred = {}
    <2>1. PromoteDeferred(tbl) = tbl
      BY <1>1 DEF PromoteDeferred
    <2>2. QED
      BY <2>1
  <1>2. CASE ~ (InStatus(tbl, ActiveStatuses) # {} \/ deferred = {})
    <2>1. d \in deferred
      BY <1>2
    <2>2. d \in Keys /\ tbl[d].status = "deferred"
      BY <2>1 DEF InStatus
    <2>3. moved \in Tables
      BY MoveType DEF Statuses, TerminalStatuses
    <2>4. moved[d] = tbl[d]
      BY <2>2 DEF Move
    <2>5. PromoteDeferred(tbl) =
            [moved EXCEPT ![d] = [@ EXCEPT !.status = "pending", !.runAt = now,
                                           !.version = programme.published]]
      BY <1>2 DEF PromoteDeferred
    <2>6. PromoteDeferred(tbl)[d] = [tbl[d] EXCEPT !.status = "pending", !.runAt = now,
                                                   !.version = programme.published]
      BY <2>2, <2>3, <2>4, <2>5 DEF Tables
    <2>7. \A k \in Keys \ {d} :
            PromoteDeferred(tbl)[k] = IF tbl[k].status = "pending"
                                      THEN [tbl[k] EXCEPT !.status = "cancelled"]
                                      ELSE tbl[k]
      BY <2>2, <2>5 DEF Move
    <2>8. PromoteDeferred(tbl) \in Tables
      <3>1. tbl[d] \in Rows
        BY <2>2 DEF Tables
      <3> HIDE DEF d
      <3>2. [tbl[d] EXCEPT !.status = "pending", !.runAt = now,
                           !.version = programme.published] \in Rows
        BY <3>1, PromotedRowType
      <3>3. PromoteDeferred(tbl)[d] \in Rows
        BY <2>6, <3>2
      <3>4. QED
        BY <2>2, <2>3, <2>5, <2>6, <3>3 DEF Tables
    <2>9. QED
      BY <1>2, <2>2, <2>6, <2>7, <2>8 DEF Promotion
  <1>3. QED
    BY <1>1, <1>2

LEMMA NextSlotType ==
    ASSUME NEW t \in Nat
    PROVE  NextSlot(t) \in Nat
  <1>1. Interval \in Nat \ {0}
    BY ConstantsAssumption
  <1>2. t \div Interval \in Nat
    BY <1>1
  <1>3. QED
    BY <1>1, <1>2 DEF NextSlot

LEMMA StatusValues ==
    /\ {"none", "pending", "deferred", "running", "cancel_requested"} \subseteq Statuses
    /\ {"completed", "partial", "failed", "cancelled", "coalesced"} \subseteq Statuses
    /\ CompletionStatuses \subseteq Statuses
  BY ConstantsAssumption
     DEF Statuses, WaitingStatuses, ActiveStatuses, TerminalStatuses

-------------------------------------------------------------------------------
(* Type correctness *)

LEMMA TypeInit == Init => TypeOK
  <1> SUFFICES ASSUME Init PROVE TypeOK
    OBVIOUS
  <1>1. NoRow \in Rows
    BY StatusValues DEF NoRow, Rows
  <1>2. job \in [Keys -> Rows]
    BY <1>1 DEF Init
  <1>3. now \in 0 .. MaxTime /\ faults \in 0 .. MaxFaults
    BY ConstantsAssumption DEF Init
  <1>4. programme \in [state : {"draft", "active", "paused"}, gen : 0 .. MaxGen,
                       published : Nat, nextDueAt : Nat \cup {Null}]
    BY ConstantsAssumption DEF Init
  <1>5. QED
    BY <1>2, <1>3, <1>4 DEF Init, TypeOK

\* What the typing of a state says of the parts the actions use.
LEMMA Typing ==
    ASSUME TypeOK
    PROVE  /\ job \in Tables
           /\ now \in Nat
           /\ programme.gen \in Nat
           /\ programme.published \in Nat
           /\ \A k \in Keys : job[k] \in Rows
  BY ConstantsAssumption DEF TypeOK, Tables

LEMMA TypeOperator == TypeOK /\ Command => TypeOK'
  <1> SUFFICES ASSUME TypeOK, Command PROVE TypeOK'
    OBVIOUS
  <1> USE Typing
  <1>1. ASSUME NEW edited \in BOOLEAN, Publish(edited) PROVE TypeOK'
    <2> DEFINE gen == programme.gen + 1
               version == IF edited THEN programme.published + 1 ELSE programme.published
               next == NextSlot(now)
               cleared == Move(job, WaitingStatuses, "cancelled")
    <2>1. next \in Nat /\ gen \in 0 .. MaxGen /\ gen \in Nat
      <3>1. next \in Nat
        BY NextSlotType
      <3>2. gen \in Nat /\ gen <= MaxGen
        BY <1>1, ConstantsAssumption DEF Publish
      <3>3. QED
        BY <3>1, <3>2, ConstantsAssumption
    <2>2. cleared \in Tables
      BY MoveType, StatusValues
    <2>3. job' = InsertPendingSlot(cleared, gen, next, version)
      BY <1>1 DEF Publish
    <2>4. job' \in Tables
      <3>1. version \in Nat
        OBVIOUS
      <3> HIDE DEF gen, next, cleared, version
      <3>2. QED
        BY <2>1, <2>2, <2>3, <3>1, InsertType
    <2>5. programme' = [state |-> "active", gen |-> gen,
                        published |-> version, nextDueAt |-> next]
      BY <1>1 DEF Publish
    <2>6. programme' \in [state : {"draft", "active", "paused"}, gen : 0 .. MaxGen,
                          published : Nat, nextDueAt : Nat \cup {Null}]
      <3>1. version \in Nat
        OBVIOUS
      <3> HIDE DEF version
      <3>2. QED
        BY <2>1, <2>5, <3>1
    <2>7. QED
      BY <1>1, <2>4, <2>6 DEF Publish, TypeOK, Tables
  <1>2. CASE Pause
    <2>1. Move(job, WaitingStatuses, "cancelled") \in Tables
      BY MoveType, StatusValues
    <2>2. job' \in Tables
      BY <1>2, <2>1, MoveType, StatusValues DEF Pause
    <2>3. programme.gen + 1 \in 0 .. MaxGen
      BY <1>2, ConstantsAssumption DEF Pause, TypeOK
    <2>4. programme' \in [state : {"draft", "active", "paused"}, gen : 0 .. MaxGen,
                          published : Nat, nextDueAt : Nat \cup {Null}]
      BY <1>2, <2>3 DEF Pause, TypeOK
    <2>5. QED
      BY <1>2, <2>2, <2>4 DEF Pause, TypeOK, Tables
  <1>3. CASE \E r \in Requests, overlap \in Overlaps : RequestRun(r, overlap)
    <2>1. PICK r \in Requests, overlap \in Overlaps : RequestRun(r, overlap)
      BY <1>3
    <2>2. r \in Keys
      BY DEF Keys
    <2>3. job' \in Tables
      <3>1. CASE RequestDeferred(r, overlap)
        <4> DEFINE stopped == IF overlap = "cancel_and_restart"
                              THEN Move(job, {"running"}, "cancel_requested")
                              ELSE job
        <4>1. stopped \in Tables
          BY MoveType, StatusValues
        <4>2. NewRow("deferred", programme.gen, now, 0) \in Rows
          BY NewRowType, StatusValues
        <4>3. QED
          BY <3>1, <4>1, <4>2 DEF RequestDeferred, Tables
      <3>2. CASE RequestPending(r)
        <4>1. Move(job, {"pending"}, "cancelled") \in Tables
          BY MoveType, StatusValues
        <4>2. NewRow("pending", programme.gen, now, programme.published) \in Rows
          BY NewRowType, StatusValues
        <4>3. QED
          BY <3>2, <4>1, <4>2 DEF RequestPending, Tables
      <3>3. QED
        BY <2>1, <3>1, <3>2 DEF RequestRun
    <2>4. QED
      BY <2>1, <2>3 DEF RequestRun, TypeOK, Tables
  <1>4. CASE \E k \in Keys : CancelRun(k)
    <2>1. PICK k \in Keys : CancelRun(k)
      BY <1>4
    <2>2. \A st \in Statuses : [job EXCEPT ![k].status = st] \in Tables
      BY DEF Tables, Rows
    <2>3. job' \in Tables
      BY <2>1, <2>2, PromoteRows, StatusValues DEF CancelRun
    <2>4. QED
      BY <2>1, <2>3 DEF CancelRun, TypeOK, Tables
  <1>5. QED
    BY <1>1, <1>2, <1>3, <1>4 DEF Command

\* The rows the remaining actions write.
LEMMA DispatchRowType ==
    ASSUME NEW row \in Rows, NEW state \in {"dispatching", "dispatched", "repair_needed"},
           NEW attempt \in Nat, NEW lease \in Nat \cup {Null}, NEW sent \in Nat
    PROVE  /\ [row EXCEPT !.dispatch = state, !.sent = sent,
                          !.dispatchToken = attempt, !.dispatchLease = lease] \in Rows
           /\ [row EXCEPT !.dispatch = state, !.dispatchToken = attempt,
                          !.dispatchLease = lease] \in Rows
           /\ [row EXCEPT !.dispatch = state, !.dispatchLease = lease,
                          !.dispatchToken = attempt] \in Rows
  <1>1. [row EXCEPT !.dispatch = state, !.sent = sent,
                    !.dispatchToken = attempt, !.dispatchLease = lease] \in Rows
    BY ZenonT(60) DEF Rows
  <1>2. [row EXCEPT !.dispatch = state, !.dispatchToken = attempt,
                    !.dispatchLease = lease] \in Rows
    BY ZenonT(60) DEF Rows
  <1>3. [row EXCEPT !.dispatch = state, !.dispatchLease = lease,
                    !.dispatchToken = attempt] \in Rows
    BY ZenonT(60) DEF Rows
  <1>4. QED
    BY <1>1, <1>2, <1>3

LEMMA TypeDispatch == TypeOK /\ Dispatch => TypeOK'
  <1> SUFFICES ASSUME TypeOK, Dispatch PROVE TypeOK'
    OBVIOUS
  <1> USE Typing
  <1>1. CASE \E k \in Keys : PrepareDispatch(k)
    <2>1. PICK k \in Keys : PrepareDispatch(k)
      BY <1>1
    <2> DEFINE attempt == job[k].sent + 1
    <2>2. /\ job[k] \in Rows /\ attempt \in Nat
          /\ job[k].gen \in Nat /\ job[k].runAt \in Nat
          /\ now + DispatchLease \in Nat
      BY ConstantsAssumption DEF Rows
    <2>3. [job[k] EXCEPT !.dispatch = "dispatching", !.sent = attempt,
                         !.dispatchToken = attempt,
                         !.dispatchLease = now + DispatchLease] \in Rows
      <3> HIDE DEF attempt
      <3>1. QED
        BY <2>2, DispatchRowType
    <2>4. job' \in Tables
      BY <2>1, <2>3 DEF PrepareDispatch, Tables
    <2>5. sends' \in SUBSET Sends
      <3> DEFINE send == [key |-> k, attempt |-> attempt, gen |-> job[k].gen,
                          runAt |-> job[k].runAt, delivered |-> FALSE]
      <3>1. sends' = sends \cup {send}
        BY <2>1 DEF PrepareDispatch
      <3>2. send \in Sends
        <4> HIDE DEF attempt
        <4>1. QED
          BY <2>2 DEF Sends
      <3>3. QED
        BY <3>1, <3>2 DEF TypeOK
    <2>6. QED
      BY <2>1, <2>4, <2>5 DEF PrepareDispatch, TypeOK, Tables
  <1>2. CASE \E s \in sends : SendWake(s)
    <2>1. PICK s \in sends : SendWake(s)
      BY <1>2
    <2>2. s \in Sends
      BY DEF TypeOK
    <2>3. [s EXCEPT !.delivered = TRUE] \in Sends
      BY <2>2 DEF Sends
    <2>4. [key |-> s.key, gen |-> s.gen, runAt |-> s.runAt,
           attempt |-> s.attempt, phase |-> "queued", token |-> 0] \in Wakes
      BY <2>2 DEF Sends, Wakes
    <2>5. QED
      BY <2>1, <2>3, <2>4 DEF SendWake, TypeOK
  <1>3. CASE \E s \in sends : RecordDispatch(s)
    <2>1. PICK s \in sends : RecordDispatch(s)
      BY <1>3
    <2>2. s.key \in Keys
      BY DEF TypeOK, Sends
    <2>3. [job[s.key] EXCEPT !.dispatch = "dispatched", !.dispatchToken = 0,
                             !.dispatchLease = Null] \in Rows
      BY <2>2, DispatchRowType
    <2>4. Recorded(s, "dispatched") \in Tables
      BY <2>2, <2>3 DEF Recorded, Tables
    <2>5. QED
      BY <2>1, <2>4 DEF RecordDispatch, TypeOK, Tables
  <1>4. QED
    BY <1>1, <1>2, <1>3 DEF Dispatch

LEMMA TypeDispatchFault == TypeOK /\ DispatchFault => TypeOK'
  <1> SUFFICES ASSUME TypeOK, DispatchFault PROVE TypeOK'
    OBVIOUS
  <1> USE Typing
  <1>1. PICK s \in sends : RecordFailedSend(s) \/ CrashDispatcher(s)
    BY DEF DispatchFault
  <1>2. faults' \in 0 .. MaxFaults
    BY <1>1, ConstantsAssumption DEF RecordFailedSend, CrashDispatcher, TypeOK
  <1>3. s.key \in Keys
    BY DEF TypeOK, Sends
  <1>4. [job[s.key] EXCEPT !.dispatch = "repair_needed", !.dispatchToken = 0,
                           !.dispatchLease = Null] \in Rows
    BY <1>3, DispatchRowType
  <1>5. Recorded(s, "repair_needed") \in Tables
    BY <1>3, <1>4 DEF Recorded, Tables
  <1>6. job' \in Tables
    BY <1>1, <1>5 DEF RecordFailedSend, CrashDispatcher
  <1>7. QED
    BY <1>1, <1>2, <1>6 DEF RecordFailedSend, CrashDispatcher, TypeOK, Tables

LEMMA WakeEventType ==
    ASSUME NEW w \in Wakes, NEW token \in Nat
    PROVE  /\ Holding(w, token) \in Wakes
           /\ [w EXCEPT !.phase = "authorized"] \in Wakes
           /\ Requeued(w) \in Wakes
           /\ [key |-> w.key, token |-> w.token] \in [key : Keys, token : Nat]
           /\ w.key \in Keys
           /\ w.token \in Nat
  BY DEF Wakes, Holding, Requeued

\* Claiming and deferring k both insert the next slot into a typed table.
LEMMA TypeNextSlot ==
    ASSUME TypeOK, NEW k \in Keys, NEW tbl \in Tables, WithNextSlot(tbl, k)
    PROVE  /\ job' \in Tables
           /\ programme' \in [state : {"draft", "active", "paused"}, gen : 0 .. MaxGen,
                               published : Nat, nextDueAt : Nat \cup {Null}]
  <1> DEFINE after == IF now >= job[k].runAt THEN now ELSE job[k].runAt
             next == NextSlot(after)
  <1>1. after \in Nat
    BY Typing DEF Rows
  <1>2. next \in Nat
    <2> HIDE DEF after
    <2>1. QED
      BY <1>1, NextSlotType
  <1>3. /\ job' = InsertPendingSlot(tbl, programme.gen, next, programme.published)
        /\ programme' = [programme EXCEPT !.nextDueAt = next]
    BY DEF WithNextSlot
  <1>4. job' \in Tables
    <2> HIDE DEF next
    <2>1. QED
      BY <1>2, <1>3, InsertType, Typing
  <1>5. QED
    <2> HIDE DEF next
    <2>1. QED
      BY <1>2, <1>3, <1>4 DEF TypeOK

LEMMA ClaimRowType ==
    ASSUME NEW row \in Rows, NEW version \in Nat, NEW attempt \in Nat,
           NEW deadline \in Nat, NEW lease \in Nat
    PROVE  /\ [row EXCEPT !.status = "running", !.version = version,
                          !.attempts = attempt, !.token = attempt,
                          !.deadline = deadline, !.lease = lease,
                          !.authorized = FALSE, !.claimed = FALSE] \in Rows
           /\ [row EXCEPT !.status = "deferred", !.version = 0] \in Rows
           /\ [row EXCEPT !.status = "coalesced"] \in Rows
           /\ [row EXCEPT !.lease = lease] \in Rows
           /\ [row EXCEPT !.authorized = TRUE] \in Rows
           /\ [row EXCEPT !.deadline = Null] \in Rows
  <1>1. [row EXCEPT !.status = "running", !.version = version,
                    !.attempts = attempt, !.token = attempt,
                    !.deadline = deadline, !.lease = lease,
                    !.authorized = FALSE, !.claimed = FALSE] \in Rows
    BY StatusValues, ZenonT(60) DEF Rows
  <1>2. [row EXCEPT !.status = "deferred", !.version = 0] \in Rows
    BY StatusValues, ZenonT(60) DEF Rows
  <1>3. [row EXCEPT !.status = "coalesced"] \in Rows
    BY StatusValues, ZenonT(60) DEF Rows
  <1>4. [row EXCEPT !.lease = lease] \in Rows
    BY ZenonT(60) DEF Rows
  <1>5. [row EXCEPT !.authorized = TRUE] \in Rows
    BY ZenonT(60) DEF Rows
  <1>6. [row EXCEPT !.deadline = Null] \in Rows
    BY ZenonT(60) DEF Rows
  <1>7. QED
    BY <1>1, <1>2, <1>3, <1>4, <1>5, <1>6

LEMMA TypeWakeStep ==
    ASSUME TypeOK, NEW w \in wakes, WakeStep(w)
    PROVE  TypeOK'
  <1> USE Typing
  <1>1. w \in Wakes /\ w.key \in Keys /\ job[w.key] \in Rows
    BY WakeEventType DEF TypeOK, Wakes
  <1>2. CASE WakeIgnored(w)
    BY <1>2 DEF WakeIgnored, TypeOK
  <1>3. CASE WakeCancels(w)
    <2> DEFINE closed == Close(job, w.key, "cancelled")
    <2>1. closed \in Tables
      BY <1>1, CloseType, StatusValues
    <2>2. [closed EXCEPT ![w.key].deadline = Null] \in Tables
      <3> HIDE DEF closed
      <3>1. closed[w.key] \in Rows
        BY <1>1, <2>1 DEF Tables
      <3>2. [closed[w.key] EXCEPT !.deadline = Null] \in Rows
        BY <3>1 DEF Rows
      <3>3. QED
        BY <1>1, <2>1, <3>2 DEF Tables
    <2>3. job' \in Tables
      BY <1>3, <2>2, PromoteRows DEF WakeCancels
    <2>4. QED
      BY <1>3, <2>3 DEF WakeCancels, TypeOK, Tables
  <1>4. CASE WakeFailsOverdue(w)
    <2>1. job' \in Tables
      BY <1>1, <1>4, CloseType, StatusValues DEF WakeFailsOverdue
    <2>2. QED
      BY <1>4, <2>1 DEF WakeFailsOverdue, TypeOK, Tables
  <1>5. CASE WakeResumes(w)
    <2> DEFINE lease == Least(job[w.key].deadline, now + HeartbeatLease)
    <2>1. lease \in Nat
      BY <1>1, <1>5, ConstantsAssumption DEF WakeResumes, Least, Rows, Null
    <2>2. [job[w.key] EXCEPT !.lease = lease] \in Rows
      <3> HIDE DEF lease
      <3>1. QED
        BY <1>1, <2>1 DEF Rows
    <2>3. job' \in Tables
      BY <1>1, <1>5, <2>2 DEF WakeResumes, Tables
    <2>4. job[w.key].token \in Nat
      BY <1>1 DEF Rows
    <2>5. Holding(w, job[w.key].token) \in Wakes
      BY <1>1, <2>4, WakeEventType
    <2>6. QED
      BY <1>5, <2>3, <2>5 DEF WakeResumes, TypeOK, Tables
  <1>6. CASE WakeDefers(w)
    <2> DEFINE tbl == IF InStatus(job, {"deferred"}) # {}
                      THEN [job EXCEPT ![w.key].status = "coalesced"]
                      ELSE [job EXCEPT ![w.key] = [@ EXCEPT !.status = "deferred",
                                                            !.version = 0]]
    <2>1. /\ [job[w.key] EXCEPT !.status = "deferred", !.version = 0] \in Rows
          /\ [job[w.key] EXCEPT !.status = "coalesced"] \in Rows
      BY <1>1, StatusValues DEF Rows
    <2>2. tbl \in Tables
      BY <1>1, <2>1 DEF Tables
    <2>3. WithNextSlot(tbl, w.key)
      BY <1>6 DEF WakeDefers
    <2>4. QED
      <3> HIDE DEF tbl
      <3>1. QED
        BY <1>1, <1>6, <2>2, <2>3, TypeNextSlot DEF WakeDefers, TypeOK, Tables
  <1>7. CASE WakeClaims(w)
    <2> DEFINE attempt == job[w.key].attempts + 1
               row == [job[w.key] EXCEPT !.status = "running",
                         !.version = programme.published,
                         !.attempts = attempt, !.token = attempt,
                         !.deadline = now + OverallDeadline,
                         !.lease = now + HeartbeatLease,
                         !.authorized = FALSE, !.claimed = FALSE]
               tbl == [job EXCEPT ![w.key] = row]
    <2>1. /\ attempt \in Nat
          /\ now + OverallDeadline \in Nat
          /\ now + HeartbeatLease \in Nat
      BY <1>1, ConstantsAssumption DEF Rows
    <2>2. row \in Rows
      <3> HIDE DEF attempt
      <3>1. QED
        BY <1>1, <2>1, ClaimRowType
    <2>3. tbl \in Tables
      <3> HIDE DEF row
      <3>1. QED
        BY <1>1, <2>2 DEF Tables
    <2>4. /\ WithNextSlot(tbl, w.key)
          /\ wakes' = (wakes \ {w}) \cup {Holding(w, attempt)}
      BY <1>7 DEF WakeClaims
    <2>5. Holding(w, attempt) \in Wakes
      <3> HIDE DEF attempt
      <3>1. QED
        BY <1>1, <2>1, WakeEventType
    <2>6. QED
      <3> HIDE DEF tbl, attempt
      <3>1. QED
        BY <1>1, <1>7, <2>3, <2>4, <2>5, TypeNextSlot DEF WakeClaims, TypeOK, Tables
  <1>8. CASE AuthorizeTrigger(w)
    <2>1. [job[w.key] EXCEPT !.authorized = TRUE] \in Rows
      BY <1>1 DEF Rows
    <2>2. [w EXCEPT !.phase = "authorized"] \in Wakes
      BY <1>1 DEF Wakes
    <2>3. QED
      BY <1>1, <1>8, <2>1, <2>2 DEF AuthorizeTrigger, TypeOK
  <1>9. CASE TriggerRefused(w)
    <2>1. Requeued(w) \in Wakes
      BY <1>1 DEF Requeued, Wakes
    <2>2. QED
      BY <1>9, <2>1 DEF TriggerRefused, TypeOK
  <1>10. CASE PostTrigger(w)
    <2>1. [key |-> w.key, token |-> w.token] \in [key : Keys, token : Nat]
      BY <1>1 DEF Wakes
    <2>2. QED
      BY <1>10, <2>1 DEF PostTrigger, TypeOK
  <1>11. QED
    BY <1>2, <1>3, <1>4, <1>5, <1>6, <1>7, <1>8, <1>9, <1>10 DEF WakeStep

LEMMA TypeWakeFault == TypeOK /\ WakeFault => TypeOK'
  <1> SUFFICES ASSUME TypeOK, NEW w \in wakes, StepFails(w) \/ WakeNotDue(w) PROVE TypeOK'
    BY DEF WakeFault
  <1>1. w \in Wakes
    BY DEF TypeOK
  <1>2. Requeued(w) \in Wakes
    BY <1>1 DEF Requeued, Wakes
  <1>3. [key |-> w.key, token |-> w.token] \in [key : Keys, token : Nat]
    BY <1>1 DEF Wakes
  <1>4. faults' \in 0 .. MaxFaults
    BY ConstantsAssumption DEF StepFails, WakeNotDue, TypeOK
  <1>5. wakes' \in SUBSET Wakes
    BY <1>2 DEF StepFails, WakeNotDue, TypeOK
  <1>6. posted' \in SUBSET [key : Keys, token : Nat]
    BY <1>3 DEF StepFails, WakeNotDue, TypeOK
  <1>7. QED
    BY <1>4, <1>5, <1>6 DEF StepFails, WakeNotDue, TypeOK

\* The rows the collector and the interpretation worker write.
LEMMA CallbackRowType ==
    ASSUME NEW row \in Rows, NEW lease \in Nat \cup {Null}, NEW open \in BOOLEAN,
           NEW provider \in CompletionStatuses \cup {"none"}
    PROVE  /\ [row EXCEPT !.claimed = TRUE, !.lease = lease, !.open = open] \in Rows
           /\ [row EXCEPT !.claimed = TRUE, !.provider = provider] \in Rows
           /\ [row EXCEPT !.claimed = TRUE] \in Rows
           /\ [row EXCEPT !.lease = lease] \in Rows
           /\ [row EXCEPT !.open = open] \in Rows
  <1>1. [row EXCEPT !.claimed = TRUE, !.lease = lease, !.open = open] \in Rows
    BY ZenonT(60) DEF Rows
  <1>2. [row EXCEPT !.claimed = TRUE, !.provider = provider] \in Rows
    BY ZenonT(60) DEF Rows
  <1>3. [row EXCEPT !.claimed = TRUE] \in Rows
    BY ZenonT(60) DEF Rows
  <1>4. [row EXCEPT !.lease = lease] \in Rows
    BY ZenonT(60) DEF Rows
  <1>5. [row EXCEPT !.open = open] \in Rows
    BY ZenonT(60) DEF Rows
  <1>6. QED
    BY <1>1, <1>2, <1>3, <1>4, <1>5

LEMMA HeartbeatType ==
    ASSUME TypeOK, NEW k \in Keys
    PROVE  Heartbeat(k) \in Nat \cup {Null}
  <1>1. job[k] \in Rows /\ now \in Nat
    BY Typing
  <1>2. now + HeartbeatLease \in Nat
    BY <1>1, ConstantsAssumption
  <1>3. QED
    BY <1>1, <1>2 DEF Heartbeat, Least, Rows

\* Ending a run of a typed table gives a typed table.
LEMMA EndType ==
    ASSUME TypeOK, NEW tbl \in Tables, NEW k \in Keys, NEW st \in Statuses
    PROVE  PromoteDeferred(Close(tbl, k, st)) \in Tables
  BY CloseType, PromoteRows, Typing

LEMMA TypeCollector == TypeOK /\ Collector => TypeOK'
  <1> SUFFICES ASSUME TypeOK, NEW c \in posted,
                      \/ \E open \in BOOLEAN : CallbackProgress(c, open)
                      \/ \E st \in CompletionStatuses, more \in BOOLEAN :
                            CallbackCompletion(c, st, more)
                      \/ CallbackCancelled(c)
               PROVE  TypeOK'
    BY DEF Collector
  <1> USE Typing
  <1>1. c.key \in Keys /\ job[c.key] \in Rows
    BY DEF TypeOK
  <1>2. ASSUME NEW open \in BOOLEAN, CallbackProgress(c, open) PROVE TypeOK'
    <2> DEFINE row == [job[c.key] EXCEPT !.claimed = TRUE, !.lease = Heartbeat(c.key),
                                         !.open = job[c.key].open \/ open]
    <2>1. job[c.key].open \/ open \in BOOLEAN
      BY <1>1 DEF Rows
    <2>2. row \in Rows
      BY <1>1, <2>1, HeartbeatType, CallbackRowType
    <2>3. job' = [job EXCEPT ![c.key] = row]
      BY <1>2 DEF CallbackProgress
    <2>4. job' \in Tables
      <3> HIDE DEF row
      <3>1. QED
        BY <1>1, <2>2, <2>3 DEF Tables
    <2>5. QED
      BY <1>2, <2>4 DEF CallbackProgress, TypeOK, Tables
  <1>3. ASSUME NEW st \in CompletionStatuses, NEW more \in BOOLEAN,
               CallbackCompletion(c, st, more)
        PROVE  TypeOK'
    <2> DEFINE provider == IF more THEN job[c.key].provider ELSE st
               row == [job[c.key] EXCEPT !.claimed = TRUE, !.provider = provider]
               done == [job EXCEPT ![c.key] = row]
    <2>1. provider \in CompletionStatuses \cup {"none"}
      BY <1>1 DEF Rows
    <2>2. row \in Rows
      <3> HIDE DEF provider
      <3>1. QED
        BY <1>1, <2>1, CallbackRowType
    <2>3. done \in Tables
      <3> HIDE DEF row
      <3>1. QED
        BY <1>1, <2>2 DEF Tables
    <2>4. job' = IF more \/ job[c.key].open
                 THEN [done EXCEPT ![c.key].lease = Heartbeat(c.key)]
                 ELSE PromoteDeferred(Close(done, c.key, st))
      BY <1>3 DEF CallbackCompletion
    <2> HIDE DEF done
    <2>5. [done EXCEPT ![c.key].lease = Heartbeat(c.key)] \in Tables
      <3>1. done[c.key] \in Rows
        BY <1>1, <2>3 DEF Tables
      <3>2. [done[c.key] EXCEPT !.lease = Heartbeat(c.key)] \in Rows
        BY <1>1, <3>1, HeartbeatType DEF Rows
      <3>3. QED
        BY <1>1, <2>3, <3>2 DEF Tables
    <2>6. job' \in Tables
      BY <1>1, <2>3, <2>4, <2>5, EndType, StatusValues
    <2>7. QED
      BY <1>3, <2>6 DEF CallbackCompletion, TypeOK, Tables
  <1>4. CASE CallbackCancelled(c)
    <2>1. [job EXCEPT ![c.key].claimed = TRUE] \in Tables
      <3>1. [job[c.key] EXCEPT !.claimed = TRUE] \in Rows
        BY <1>1 DEF Rows
      <3>2. QED
        BY <1>1, <3>1 DEF Tables
    <2>2. job' \in Tables
      BY <1>1, <1>4, <2>1, EndType, StatusValues DEF CallbackCancelled
    <2>3. QED
      BY <1>4, <2>2 DEF CallbackCancelled, TypeOK, Tables
  <1>5. QED
    BY <1>2, <1>3, <1>4

LEMMA TypeInterpretation == TypeOK /\ Interpretation => TypeOK'
  <1> SUFFICES ASSUME TypeOK, NEW k \in Keys, NEW open \in BOOLEAN, NEW receipt \in BOOLEAN,
                      InterpretationSettles(k, open, receipt)
               PROVE  TypeOK'
    BY DEF Interpretation
  <1> DEFINE settled == [job EXCEPT ![k].open = open]
  <1> USE Typing
  <1>1. settled \in Tables
    <2>1. [job[k] EXCEPT !.open = open] \in Rows
      BY DEF Rows
    <2>2. QED
      BY <2>1 DEF Tables
  <1>2. job' = IF open THEN settled
               ELSE IF job[k].status = "cancel_requested"
                    THEN PromoteDeferred(Close(settled, k, "cancelled"))
                    ELSE IF receipt /\ job[k].provider # "none"
                         THEN PromoteDeferred(Close(settled, k, job[k].provider))
                         ELSE settled
    BY DEF InterpretationSettles
  <1>3. job[k].provider # "none" => job[k].provider \in Statuses
    BY StatusValues DEF Rows
  <1>4. job' \in Tables
    <2> HIDE DEF settled
    <2>1. QED
      BY <1>1, <1>2, <1>3, EndType, StatusValues
  <1>5. QED
    BY <1>4 DEF InterpretationSettles, TypeOK, Tables

LEMMA TypeReconcile == TypeOK /\ Reconcile => TypeOK'
  <1> SUFFICES ASSUME TypeOK, Reconcile PROVE TypeOK'
    OBVIOUS
  <1> DEFINE repaired == [k \in Keys |->
                IF LeaseLapsed(k) \/ Unclaimed(k)
                THEN [job[k] EXCEPT !.dispatch = "repair_needed", !.dispatchLease = Null,
                                    !.dispatchToken = 0]
                ELSE IF Overdue(k)
                     THEN [job[k] EXCEPT !.status = "failed", !.token = 0, !.lease = Null]
                     ELSE job[k]]
  <1> USE Typing
  <1>1. \A k \in Keys :
          /\ [job[k] EXCEPT !.dispatch = "repair_needed", !.dispatchLease = Null,
                            !.dispatchToken = 0] \in Rows
          /\ [job[k] EXCEPT !.status = "failed", !.token = 0, !.lease = Null] \in Rows
    <2>1. ASSUME NEW row \in Rows
          PROVE  [row EXCEPT !.dispatch = "repair_needed", !.dispatchLease = Null,
                             !.dispatchToken = 0] \in Rows
      BY <2>1, ZenonT(60) DEF Rows
    <2>2. ASSUME NEW row \in Rows
          PROVE  [row EXCEPT !.status = "failed", !.token = 0, !.lease = Null] \in Rows
      BY <2>2, StatusValues, ZenonT(60) DEF Rows
    <2>3. \A k \in Keys : job[k] \in Rows
      BY DEF TypeOK, Tables
    <2>4. QED
      BY <2>1, <2>2, <2>3
  <1>2. repaired \in Tables
    BY <1>1, ZenonT(60) DEF Tables
  <1>3. job' = repaired \/ job' = PromoteDeferred(repaired)
    BY DEF Reconcile
  <1>4. job' \in Tables
    <2> HIDE DEF repaired
    <2>1. QED
      BY <1>2, <1>3, PromoteRows
  <1>5. QED
    BY <1>4 DEF Reconcile, TypeOK, Tables

LEMMA TypeTick == TypeOK /\ Tick => TypeOK'
  BY ConstantsAssumption DEF Tick, TypeOK

LEMMA TypeStep == TypeOK /\ [Next]_vars => TypeOK'
  <1> SUFFICES ASSUME TypeOK, [Next]_vars PROVE TypeOK'
    OBVIOUS
  <1>1. CASE Wake
    BY <1>1, TypeWakeStep DEF Wake
  <1>2. CASE UNCHANGED vars
    BY <1>2 DEF vars, TypeOK
  <1>3. QED
    BY <1>1, <1>2, TypeOperator, TypeDispatch, TypeDispatchFault, TypeWakeFault,
       TypeCollector, TypeInterpretation, TypeReconcile, TypeTick DEF Next

\* Every variable of the coordinator keeps its type, whatever the bounds, the
\* schedule and the timeouts are.
THEOREM TypeCorrect == Spec => []TypeOK
  BY TypeInit, TypeStep, PTL DEF Spec
===============================================================================
